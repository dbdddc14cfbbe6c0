------------------------------ MODULE SignInProofs ------------------------------
(***************************************************************************)
(* Theorems about SignIn, for any people, requests and bounds: a session   *)
(* is held by who set the account's password, and a device code gives one  *)
(* key.                                                                    *)
(***************************************************************************)
EXTENDS SignIn, FiniteSetTheorems, TLAPS

Pcs == {"idle", "claim", "create", "session", "verify", "key", "link", "decide", "wait", "collect",
        "deviceKey"}
Holders == People \cup Unclaimed
Jobs == [pc : Pcs, who : People \cup {"nobody"}, email : Emails \cup {"none"}, from : Nat, dev : Nat]
Credentials == [kind : {"session", "api_key"}, email : Emails, who : People, dev : Nat, active : BOOLEAN]
Machines == {"waits", "asked", "refused", "stopped"}
Devices == [status : {"pending", "approved", "denied", "consumed"}, from : Nat, live : BOOLEAN, linked : BOOLEAN,
            machine : Machines]

\* The state keeps its type.
SignInType ==
    /\ account \in [Emails -> Holders]
    /\ cred \in Seq(Credentials) /\ device \in Seq(Devices)
    /\ request \in [Requesters -> Jobs]

Used(d) == d \in DOMAIN device /\ device[d].status = "consumed"

\* A request works for a person on an account, and once it may issue or
\* decide something the account is that person's.
Named(r) == r.pc \notin {"idle", "wait", "collect"} => r.who \in People /\ r.email \in Emails
Theirs(r) == r.pc \in {"session", "key", "decide", "deviceKey", "link"} => account[r.email] = r.who
\* What it decides or collects is a code that was handed out, and only the
\* key of a device's code names the code.
OfADevice(r) ==
    /\ r.pc \in {"claim", "create", "verify", "session", "key"} => r.dev = 0
    /\ r.pc \in {"decide", "wait", "collect", "deviceKey", "link"} => r.dev \in DOMAIN device
    /\ r.pc = "decide" => r.from \in DOMAIN cred
    /\ r.pc = "deviceKey" => Used(r.dev)
Fit(r) == Named(r) /\ Theirs(r) /\ OfADevice(r)
Fits == \A w \in Requesters : Fit(request[w])

\* A credential is its holder's, and the code it names has been consumed; an
\* approval names the credential it was given with.
OfHolder == \A c \in DOMAIN cred :
    /\ account[cred[c].email] = cred[c].who
    /\ cred[c].dev # 0 => Used(cred[c].dev)
ApprovedFrom == \A d \in DOMAIN device : device[d].status = "approved" => device[d].from \in DOMAIN cred

\* No two requests are giving a key for one code, no two keys were given for
\* one, and none is being given where one was.
Giving(w) == request[w].pc = "deviceKey"
Once ==
    /\ \A v, w \in Requesters : Giving(v) /\ Giving(w) /\ request[v].dev = request[w].dev => v = w
    /\ \A b, c \in DOMAIN cred : cred[b].dev # 0 /\ cred[b].dev = cred[c].dev => b = c
    /\ \A w \in Requesters, c \in DOMAIN cred : Giving(w) => cred[c].dev # request[w].dev

SignInInv == SignInType /\ Fits /\ OfHolder /\ ApprovedFrom /\ Once

LEMMA SignInInitial == SignInInit => SignInInv
<1>. SUFFICES ASSUME SignInInit PROVE SignInInv
  OBVIOUS
<1>1. NoRequest \in Jobs /\ \A w \in Requesters : request[w] = NoRequest
  BY DEF SignInInit, NoRequest, Jobs, Pcs
<1>2. SignInType
  BY <1>1 DEF SignInInit, SignInType, Holders
<1>3. Fits
  BY <1>1 DEF Fits, Fit, Named, Theirs, OfADevice, NoRequest
<1>4. OfHolder /\ ApprovedFrom /\ Once
  BY <1>1 DEF SignInInit, OfHolder, ApprovedFrom, Once, Giving, NoRequest
<1>. QED BY <1>2, <1>3, <1>4 DEF SignInInv

(***************************************************************************)
(* The kinds of steps                                                      *)
(***************************************************************************)
\* An account has a holder for good.
HoldersKept == \A e \in Emails : account[e] \in People => account'[e] = account[e]

\* A request moves on; accounts without a holder may get one.
LEMMA RequestMoves ==
    ASSUME SignInInv, NEW w \in Requesters, NEW r \in Jobs,
           request' = [request EXCEPT ![w] = r], UNCHANGED <<cred, device>>,
           account' \in [Emails -> Holders], HoldersKept,
           r.pc # "deviceKey", Fit(r)'
    PROVE  SignInInv'
<1>1. request'[w] = r /\ \A v \in Requesters : v # w => request'[v] = request[v]
  BY DEF SignInInv, SignInType
<1>2. SignInType'
  BY DEF SignInInv, SignInType
<1>3. ASSUME NEW v \in Requesters, v # w PROVE Fit(request[v])'
  <2>1. Fit(request[v]) /\ request'[v] = request[v]
    BY <1>1, <1>3 DEF SignInInv, Fits
  <2>2. OfADevice(request[v])'
    BY <2>1 DEF Fit, OfADevice, Used
  <2>3. Theirs(request[v])' /\ Named(request[v])'
    BY <2>1 DEF Fit, Theirs, Named, HoldersKept
  <2>. QED BY <2>2, <2>3 DEF Fit
<1>4. Fits'
  BY <1>1, <1>3 DEF Fits
<1>5. OfHolder'
  <2>1. \A c \in DOMAIN cred : cred[c] \in Credentials
    BY DEF SignInInv, SignInType
  <2>2. \A c \in DOMAIN cred : cred[c].email \in Emails /\ cred[c].who \in People
    BY <2>1 DEF Credentials
  <2>. QED BY <2>2 DEF SignInInv, OfHolder, HoldersKept, Used
<1>6. ApprovedFrom'
  BY DEF SignInInv, ApprovedFrom
<1>7. Once'
  BY <1>1 DEF SignInInv, Once, Giving
<1>. QED BY <1>2, <1>4, <1>5, <1>6, <1>7 DEF SignInInv

\* A credential is issued.
LEMMA CredentialIssued ==
    ASSUME SignInInv, NEW w \in Requesters, NEW r \in Jobs, NEW c0 \in Credentials,
           request' = [request EXCEPT ![w] = r], cred' = Append(cred, c0),
           UNCHANGED <<account, device>>,
           account[c0.email] = c0.who,
           c0.dev = 0 \/ (Giving(w) /\ c0.dev = request[w].dev),
           r.pc \in {"idle", "link"}, Fit(r)'
    PROVE  SignInInv'
<1>1. request'[w] = r /\ \A v \in Requesters : v # w => request'[v] = request[v]
  BY DEF SignInInv, SignInType
<1>2. /\ cred' \in Seq(Credentials)
      /\ DOMAIN cred' = 1..(Len(cred) + 1) /\ DOMAIN cred = 1..Len(cred) /\ Len(cred) \in Nat
      /\ cred'[Len(cred) + 1] = c0 /\ \A c \in DOMAIN cred : cred'[c] = cred[c]
  BY DEF SignInInv, SignInType
<1>3. SignInType'
  BY <1>2 DEF SignInInv, SignInType
<1>4. ASSUME NEW v \in Requesters, v # w PROVE Fit(request[v])'
  <2>1. Fit(request[v]) /\ request'[v] = request[v]
    BY <1>1, <1>4 DEF SignInInv, Fits
  <2>. QED BY <1>2, <2>1 DEF Fit, OfADevice, Used, Theirs, Named
<1>5. Fits'
  BY <1>1, <1>4 DEF Fits
<1>6. c0.dev # 0 => Used(c0.dev)
  BY DEF SignInInv, Fits, Fit, OfADevice, Giving
<1>7. OfHolder'
  BY <1>2, <1>6 DEF SignInInv, OfHolder, Used
<1>8. ApprovedFrom'
  BY <1>2 DEF SignInInv, ApprovedFrom
<1>9. \A v \in Requesters : Giving(v)' => v # w /\ Giving(v) /\ request'[v].dev = request[v].dev
  BY <1>1 DEF Giving
<1>10. Once'
  <2>1. \A u, v \in Requesters : Giving(u)' /\ Giving(v)' /\ request'[u].dev = request'[v].dev => u = v
    BY <1>9 DEF SignInInv, Once
  <2>2. \A c \in DOMAIN cred : c0.dev # 0 => cred[c].dev # c0.dev
    BY DEF SignInInv, Once
  <2>3. \A b, c \in DOMAIN cred' : cred'[b].dev # 0 /\ cred'[b].dev = cred'[c].dev => b = c
    BY <1>2, <2>2 DEF SignInInv, Once
  <2>4. \A v \in Requesters, c \in DOMAIN cred : Giving(v)' => cred[c].dev # request'[v].dev
    BY <1>9 DEF SignInInv, Once
  <2>5. \A v \in Requesters : Giving(v)' => c0.dev # request'[v].dev
    <3>1. \A v \in Requesters : Giving(v) => request[v].dev \in DOMAIN device /\ request[v].dev # 0
      BY DEF SignInInv, SignInType, Fits, Fit, OfADevice, Giving
    <3>. QED BY <1>9, <3>1 DEF SignInInv, Once
  <2>6. \A v \in Requesters, c \in DOMAIN cred' : Giving(v)' => cred'[c].dev # request'[v].dev
    BY <1>2, <2>4, <2>5
  <2>. QED BY <2>1, <2>3, <2>6 DEF Once
<1>. QED BY <1>3, <1>5, <1>7, <1>8, <1>10 DEF SignInInv

\* What may happen to the codes: more of them, and consumed for good.
DevicesKept ==
    /\ device' \in Seq(Devices)
    /\ DOMAIN device \subseteq DOMAIN device'
    /\ \A d \in DOMAIN device : Used(d) => device'[d].status = "consumed"
    /\ \A d \in DOMAIN device' : device'[d].status = "approved" => device'[d].from \in DOMAIN cred

LEMMA MachineMoves ==
    ASSUME SignInInv, NEW d \in DOMAIN device, NEW m \in Machines,
           device' = [device EXCEPT ![d].machine = m], UNCHANGED cred
    PROVE  DevicesKept
<1>1. device[d] \in Devices
  BY DEF SignInInv, SignInType
<1>2. device' = [device EXCEPT ![d] = [device[d] EXCEPT !.machine = m]]
  OBVIOUS
<1>3. [device[d] EXCEPT !.machine = m] \in Devices
  BY <1>1 DEF Devices
<1>. QED BY <1>1, <1>2, <1>3 DEF DevicesKept, SignInInv, SignInType, ApprovedFrom, Used, Devices

LEMMA UsedKept == ASSUME DevicesKept, NEW d, Used(d) PROVE Used(d)'
BY DEF DevicesKept, Used

\* A code is decided, collected or linked by a request: a code that is
\* collected was not consumed before.
LEMMA DeviceChanges ==
    ASSUME SignInInv, NEW w \in Requesters, NEW r \in Jobs,
           request' = [request EXCEPT ![w] = r], DevicesKept, UNCHANGED <<account, cred>>,
           r.pc = "deviceKey" => ~Used(r.dev), Fit(r)'
    PROVE  SignInInv'
<1>1. request'[w] = r /\ \A v \in Requesters : v # w => request'[v] = request[v]
  BY DEF SignInInv, SignInType
<1>2. SignInType'
  BY DEF SignInInv, SignInType, DevicesKept
<1>3. ASSUME NEW v \in Requesters, v # w PROVE Fit(request[v])'
  <2>1. Fit(request[v]) /\ request'[v] = request[v]
    BY <1>1, <1>3 DEF SignInInv, Fits
  <2>2. Named(request[v])' /\ Theirs(request[v])'
    BY <2>1 DEF Fit, Named, Theirs
  <2>3. request[v].pc = "deviceKey" => Used(request[v].dev)'
    BY <2>1, UsedKept DEF Fit, OfADevice
  <2>4. OfADevice(request[v])'
    BY <2>1, <2>3 DEF Fit, OfADevice, DevicesKept
  <2>. QED BY <2>2, <2>4 DEF Fit
<1>4. Fits'
  BY <1>1, <1>3 DEF Fits
<1>5. OfHolder'
  BY UsedKept DEF SignInInv, OfHolder
<1>6. ApprovedFrom'
  BY DEF DevicesKept, ApprovedFrom
<1>7. \A v \in Requesters : Giving(v) => Used(request[v].dev)
  BY DEF SignInInv, Fits, Fit, OfADevice, Giving
<1>8. \A c \in DOMAIN cred : cred[c].dev = 0 \/ Used(cred[c].dev)
  BY DEF SignInInv, OfHolder
<1>9. r.pc = "deviceKey" => r.dev # 0
  BY DEF Fit, OfADevice, Used, DevicesKept
<1>10. Once'
  BY <1>1, <1>7, <1>8, <1>9 DEF SignInInv, Once, Giving
<1>. QED BY <1>2, <1>4, <1>5, <1>6, <1>10 DEF SignInInv

\* Nobody's request: a code is handed out or expires, a credential is revoked.
LEMMA NoRequestMoves ==
    ASSUME SignInInv, UNCHANGED <<account, request>>, DevicesKept,
           cred' \in Seq(Credentials), DOMAIN cred' = DOMAIN cred,
           \A c \in DOMAIN cred : /\ cred'[c].email = cred[c].email
                                  /\ cred'[c].who = cred[c].who /\ cred'[c].dev = cred[c].dev
    PROVE  SignInInv'
<1>1. SignInType'
  BY DEF SignInInv, SignInType, DevicesKept
<1>2. ASSUME NEW v \in Requesters PROVE Fit(request[v])'
  <2>1. Fit(request[v])
    BY DEF SignInInv, Fits
  <2>2. request[v].pc = "deviceKey" => Used(request[v].dev)'
    BY <2>1, UsedKept DEF Fit, OfADevice
  <2>. QED BY <2>1, <2>2 DEF Fit, Named, Theirs, OfADevice, DevicesKept
<1>3. Fits' /\ ApprovedFrom'
  BY <1>2 DEF Fits, DevicesKept, ApprovedFrom
<1>4. OfHolder'
  BY UsedKept DEF SignInInv, OfHolder
<1>5. Once'
  BY DEF SignInInv, Once, Giving
<1>. QED BY <1>1, <1>3, <1>4, <1>5 DEF SignInInv

(***************************************************************************)
(* The actions                                                             *)
(***************************************************************************)
LEMMA IdleFits == NoRequest \in Jobs /\ Fit(NoRequest) /\ Fit(NoRequest)' /\ NoRequest.pc = "idle"
BY DEF NoRequest, Jobs, Pcs, Fit, Named, Theirs, OfADevice

LEMMA CredentialFacts == ASSUME SignInInv, NEW c \in DOMAIN cred
    PROVE  c \in Nat /\ cred[c].who \in People /\ cred[c].email \in Emails /\ account[cred[c].email] = cred[c].who
<1>1. cred[c] \in Credentials /\ c \in Nat
  BY DEF SignInInv, SignInType
<1>. QED BY <1>1 DEF Credentials, SignInInv, OfHolder

LEMMA RequestFacts == ASSUME SignInInv, NEW w \in Requesters PROVE request[w] \in Jobs /\ Fit(request[w])
BY DEF SignInInv, SignInType, Fits

LEMMA HoldersStay == ASSUME SignInInv, UNCHANGED account PROVE account' \in [Emails -> Holders] /\ HoldersKept
BY DEF SignInInv, SignInType, HoldersKept

LEMMA DevicesStay == ASSUME SignInInv, UNCHANGED <<cred, device>> PROVE DevicesKept
BY DEF SignInInv, SignInType, ApprovedFrom, DevicesKept, Used

\* An account nobody holds gets its holder, or the request is refused.
LEMMA PasswordSet ==
    ASSUME SignInInv, NEW w \in Requesters, NEW from \in SUBSET Unclaimed,
           request[w].pc \in {"claim", "create"}, SetPasswordOf(w, from)
    PROVE  SignInInv'
<1>. DEFINE e == request[w].email
<1>1. request[w] \in Jobs /\ Fit(request[w])
  BY RequestFacts
<1>2. e \in Emails /\ request[w].who \in People /\ request[w].dev = 0
  BY <1>1 DEF Fit, Named, OfADevice
<1>3. CASE account[e] \in from
  <2>1. account' = [account EXCEPT ![e] = request[w].who] /\ request' = [request EXCEPT ![w].pc = "session"]
    BY <1>3 DEF SetPasswordOf, Turn
  <2>2. account[e] \notin People
    BY <1>3, SignInAssumption DEF Unclaimed
  <2>3. account' \in [Emails -> Holders] /\ HoldersKept
    BY <1>2, <2>1, <2>2 DEF SignInInv, SignInType, Holders, HoldersKept
  <2>4. account'[e] = request[w].who
    BY <1>2, <2>1 DEF SignInInv, SignInType
  <2>5. PICK r \in Jobs : r = [request[w] EXCEPT !.pc = "session"]
    BY <1>1 DEF Jobs, Pcs
  <2>6. r.pc = "session" /\ r.who = request[w].who /\ r.email = e /\ r.dev = 0
    BY <1>1, <1>2, <2>5 DEF Jobs
  <2>7. Fit(r)'
    BY <1>2, <2>4, <2>6 DEF Fit, Named, Theirs, OfADevice
  <2>8. UNCHANGED <<cred, device>>
    BY DEF SetPasswordOf
  <2>9. request' = [request EXCEPT ![w] = r]
    BY <2>1, <2>5
  <2>. QED BY <2>3, <2>6, <2>7, <2>8, <2>9, RequestMoves
<1>4. CASE account[e] \notin from
  <2>1. request' = [request EXCEPT ![w] = NoRequest] /\ UNCHANGED <<account, cred, device>>
    BY <1>4 DEF SetPasswordOf, Answer
  <2>. QED BY <2>1, IdleFits, HoldersStay, RequestMoves
<1>. QED BY <1>3, <1>4

\* Registering and signing in.
LEMMA AccountStep ==
    ASSUME SignInInv, NEW w \in Requesters,
           Register(w) \/ Login(w) \/ Verify(w) \/ ClaimUser(w) \/ CreateUser(w)
    PROVE  SignInInv'
<1>0. request[w] \in Jobs /\ Fit(request[w])
  BY RequestFacts
<1>1. CASE Register(w)
  <2>1. PICK p \in People, e \in Emails, pc \in {"claim", "create"} :
           request' = [request EXCEPT ![w] = [NoRequest EXCEPT !.pc = pc, !.who = p, !.email = e]]
    BY <1>1 DEF Register, Ask
  <2>. DEFINE r == [NoRequest EXCEPT !.pc = pc, !.who = p, !.email = e]
  <2>2. r \in Jobs /\ Fit(r)' /\ r.pc # "deviceKey"
    BY DEF NoRequest, Jobs, Pcs, Fit, Named, Theirs, OfADevice
  <2>3. UNCHANGED <<account, cred, device>>
    BY <1>1 DEF Register
  <2>. HIDE DEF r
  <2>. QED BY <2>1, <2>2, <2>3, HoldersStay, RequestMoves DEF r
<1>2. CASE Login(w)
  <2>1. PICK p \in People, e \in Emails :
           request' = [request EXCEPT ![w] = [NoRequest EXCEPT !.pc = "verify", !.who = p, !.email = e]]
    BY <1>2 DEF Login, Ask
  <2>. DEFINE r == [NoRequest EXCEPT !.pc = "verify", !.who = p, !.email = e]
  <2>2. r \in Jobs /\ Fit(r)' /\ r.pc # "deviceKey"
    BY DEF NoRequest, Jobs, Pcs, Fit, Named, Theirs, OfADevice
  <2>3. UNCHANGED <<account, cred, device>>
    BY <1>2 DEF Login
  <2>. HIDE DEF r
  <2>. QED BY <2>1, <2>2, <2>3, HoldersStay, RequestMoves DEF r
<1>3. CASE Verify(w)
  <2>. DEFINE e == request[w].email
  <2>1. UNCHANGED <<account, cred, device>>
    BY <1>3 DEF Verify
  <2>2. CASE account[e] = request[w].who
    <3>1. request' = [request EXCEPT ![w].pc = "session"]
      BY <1>3, <2>2 DEF Verify, Turn
    <3>2. PICK r \in Jobs : r = [request[w] EXCEPT !.pc = "session"]
      BY <1>0 DEF Jobs, Pcs
    <3>3. request[w].pc = "verify"
      BY <1>3 DEF Verify, At
    <3>4. r.pc = "session" /\ r.who = request[w].who /\ r.email = e /\ r.dev = request[w].dev
      BY <1>0, <3>2 DEF Jobs
    <3>5. Fit(r)'
      BY <1>0, <2>1, <2>2, <3>3, <3>4 DEF Fit, Named, Theirs, OfADevice
    <3>6. request' = [request EXCEPT ![w] = r]
      BY <3>1, <3>2
    <3>. QED BY <2>1, <3>4, <3>5, <3>6, HoldersStay, RequestMoves
  <2>3. CASE account[e] # request[w].who
    <3>1. request' = [request EXCEPT ![w] = NoRequest]
      BY <1>3, <2>3 DEF Verify, Answer
    <3>. QED BY <2>1, <3>1, IdleFits, HoldersStay, RequestMoves
  <2>. QED BY <2>2, <2>3
<1>4. CASE ClaimUser(w)
  BY <1>4, PasswordSet DEF ClaimUser, At, Unclaimed
<1>5. CASE CreateUser(w)
  BY <1>5, PasswordSet DEF CreateUser, At, Unclaimed
<1>. QED BY <1>1, <1>2, <1>3, <1>4, <1>5

\* A session or a key is issued to the person the request is for.
LEMMA IssueStep ==
    ASSUME SignInInv, NEW w \in Requesters, NEW kind \in {"session", "api_key"}, NEW r \in Jobs,
           request[w].pc \in {"session", "key", "deviceKey"}, Issued(w, kind),
           request' = [request EXCEPT ![w] = r], UNCHANGED <<account, device>>,
           r.pc \in {"idle", "link"}, Fit(r)'
    PROVE  SignInInv'
<1>. DEFINE c0 == [kind |-> kind, email |-> request[w].email, who |-> request[w].who,
                   dev |-> request[w].dev, active |-> TRUE]
<1>1. request[w] \in Jobs /\ Fit(request[w])
  BY RequestFacts
<1>2. request[w].who \in People /\ request[w].email \in Emails /\ account[request[w].email] = request[w].who
  BY <1>1 DEF Fit, Named, Theirs
<1>3. request[w].dev \in Nat /\ (request[w].dev = 0 \/ Giving(w))
  BY <1>1 DEF Jobs, Fit, OfADevice, Giving
<1>4. c0 \in Credentials /\ account[c0.email] = c0.who /\ c0.dev = request[w].dev
  BY <1>2, <1>3 DEF Credentials
<1>5. cred' = Append(cred, c0)
  BY DEF Issued
<1>. HIDE DEF c0
<1>. QED BY <1>3, <1>4, <1>5, CredentialIssued

\* Signed in or given a key, and what a person signed in asks for.
LEMMA CredentialStep ==
    ASSUME SignInInv, NEW w \in Requesters,
           IssueSession(w) \/ IssueKey(w) \/ IssueDeviceKey(w) \/ CreateAPIKey(w) \/ LookUpDevice(w)
    PROVE  SignInInv'
<1>0. request[w] \in Jobs /\ Fit(request[w])
  BY RequestFacts
<1>1. CASE IssueSession(w)
  BY <1>1, IssueStep, IdleFits DEF IssueSession, At, Answer
<1>2. CASE IssueKey(w)
  BY <1>2, IssueStep, IdleFits DEF IssueKey, At, Answer
<1>3. CASE IssueDeviceKey(w)
  <2>1. request[w].pc = "deviceKey" /\ Issued(w, "api_key") /\ UNCHANGED <<account, device>>
    BY <1>3 DEF IssueDeviceKey, At
  <2>2. request' = [request EXCEPT ![w].pc = "link"]
    BY <1>3 DEF IssueDeviceKey, Turn
  <2>3. PICK r \in Jobs : r = [request[w] EXCEPT !.pc = "link"]
    BY <1>0 DEF Jobs, Pcs
  <2>4. r.pc = "link" /\ r.who = request[w].who /\ r.email = request[w].email /\ r.dev = request[w].dev
    BY <1>0, <2>3 DEF Jobs
  <2>5. Fit(r)'
    BY <1>0, <2>1, <2>4 DEF Fit, Named, Theirs, OfADevice
  <2>6. request' = [request EXCEPT ![w] = r]
    BY <2>2, <2>3
  <2>. QED BY <2>1, <2>4, <2>5, <2>6, IssueStep
<1>4. CASE CreateAPIKey(w)
  <2>1. PICK s \in DOMAIN cred :
           request' = [request EXCEPT ![w] = [NoRequest EXCEPT !.pc = "key", !.who = cred[s].who,
                                                !.email = cred[s].email, !.from = s]]
    BY <1>4 DEF CreateAPIKey, Ask, Sessions, Authenticated
  <2>2. UNCHANGED <<account, cred, device>>
    BY <1>4 DEF CreateAPIKey
  <2>3. s \in Nat /\ cred[s].who \in People /\ cred[s].email \in Emails /\ account[cred[s].email] = cred[s].who
    BY CredentialFacts
  <2>4. PICK r \in Jobs :
           r = [NoRequest EXCEPT !.pc = "key", !.who = cred[s].who, !.email = cred[s].email, !.from = s]
    BY <2>3 DEF NoRequest, Jobs, Pcs
  <2>5. r.pc = "key" /\ r.who = cred[s].who /\ r.email = cred[s].email /\ r.dev = 0
    BY <2>4 DEF NoRequest
  <2>6. Fit(r)'
    BY <2>2, <2>3, <2>5 DEF Fit, Named, Theirs, OfADevice
  <2>7. request' = [request EXCEPT ![w] = r]
    BY <2>1, <2>4
  <2>. QED BY <2>2, <2>5, <2>6, <2>7, HoldersStay, RequestMoves
<1>5. CASE LookUpDevice(w)
  <2>1. PICK s \in DOMAIN cred, d \in DOMAIN device :
           request' = [request EXCEPT ![w] = [NoRequest EXCEPT !.pc = "decide", !.who = cred[s].who,
                                                !.email = cred[s].email, !.from = s, !.dev = d]]
    BY <1>5 DEF LookUpDevice, Ask, Sessions, Authenticated, Undecided
  <2>2. UNCHANGED <<account, cred, device>>
    BY <1>5 DEF LookUpDevice
  <2>3. s \in Nat /\ cred[s].who \in People /\ cred[s].email \in Emails /\ account[cred[s].email] = cred[s].who
    BY CredentialFacts
  <2>4. d \in Nat
    BY DEF SignInInv, SignInType
  <2>5. PICK r \in Jobs :
           r = [NoRequest EXCEPT !.pc = "decide", !.who = cred[s].who, !.email = cred[s].email,
                                 !.from = s, !.dev = d]
    BY <2>3, <2>4 DEF NoRequest, Jobs, Pcs
  <2>6. r.pc = "decide" /\ r.who = cred[s].who /\ r.email = cred[s].email /\ r.from = s /\ r.dev = d
    BY <2>5 DEF NoRequest
  <2>7. Fit(r)'
    BY <2>2, <2>3, <2>6 DEF Fit, Named, Theirs, OfADevice
  <2>8. request' = [request EXCEPT ![w] = r]
    BY <2>1, <2>5
  <2>. QED BY <2>2, <2>6, <2>7, <2>8, HoldersStay, RequestMoves
<1>. QED BY <1>1, <1>2, <1>3, <1>4, <1>5

\* The device flow.
LEMMA DeviceStep ==
    ASSUME SignInInv, NEW w \in Requesters,
           \/ PollDevice(w) \/ PollAgain(w) \/ AuthorizationPending(w) \/ RequestBreaks(w)
           \/ DecideDevice(w) \/ ClaimApprovedDevice(w) \/ SetDeviceCredential(w)
    PROVE  SignInInv'
<1>0. request[w] \in Jobs /\ Fit(request[w])
  BY RequestFacts
<1>. PICK d : d = request[w].dev
  OBVIOUS
<1>1. ASSUME NEW x \in DOMAIN device, NEW pc \in {"wait", "collect"},
             request' = [request EXCEPT ![w] = [NoRequest EXCEPT !.pc = pc, !.dev = x]],
             DevicesKept, UNCHANGED <<account, cred>>
      PROVE  SignInInv'
  <2>. DEFINE r == [NoRequest EXCEPT !.pc = pc, !.dev = x]
  <2>1. x \in Nat /\ x \in DOMAIN device'
    BY <1>1 DEF SignInInv, SignInType, DevicesKept
  <2>2. r \in Jobs /\ r.pc = pc /\ r.dev = x
    BY <2>1 DEF NoRequest, Jobs, Pcs
  <2>3. Fit(r)'
    BY <2>1, <2>2 DEF Fit, Named, Theirs, OfADevice
  <2>4. request' = [request EXCEPT ![w] = r]
    BY <1>1
  <2>. HIDE DEF r
  <2>. QED BY <1>1, <2>2, <2>3, <2>4, DeviceChanges
<1>5. CASE PollDevice(w)
  <2>1. PICK x \in DOMAIN device :
           \/ x \in ToCollect /\ Asking(w, x, "collect")
           \/ x \in Undecided /\ Asking(w, x, "wait")
           \/ device' = [device EXCEPT ![x].machine = "refused"] /\ UNCHANGED request
    BY <1>5 DEF PollDevice
  <2>2. UNCHANGED <<account, cred>> /\ cred' \in Seq(Credentials)
    BY <1>5 DEF PollDevice, SignInInv, SignInType
  <2>3. ASSUME NEW pc \in {"wait", "collect"}, Asking(w, x, pc) PROVE SignInInv'
    <3>1. DevicesKept
      BY <2>2, <2>3, MachineMoves DEF Asking, Machines
    <3>2. request' = [request EXCEPT ![w] = [NoRequest EXCEPT !.pc = pc, !.dev = x]]
      BY <2>3 DEF Asking, Ask
    <3>. QED BY <1>1, <2>2, <3>1, <3>2
  <2>4. ASSUME device' = [device EXCEPT ![x].machine = "refused"], UNCHANGED request PROVE SignInInv'
    <3>1. DevicesKept
      BY <2>2, <2>4, MachineMoves DEF Machines
    <3>. QED BY <2>2, <2>4, <3>1, NoRequestMoves
  <2>. QED BY <2>1, <2>3, <2>4
<1>6. CASE PollAgain(w)
  <2>1. PICK x \in DOMAIN device : request' = [request EXCEPT ![w] = [NoRequest EXCEPT !.pc = "collect", !.dev = x]]
    BY <1>6 DEF PollAgain, Ask, ToCollect
  <2>2. UNCHANGED <<account, cred, device>>
    BY <1>6 DEF PollAgain
  <2>. QED BY <1>1, <2>1, <2>2, DevicesStay
<1>7. CASE AuthorizationPending(w)
  <2>1. d \in DOMAIN device
    BY <1>0, <1>7 DEF AuthorizationPending, At, Fit, OfADevice
  <2>2. PICK m \in Machines : device' = [device EXCEPT ![d].machine = m]
    BY <1>7 DEF AuthorizationPending, Machines
  <2>3. request' = [request EXCEPT ![w] = NoRequest] /\ UNCHANGED <<account, cred>>
    BY <1>7 DEF AuthorizationPending, Answer
  <2>4. DevicesKept
    BY <2>1, <2>2, <2>3, MachineMoves
  <2>. QED BY <2>3, <2>4, IdleFits, DeviceChanges
<1>8. CASE RequestBreaks(w)
  <2>1. request' = [request EXCEPT ![w] = NoRequest] /\ UNCHANGED <<account, cred>>
    BY <1>8 DEF RequestBreaks, Answer
  <2>2. DevicesKept
    <3>1. CASE request[w].pc \in {"wait", "collect", "deviceKey"}
      <4>1. d \in DOMAIN device
        BY <1>0, <3>1 DEF Fit, OfADevice
      <4>2. device' = [device EXCEPT ![d].machine = "stopped"]
        BY <1>8, <3>1 DEF RequestBreaks
      <4>. QED BY <2>1, <4>1, <4>2, MachineMoves DEF Machines
    <3>2. CASE request[w].pc \notin {"wait", "collect", "deviceKey"}
      <4>1. UNCHANGED device
        BY <1>8, <3>2 DEF RequestBreaks
      <4>. QED BY <2>1, <4>1, DevicesStay
    <3>. QED BY <3>1, <3>2
  <2>. QED BY <2>1, <2>2, IdleFits, DeviceChanges
<1>2. CASE DecideDevice(w)
  <2>1. request' = [request EXCEPT ![w] = NoRequest] /\ UNCHANGED <<account, cred>>
    BY <1>2 DEF DecideDevice, Answer
  <2>2. request[w].from \in DOMAIN cred /\ request[w].from \in Nat
    BY <1>0, <1>2 DEF DecideDevice, At, Fit, OfADevice, Jobs
  <2>3. CASE d \in Undecided
    <3>1. PICK s \in {"approved", "denied"} :
             device' = [device EXCEPT ![d].status = s, ![d].from = request[w].from]
      BY <1>2, <2>3 DEF DecideDevice
    <3>2. d \in DOMAIN device /\ device[d].status = "pending" /\ device[d] \in Devices
      BY <2>3 DEF Undecided, SignInInv, SignInType
    <3>3. device' = [device EXCEPT ![d] = [device[d] EXCEPT !.status = s, !.from = request[w].from]]
      BY <3>1
    <3>4. [device[d] EXCEPT !.status = s, !.from = request[w].from] \in Devices
      BY <2>2, <3>2 DEF Devices
    <3>5. DevicesKept
      BY <2>2, <3>2, <3>3, <3>4 DEF DevicesKept, SignInInv, SignInType, ApprovedFrom, Used, Devices
    <3>. QED BY <2>1, <3>5, IdleFits, DeviceChanges
  <2>4. CASE d \notin Undecided
    <3>1. UNCHANGED device
      BY <1>2, <2>4 DEF DecideDevice
    <3>. QED BY <2>1, <3>1, IdleFits, HoldersStay, RequestMoves
  <2>. QED BY <2>3, <2>4
<1>3. CASE ClaimApprovedDevice(w)
  <2>0. d \in DOMAIN device /\ d \in Nat /\ device[d] \in Devices
    BY <1>0, <1>3 DEF ClaimApprovedDevice, At, Fit, OfADevice, SignInInv, SignInType
  <2>1. CASE device[d].status \in {"approved"}
    <3>. DEFINE s == device[d].from
    <3>1. device' = [device EXCEPT ![d].status = "consumed"]
      BY <1>3, <2>1 DEF ClaimApprovedDevice, Collected
    <3>2. UNCHANGED <<account, cred>>
      BY <1>3 DEF ClaimApprovedDevice, Collected
    <3>3. s \in DOMAIN cred
      BY <2>0, <2>1 DEF SignInInv, ApprovedFrom
    <3>4. s \in Nat /\ cred[s].who \in People /\ cred[s].email \in Emails /\ account[cred[s].email] = cred[s].who
      BY <3>3, CredentialFacts
    <3>5. device' = [device EXCEPT ![d] = [device[d] EXCEPT !.status = "consumed"]]
      BY <3>1
    <3>6. [device[d] EXCEPT !.status = "consumed"] \in Devices
      BY <2>0 DEF Devices
    <3>7. DevicesKept
      BY <2>0, <3>2, <3>5, <3>6 DEF DevicesKept, SignInInv, SignInType, ApprovedFrom, Used, Devices
    <3>8. PICK r \in Jobs :
             r = [pc |-> "deviceKey", who |-> cred[s].who, email |-> cred[s].email, from |-> s, dev |-> d]
      BY <2>0, <3>4 DEF Jobs, Pcs
    <3>9. ~Used(d) /\ Used(d)'
      BY <2>0, <2>1, <3>5 DEF Used, Devices, SignInInv, SignInType
    <3>10. Fit(r)'
      BY <3>2, <3>4, <3>8, <3>9 DEF Fit, Named, Theirs, OfADevice, Used
    <3>11. request' = [request EXCEPT ![w] = r] /\ r.dev = d
      BY <1>3, <2>1, <3>8 DEF ClaimApprovedDevice, Collected
    <3>. QED BY <3>2, <3>7, <3>9, <3>10, <3>11, DeviceChanges
  <2>2. CASE device[d].status \notin {"approved"}
    <3>1. request' = [request EXCEPT ![w] = NoRequest] /\ UNCHANGED <<account, cred, device>>
      BY <1>3, <2>2 DEF ClaimApprovedDevice, Collected, Answer
    <3>. QED BY <3>1, IdleFits, HoldersStay, RequestMoves
  <2>. QED BY <2>1, <2>2
<1>4. CASE SetDeviceCredential(w)
  <2>1. request' = [request EXCEPT ![w] = NoRequest] /\ UNCHANGED <<account, cred>>
    BY <1>4 DEF SetDeviceCredential, Answer
  <2>2. d \in DOMAIN device /\ device[d] \in Devices
    BY <1>0, <1>4 DEF SetDeviceCredential, At, Fit, OfADevice, SignInInv, SignInType
  <2>3. device' = [device EXCEPT ![d].linked = TRUE]
    BY <1>4 DEF SetDeviceCredential
  <2>4. device' = [device EXCEPT ![d] = [device[d] EXCEPT !.linked = TRUE]]
    BY <2>3
  <2>5. [device[d] EXCEPT !.linked = TRUE] \in Devices
    BY <2>2 DEF Devices
  <2>6. DevicesKept
    BY <2>1, <2>2, <2>4, <2>5 DEF DevicesKept, SignInInv, SignInType, ApprovedFrom, Used, Devices
  <2>. QED BY <2>1, <2>6, IdleFits, DeviceChanges
<1>. QED BY <1>2, <1>3, <1>4, <1>5, <1>6, <1>7, <1>8

\* Nobody's request.
LEMMA BackgroundStep ==
    ASSUME SignInInv, Logout \/ RevokeAPIKey \/ StartDevice \/ CodeExpires \/ StopWaiting
    PROVE  SignInInv'
<1>1. ASSUME NEW c \in DOMAIN cred, RevokeCredential(c), UNCHANGED <<account, device, request>>
      PROVE  SignInInv'
  <2>1. cred[c] \in Credentials
    BY DEF SignInInv, SignInType
  <2>2. cred' = [cred EXCEPT ![c] = [cred[c] EXCEPT !.active = FALSE]]
    BY <1>1 DEF RevokeCredential
  <2>3. [cred[c] EXCEPT !.active = FALSE] \in Credentials
    BY <2>1 DEF Credentials
  <2>4. cred' \in Seq(Credentials) /\ DOMAIN cred' = DOMAIN cred
    BY <2>2, <2>3 DEF SignInInv, SignInType
  <2>5. \A b \in DOMAIN cred : /\ cred'[b].email = cred[b].email
                              /\ cred'[b].who = cred[b].who /\ cred'[b].dev = cred[b].dev
    BY <2>1, <2>2 DEF Credentials
  <2>6. DevicesKept
    BY <1>1, <2>4 DEF DevicesKept, SignInInv, SignInType, ApprovedFrom, Used
  <2>. QED BY <1>1, <2>4, <2>5, <2>6, NoRequestMoves
<1>2. CASE Logout
  BY <1>1, <1>2 DEF Logout, Authenticated
<1>3. CASE RevokeAPIKey
  BY <1>1, <1>3 DEF RevokeAPIKey
<1>4. ASSUME UNCHANGED <<account, cred, request>>, DevicesKept PROVE SignInInv'
  <2>1. cred' \in Seq(Credentials)
    BY <1>4 DEF SignInInv, SignInType
  <2>. QED BY <1>4, <2>1, NoRequestMoves
<1>5. CASE StartDevice
  <2>. DEFINE d0 == [status |-> "pending", from |-> 0, live |-> TRUE, linked |-> FALSE,
                   machine |-> "waits"]
  <2>1. device' = Append(device, d0) /\ UNCHANGED <<account, cred, request>>
    BY <1>5 DEF StartDevice
  <2>2. d0 \in Devices /\ d0.status = "pending"
    BY DEF Devices, Machines
  <2>. HIDE DEF d0
  <2>3. DevicesKept
    BY <2>1, <2>2 DEF DevicesKept, SignInInv, SignInType, ApprovedFrom, Used
  <2>. QED BY <1>4, <2>1, <2>3
<1>6. CASE CodeExpires
  <2>1. PICK d \in DOMAIN device : device' = [device EXCEPT ![d].live = FALSE]
    BY <1>6 DEF CodeExpires
  <2>2. device' = [device EXCEPT ![d] = [device[d] EXCEPT !.live = FALSE]]
    BY <2>1
  <2>3. device[d] \in Devices /\ [device[d] EXCEPT !.live = FALSE] \in Devices
    <3>1. device[d] \in Devices
      BY DEF SignInInv, SignInType
    <3>. QED BY <3>1 DEF Devices
  <2>4. UNCHANGED <<account, cred, request>>
    BY <1>6 DEF CodeExpires
  <2>5. DevicesKept
    BY <2>2, <2>3, <2>4 DEF DevicesKept, SignInInv, SignInType, ApprovedFrom, Used, Devices
  <2>. QED BY <1>4, <2>4, <2>5
<1>7. CASE StopWaiting
  <2>1. PICK d \in DOMAIN device : device' = [device EXCEPT ![d].machine = "stopped"]
    BY <1>7 DEF StopWaiting
  <2>2. UNCHANGED <<account, cred, request>>
    BY <1>7 DEF StopWaiting
  <2>. QED BY <1>4, <2>1, <2>2, MachineMoves DEF Machines
<1>. QED BY <1>2, <1>3, <1>5, <1>6, <1>7

LEMMA SignInStep == ASSUME SignInInv, [SignInNext]_signInVars PROVE SignInInv'
<1>1. ASSUME UNCHANGED <<account, cred, device, request>> PROVE SignInInv'
  <2>1. DevicesKept /\ cred' \in Seq(Credentials)
    BY <1>1, DevicesStay DEF SignInInv, SignInType
  <2>. QED BY <1>1, <2>1, NoRequestMoves
<1>2. ASSUME NEW e \in Emails, Forgotten(e) PROVE SignInInv'
  BY <1>1, <1>2 DEF Forgotten
<1>3. CASE UNCHANGED signInVars
  BY <1>1, <1>3 DEF signInVars
<1>. QED BY AccountStep, CredentialStep, DeviceStep, BackgroundStep, <1>2, <1>3
         DEF SignInNext, Handles

\* What the two properties rest on: a request that may issue something is for
\* the account's holder, and a code is consumed before its key is issued.
THEOREM SignInInvHolds == SignInSpec => []SignInInv
BY SignInInitial, SignInStep, PTL DEF SignInSpec

\* A session or key is held by who set the account's password, however many
\* registrations and sign-ins overlap (auth_repo.go:71-85).
THEOREM HolderSignsInHolds == SignInSpec => []HolderSignsIn
<1>1. SignInInv => HolderSignsIn
  BY DEF SignInInv, OfHolder, HolderSignsIn
<1>. QED BY SignInInvHolds, <1>1, PTL

LEMMA AtMostOne == ASSUME NEW S, \A x, y \in S : x = y PROVE Cardinality(S) = 0 \/ Cardinality(S) = 1
<1>1. CASE S = {}
  BY <1>1, FS_EmptySet
<1>2. CASE S # {}
  <2>1. PICK x \in S : TRUE
    BY <1>2
  <2>2. S = {x}
    BY <2>1
  <2>. QED BY <2>2, FS_Singleton
<1>. QED BY <1>1, <1>2

\* One key a device code, whatever polls overlap (auth_repo.go:253-276).
THEOREM OneKeyPerDeviceHolds == SignInSpec => []OneKeyPerDevice
<1>1. ASSUME SignInInv, NEW d \in DOMAIN device
      PROVE  Cardinality(BeingGiven(d)) + Cardinality(Given(d)) <= 1
  <2>0. d # 0
    BY <1>1 DEF SignInInv, SignInType
  <2>1. \A v, w \in BeingGiven(d) : v = w
    BY <1>1 DEF SignInInv, Once, Giving, BeingGiven, At
  <2>2. \A b, c \in Given(d) : b = c
    BY <1>1, <2>0 DEF SignInInv, Once, Given
  <2>3. BeingGiven(d) = {} \/ Given(d) = {}
    BY <1>1 DEF SignInInv, Once, Giving, BeingGiven, Given, At
  <2>. QED BY <2>1, <2>2, <2>3, AtMostOne, FS_EmptySet
<1>2. SignInInv => OneKeyPerDevice
  BY <1>1 DEF OneKeyPerDevice
<1>. QED BY SignInInvHolds, <1>2, PTL

================================================================================
