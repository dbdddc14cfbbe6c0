--------------------------------- MODULE SignIn ---------------------------------
(***************************************************************************)
(* Accounts, sessions, API keys and device authorizations                  *)
(* (auth_service.go over auth_repo.go).  Passwords, codes and tokens are   *)
(* who knows them.  A request is the writes its handler makes, one step    *)
(* each; a session or a key is issued by the step all of them share.       *)
(*                                                                         *)
(*   register -> claim | create -> issue      login -> verify -> issue     *)
(*   poll -> collect -> issue -> link         decide -> write              *)
(* The machine that shows a code is the loop of the mcp-server's cli.py:   *)
(* it sleeps, asks, and sleeps again while its time is not over.           *)
(***************************************************************************)
EXTENDS Integers, Sequences, FiniteSets

CONSTANTS
    Emails, People,
    Requesters,         \* requests at once
    MaxFailedLogins,
    MaxCredentials,     \* bound: sessions and keys ever asked for, a machine's key apart
    MaxDevices,         \* bound: device codes ever handed out
    MaxSignInFaults     \* bound: calls that fail, crashes

ASSUME SignInAssumption ==
    /\ People \cap {"absent", "unset"} = {}
    /\ {MaxFailedLogins, MaxCredentials, MaxDevices, MaxSignInFaults} \subseteq Nat

VARIABLES
    account,    \* the person whose password an email's row holds
    cred,       \* credentials, in the order they were issued
    device,     \* device_authorizations, in the order they were started
    failures,   \* recent failed sign-ins of an email, in memory
    request, signInFaults

signInVars == <<account, cred, device, failures, request, signInFaults>>

NoRequest == [pc |-> "idle", who |-> "nobody", email |-> "none", from |-> 0, dev |-> 0]
Unclaimed == {"absent", "unset"}

At(w, pc) == request[w].pc = pc
Ask(w, r) == request[w] = NoRequest /\ request' = [request EXCEPT ![w] = r]
Turn(w, pc) == request' = [request EXCEPT ![w].pc = pc]
Answer(w) == request' = [request EXCEPT ![w] = NoRequest]

(***************************************************************************)
(* Registering and signing in                                              *)
(***************************************************************************)
Entering == {w \in Requesters : request[w].pc \in {"claim", "create", "verify", "session", "key"}}
MoreCredentials == Len(cred) + Cardinality(Entering) < MaxCredentials

Register(w) ==
    \E p \in People, e \in Emails :
        /\ account[e] \in Unclaimed /\ MoreCredentials
        /\ Ask(w, [NoRequest EXCEPT !.pc = IF account[e] = "unset" THEN "claim" ELSE "create",
                                    !.who = p, !.email = e])
        /\ UNCHANGED <<account, cred, device, failures, signInFaults>>

SetPasswordOf(w, from) ==
    /\ IF account[request[w].email] \in from
       THEN account' = [account EXCEPT ![request[w].email] = request[w].who] /\ Turn(w, "session")
       ELSE UNCHANGED account /\ Answer(w)
    /\ UNCHANGED <<cred, device, failures, signInFaults>>

\* Bug: the claim does not ask whether the account still has no password.
ClaimUser_Regardless(w) == At(w, "claim") /\ SetPasswordOf(w, Unclaimed \cup People)

ClaimUser(w) == At(w, "claim") /\ SetPasswordOf(w, {"unset"})

\* users.email is UNIQUE: the second of two inserts fails.
CreateUser(w) == At(w, "create") /\ SetPasswordOf(w, {"absent"})

Login(w) ==
    \E p \in People, e \in Emails :
        /\ failures[e] < MaxFailedLogins /\ MoreCredentials
        /\ Ask(w, [NoRequest EXCEPT !.pc = "verify", !.who = p, !.email = e])
        /\ UNCHANGED <<account, cred, device, failures, signInFaults>>

Verify(w) ==
    LET e == request[w].email IN
    /\ At(w, "verify")
    /\ IF account[e] = request[w].who
       THEN failures' = [failures EXCEPT ![e] = 0] /\ Turn(w, "session")
       ELSE failures' = [failures EXCEPT ![e] = @ + 1] /\ Answer(w)
    /\ UNCHANGED <<account, cred, device, signInFaults>>

\* The window of the failures passes, or a restart forgets them.
Forgotten(e) ==
    /\ failures[e] > 0
    /\ failures' = [failures EXCEPT ![e] = 0]
    /\ UNCHANGED <<account, cred, device, request, signInFaults>>

Issued(w, kind) ==
    cred' = Append(cred, [kind |-> kind, email |-> request[w].email, who |-> request[w].who,
                          dev |-> request[w].dev, active |-> TRUE])

IssueSession(w) ==
    /\ At(w, "session") /\ Issued(w, "session") /\ Answer(w)
    /\ UNCHANGED <<account, device, failures, signInFaults>>

(***************************************************************************)
(* Requests made with a credential                                         *)
(***************************************************************************)
Authenticated == {c \in DOMAIN cred : cred[c].active}

Sessions == {c \in Authenticated : cred[c].kind = "session"}

RevokeCredential(c) == cred' = [cred EXCEPT ![c].active = FALSE]

\* Signing out, and a key's or a session's time running out.
Logout ==
    /\ \E c \in Authenticated : RevokeCredential(c)
    /\ UNCHANGED <<account, device, failures, request, signInFaults>>

\* Revokes whatever the id names, and looks at its kind afterwards.
RevokeAPIKey ==
    /\ \E s \in Sessions, c \in DOMAIN cred :
          cred[c].email = cred[s].email /\ RevokeCredential(c)
    /\ UNCHANGED <<account, device, failures, request, signInFaults>>

CreateAPIKey(w) ==
    /\ MoreCredentials
    /\ \E s \in Sessions :
          Ask(w, [NoRequest EXCEPT !.pc = "key", !.who = cred[s].who, !.email = cred[s].email, !.from = s])
    /\ UNCHANGED <<account, cred, device, failures, signInFaults>>

IssueKey(w) ==
    /\ At(w, "key") /\ Issued(w, "api_key") /\ Answer(w)
    /\ UNCHANGED <<account, device, failures, signInFaults>>

(***************************************************************************)
(* Device authorizations                                                   *)
(***************************************************************************)
StartDevice ==
    /\ Len(device) < MaxDevices
    /\ device' = Append(device, [status |-> "pending", from |-> 0, live |-> TRUE, linked |-> FALSE,
                                 machine |-> "waits"])
    /\ UNCHANGED <<account, cred, failures, request, signInFaults>>

CodeExpires ==
    /\ \E d \in DOMAIN device : device[d].live /\ device' = [device EXCEPT ![d].live = FALSE]
    /\ UNCHANGED <<account, cred, failures, request, signInFaults>>

Undecided == {d \in DOMAIN device : device[d].status = "pending" /\ device[d].live}

\* PendingDeviceByUserCode, by somebody signed in.
LookUpDevice(w) ==
    /\ \E s \in Sessions, d \in Undecided :
          Ask(w, [NoRequest EXCEPT !.pc = "decide", !.who = cred[s].who, !.email = cred[s].email,
                                   !.from = s, !.dev = d])
    /\ UNCHANGED <<account, cred, device, failures, signInFaults>>

DecideDevice(w) ==
    LET d == request[w].dev IN
    /\ At(w, "decide") /\ Answer(w)
    /\ IF d \in Undecided
       THEN \E s \in {"approved", "denied"} :
              device' = [device EXCEPT ![d].status = s, ![d].from = request[w].from]
       ELSE UNCHANGED device
    /\ UNCHANGED <<account, cred, failures, signInFaults>>

\* Bug: a code whose time is over is refused, approved or not.
ToCollect_Live == {d \in DOMAIN device : device[d].status = "approved" /\ device[d].live}

ToCollect == {d \in DOMAIN device : device[d].status = "approved"}

Asking(w, d, pc) ==
    /\ Ask(w, [NoRequest EXCEPT !.pc = pc, !.dev = d])
    /\ device' = [device EXCEPT ![d].machine = "asked"]

\* The machine asks after its wait, although the time ran out during it: an
\* approved code is collected, an undecided one keeps it waiting, any other
\* answer is an error and the machine gives up.
PollDevice(w) ==
    /\ \E d \in DOMAIN device :
          /\ device[d].machine = "waits"
          /\ \/ d \in ToCollect /\ Asking(w, d, "collect")
             \/ d \in Undecided /\ Asking(w, d, "wait")
             \/ /\ d \notin ToCollect \cup Undecided
                /\ device' = [device EXCEPT ![d].machine = "refused"]
                /\ UNCHANGED request
    /\ UNCHANGED <<account, cred, failures, signInFaults>>

\* The answer "not yet" arrives.  The machine waits again if its own clock,
\* which started after the server's, has time left.
AuthorizationPending(w) ==
    /\ At(w, "wait") /\ Answer(w)
    /\ \E m \in {"waits", "refused"} :
          /\ device[request[w].dev].live => m = "waits"
          /\ device' = [device EXCEPT ![request[w].dev].machine = m]
    /\ UNCHANGED <<account, cred, failures, signInFaults>>

\* A code is presented once more while a poll of it is out (complete_login
\* called twice at once).
PollAgain(w) ==
    /\ \E d \in ToCollect : Ask(w, [NoRequest EXCEPT !.pc = "collect", !.dev = d])
    /\ UNCHANGED <<account, cred, device, failures, signInFaults>>

\* Ctrl+C, or complete_login is not called again.
StopWaiting ==
    /\ \E d \in DOMAIN device :
          /\ device[d].machine = "waits"
          /\ device' = [device EXCEPT ![d].machine = "stopped"]
    /\ UNCHANGED <<account, cred, failures, request, signInFaults>>

Collected(w, from) ==
    LET d == request[w].dev IN
    /\ IF device[d].status \in from
       THEN LET s == device[d].from IN
            /\ device' = [device EXCEPT ![d].status = "consumed"]
            /\ request' = [request EXCEPT ![w] = [pc |-> "deviceKey", who |-> cred[s].who,
                                                  email |-> cred[s].email, from |-> s, dev |-> d]]
       ELSE UNCHANGED device /\ Answer(w)
    /\ UNCHANGED <<account, cred, failures, signInFaults>>

\* Bug: the claim trusts what the poll read.
ClaimApprovedDevice_AsRead(w) == At(w, "collect") /\ Collected(w, {"approved", "consumed"})

ClaimApprovedDevice(w) == At(w, "collect") /\ Collected(w, {"approved"})

IssueDeviceKey(w) ==
    /\ At(w, "deviceKey") /\ Issued(w, "api_key") /\ Turn(w, "link")
    /\ UNCHANGED <<account, device, failures, signInFaults>>

SetDeviceCredential(w) ==
    /\ At(w, "link") /\ Answer(w)
    /\ device' = [device EXCEPT ![request[w].dev].linked = TRUE]
    /\ UNCHANGED <<account, cred, failures, signInFaults>>

\* A write fails, or the server goes down under the request: the answer is an
\* error, and a machine that gets one stops asking.
RequestBreaks(w) ==
    /\ ~At(w, "idle") /\ signInFaults < MaxSignInFaults
    /\ signInFaults' = signInFaults + 1
    /\ Answer(w)
    /\ device' = IF request[w].pc \in {"wait", "collect", "deviceKey"}
                 THEN [device EXCEPT ![request[w].dev].machine = "stopped"] ELSE device
    /\ UNCHANGED <<account, cred, failures>>

(***************************************************************************)
(* The specification                                                       *)
(***************************************************************************)
SignInInit ==
    /\ account \in [Emails -> Unclaimed]    \* "unset": rows of the header identity
    /\ cred = <<>> /\ device = <<>>
    /\ failures = [e \in Emails |-> 0]
    /\ request = [w \in Requesters |-> NoRequest]
    /\ signInFaults = 0

Handles(w) ==
    \/ ClaimUser(w) \/ CreateUser(w) \/ Verify(w) \/ IssueSession(w) \/ IssueKey(w) \/ DecideDevice(w)
    \/ AuthorizationPending(w) \/ ClaimApprovedDevice(w) \/ IssueDeviceKey(w) \/ SetDeviceCredential(w)

SignInNext ==
    \/ Logout \/ RevokeAPIKey \/ StartDevice \/ CodeExpires \/ StopWaiting
    \/ \E e \in Emails : Forgotten(e)
    \/ \E w \in Requesters :
          \/ Register(w) \/ Login(w) \/ CreateAPIKey(w) \/ LookUpDevice(w)
          \/ PollDevice(w) \/ PollAgain(w) \/ Handles(w) \/ RequestBreaks(w)

SignInSpec == SignInInit /\ [][SignInNext]_signInVars

\* A request that was started is carried on, and a machine that waits asks when
\* its sleep is over: a goroutine serves each poll, so it waits for none of the
\* others, and the bound on requests must not starve it.
Polls == \E w \in Requesters : PollDevice(w)
SignInFairSpec ==
    SignInSpec /\ SF_signInVars(Polls) /\ \A w \in Requesters : WF_signInVars(Handles(w))

(***************************************************************************)
(* Properties                                                              *)
(***************************************************************************)
\* "Only if it still has none, so two simultaneous claims can't both win"
\* (auth_repo.go:73-74): a session is held by who set the account's password,
\* however registrations and sign-ins of one email overlap.
HolderSignsIn == \A c \in DOMAIN cred : account[cred[c].email] = cred[c].who

\* "A device code yields exactly one key however many times it's presented"
\* (auth_repo.go:254-256), the calls that are still issuing one included.
BeingGiven(d) == {w \in Requesters : At(w, "deviceKey") /\ request[w].dev = d}
Given(d) == {c \in DOMAIN cred : cred[c].dev = d}
OneKeyPerDevice == \A d \in DOMAIN device : Cardinality(BeingGiven(d)) + Cardinality(Given(d)) <= 1

\* An approval is honoured when a machine waits for it, although the code's
\* time runs out before it asks again (auth_service.go:516-551): the key is
\* there, unless somebody stopped the machine or a call about its code failed.
ApprovalHonoured ==
    \A d \in 1..MaxDevices :
        d \in ToCollect /\ device[d].machine = "waits"
            ~> d \in DOMAIN device /\ (Given(d) # {} \/ device[d].machine = "stopped")
================================================================================
