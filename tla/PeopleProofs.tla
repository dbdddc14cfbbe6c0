----------------------------- MODULE PeopleProofs ------------------------------
(***************************************************************************)
(* Theorems about Ownership, Contract and Review, for any people, requests *)
(* and bounds: who owns an application and how it changes hands, what a    *)
(* validated contract is, and what a gate's signatures are about.          *)
(***************************************************************************)
EXTENDS Ownership, Contract, Review, FiniteSetTheorems, TLAPS

(***************************************************************************)
(* Ownership                                                               *)
(***************************************************************************)
OwnPcs == {"idle", "registering", "assigning", "granting", "revoking", "nominating",
           "accepting", "expiring", "replacing"}
OwnJobs == [pc : OwnPcs, who : Users \cup {"nobody"}, target : Users \cup {"nobody"},
            role : CoRoles \cup {"none"}, t : Nat]
Transfers == [from : Users, to : Users, status : {"pending", "expired", "accepted"}, late : BOOLEAN]

OwnershipType ==
    /\ registered \in BOOLEAN /\ orphaned \in BOOLEAN
    /\ owner \subseteq Users \X {"primary", "secondary", "technical"}
    /\ transfer \in Seq(Transfers)
    /\ ownJob \in [OwnerRequests -> OwnJobs]

\* A request acts for users, and who answers a nomination works on it; what
\* it goes on to replace has been accepted.
OwnFit(j) ==
    /\ j.pc \in {"registering", "assigning", "nominating"} => j.who \in Users
    /\ j.pc \in {"granting", "revoking", "nominating"} => j.target \in Users
    /\ j.pc = "granting" => j.role \in CoRoles
    /\ j.pc \in {"accepting", "expiring", "replacing"} =>
          /\ j.t \in DOMAIN transfer
          /\ transfer[j.t].from = j.who /\ transfer[j.t].to = j.target
    /\ j.pc = "replacing" => transfer[j.t].status = "accepted"
OwnFits == \A w \in OwnerRequests : OwnFit(ownJob[w])

\* From its row on an application waits for its first owner, one request
\* gives it one, and until then there is nothing to ask of it.
Assigning(w) == InOwnerJob(w, "assigning")
Unowned == ~registered \/ orphaned \/ \E w \in OwnerRequests : Assigning(w)
NothingAsked ==
    Unowned => /\ Primary = {} /\ transfer = <<>>
               /\ \A w \in OwnerRequests : ownJob[w].pc \in {"idle", "registering", "assigning"}
FirstOwner ==
    /\ \A v, w \in OwnerRequests : Assigning(v) /\ Assigning(w) => v = w
    /\ \A w \in OwnerRequests : Assigning(w) => registered /\ ~orphaned
    /\ orphaned => registered

Owned == ~Unowned => Primary # {}
AtMostOnePrimary == \A u, v \in Primary : u = v

OwnershipInv ==
    OwnershipType /\ OwnFits /\ NothingAsked /\ FirstOwner /\ Owned /\ AtMostOnePrimary

LEMMA OwnershipInitial == OwnershipInit => OwnershipInv
<1>. SUFFICES ASSUME OwnershipInit PROVE OwnershipInv
  OBVIOUS
<1>1. NoOwnerJob \in OwnJobs /\ \A w \in OwnerRequests : ownJob[w] = NoOwnerJob
  BY DEF OwnershipInit, NoOwnerJob, OwnJobs, OwnPcs
<1>2. OwnershipType
  <2>1. transfer \in Seq(Transfers) /\ owner \subseteq Users \X {"primary", "secondary", "technical"}
    BY DEF OwnershipInit
  <2>2. ownJob \in [OwnerRequests -> OwnJobs]
    BY <1>1 DEF OwnershipInit
  <2>. QED BY <2>1, <2>2 DEF OwnershipInit, OwnershipType
<1>3. OwnFits
  BY <1>1 DEF OwnFits, OwnFit, NoOwnerJob
<1>4. NothingAsked /\ FirstOwner /\ Owned /\ AtMostOnePrimary
  BY <1>1 DEF OwnershipInit, NothingAsked, FirstOwner, Owned, AtMostOnePrimary, Unowned, Primary,
              Assigning, InOwnerJob, NoOwnerJob
<1>. QED BY <1>2, <1>3, <1>4 DEF OwnershipInv

\* A nomination stays, and what was accepted of it stays accepted.
TransfersKept ==
    /\ transfer' \in Seq(Transfers)
    /\ \A t \in DOMAIN transfer :
          /\ t \in DOMAIN transfer'
          /\ transfer'[t].from = transfer[t].from /\ transfer'[t].to = transfer[t].to
          /\ transfer[t].status = "accepted" => transfer'[t].status = "accepted"

\* A request moves on: it fits what it moves to, and the others still fit.
LEMMA OwnerMoves ==
    ASSUME OwnershipInv, NEW w \in OwnerRequests, NEW r \in OwnJobs,
           ownJob' = [ownJob EXCEPT ![w] = r], TransfersKept, OwnFit(r)'
    PROVE  /\ ownJob' \in [OwnerRequests -> OwnJobs] /\ OwnFits'
           /\ ownJob'[w] = r /\ \A v \in OwnerRequests : v # w => ownJob'[v] = ownJob[v]
<1>1. /\ ownJob' \in [OwnerRequests -> OwnJobs] /\ ownJob'[w] = r
      /\ \A v \in OwnerRequests : v # w => ownJob'[v] = ownJob[v]
  BY DEF OwnershipInv, OwnershipType
<1>2. ASSUME NEW v \in OwnerRequests, v # w PROVE OwnFit(ownJob[v])'
  <2>1. OwnFit(ownJob[v]) /\ ownJob'[v] = ownJob[v]
    BY <1>1, <1>2 DEF OwnershipInv, OwnFits
  <2>. QED BY <2>1 DEF OwnFit, TransfersKept
<1>. QED BY <1>1, <1>2 DEF OwnFits

\* A step that leaves the owners alone and is not a registration's second write.
LEMMA OwnersKept ==
    ASSUME OwnershipInv, NEW w \in OwnerRequests, NEW r \in OwnJobs,
           ownJob' = [ownJob EXCEPT ![w] = r], TransfersKept, OwnFit(r)',
           UNCHANGED <<registered, owner, orphaned>>,
           ~Assigning(w), r.pc # "assigning",
           Unowned => transfer' = <<>> /\ r.pc \in {"idle", "registering"}
    PROVE  OwnershipInv'
<1>1. /\ ownJob' \in [OwnerRequests -> OwnJobs] /\ OwnFits'
      /\ ownJob'[w] = r /\ \A v \in OwnerRequests : v # w => ownJob'[v] = ownJob[v]
  BY OwnerMoves
<1>2. \A v \in OwnerRequests : Assigning(v)' <=> Assigning(v)
  BY <1>1 DEF Assigning, InOwnerJob
<1>3. (Unowned' <=> Unowned) /\ Primary' = Primary
  BY <1>2 DEF Unowned, Primary
<1>4. OwnershipType'
  BY <1>1 DEF OwnershipInv, OwnershipType, TransfersKept
<1>5. NothingAsked'
  BY <1>1, <1>3 DEF OwnershipInv, NothingAsked
<1>6. FirstOwner'
  BY <1>2 DEF OwnershipInv, FirstOwner
<1>7. Owned' /\ AtMostOnePrimary'
  BY <1>3 DEF OwnershipInv, Owned, AtMostOnePrimary
<1>. QED BY <1>1, <1>4, <1>5, <1>6, <1>7 DEF OwnershipInv

\* A request of an owned application that writes the owners.
LEMMA OwnersWritten ==
    ASSUME OwnershipInv, NEW w \in OwnerRequests, ownJob' = [ownJob EXCEPT ![w] = NoOwnerJob],
           UNCHANGED <<registered, transfer, orphaned>>,
           ownJob[w].pc \notin {"idle", "registering", "assigning"},
           owner' \subseteq Users \X {"primary", "secondary", "technical"},
           \E u \in Users : Primary' = {u}
    PROVE  OwnershipInv'
<1>1. NoOwnerJob \in OwnJobs /\ OwnFit(NoOwnerJob)'
  BY DEF NoOwnerJob, OwnJobs, OwnPcs, OwnFit
<1>2. TransfersKept
  BY DEF OwnershipInv, OwnershipType, TransfersKept
<1>3. /\ ownJob' \in [OwnerRequests -> OwnJobs] /\ OwnFits'
      /\ ownJob'[w] = NoOwnerJob /\ \A v \in OwnerRequests : v # w => ownJob'[v] = ownJob[v]
  BY <1>1, <1>2, OwnerMoves
<1>4. ~Unowned
  BY DEF OwnershipInv, NothingAsked
<1>5. \A v \in OwnerRequests : Assigning(v)' => Assigning(v)
  BY <1>3 DEF Assigning, InOwnerJob, NoOwnerJob
<1>6. ~Unowned'
  BY <1>4, <1>5 DEF Unowned
<1>7. OwnershipType'
  BY <1>3 DEF OwnershipInv, OwnershipType
<1>8. NothingAsked' /\ Owned' /\ AtMostOnePrimary'
  BY <1>6 DEF NothingAsked, Owned, AtMostOnePrimary
<1>9. FirstOwner'
  BY <1>5 DEF OwnershipInv, FirstOwner
<1>. QED BY <1>3, <1>7, <1>8, <1>9 DEF OwnershipInv

LEMMA NoOwnerJobFits == NoOwnerJob \in OwnJobs /\ NoOwnerJob.pc = "idle" /\ OwnFit(NoOwnerJob)'
  BY DEF NoOwnerJob, OwnJobs, OwnPcs, OwnFit

\* With an owner there is one, and only an owned application is asked for more.
LEMMA OneWhenOwned ==
    ASSUME OwnershipInv, ~Unowned
    PROVE  \E u \in Users : Primary = {u}
  BY DEF OwnershipInv, Owned, AtMostOnePrimary, Primary

(***************************************************************************)
(* Each action preserves the invariant                                     *)
(***************************************************************************)
LEMMA RegistrationKeeps ==
    ASSUME OwnershipInv, NEW w \in OwnerRequests,
           RegisterApplication(w) \/ CreateApplication(w) \/ AssignPrimaryOwner(w)
    PROVE  OwnershipInv'
<1>. USE NoOwnerJobFits
<1>. ownJob[w] \in OwnJobs /\ OwnFit(ownJob[w])
  BY DEF OwnershipInv, OwnershipType, OwnFits
<1>0. UNCHANGED transfer => TransfersKept
  BY DEF OwnershipInv, OwnershipType, TransfersKept
<1>1. CASE RegisterApplication(w)
  <2>1. PICK u \in Registrars : Takes(w, [NoOwnerJob EXCEPT !.pc = "registering", !.who = u])
    BY <1>1 DEF RegisterApplication
  <2>. DEFINE r == [NoOwnerJob EXCEPT !.pc = "registering", !.who = u]
  <2>2. r \in OwnJobs /\ r.pc = "registering" /\ OwnFit(r)'
    <3>1. u \in Users
      BY OwnershipAssumption
    <3>2. r \in OwnJobs /\ r.pc = "registering" /\ r.who \in Users
      BY <3>1 DEF NoOwnerJob, OwnJobs, OwnPcs
    <3>. HIDE DEF r
    <3>. QED BY <3>2 DEF OwnFit
  <2>3. ownJob' = [ownJob EXCEPT ![w] = r] /\ ~Assigning(w)
    BY <2>1 DEF Takes, Assigning, InOwnerJob
  <2>4. UNCHANGED <<registered, owner, transfer, orphaned>> /\ (Unowned => transfer' = <<>>)
    BY <1>1 DEF RegisterApplication, OwnershipInv, NothingAsked
  <2>. HIDE DEF r
  <2>. QED BY <1>0, <2>2, <2>3, <2>4, OwnersKept
<1>2. CASE CreateApplication(w) /\ registered
  <2>1. ownJob' = [ownJob EXCEPT ![w] = NoOwnerJob] /\ ~Assigning(w)
    BY <1>2 DEF CreateApplication, Finishes, Assigning, InOwnerJob
  <2>2. UNCHANGED <<registered, owner, transfer, orphaned>> /\ (Unowned => transfer' = <<>>)
    BY <1>2 DEF CreateApplication, OwnershipInv, OwnershipType, NothingAsked
  <2>. QED BY <1>0, <2>1, <2>2, OwnersKept
<1>3. CASE CreateApplication(w) /\ ~registered
  <2>0. PICK r \in OwnJobs : r = [ownJob[w] EXCEPT !.pc = "assigning"]
    BY DEF OwnJobs, OwnPcs
  <2>1. ownJob' = [ownJob EXCEPT ![w] = r] /\ UNCHANGED <<owner, transfer, orphaned>> /\ registered'
    BY <1>3, <2>0 DEF CreateApplication, Proceeds, OwnershipInv, OwnershipType
  <2>2. r.pc = "assigning" /\ r.who \in Users /\ OwnFit(r)'
    <3>1. r.pc = "assigning" /\ r.who = ownJob[w].who /\ ownJob[w].pc = "registering"
      BY <1>3, <2>0 DEF CreateApplication, InOwnerJob, OwnJobs
    <3>2. r.who \in Users
      BY <3>1 DEF OwnFit
    <3>. QED BY <3>1, <3>2 DEF OwnFit
  <2>3. /\ ownJob' \in [OwnerRequests -> OwnJobs] /\ OwnFits'
        /\ ownJob'[w] = r /\ \A v \in OwnerRequests : v # w => ownJob'[v] = ownJob[v]
    BY <1>0, <2>1, <2>2, OwnerMoves
  <2>4. ~orphaned /\ \A v \in OwnerRequests : ~Assigning(v)
    BY <1>3 DEF OwnershipInv, FirstOwner
  <2>5. \A v \in OwnerRequests : Assigning(v)' <=> v = w
    BY <2>2, <2>3, <2>4 DEF Assigning, InOwnerJob
  <2>6. OwnershipType'
    BY <2>1, <2>3 DEF OwnershipInv, OwnershipType
  <2>7. FirstOwner'
    BY <2>1, <2>4, <2>5 DEF FirstOwner
  <2>8. Primary' = {} /\ transfer' = <<>>
    BY <1>3, <2>1 DEF OwnershipInv, NothingAsked, Unowned, Primary
  <2>9. NothingAsked' /\ Owned' /\ AtMostOnePrimary'
    <3>1. \A v \in OwnerRequests : ownJob[v].pc \in {"idle", "registering", "assigning"}
      BY <1>3 DEF OwnershipInv, NothingAsked, Unowned
    <3>2. \A v \in OwnerRequests : ownJob'[v].pc \in {"idle", "registering", "assigning"}
      BY <2>2, <2>3, <3>1
    <3>3. Unowned'
      BY <2>5 DEF Unowned
    <3>. QED BY <2>8, <3>2, <3>3 DEF NothingAsked, Owned, AtMostOnePrimary
  <2>. QED BY <2>3, <2>6, <2>7, <2>9 DEF OwnershipInv
<1>4. CASE AssignPrimaryOwner(w)
  <2>1. /\ ownJob' = [ownJob EXCEPT ![w] = NoOwnerJob] /\ UNCHANGED <<registered, transfer, orphaned>>
        /\ owner' = owner \cup {<<ownJob[w].who, "primary">>} /\ Assigning(w)
    BY <1>4 DEF AssignPrimaryOwner, Finishes, Assigning
  <2>2. /\ ownJob' \in [OwnerRequests -> OwnJobs] /\ OwnFits'
        /\ ownJob'[w] = NoOwnerJob /\ \A v \in OwnerRequests : v # w => ownJob'[v] = ownJob[v]
    BY <1>0, <2>1, OwnerMoves
  <2>3. ownJob[w].who \in Users
    BY <2>1 DEF OwnFit, Assigning, InOwnerJob
  <2>4. Primary = {} /\ registered /\ ~orphaned
    BY <2>1 DEF OwnershipInv, NothingAsked, Unowned, FirstOwner
  <2>5. Primary' = {ownJob[w].who}
    BY <2>1, <2>3, <2>4 DEF Primary
  <2>6. \A v \in OwnerRequests : ~Assigning(v)'
    BY <2>1, <2>2 DEF OwnershipInv, FirstOwner, Assigning, InOwnerJob
  <2>7. ~Unowned'
    BY <2>1, <2>4, <2>6 DEF Unowned
  <2>8. OwnershipType'
    BY <2>1, <2>2, <2>3 DEF OwnershipInv, OwnershipType
  <2>9. NothingAsked' /\ FirstOwner' /\ Owned' /\ AtMostOnePrimary'
    BY <2>1, <2>4, <2>5, <2>6, <2>7 DEF NothingAsked, FirstOwner, Owned, AtMostOnePrimary
  <2>. QED BY <2>2, <2>8, <2>9 DEF OwnershipInv
<1>. QED BY <1>1, <1>2, <1>3, <1>4

LEMMA AskingKeeps ==
    ASSUME OwnershipInv, NEW w \in OwnerRequests,
           GrantCoOwner(w) \/ RevokeCoOwner(w) \/ InitiateTransfer(w)
    PROVE  OwnershipInv'
<1>1. PICK u \in Primary, j \in OwnJobs :
         /\ Takes(w, [j EXCEPT !.who = IF j.pc = "nominating" THEN u ELSE "nobody"])
         /\ j.pc \in {"granting", "revoking", "nominating"} /\ j.target \in Users
         /\ j.pc = "granting" => j.role \in CoRoles
         /\ UNCHANGED <<registered, owner, transfer, orphaned>>
  <2>2. CASE GrantCoOwner(w)
    <3>1. PICK v \in CoOwners, r \in CoRoles :
             RequirePrimaryOwner(w, [NoOwnerJob EXCEPT !.pc = "granting", !.target = v, !.role = r])
      BY <2>2 DEF GrantCoOwner
    <3>2. [NoOwnerJob EXCEPT !.pc = "granting", !.target = v, !.role = r] \in OwnJobs
      BY OwnershipAssumption DEF NoOwnerJob, OwnJobs, OwnPcs
    <3>. QED BY <3>1, <3>2, OwnershipAssumption DEF RequirePrimaryOwner, NoOwnerJob
  <2>3. CASE RevokeCoOwner(w)
    <3>1. PICK v \in CoOwners :
             RequirePrimaryOwner(w, [NoOwnerJob EXCEPT !.pc = "revoking", !.target = v])
      BY <2>3 DEF RevokeCoOwner
    <3>2. [NoOwnerJob EXCEPT !.pc = "revoking", !.target = v] \in OwnJobs
      BY OwnershipAssumption DEF NoOwnerJob, OwnJobs, OwnPcs
    <3>. QED BY <3>1, <3>2, OwnershipAssumption DEF RequirePrimaryOwner, NoOwnerJob
  <2>4. CASE InitiateTransfer(w)
    <3>1. PICK v \in Users :
             RequirePrimaryOwner(w, [NoOwnerJob EXCEPT !.pc = "nominating", !.target = v])
      BY <2>4 DEF InitiateTransfer
    <3>2. [NoOwnerJob EXCEPT !.pc = "nominating", !.target = v] \in OwnJobs
      BY DEF NoOwnerJob, OwnJobs, OwnPcs
    <3>. QED BY <3>1, <3>2 DEF RequirePrimaryOwner, NoOwnerJob
  <2>. QED BY <2>2, <2>3, <2>4
<1>. DEFINE r == [j EXCEPT !.who = IF j.pc = "nominating" THEN u ELSE "nobody"]
<1>2. r \in OwnJobs /\ r.pc # "assigning" /\ OwnFit(r)'
  BY <1>1 DEF OwnJobs, OwnFit, Primary
<1>3. ownJob' = [ownJob EXCEPT ![w] = r] /\ ~Assigning(w)
  BY <1>1 DEF Takes, Assigning, InOwnerJob, NoOwnerJob
<1>4. ~Unowned
  BY <1>1 DEF OwnershipInv, NothingAsked
<1>5. TransfersKept
  BY <1>1 DEF OwnershipInv, OwnershipType, TransfersKept
<1>. HIDE DEF r
<1>. QED BY <1>1, <1>2, <1>3, <1>4, <1>5, OwnersKept

LEMMA AccessKeeps ==
    ASSUME OwnershipInv, NEW w \in OwnerRequests, AddOwner(w) \/ RevokeOwner(w)
    PROVE  OwnershipInv'
<1>. ownJob[w] \in OwnJobs /\ OwnFit(ownJob[w])
  BY DEF OwnershipInv, OwnershipType, OwnFits
<1>1. /\ ownJob' = [ownJob EXCEPT ![w] = NoOwnerJob] /\ UNCHANGED <<registered, transfer, orphaned>>
      /\ ownJob[w].pc \notin {"idle", "registering", "assigning"}
  BY DEF AddOwner, RevokeOwner, Finishes, InOwnerJob
<1>2. owner' \subseteq Users \X {"primary", "secondary", "technical"}
  <2>1. owner \subseteq Users \X {"primary", "secondary", "technical"}
    BY DEF OwnershipInv, OwnershipType
  <2>2. CASE AddOwner(w)
    <3>1. /\ ownJob[w].target \in Users /\ ownJob[w].role \in {"secondary", "technical"}
          /\ owner' = owner \cup {<<ownJob[w].target, ownJob[w].role>>}
      BY <2>2, OwnershipAssumption DEF AddOwner, OwnFit, InOwnerJob
    <3>. QED BY <2>1, <3>1
  <2>3. CASE RevokeOwner(w)
    BY <2>1, <2>3 DEF RevokeOwner
  <2>. QED BY <2>2, <2>3
<1>3. Primary' = Primary
  <2>1. CASE AddOwner(w)
    <3>1. ownJob[w].role # "primary" /\ owner' = owner \cup {<<ownJob[w].target, ownJob[w].role>>}
      BY <2>1, OwnershipAssumption DEF AddOwner, InOwnerJob, OwnFit
    <3>. QED BY <3>1 DEF Primary
  <2>2. CASE RevokeOwner(w)
    BY <2>2 DEF RevokeOwner, Primary, Access
  <2>. QED BY <2>1, <2>2
<1>4. \E u \in Users : Primary = {u}
  <2>1. ~Unowned
    BY <1>1 DEF OwnershipInv, NothingAsked
  <2>. QED BY <2>1, OneWhenOwned
<1>. QED BY <1>1, <1>2, <1>3, <1>4, OwnersWritten

LEMMA TransferKeeps ==
    ASSUME OwnershipInv, NEW w \in OwnerRequests,
           CreateTransfer(w) \/ AcceptTransfer(w) \/ MarkResolved(w)
    PROVE  OwnershipInv'
<1>. USE NoOwnerJobFits
<1>. ownJob[w] \in OwnJobs /\ OwnFit(ownJob[w])
  BY DEF OwnershipInv, OwnershipType, OwnFits
<1>. transfer \in Seq(Transfers)
  BY DEF OwnershipInv, OwnershipType
<1>0. UNCHANGED transfer => TransfersKept
  BY DEF TransfersKept
<1>1. CASE CreateTransfer(w)
  <2>. DEFINE new == [from |-> ownJob[w].who, to |-> ownJob[w].target, status |-> "pending", late |-> FALSE]
  <2>1. /\ ownJob' = [ownJob EXCEPT ![w] = NoOwnerJob] /\ UNCHANGED <<registered, owner, orphaned>>
        /\ ownJob[w].pc = "nominating" /\ transfer' \in {transfer, Append(transfer, new)}
    BY <1>1 DEF CreateTransfer, Finishes, InOwnerJob
  <2>2. ~Unowned /\ ~Assigning(w)
    BY <2>1 DEF OwnershipInv, NothingAsked, Assigning, InOwnerJob
  <2>3. new \in Transfers
    BY <2>1 DEF OwnFit, Transfers
  <2>4. TransfersKept
    <3>. HIDE DEF new
    <3>1. CASE transfer' = Append(transfer, new)
      BY <2>3, <3>1 DEF TransfersKept
    <3>. QED BY <1>0, <2>1, <3>1
  <2>. QED BY <2>1, <2>2, <2>4, OwnersKept
<1>2. CASE AcceptTransfer(w)
  <2>1. PICK t \in PendingTransfer :
           Takes(w, [NoOwnerJob EXCEPT !.pc = IF transfer[t].late THEN "expiring" ELSE "accepting",
                                       !.who = transfer[t].from, !.target = transfer[t].to, !.t = t])
    BY <1>2 DEF AcceptTransfer
  <2>2. t \in DOMAIN transfer /\ t \in Nat /\ transfer[t] \in Transfers
    BY DEF PendingTransfer
  <2>3. UNCHANGED <<registered, owner, transfer, orphaned>>
    BY <1>2 DEF AcceptTransfer
  <2>4. PICK r \in OwnJobs :
           r = [NoOwnerJob EXCEPT !.pc = IF transfer[t].late THEN "expiring" ELSE "accepting",
                                  !.who = transfer[t].from, !.target = transfer[t].to, !.t = t]
    BY <2>2 DEF NoOwnerJob, OwnJobs, OwnPcs, Transfers
  <2>5. r.pc \in {"expiring", "accepting"} /\ OwnFit(r)'
    <3>1. /\ r.pc \in {"expiring", "accepting"} /\ r.t = t
          /\ r.who = transfer[t].from /\ r.target = transfer[t].to
      BY <2>4 DEF NoOwnerJob
    <3>. QED BY <2>2, <2>3, <3>1 DEF OwnFit
  <2>6. ownJob' = [ownJob EXCEPT ![w] = r] /\ ~Assigning(w)
    BY <2>1, <2>4 DEF Takes, Assigning, InOwnerJob, NoOwnerJob
  <2>7. ~Unowned
    BY <2>2 DEF OwnershipInv, NothingAsked
  <2>. QED BY <1>0, <2>3, <2>5, <2>6, <2>7, OwnersKept
<1>3. CASE MarkResolved(w)
  <2>. DEFINE t == ownJob[w].t
  <2>1. /\ ownJob[w].pc \in {"accepting", "expiring"} /\ UNCHANGED <<registered, owner, orphaned>>
        /\ ~Assigning(w)
    BY <1>3 DEF MarkResolved, Assigning, InOwnerJob
  <2>2. ~Unowned
    BY <2>1 DEF OwnershipInv, NothingAsked
  <2>3. t \in DOMAIN transfer /\ transfer[t].from = ownJob[w].who /\ transfer[t].to = ownJob[w].target
    BY <2>1 DEF OwnFit
  <2>4. CASE t \notin PendingTransfer
    <3>1. UNCHANGED transfer /\ ownJob' = [ownJob EXCEPT ![w] = NoOwnerJob]
      BY <1>3, <2>4 DEF MarkResolved, Finishes
    <3>. QED BY <1>0, <2>1, <2>2, <3>1, OwnersKept
  <2>5. ASSUME t \in PendingTransfer, NEW st \in {"expired", "accepted"},
               transfer' = [transfer EXCEPT ![t].status = st]
        PROVE  TransfersKept /\ transfer'[t] = [transfer[t] EXCEPT !.status = st] /\ DOMAIN transfer' = DOMAIN transfer
    <3>1. transfer[t] \in Transfers
      BY <2>3
    <3>2. [transfer[t] EXCEPT !.status = st] \in Transfers
      BY <3>1 DEF Transfers
    <3>3. transfer' \in Seq(Transfers) /\ DOMAIN transfer' = DOMAIN transfer
      BY <2>3, <2>5, <3>2
    <3>. QED BY <2>3, <2>5, <3>1, <3>3 DEF TransfersKept, PendingTransfer, Transfers
  <2>6. CASE t \in PendingTransfer /\ ownJob[w].pc = "expiring"
    <3>1. ownJob' = [ownJob EXCEPT ![w] = NoOwnerJob] /\ TransfersKept
      BY <1>3, <2>5, <2>6 DEF MarkResolved, Finishes
    <3>. QED BY <2>1, <2>2, <3>1, OwnersKept
  <2>7. CASE t \in PendingTransfer /\ ownJob[w].pc = "accepting"
    <3>0. PICK r \in OwnJobs : r = [ownJob[w] EXCEPT !.pc = "replacing"]
      BY DEF OwnJobs, OwnPcs
    <3>1. /\ ownJob' = [ownJob EXCEPT ![w] = r] /\ TransfersKept
          /\ transfer'[t] = [transfer[t] EXCEPT !.status = "accepted"] /\ DOMAIN transfer' = DOMAIN transfer
      BY <1>3, <2>5, <2>7, <3>0 DEF MarkResolved, Proceeds, OwnershipInv, OwnershipType
    <3>2. r.pc = "replacing" /\ r.t = t /\ r.who = ownJob[w].who /\ r.target = ownJob[w].target
      BY <3>0 DEF OwnJobs
    <3>3. transfer'[t].status = "accepted" /\ transfer'[t].from = r.who /\ transfer'[t].to = r.target
      BY <2>3, <3>1, <3>2 DEF Transfers
    <3>4. OwnFit(r)'
      BY <2>3, <3>1, <3>2, <3>3 DEF OwnFit
    <3>. QED BY <2>1, <2>2, <3>1, <3>2, <3>4, OwnersKept
  <2>. QED BY <2>1, <2>4, <2>6, <2>7
<1>. QED BY <1>1, <1>2, <1>3

LEMMA ReplacementKeeps ==
    ASSUME OwnershipInv, NEW w \in OwnerRequests, ReplacePrimaryOwner(w)
    PROVE  /\ OwnershipInv'
           /\ \A u \in Primary, v \in Primary' : u # v => u = ownJob[w].who /\ v = ownJob[w].target
<1>. DEFINE j == ownJob[w]
<1>1. /\ j \in OwnJobs /\ OwnFit(j) /\ j.pc = "replacing"
      /\ ownJob' = [ownJob EXCEPT ![w] = NoOwnerJob] /\ UNCHANGED <<registered, transfer, orphaned>>
  BY DEF ReplacePrimaryOwner, OwnershipInv, OwnershipType, OwnFits, InOwnerJob, Finishes
<1>2. ~Unowned
  BY <1>1 DEF OwnershipInv, NothingAsked
<1>3. PICK p \in Users : Primary = {p}
  BY <1>2, OneWhenOwned
<1>4. j.target \in Users
  <2>1. j.t \in DOMAIN transfer /\ transfer[j.t] \in Transfers /\ transfer[j.t].to = j.target
    BY <1>1 DEF OwnFit, OwnershipInv, OwnershipType
  <2>. QED BY <2>1 DEF Transfers
<1>5. CASE Primary \ (Replaced(j.who) \cup {j.target}) # {}
  <2>1. owner' = owner
    BY <1>5 DEF ReplacePrimaryOwner, RolledBack
  <2>2. Primary' = {p} /\ owner' \subseteq Users \X {"primary", "secondary", "technical"}
    BY <1>3, <2>1 DEF Primary, OwnershipInv, OwnershipType
  <2>. QED BY <1>1, <1>3, <2>2, OwnersWritten
<1>6. CASE Primary \ (Replaced(j.who) \cup {j.target}) = {}
  <2>1. owner' = (owner \ ((Replaced(j.who) \X {"primary"}) \cup Access(j.target)))
                     \cup {<<j.target, "primary">>}
    BY <1>6 DEF ReplacePrimaryOwner
  <2>2. owner' \subseteq Users \X {"primary", "secondary", "technical"}
    BY <1>4, <2>1 DEF OwnershipInv, OwnershipType
  <2>3. \A v \in Users : <<v, "primary">> \in owner' <=> (<<v, "primary">> \in owner /\ v \notin Replaced(j.who)) \/ v = j.target
    BY <2>1 DEF Access
  <2>4. Primary' = (Primary \ Replaced(j.who)) \cup {j.target}
    BY <1>4, <2>3 DEF Primary
  <2>5. Primary' = {j.target} /\ (p = j.who \/ p = j.target)
    BY <1>3, <1>6, <2>4 DEF Replaced
  <2>. QED BY <1>1, <1>3, <1>4, <2>2, <2>5, OwnersWritten
<1>. QED BY <1>5, <1>6

LEMMA BreakingKeeps ==
    ASSUME OwnershipInv, NEW w \in OwnerRequests, OwnerRequestBreaks(w)
    PROVE  OwnershipInv'
<1>. USE NoOwnerJobFits
<1>1. /\ ownJob' = [ownJob EXCEPT ![w] = NoOwnerJob] /\ UNCHANGED <<registered, owner, transfer>>
      /\ orphaned' = (orphaned \/ Assigning(w))
  BY DEF OwnerRequestBreaks, Finishes, RolledBack, Assigning
<1>2. TransfersKept
  BY <1>1 DEF OwnershipInv, OwnershipType, TransfersKept
<1>3. CASE ~Assigning(w)
  <2>1. orphaned' = orphaned /\ (Unowned => transfer' = <<>>)
    BY <1>1, <1>3 DEF OwnershipInv, OwnershipType, NothingAsked
  <2>. QED BY <1>1, <1>2, <1>3, <2>1, OwnersKept
<1>4. CASE Assigning(w)
  <2>1. /\ ownJob' \in [OwnerRequests -> OwnJobs] /\ OwnFits'
        /\ ownJob'[w] = NoOwnerJob /\ \A v \in OwnerRequests : v # w => ownJob'[v] = ownJob[v]
    BY <1>1, <1>2, OwnerMoves
  <2>2. orphaned' /\ Unowned' /\ Unowned /\ registered
    BY <1>1, <1>4 DEF Unowned, OwnershipInv, FirstOwner
  <2>3. \A v \in OwnerRequests : ~Assigning(v)'
    BY <1>4, <2>1 DEF OwnershipInv, FirstOwner, Assigning, InOwnerJob
  <2>4. Primary' = {} /\ transfer' = <<>>
    BY <1>1, <2>2 DEF OwnershipInv, NothingAsked, Primary
  <2>5. NothingAsked'
    BY <2>1, <2>2, <2>4 DEF OwnershipInv, NothingAsked
  <2>6. FirstOwner' /\ Owned' /\ AtMostOnePrimary'
    BY <1>1, <2>2, <2>3, <2>4 DEF FirstOwner, Owned, AtMostOnePrimary
  <2>7. OwnershipType'
    BY <1>1, <2>1, <2>2 DEF OwnershipInv, OwnershipType
  <2>. QED BY <2>1, <2>5, <2>6, <2>7 DEF OwnershipInv
<1>. QED BY <1>3, <1>4

LEMMA ExpiryKeeps ==
    ASSUME OwnershipInv, TransferExpires
    PROVE  OwnershipInv'
<1>1. PICK t \in PendingTransfer : transfer' = [transfer EXCEPT ![t].late = TRUE]
  BY DEF TransferExpires
<1>2. UNCHANGED <<registered, owner, ownJob, orphaned>>
  BY DEF TransferExpires
<1>3. transfer \in Seq(Transfers) /\ t \in DOMAIN transfer /\ transfer[t] \in Transfers
  BY DEF OwnershipInv, OwnershipType, PendingTransfer
<1>4. [transfer[t] EXCEPT !.late = TRUE] \in Transfers
  BY <1>3 DEF Transfers
<1>5. TransfersKept
  <2>1. transfer' \in Seq(Transfers) /\ DOMAIN transfer' = DOMAIN transfer
    BY <1>1, <1>3, <1>4
  <2>. QED BY <1>1, <1>3, <2>1 DEF TransfersKept, Transfers
<1>6. OwnFits'
  BY <1>2, <1>5 DEF OwnershipInv, OwnFits, OwnFit, TransfersKept
<1>7. OwnershipType'
  BY <1>2, <1>5 DEF OwnershipInv, OwnershipType, TransfersKept
<1>8. ~Unowned /\ (Unowned' <=> Unowned) /\ Primary' = Primary
  BY <1>2, <1>3 DEF OwnershipInv, NothingAsked, Unowned, Assigning, InOwnerJob, Primary
<1>9. FirstOwner'
  BY <1>2 DEF OwnershipInv, FirstOwner, Assigning, InOwnerJob
<1>10. NothingAsked' /\ Owned' /\ AtMostOnePrimary'
  BY <1>8 DEF OwnershipInv, NothingAsked, Owned, AtMostOnePrimary
<1>. QED BY <1>6, <1>7, <1>9, <1>10 DEF OwnershipInv

LEMMA OwnershipStep ==
    ASSUME OwnershipInv, [OwnershipNext]_ownerVars
    PROVE  OwnershipInv'
<1>1. CASE UNCHANGED ownerVars
  BY <1>1 DEF ownerVars, OwnershipInv, OwnershipType, OwnFits, OwnFit, NothingAsked, FirstOwner, Owned,
              AtMostOnePrimary, Unowned, Assigning, InOwnerJob, Primary
<1>2. CASE OwnershipNext
  BY <1>2, ExpiryKeeps, RegistrationKeeps, AskingKeeps, AccessKeeps, TransferKeeps, ReplacementKeeps,
     BreakingKeeps DEF OwnershipNext
<1>. QED BY <1>1, <1>2

LEMMA OwnershipInvariant == OwnershipSpec => []OwnershipInv
  BY OwnershipInitial, OwnershipStep, PTL DEF OwnershipSpec

\* Whatever overlaps or breaks, a registered application whose registration
\* is through has one primary owner.
THEOREM OnePrimaryAlways == OwnershipSpec => []OnePrimary
<1>1. OwnershipInv => OnePrimary
  <2>. SUFFICES ASSUME OwnershipInv, registered /\ ~orphaned,
                       \A w \in OwnerRequests : ~InOwnerJob(w, "assigning")
                PROVE  Cardinality(Primary) = 1
    BY DEF OnePrimary
  <2>1. ~Unowned
    BY DEF Unowned, Assigning
  <2>. QED BY <2>1, OneWhenOwned, FS_Singleton
<1>. QED BY OwnershipInvariant, <1>1, PTL

\* The primary owner changes only by a nomination of the one before that the
\* one after has accepted.
THEOREM HandedOverAlways == OwnershipSpec => HandedOver
<1>. DEFINE Passed ==
        \A u \in Primary, v \in Primary' : u # v =>
           \E t \in DOMAIN transfer :
              transfer[t] = [from |-> u, to |-> v, status |-> "accepted", late |-> transfer[t].late]
<1>1. ASSUME OwnershipInv, [OwnershipNext]_ownerVars PROVE [Passed]_ownerVars
  <2>1. CASE UNCHANGED owner
    <3>1. Primary' = Primary
      BY <2>1 DEF Primary
    <3>. QED BY <1>1, <3>1 DEF OwnershipInv, AtMostOnePrimary
  <2>2. ASSUME NEW w \in OwnerRequests, AssignPrimaryOwner(w) PROVE Passed
    <3>1. Primary = {}
      BY <1>1, <2>2 DEF AssignPrimaryOwner, OwnershipInv, NothingAsked, Unowned, Assigning
    <3>. QED BY <3>1
  <2>3. ASSUME NEW w \in OwnerRequests, AddOwner(w) \/ RevokeOwner(w) PROVE Passed
    <3>1. OwnFit(ownJob[w])
      BY <1>1 DEF OwnershipInv, OwnFits
    <3>2. Primary' \subseteq Primary
      BY <2>3, <3>1, OwnershipAssumption DEF AddOwner, RevokeOwner, OwnFit, InOwnerJob, Primary, Access
    <3>. QED BY <1>1, <3>2 DEF OwnershipInv, AtMostOnePrimary
  <2>4. ASSUME NEW w \in OwnerRequests, ReplacePrimaryOwner(w) PROVE Passed
    <3>. DEFINE t == ownJob[w].t
    <3>1. \A u \in Primary, v \in Primary' : u # v => u = ownJob[w].who /\ v = ownJob[w].target
      BY <1>1, <2>4, ReplacementKeeps
    <3>2. OwnFit(ownJob[w]) /\ ownJob[w].pc = "replacing"
      BY <1>1, <2>4 DEF OwnershipInv, OwnFits, ReplacePrimaryOwner, InOwnerJob
    <3>3. /\ t \in DOMAIN transfer /\ transfer[t] \in Transfers
          /\ transfer[t].from = ownJob[w].who /\ transfer[t].to = ownJob[w].target
          /\ transfer[t].status = "accepted"
      BY <1>1, <3>2 DEF OwnFit, OwnershipInv, OwnershipType
    <3>4. transfer[t] = [from |-> ownJob[w].who, to |-> ownJob[w].target, status |-> "accepted", late |-> transfer[t].late]
      BY <3>3 DEF Transfers
    <3>. QED BY <3>1, <3>3, <3>4
  <2>5. ASSUME NEW w \in OwnerRequests, OwnerRequestBreaks(w) PROVE UNCHANGED owner
    BY <2>5 DEF OwnerRequestBreaks, RolledBack
  <2>6. CASE UNCHANGED ownerVars
    BY <2>1, <2>6 DEF ownerVars
  <2>. HIDE DEF Passed
  <2>7. CASE OwnershipNext
    BY <2>1, <2>2, <2>3, <2>4, <2>5, <2>7 DEF OwnershipNext, TransferExpires, RegisterApplication,
       CreateApplication, GrantCoOwner, RevokeCoOwner, InitiateTransfer, RequirePrimaryOwner, CreateTransfer,
       AcceptTransfer, MarkResolved
  <2>. QED BY <1>1, <2>6, <2>7
<1>. QED BY OwnershipInvariant, <1>1, PTL DEF OwnershipSpec, HandedOver

(***************************************************************************)
(* Contract                                                                *)
(***************************************************************************)
ConPcs == {"idle", "saving", "revising", "marking", "starting", "listing", "checking", "compiling", "asking"}
ConJobs == [pc : ConPcs, c : Contracts, from : Drafting \cup Deployed, granted : BOOLEAN]

ContractType ==
    /\ status \in Drafting \cup Deployed
    /\ contract \in Contracts /\ image \in Contracts
    /\ data \in Engines \cup {"none"}
    /\ exceptions \in Seq({"pending", "approved", "rejected"})
    /\ conJob \in [Editors \cup Askers -> ConJobs]

\* What was granted when a build began is still approved.
GrantsKept == \A w \in Editors \cup Askers : conJob[w].granted => Approved

StandardInv == ContractType /\ GrantsKept

\* A database has data in it only once the application was deployed.
DataDeployed == data # "none" => status \in Deployed

\* What a change and a build go on with: a revision that was checked, a
\* contract that was validated.
Building(j) == j.pc \in {"starting", "listing", "checking", "compiling"}
ConFit(j) ==
    /\ j.pc = "revising" => j.c.valid /\ KeepsDatabase(contract, j.c) /\ status \in Deployed
    /\ j.pc = "marking" => contract.valid
    /\ Building(j) => j.c.valid /\ j.from # "draft"
ConFits == \A w \in Editors : ConFit(conJob[w])

ContractInv == ContractSound /\ DataDeployed /\ ConFits

LEMMA StandardInitial == ContractInit => StandardInv /\ ContractInv
<1>. SUFFICES ASSUME ContractInit PROVE StandardInv /\ ContractInv
  OBVIOUS
<1>1. NoConJob \in ConJobs /\ NoContract \in Contracts
  BY DEF NoConJob, ConJobs, ConPcs, Contracts, NoContract, Drafting
<1>2. \A w \in Editors \cup Askers : conJob[w] = NoConJob
  BY DEF ContractInit
<1>3. conJob \in [Editors \cup Askers -> ConJobs]
  BY <1>1 DEF ContractInit
<1>4. exceptions \in Seq({"pending", "approved", "rejected"})
  BY DEF ContractInit
<1>5. ContractType
  BY <1>1, <1>3, <1>4 DEF ContractInit, ContractType, Drafting
<1>6. GrantsKept
  BY <1>2 DEF GrantsKept, NoConJob
<1>7. ContractInv
  BY <1>2 DEF ContractInit, ContractInv, ContractSound, DataDeployed, ConFits, ConFit, Building, NoConJob
<1>. QED BY <1>5, <1>6, <1>7 DEF StandardInv

\* A request that takes no grant with it.
LEMMA RequestKeepsStandard ==
    ASSUME StandardInv, NEW w \in Editors \cup Askers, NEW r \in ConJobs,
           conJob' = [conJob EXCEPT ![w] = r], r.granted => Approved, UNCHANGED exceptions,
           status' \in Drafting \cup Deployed, contract' \in Contracts, image' \in Contracts,
           data' \in Engines \cup {"none"}
    PROVE  StandardInv'
<1>1. /\ conJob' \in [Editors \cup Askers -> ConJobs]
      /\ conJob'[w] = r /\ \A v \in Editors \cup Askers : v # w => conJob'[v] = conJob[v]
  BY DEF StandardInv, ContractType
<1>2. ContractType'
  BY <1>1 DEF StandardInv, ContractType
<1>3. GrantsKept'
  BY <1>1 DEF StandardInv, GrantsKept, Approved
<1>. QED BY <1>2, <1>3 DEF StandardInv

\* What each step of an editor does to its request and the application.
Edits(w) ==
    \/ SaveDeploymentYAML(w) \/ UpdateDeploymentYAML(w) \/ ReviseDeploymentYAML(w)
    \/ Validate(w) \/ MarkValidated(w)
    \/ TriggerBuild(w) \/ StartBuild(w) \/ ListDependencyRules(w)
    \/ SourceFailure(w) \/ ScanHashRouting(w) \/ FinishBuild(w)

LEMMA NoConJobTyped ==
    NoConJob \in ConJobs /\ NoConJob.pc = "idle" /\ ~NoConJob.granted /\ NoContract \in Contracts
  BY DEF NoConJob, ConJobs, ConPcs, Contracts, NoContract, Drafting

LEMMA EditKeepsStandard ==
    ASSUME StandardInv, NEW w \in Editors, Edits(w)
    PROVE  /\ StandardInv'
           /\ conJob[w].pc = "checking" /\ conJob'[w].pc = "idle" => ~conJob[w].granted
           /\ \A v \in Editors : v # w => conJob'[v] = conJob[v]
<1>. USE NoConJobTyped
<1>. conJob[w] \in ConJobs /\ contract \in Contracts /\ image \in Contracts
     /\ status \in Drafting \cup Deployed /\ data \in Engines \cup {"none"}
     /\ conJob \in [Editors \cup Askers -> ConJobs] /\ (conJob[w].granted => Approved)
  BY DEF StandardInv, ContractType, GrantsKept
<1>1. ASSUME NEW r \in ConJobs, conJob' = [conJob EXCEPT ![w] = r]
      PROVE  conJob'[w] = r /\ \A v \in Editors : v # w => conJob'[v] = conJob[v]
  BY <1>1
<1>2. ASSUME NEW pc \in ConPcs, Moves(w, pc)
      PROVE  \E r \in ConJobs : /\ conJob' = [conJob EXCEPT ![w] = r] /\ r.pc = pc
                                /\ r.granted = conJob[w].granted
  <2>. PICK r \in ConJobs : r = [conJob[w] EXCEPT !.pc = pc]
    BY DEF ConJobs
  <2>. QED BY <1>2 DEF Moves, ConJobs
<1>3. CASE SaveDeploymentYAML(w)
  <2>1. PICK c \in Contracts, pc \in {"revising", "saving"} :
           Asked(w, [NoConJob EXCEPT !.pc = pc, !.c = c])
    BY <1>3 DEF SaveDeploymentYAML
  <2>2. PICK r \in ConJobs : r = [NoConJob EXCEPT !.pc = pc, !.c = c]
    BY DEF NoConJob, ConJobs, ConPcs
  <2>3. conJob' = [conJob EXCEPT ![w] = r] /\ ~r.granted /\ conJob[w] = NoConJob
    BY <2>1, <2>2 DEF Asked, NoConJob
  <2>4. UNCHANGED <<status, contract, image, data, exceptions>>
    BY <1>3 DEF SaveDeploymentYAML, contractVars, standardVars
  <2>. QED BY <1>1, <2>3, <2>4, RequestKeepsStandard
<1>4. CASE UpdateDeploymentYAML(w) \/ ReviseDeploymentYAML(w) \/ MarkValidated(w)
  <2>1. /\ conJob' = [conJob EXCEPT ![w] = NoConJob] /\ conJob[w].pc # "checking"
        /\ UNCHANGED <<image, data, exceptions>>
    BY <1>4 DEF UpdateDeploymentYAML, ReviseDeploymentYAML, MarkValidated, Answered, InConJob, standardVars
  <2>2. contract' \in Contracts /\ status' \in Drafting \cup Deployed
    BY <1>4 DEF UpdateDeploymentYAML, ReviseDeploymentYAML, MarkValidated, ConJobs, Drafting
  <2>. QED BY <1>1, <2>1, <2>2, RequestKeepsStandard
<1>5. CASE Validate(w)
  <2>1. PICK r \in ConJobs : r = [NoConJob EXCEPT !.pc = "marking"]
    BY DEF NoConJob, ConJobs, ConPcs
  <2>2. conJob' = [conJob EXCEPT ![w] = r] /\ ~r.granted /\ conJob[w] = NoConJob
    BY <1>5, <2>1 DEF Validate, Asked, NoConJob
  <2>3. UNCHANGED <<status, contract, image, data, exceptions>>
    BY <1>5 DEF Validate, contractVars, standardVars
  <2>. QED BY <1>1, <2>2, <2>3, RequestKeepsStandard
<1>6. CASE TriggerBuild(w)
  <2>1. PICK r \in ConJobs : r = [pc |-> "starting", c |-> contract, from |-> status, granted |-> Approved]
    BY DEF ConJobs, ConPcs, Approved
  <2>2. conJob' = [conJob EXCEPT ![w] = r] /\ (r.granted => Approved) /\ conJob[w] = NoConJob
    BY <1>6, <2>1 DEF TriggerBuild, Asked, Approved
  <2>3. UNCHANGED <<status, contract, image, data, exceptions>>
    BY <1>6 DEF TriggerBuild, contractVars, standardVars
  <2>. QED BY <1>1, <2>2, <2>3, RequestKeepsStandard
<1>7. CASE StartBuild(w) \/ ListDependencyRules(w)
  <2>1. PICK r \in ConJobs : /\ conJob' = [conJob EXCEPT ![w] = r]
                             /\ r.granted => conJob[w].granted
                             /\ conJob[w].pc # "checking"
    BY <1>2, <1>7 DEF StartBuild, ListDependencyRules, Answered, ConPcs, InConJob
  <2>2. UNCHANGED <<contract, image, data, exceptions>> /\ status' \in {status, "build"}
    BY <1>7 DEF StartBuild, ListDependencyRules, contractVars, standardVars
  <2>. QED BY <1>1, <2>1, <2>2, RequestKeepsStandard DEF Deployed
<1>8. CASE SourceFailure(w) \/ ScanHashRouting(w) \/ FinishBuild(w)
  <2>1. UNCHANGED <<contract, data, exceptions>>
    BY <1>8 DEF SourceFailure, ScanHashRouting, FinishBuild, standardVars
  <2>2. image' \in Contracts /\ status' \in Drafting \cup Deployed
    BY <1>8 DEF SourceFailure, ScanHashRouting, FinishBuild, MarkFailed, ConJobs, Deployed
  <2>3. PICK r \in ConJobs : /\ conJob' = [conJob EXCEPT ![w] = r]
                             /\ r.granted => conJob[w].granted
                             /\ conJob[w].pc = "checking" /\ r.pc = "idle" => ~Approved
    BY <1>2, <1>8 DEF SourceFailure, ScanHashRouting, FinishBuild, MarkFailed, Answered, ConPcs, InConJob
  <2>. QED BY <1>1, <2>1, <2>2, <2>3, RequestKeepsStandard
<1>. QED BY <1>3, <1>4, <1>5, <1>6, <1>7, <1>8 DEF Edits

LEMMA AskerKeepsStandard ==
    ASSUME StandardInv, NEW w \in Askers, RequestException(w) \/ CreateException(w)
    PROVE  /\ StandardInv' /\ UNCHANGED contractVars
           /\ \E r \in ConJobs : /\ conJob' = [conJob EXCEPT ![w] = r] /\ r.pc \in {"asking", "idle"}
                                 /\ conJob[w].pc # "checking"
<1>. USE NoConJobTyped
<1>0. UNCHANGED contractVars
  BY DEF RequestException, CreateException
<1>1. CASE RequestException(w)
  <2>1. PICK r \in ConJobs : r = [NoConJob EXCEPT !.pc = "asking"]
    BY DEF NoConJob, ConJobs, ConPcs
  <2>2. conJob' = [conJob EXCEPT ![w] = r] /\ ~r.granted /\ conJob[w] = NoConJob /\ r.pc = "asking"
    BY <1>1, <2>1 DEF RequestException, Asked, NoConJob
  <2>3. UNCHANGED <<status, contract, image, data, exceptions>>
    BY <1>1 DEF RequestException, contractVars, standardVars
  <2>4. StandardInv'
    <3>1. status' \in Drafting \cup Deployed /\ contract' \in Contracts /\ image' \in Contracts
          /\ data' \in Engines \cup {"none"}
      BY <2>3 DEF StandardInv, ContractType
    <3>. QED BY <2>2, <2>3, <3>1, RequestKeepsStandard
  <2>. QED BY <1>0, <2>2, <2>4
<1>2. CASE CreateException(w)
  <2>1. /\ conJob' = [conJob EXCEPT ![w] = NoConJob] /\ conJob[w].pc = "asking"
        /\ exceptions' = Append(exceptions, "pending")
    BY <1>2 DEF CreateException, Answered, InConJob
  <2>2. exceptions' \in Seq({"pending", "approved", "rejected"}) /\ (Approved => Approved')
    BY <2>1 DEF StandardInv, ContractType, Approved
  <2>3. /\ conJob' \in [Editors \cup Askers -> ConJobs] /\ conJob'[w] = NoConJob
        /\ \A v \in Editors \cup Askers : v # w => conJob'[v] = conJob[v]
    BY <2>1 DEF StandardInv, ContractType
  <2>4. ContractType'
    BY <1>0, <2>2, <2>3 DEF StandardInv, ContractType, contractVars
  <2>5. GrantsKept'
    BY <2>2, <2>3 DEF StandardInv, GrantsKept
  <2>. QED BY <1>0, <2>1, <2>4, <2>5 DEF StandardInv
<1>. QED BY <1>1, <1>2

LEMMA RestKeepsStandard ==
    ASSUME StandardInv,
           PutProfile \/ AddDependencyRule \/ RemoveDependencyRule \/ DecideException \/ DeployContract
             \/ UNCHANGED conVars
    PROVE  StandardInv' /\ UNCHANGED conJob
<1>1. UNCHANGED conJob
  BY DEF PutProfile, AddDependencyRule, RemoveDependencyRule, DecideException, DeployContract, conVars
<1>2. UNCHANGED exceptions \/ DecideException
  BY DEF PutProfile, AddDependencyRule, RemoveDependencyRule, DeployContract, conVars, standardVars
<1>3. exceptions' \in Seq({"pending", "approved", "rejected"}) /\ (Approved => Approved')
  <2>1. CASE DecideException
    <3>1. PICK e \in DOMAIN exceptions, verdict \in {"approved", "rejected"} :
             exceptions[e] = "pending" /\ exceptions' = [exceptions EXCEPT ![e] = verdict]
      BY <2>1 DEF DecideException
    <3>2. exceptions \in Seq({"pending", "approved", "rejected"})
      BY DEF StandardInv, ContractType
    <3>3. exceptions' \in Seq({"pending", "approved", "rejected"}) /\ DOMAIN exceptions' = DOMAIN exceptions
      BY <3>1, <3>2
    <3>. QED BY <3>1, <3>2, <3>3 DEF Approved
  <2>. QED BY <1>2, <2>1 DEF StandardInv, ContractType, Approved
<1>4. /\ status' \in Drafting \cup Deployed /\ contract' \in Contracts /\ image' \in Contracts
      /\ data' \in Engines \cup {"none"}
  <2>1. CASE UNCHANGED contractVars
    BY <2>1 DEF contractVars, StandardInv, ContractType
  <2>2. CASE DeployContract
    BY <2>2 DEF DeployContract, StandardInv, ContractType, Contracts, Deployed
  <2>. QED BY <2>1, <2>2 DEF PutProfile, AddDependencyRule, RemoveDependencyRule, DecideException,
                             conVars, contractVars
<1>5. ContractType'
  BY <1>1, <1>3, <1>4 DEF StandardInv, ContractType
<1>6. GrantsKept'
  BY <1>1, <1>3 DEF StandardInv, GrantsKept
<1>. QED BY <1>1, <1>5, <1>6 DEF StandardInv

LEMMA StandardStep ==
    ASSUME StandardInv, [ContractNext]_conVars
    PROVE  StandardInv'
  BY EditKeepsStandard, AskerKeepsStandard, RestKeepsStandard DEF ContractNext, Edits

LEMMA StandardInvariant == ContractSpec => []StandardInv
  BY StandardInitial, StandardStep, PTL DEF ContractSpec

\* A build that began with an approved exception is never failed for the
\* library, whatever is asked or decided meanwhile.
THEOREM ExceptionAlwaysHonoured == ContractSpec => ExceptionHonoured
<1>. DEFINE Honoured == \A w \in Editors :
        InConJob(w, "checking") /\ conJob'[w].pc = "idle" => ~conJob[w].granted
<1>1. ASSUME StandardInv, [ContractNext]_conVars PROVE Honoured
  <2>0. \A w \in Editors \cup Askers : conJob[w] \in ConJobs
    BY <1>1 DEF StandardInv, ContractType
  <2>1. ASSUME NEW w \in Editors, Edits(w) PROVE Honoured
    <3>1. /\ conJob[w].pc = "checking" /\ conJob'[w].pc = "idle" => ~conJob[w].granted
          /\ \A v \in Editors : v # w => conJob'[v] = conJob[v]
      BY <1>1, <2>1, EditKeepsStandard
    <3>. QED BY <3>1 DEF InConJob
  <2>2. ASSUME NEW w \in Askers, RequestException(w) \/ CreateException(w) PROVE Honoured
    <3>1. PICK r \in ConJobs : conJob' = [conJob EXCEPT ![w] = r] /\ conJob[w].pc # "checking"
      BY <1>1, <2>2, AskerKeepsStandard
    <3>2. \A v \in Editors : v # w => conJob'[v] = conJob[v]
      BY <1>1, <3>1 DEF StandardInv, ContractType
    <3>. QED BY <3>1, <3>2 DEF InConJob
  <2>3. CASE PutProfile \/ AddDependencyRule \/ RemoveDependencyRule \/ DecideException \/ DeployContract
             \/ UNCHANGED conVars
    <3>1. UNCHANGED conJob
      BY <1>1, <2>3, RestKeepsStandard
    <3>. QED BY <3>1 DEF InConJob
  <2>. HIDE DEF Honoured
  <2>. QED BY <1>1, <2>1, <2>2, <2>3 DEF ContractNext, Edits
<1>. QED BY StandardInvariant, <1>1, PTL DEF ContractSpec, ExceptionHonoured

(***************************************************************************)
(* One change at a time                                                    *)
(***************************************************************************)
OneEditor == \A v, w \in Editors : v = w

LEMMA EditKeepsContract ==
    ASSUME OneEditor, StandardInv, ContractInv, NEW w \in Editors, Edits(w)
    PROVE  ContractInv'
<1>. USE NoConJobTyped
<1>0. /\ conJob[w] \in ConJobs /\ contract \in Contracts /\ image \in Contracts
      /\ status \in Drafting \cup Deployed /\ data \in Engines \cup {"none"}
      /\ conJob \in [Editors \cup Askers -> ConJobs] /\ ConFit(conJob[w])
  BY DEF StandardInv, ContractType, ContractInv, ConFits
<1>1. ASSUME ConFit(conJob[w])' PROVE ConFits'
  BY <1>1 DEF OneEditor, ConFits
<1>2. ASSUME UNCHANGED contractVars PROVE ContractSound' /\ DataDeployed'
  BY <1>2 DEF contractVars, ContractInv, ContractSound, DataDeployed
<1>3. ASSUME conJob' = [conJob EXCEPT ![w] = NoConJob] PROVE ConFit(conJob[w])'
  <2>1. conJob'[w] = NoConJob
    BY <1>0, <1>3
  <2>. QED BY <2>1 DEF ConFit, Building
<1>4. CASE SaveDeploymentYAML(w)
  <2>1. PICK c \in Contracts :
           IF status \in Deployed
           THEN /\ KeepsDatabase(contract, c) /\ Passes(c)
                /\ Asked(w, [NoConJob EXCEPT !.pc = "revising", !.c = c])
           ELSE Asked(w, [NoConJob EXCEPT !.pc = "saving", !.c = c])
    BY <1>4 DEF SaveDeploymentYAML
  <2>2. conJob'[w].pc \in {"revising", "saving"} /\ conJob'[w].c = c
        /\ (conJob'[w].pc = "revising" => KeepsDatabase(contract, c) /\ c.valid /\ status \in Deployed)
    BY <1>0, <2>1 DEF Asked, Passes, NoConJob
  <2>3. UNCHANGED contractVars
    BY <1>4 DEF SaveDeploymentYAML
  <2>4. ConFit(conJob[w])'
    BY <2>2, <2>3 DEF ConFit, Building, contractVars, KeepsDatabase
  <2>. QED BY <1>1, <1>2, <2>3, <2>4 DEF ContractInv
<1>5. CASE UpdateDeploymentYAML(w)
  <2>1. ContractSound' /\ DataDeployed'
    BY <1>0, <1>5 DEF UpdateDeploymentYAML, ContractInv, ContractSound, DataDeployed, Drafting, Deployed
  <2>. QED BY <1>1, <1>3, <1>5, <2>1 DEF UpdateDeploymentYAML, Answered, ContractInv
<1>6. CASE ReviseDeploymentYAML(w)
  <2>1. conJob[w].c.valid /\ KeepsDatabase(contract, conJob[w].c) /\ conJob[w].c \in Contracts
    BY <1>0, <1>6 DEF ReviseDeploymentYAML, InConJob, ConFit, ConJobs
  <2>2. ContractSound' /\ DataDeployed'
    BY <1>0, <1>6, <2>1 DEF ReviseDeploymentYAML, ContractInv, ContractSound, DataDeployed, KeepsDatabase
  <2>. QED BY <1>1, <1>3, <1>6, <2>2 DEF ReviseDeploymentYAML, Answered, ContractInv
<1>7. CASE Validate(w)
  <2>1. conJob'[w].pc = "marking" /\ UNCHANGED contractVars /\ contract.valid
    BY <1>0, <1>7 DEF Validate, Asked, NoConJob, Passes
  <2>2. ConFit(conJob[w])'
    BY <2>1 DEF ConFit, Building, contractVars
  <2>. QED BY <1>1, <1>2, <2>1, <2>2 DEF ContractInv
<1>8. CASE MarkValidated(w)
  <2>1. contract.valid
    BY <1>0, <1>8 DEF MarkValidated, InConJob, ConFit
  <2>2. ContractSound' /\ DataDeployed'
    BY <1>0, <1>8, <2>1 DEF MarkValidated, ContractInv, ContractSound, DataDeployed, Drafting, Deployed
  <2>. QED BY <1>1, <1>3, <1>8, <2>2 DEF MarkValidated, Answered, ContractInv
<1>9. CASE TriggerBuild(w)
  <2>1. /\ conJob'[w].pc = "starting" /\ conJob'[w].c = contract /\ conJob'[w].from = status
        /\ UNCHANGED contractVars /\ status # "draft"
    BY <1>0, <1>9 DEF TriggerBuild, Asked
  <2>2. ConFit(conJob[w])'
    BY <2>1 DEF ConFit, Building, ContractInv, ContractSound
  <2>. QED BY <1>1, <1>2, <2>1, <2>2 DEF ContractInv
<1>10. ASSUME NEW pc \in {"listing", "checking", "compiling"}, Moves(w, pc), Building(conJob[w])
       PROVE  ConFit(conJob[w])'
  <2>1. conJob'[w].pc = pc /\ conJob'[w].c = conJob[w].c /\ conJob'[w].from = conJob[w].from
    BY <1>0, <1>10 DEF Moves, ConJobs
  <2>. QED BY <1>0, <1>10, <2>1 DEF ConFit, Building
<1>11. CASE StartBuild(w)
  <2>1. Building(conJob[w]) /\ conJob[w].from # "draft"
    BY <1>0, <1>11 DEF StartBuild, InConJob, ConFit, Building
  <2>2. ContractSound' /\ DataDeployed'
    BY <1>0, <1>11, <2>1 DEF StartBuild, ContractInv, ContractSound, DataDeployed, Deployed
  <2>3. ConFit(conJob[w])'
    BY <1>3, <1>10, <1>11, <2>1 DEF StartBuild, Answered
  <2>. QED BY <1>1, <2>2, <2>3 DEF ContractInv
<1>12. CASE ListDependencyRules(w)
  <2>1. Building(conJob[w]) /\ UNCHANGED contractVars
    BY <1>12 DEF ListDependencyRules, InConJob, Building
  <2>2. ConFit(conJob[w])'
    BY <1>10, <1>12, <2>1 DEF ListDependencyRules
  <2>. QED BY <1>1, <1>2, <2>1, <2>2 DEF ContractInv
<1>13. CASE SourceFailure(w) \/ ScanHashRouting(w) \/ FinishBuild(w)
  <2>1. Building(conJob[w]) /\ conJob[w].c.valid /\ UNCHANGED <<contract, data>>
    BY <1>0, <1>13 DEF SourceFailure, ScanHashRouting, FinishBuild, InConJob, ConFit, Building
  <2>2. (status # "build" => status' = status) /\ status' \in {status, "running", "build", "failed"}
        /\ image' \in {image, NoContract, conJob[w].c}
    BY <1>13 DEF SourceFailure, ScanHashRouting, FinishBuild, MarkFailed
  <2>3. ContractSound' /\ DataDeployed'
    BY <1>0, <2>1, <2>2 DEF ContractInv, ContractSound, DataDeployed, Deployed, NoContract, Contracts
  <2>4. ConFit(conJob[w])'
    BY <1>3, <1>10, <1>13, <2>1 DEF SourceFailure, ScanHashRouting, FinishBuild, MarkFailed, Answered
  <2>. QED BY <1>1, <2>3, <2>4 DEF ContractInv
<1>. QED BY <1>4, <1>5, <1>6, <1>7, <1>8, <1>9, <1>11, <1>12, <1>13 DEF Edits

LEMMA ContractStep ==
    ASSUME OneEditor, StandardInv, ContractInv, [ContractNext]_conVars
    PROVE  ContractInv'
<1>1. ASSUME NEW w \in Editors, Edits(w) PROVE ContractInv'
  BY <1>1, EditKeepsContract
<1>2. ASSUME NEW w \in Askers, RequestException(w) \/ CreateException(w) PROVE ContractInv'
  <2>1. PICK r \in ConJobs : conJob' = [conJob EXCEPT ![w] = r] /\ r.pc \in {"asking", "idle"}
    BY <1>2, AskerKeepsStandard
  <2>2. UNCHANGED contractVars
    BY <1>2, AskerKeepsStandard
  <2>3. conJob'[w] = r /\ \A v \in Editors : v # w => conJob'[v] = conJob[v]
    BY <2>1 DEF StandardInv, ContractType
  <2>4. \A v \in Editors : ConFit(conJob[v])'
    BY <2>1, <2>2, <2>3 DEF ContractInv, ConFits, ConFit, Building, contractVars, KeepsDatabase
  <2>. QED BY <2>2, <2>4 DEF ContractInv, ConFits, contractVars, ContractSound, DataDeployed
<1>3. CASE PutProfile \/ AddDependencyRule \/ RemoveDependencyRule \/ DecideException \/ UNCHANGED conVars
  <2>1. UNCHANGED contractVars /\ UNCHANGED conJob
    BY <1>3 DEF PutProfile, AddDependencyRule, RemoveDependencyRule, DecideException, conVars, contractVars
  <2>. QED BY <2>1 DEF ContractInv, ConFits, ConFit, Building, contractVars, KeepsDatabase, ContractSound,
                       DataDeployed
<1>4. CASE DeployContract
  <2>1. /\ status \in {"build", "running", "failed"} /\ status' \in {"running", "failed"}
        /\ data' = IF data = "none" THEN contract.db ELSE data
        /\ UNCHANGED <<contract, image, conJob>>
    BY <1>4 DEF DeployContract
  <2>2. ContractSound' /\ DataDeployed'
    BY <2>1 DEF ContractInv, ContractSound, DataDeployed, Deployed
  <2>3. ConFits'
    BY <2>1 DEF ContractInv, ConFits, ConFit, Building, KeepsDatabase, Deployed
  <2>. QED BY <2>2, <2>3 DEF ContractInv
<1>. QED BY <1>1, <1>2, <1>3, <1>4 DEF ContractNext, Edits

\* With one change at a time, what is built passed the checks, and a database
\* with data in it stays declared.
THEOREM ContractAlwaysSound == ASSUME OneEditor PROVE ContractSpec => []ContractSound
<1>1. ContractInit => ContractInv
  BY StandardInitial
<1>2. StandardInv /\ ContractInv /\ [ContractNext]_conVars => ContractInv'
  BY ContractStep
<1>3. ContractInv => ContractSound
  BY DEF ContractInv
<1>. QED BY StandardInvariant, <1>1, <1>2, <1>3, PTL DEF ContractSpec

(***************************************************************************)
(* Review                                                                  *)
(***************************************************************************)
RevPcs == {"idle", "testing", "reported", "deciding", "applying"}
RevJobs == [pc : RevPcs, test : Nat, build : Nat, dep : Nat, approve : BOOLEAN]
TestRuns == [source : Trees, status : {"running", "passed", "failed", "error"}]
Reviews == [build : Nat, report : Nat, checked : Nat, status : {"pending", "approved", "rejected"}]

ReviewType ==
    /\ built \in Seq(Trees)
    /\ tests \in Seq(TestRuns)
    /\ review \in Seq(Reviews)
    /\ revJob \in [Owners \cup Approvers -> RevJobs]

\* A signed text names the deployment it was signed for.
TextsHonest == fresh \subseteq signed /\ \A s \in signed : s.text.dep = s.about

\* A report is a passed run's, of the source of a build, and a decision is
\* about a deployment, with a signature for it when it approves.
Given(t, b) == /\ t \in DOMAIN tests /\ tests[t].status = "passed"
               /\ b \in 1..Len(built) /\ tests[t].source = built[b]
ApprovedBy(d) == \E s \in signed : s.about = d /\ s.text.approve
RevFit(j) ==
    /\ j.pc = "reported" => Given(j.test, j.build)
    /\ j.pc \in {"deciding", "applying"} =>
          j.dep \in DOMAIN review /\ (j.approve => ApprovedBy(j.dep))
RevFits == \A w \in Owners \cup Approvers : RevFit(revJob[w])

\* A deployment is of a build there was.
Built(r) == /\ r.build <= Len(built)
            /\ r.report # 0 => Given(r.report, r.checked) /\ r.checked <= r.build
ReviewsBuilt == \A d \in DOMAIN review : Built(review[d])

ReviewInv == ReviewType /\ TextsHonest /\ RevFits /\ ReviewsBuilt /\ SignedForThis

LEMMA ReviewInitial == ReviewInit => ReviewInv
<1>. SUFFICES ASSUME ReviewInit PROVE ReviewInv
  OBVIOUS
<1>1. NoRevJob \in RevJobs /\ \A w \in Owners \cup Approvers : revJob[w] = NoRevJob
  BY DEF ReviewInit, NoRevJob, RevJobs, RevPcs
<1>2. ReviewType
  BY <1>1 DEF ReviewInit, ReviewType
<1>3. RevFits
  BY <1>1 DEF RevFits, RevFit, NoRevJob
<1>4. TextsHonest /\ ReviewsBuilt /\ SignedForThis
  BY DEF ReviewInit, TextsHonest, ReviewsBuilt, SignedForThis
<1>. QED BY <1>2, <1>3, <1>4 DEF ReviewInv

LEMMA NoRevJobFits == NoRevJob \in RevJobs /\ RevFit(NoRevJob)'
  BY DEF NoRevJob, RevJobs, RevPcs, RevFit

\* Builds, deployments and signatures are only added to, and a run that passed
\* has passed.
Grows ==
    /\ built' \in Seq(Trees) /\ Len(built) <= Len(built')
    /\ \A b \in 1..Len(built) : built'[b] = built[b]
    /\ tests' \in Seq(TestRuns) /\ DOMAIN tests \subseteq DOMAIN tests'
    /\ \A t \in DOMAIN tests : /\ tests'[t].source = tests[t].source
                               /\ tests[t].status = "passed" => tests'[t].status = "passed"
    /\ DOMAIN review \subseteq DOMAIN review'
    /\ signed \subseteq signed'

LEMMA GrowsAsItWas ==
    ASSUME ReviewInv, UNCHANGED <<built, tests, review, signed>>
    PROVE  Grows
<1>1. built \in Seq(Trees) /\ Len(built) \in Nat /\ tests \in Seq(TestRuns)
  BY DEF ReviewInv, ReviewType
<1>. QED BY <1>1 DEF Grows

LEMMA GivenOn ==
    ASSUME ReviewInv, Grows, NEW t, NEW b, Given(t, b)
    PROVE  Given(t, b)'
<1>1. Len(built) \in Nat /\ Len(built') \in Nat
  BY DEF Grows, ReviewInv, ReviewType
<1>2. b \in 1..Len(built')
  BY <1>1 DEF Given, Grows
<1>. QED BY <1>2 DEF Given, Grows

LEMMA FitsOn ==
    ASSUME ReviewInv, Grows, NEW j \in RevJobs, RevFit(j)
    PROVE  RevFit(j)'
<1>1. Given(j.test, j.build) => Given(j.test, j.build)'
  BY GivenOn
<1>. QED BY <1>1 DEF RevFit, ApprovedBy, Grows

LEMMA BuiltOn ==
    ASSUME ReviewInv, Grows, NEW r \in Reviews, Built(r)
    PROVE  Built(r)'
<1>1. r.build \in Nat /\ Len(built) \in Nat /\ Len(built') \in Nat
  BY DEF Grows, ReviewInv, ReviewType, Reviews
<1>2. r.build <= Len(built')
  BY <1>1 DEF Built, Grows
<1>3. r.report # 0 => Given(r.report, r.checked)'
  BY GivenOn DEF Built
<1>. QED BY <1>2, <1>3 DEF Built

\* A request moves on; the texts and the reviews are as they were.
LEMMA ReviewerMoves ==
    ASSUME ReviewInv, NEW w \in Owners \cup Approvers, NEW r \in RevJobs,
           revJob' = [revJob EXCEPT ![w] = r], Grows, RevFit(r)'
    PROVE  revJob' \in [Owners \cup Approvers -> RevJobs] /\ RevFits'
<1>1. /\ revJob' \in [Owners \cup Approvers -> RevJobs] /\ revJob'[w] = r
      /\ \A v \in Owners \cup Approvers : v # w => revJob'[v] = revJob[v]
  BY DEF ReviewInv, ReviewType
<1>2. ASSUME NEW v \in Owners \cup Approvers, v # w PROVE RevFit(revJob[v])'
  <2>1. PICK j \in RevJobs : j = revJob[v] /\ RevFit(j)
    BY DEF ReviewInv, ReviewType, RevFits
  <2>2. RevFit(j)'
    BY <2>1, FitsOn
  <2>. QED BY <1>1, <1>2, <2>1, <2>2 DEF RevFit
<1>3. RevFit(revJob[w])'
  BY <1>1 DEF RevFit
<1>. QED BY <1>1, <1>2, <1>3 DEF RevFits

\* What a deployment waits for, and shows, is as it was.
LEMMA ReviewsKept ==
    ASSUME ReviewInv, Grows, UNCHANGED <<review, signed, fresh>>,
           revJob' \in [Owners \cup Approvers -> RevJobs], RevFits'
    PROVE  ReviewInv'
<1>1. ReviewType' /\ TextsHonest' /\ SignedForThis'
  BY DEF Grows, ReviewInv, ReviewType, TextsHonest, SignedForThis
<1>2. ASSUME NEW d \in DOMAIN review PROVE Built(review[d])'
  <2>1. PICK r \in Reviews : r = review[d] /\ Built(r)
    BY DEF ReviewInv, ReviewType, ReviewsBuilt
  <2>2. Built(r)'
    BY <2>1, BuiltOn
  <2>. QED BY <2>1, <2>2 DEF Built
<1>. QED BY <1>1, <1>2 DEF ReviewInv, ReviewsBuilt

LEMMA TestKeeps ==
    ASSUME ReviewInv, NEW w \in Owners, RunTests(w) \/ FinishRun(w) \/ ReportForDeploy(w)
    PROVE  ReviewInv'
<1>0. UNCHANGED <<built, review, signed, fresh>>
  BY DEF RunTests, FinishRun, ReportForDeploy, texts
<1>1. /\ built \in Seq(Trees) /\ revJob[w] \in RevJobs /\ RevFit(revJob[w])
      /\ tests \in Seq(TestRuns)
  BY DEF ReviewInv, ReviewType, RevFits
<1>2. CASE RunTests(w)
  <2>0. Len(tests) + 1 \in Nat
    BY <1>1
  <2>1. PICK r \in RevJobs : r = [NoRevJob EXCEPT !.pc = "testing", !.test = Len(tests) + 1]
    BY <2>0 DEF NoRevJob, RevJobs, RevPcs
  <2>2. r.pc = "testing" /\ revJob' = [revJob EXCEPT ![w] = r]
    BY <1>2, <2>1 DEF RunTests, TakesUp, NoRevJob
  <2>3. RevFit(r)'
    BY <2>2 DEF RevFit
  <2>4. Grows
    <3>1. PICK s \in Trees : tests' = Append(tests, [source |-> s, status |-> "running"])
      BY <1>2 DEF RunTests
    <3>2. [source |-> s, status |-> "running"] \in TestRuns
      BY DEF TestRuns
    <3>3. /\ tests' \in Seq(TestRuns) /\ DOMAIN tests \subseteq DOMAIN tests'
          /\ \A t \in DOMAIN tests : tests'[t] = tests[t]
      BY <1>1, <3>1, <3>2
    <3>. QED BY <1>0, <1>1, <3>3 DEF Grows
  <2>. QED BY <1>0, <2>2, <2>3, <2>4, ReviewerMoves, ReviewsKept
<1>3. CASE FinishRun(w)
  <2>1. \/ UNCHANGED tests
        \/ \E s \in {"passed", "failed", "error"} :
             /\ tests' = [tests EXCEPT ![revJob[w].test].status = s]
             /\ tests[revJob[w].test].status = "running"
    BY <1>3 DEF FinishRun
  <2>2. Grows
    <3>1. CASE UNCHANGED tests
      BY <1>0, <3>1, GrowsAsItWas
    <3>2. ASSUME NEW s \in {"passed", "failed", "error"}, NEW t, t = revJob[w].test,
                 tests' = [tests EXCEPT ![t].status = s], tests[t].status = "running"
          PROVE  Grows
      <4>1. ASSUME t \in DOMAIN tests PROVE [tests[t] EXCEPT !.status = s] \in TestRuns
        <5>1. tests[t] \in TestRuns
          BY <1>1, <4>1
        <5>. QED BY <5>1 DEF TestRuns
      <4>2. tests \in [1..Len(tests) -> TestRuns] /\ Len(tests) \in Nat
        BY <1>1
      <4>3. /\ tests' \in [1..Len(tests) -> TestRuns]
            /\ \A u \in 1..Len(tests) : u # t => tests'[u] = tests[u]
            /\ t \in 1..Len(tests) => tests'[t] = [tests[t] EXCEPT !.status = s]
        BY <3>2, <4>1, <4>2
      <4>4. tests' \in Seq(TestRuns) /\ DOMAIN tests' = DOMAIN tests
        BY <4>2, <4>3
      <4>5. ASSUME NEW u \in DOMAIN tests
            PROVE  /\ tests'[u].source = tests[u].source
                   /\ tests[u].status = "passed" => tests'[u].status = "passed"
        <5>1. CASE u = t
          <6>1. tests[t] \in TestRuns /\ tests'[t] = [tests[t] EXCEPT !.status = s]
            BY <4>2, <4>3, <4>5, <5>1
          <6>. QED BY <3>2, <5>1, <6>1 DEF TestRuns
        <5>2. CASE u # t
          BY <4>2, <4>3, <4>5, <5>2
        <5>. QED BY <5>1, <5>2
      <4>. QED BY <1>0, <1>1, <4>4, <4>5 DEF Grows
    <3>. QED BY <2>1, <3>1, <3>2
  <2>3. revJob' = [revJob EXCEPT ![w] = NoRevJob]
    BY <1>3 DEF FinishRun, Leaves
  <2>. QED BY <1>0, <2>2, <2>3, NoRevJobFits, ReviewerMoves, ReviewsKept
<1>4. CASE ReportForDeploy(w)
  <2>1. PICK t \in DOMAIN tests :
           /\ tests[t].status = "passed" /\ tests[t].source = built[Len(built)] /\ built # <<>>
           /\ TakesUp(w, [NoRevJob EXCEPT !.pc = "reported", !.test = t, !.build = Len(built)])
    BY <1>4 DEF ReportForDeploy, SameSource
  <2>2. t \in Nat /\ Len(built) \in Nat /\ Len(built) \in 1..Len(built)
    BY <1>1, <2>1
  <2>3. PICK r \in RevJobs : r = [NoRevJob EXCEPT !.pc = "reported", !.test = t, !.build = Len(built)]
    BY <2>2 DEF NoRevJob, RevJobs, RevPcs
  <2>4. /\ r.pc = "reported" /\ r.test = t /\ r.build = Len(built)
        /\ revJob' = [revJob EXCEPT ![w] = r]
    BY <2>1, <2>3 DEF TakesUp, NoRevJob
  <2>5. RevFit(r)
    BY <2>1, <2>2, <2>4 DEF RevFit, Given
  <2>6. Grows
    BY <1>0, <1>4, GrowsAsItWas DEF ReportForDeploy
  <2>7. RevFit(r)'
    BY <2>5, <2>6, FitsOn
  <2>. QED BY <1>0, <2>4, <2>6, <2>7, ReviewerMoves, ReviewsKept
<1>. QED BY <1>2, <1>3, <1>4

LEMMA DeployKeeps ==
    ASSUME ReviewInv, NEW w \in Owners, DeployForReview(w)
    PROVE  ReviewInv'
<1>1. PICK t, b :
         /\ \/ revJob[w].pc = "reported" /\ t = revJob[w].test /\ b = revJob[w].build
            \/ t = 0 /\ b = 0
         /\ Deploys(t, b)
  BY DEF DeployForReview, InRevJob
<1>2. PICK new : new = [build |-> Len(built), report |-> t, checked |-> b, status |-> "pending"]
  OBVIOUS
<1>3. /\ UNCHANGED <<built, tests, signed, fresh>> /\ revJob' = [revJob EXCEPT ![w] = NoRevJob]
      /\ review' \in {review, Append(review, new)}
  BY <1>1, <1>2 DEF DeployForReview, Deploys, texts, Leaves
<1>4. /\ built \in Seq(Trees) /\ tests \in Seq(TestRuns) /\ review \in Seq(Reviews) /\ Len(built) \in Nat
      /\ RevFit(revJob[w]) /\ revJob[w] \in RevJobs
  BY DEF ReviewInv, ReviewType, RevFits
<1>5. t # 0 => Given(t, b)
  BY <1>1, <1>4 DEF RevFit
<1>6. new \in Reviews /\ Built(new) /\ new.status = "pending"
  <2>1. t \in Nat /\ b \in Nat
    BY <1>1, <1>4 DEF RevJobs
  <2>2. new \in Reviews /\ new.build = Len(built) /\ new.report = t /\ new.checked = b /\ new.status = "pending"
    BY <1>2, <1>4, <2>1 DEF Reviews
  <2>3. t # 0 => b <= Len(built)
    BY <1>4, <1>5, <2>1 DEF Given
  <2>. QED BY <1>4, <1>5, <2>2, <2>3 DEF Built
<1>7. /\ review' \in Seq(Reviews) /\ DOMAIN review \subseteq DOMAIN review'
      /\ \A d \in DOMAIN review' : \/ d \in DOMAIN review /\ review'[d] = review[d]
                                   \/ review'[d] = new
  <2>1. CASE review' = Append(review, new)
    <3>1. Len(review) \in Nat /\ DOMAIN review = 1..Len(review)
          /\ DOMAIN Append(review, new) = 1..(Len(review) + 1)
          /\ Append(review, new) \in Seq(Reviews)
          /\ \A d \in 1..(Len(review) + 1) :
                Append(review, new)[d] = IF d = Len(review) + 1 THEN new ELSE review[d]
      BY <1>4, <1>6
    <3>. QED BY <2>1, <3>1
  <2>2. CASE review' = review
    BY <1>4, <2>2
  <2>. QED BY <1>3, <2>1, <2>2
<1>8. Grows
  BY <1>3, <1>4, <1>7 DEF Grows
<1>9. revJob' \in [Owners \cup Approvers -> RevJobs] /\ RevFits'
  BY <1>3, <1>8, NoRevJobFits, ReviewerMoves
<1>10. ReviewType' /\ TextsHonest'
  BY <1>3, <1>7, <1>9 DEF ReviewInv, ReviewType, TextsHonest
<1>11. SignedForThis'
  BY <1>3, <1>6, <1>7 DEF ReviewInv, SignedForThis
<1>12. ReviewsBuilt'
  <2>1. ASSUME NEW d \in DOMAIN review', NEW r, r = review'[d] PROVE Built(r)'
    <3>1. r \in Reviews /\ Built(r)
      <4>1. CASE r = new
        BY <1>6, <4>1
      <4>2. CASE d \in DOMAIN review /\ r = review[d]
        BY <1>4, <4>2 DEF ReviewInv, ReviewsBuilt
      <4>. QED BY <1>7, <2>1, <4>1, <4>2
    <3>. QED BY <1>8, <3>1, BuiltOn
  <2>2. \A d \in DOMAIN review' : Built(review[d])'
    BY <2>1 DEF Built
  <2>. QED BY <2>2 DEF ReviewsBuilt
<1>. QED BY <1>9, <1>10, <1>11, <1>12 DEF ReviewInv

LEMMA DecisionKeeps ==
    ASSUME ReviewInv, NEW w \in Approvers, DecideSigned(w) \/ DecideSignedApproval(w)
    PROVE  ReviewInv'
<1>0. UNCHANGED <<built, tests, review, signed, fresh>> /\ Grows
  <2>1. UNCHANGED <<built, tests, review, signed, fresh>>
    BY DEF DecideSigned, DecideSignedApproval, texts
  <2>. QED BY <2>1, GrowsAsItWas
<1>1. revJob[w] \in RevJobs /\ RevFit(revJob[w])
  BY DEF ReviewInv, ReviewType, RevFits
<1>2. PICK r \in RevJobs : revJob' = [revJob EXCEPT ![w] = r] /\ RevFit(r)
  <2>1. CASE DecideSigned(w)
    <3>1. PICK d \in DOMAIN review, s \in fresh, approve \in BOOLEAN :
             /\ s.text = SignedMessage(d, approve)
             /\ TakesUp(w, [NoRevJob EXCEPT !.pc = "deciding", !.dep = d, !.approve = approve])
      BY <2>1 DEF DecideSigned
    <3>2. s \in signed /\ s.about = d /\ (approve => s.text.approve)
      BY <3>1 DEF ReviewInv, TextsHonest, SignedMessage
    <3>3. d \in Nat
      BY DEF ReviewInv, ReviewType
    <3>4. PICK r \in RevJobs : r = [NoRevJob EXCEPT !.pc = "deciding", !.dep = d, !.approve = approve]
      BY <3>3 DEF NoRevJob, RevJobs, RevPcs
    <3>5. r.pc = "deciding" /\ r.dep = d /\ r.approve = approve /\ revJob' = [revJob EXCEPT ![w] = r]
      BY <3>1, <3>4 DEF TakesUp, NoRevJob
    <3>. QED BY <3>2, <3>5 DEF RevFit, ApprovedBy
  <2>2. CASE DecideSignedApproval(w)
    <3>1. PICK r \in RevJobs : r = [revJob[w] EXCEPT !.pc = "applying"]
      BY <1>1 DEF RevJobs, RevPcs
    <3>2. r.pc = "applying" /\ r.dep = revJob[w].dep /\ r.approve = revJob[w].approve
      BY <1>1, <3>1 DEF RevJobs
    <3>3. revJob' \in {[revJob EXCEPT ![w] = r], [revJob EXCEPT ![w] = NoRevJob]} /\ revJob[w].pc = "deciding"
      BY <2>2, <3>1 DEF DecideSignedApproval, Goes, Leaves, InRevJob, ReviewInv, ReviewType
    <3>4. RevFit(r) /\ RevFit(NoRevJob)
      BY <1>1, <3>2, <3>3 DEF RevFit, NoRevJob
    <3>. QED BY <3>3, <3>4, NoRevJobFits
  <2>. QED BY <2>1, <2>2
<1>3. RevFit(r)'
  BY <1>0, <1>2, FitsOn
<1>4. revJob' \in [Owners \cup Approvers -> RevJobs] /\ RevFits'
  BY <1>0, <1>2, <1>3, ReviewerMoves
<1>. QED BY <1>0, <1>4, ReviewsKept DEF ReviewInv, ReviewType

LEMMA ApplyKeeps ==
    ASSUME ReviewInv, NEW w \in Approvers, ApplyDecision(w)
    PROVE  ReviewInv'
<1>. DEFINE d0 == revJob[w].dep
            st == IF revJob[w].approve THEN "approved" ELSE "rejected"
<1>1. /\ UNCHANGED <<built, tests, signed, fresh>> /\ revJob' = [revJob EXCEPT ![w] = NoRevJob]
      /\ review' = [review EXCEPT ![d0].status = st]
      /\ revJob[w].pc = "applying"
  BY DEF ApplyDecision, texts, Leaves, InRevJob
<1>2. review \in Seq(Reviews) /\ d0 \in DOMAIN review /\ (st = "approved" => ApprovedBy(d0))
  BY <1>1 DEF ReviewInv, ReviewType, RevFits, RevFit
<1>3. [review[d0] EXCEPT !.status = st] \in Reviews
  <2>1. review[d0] \in Reviews /\ st \in {"pending", "approved", "rejected"}
    BY <1>2
  <2>. QED BY <2>1 DEF Reviews
<1>. HIDE DEF d0, st
<1>4. /\ review' \in Seq(Reviews) /\ DOMAIN review' = DOMAIN review
      /\ \A d \in DOMAIN review : /\ review'[d].build = review[d].build
                                  /\ review'[d].report = review[d].report
                                  /\ review'[d].checked = review[d].checked
                                  /\ review'[d].status = IF d = d0 THEN st ELSE review[d].status
  <2>1. review' \in Seq(Reviews) /\ DOMAIN review' = DOMAIN review
    BY <1>1, <1>2, <1>3
  <2>. QED BY <1>1, <1>2, <2>1 DEF Reviews
<1>5. Grows
  BY <1>1, <1>4 DEF Grows, ReviewInv, ReviewType
<1>6. revJob' \in [Owners \cup Approvers -> RevJobs] /\ RevFits'
  BY <1>1, <1>5, NoRevJobFits, ReviewerMoves
<1>7. ReviewType' /\ TextsHonest'
  BY <1>1, <1>4, <1>6 DEF ReviewInv, ReviewType, TextsHonest
<1>8. SignedForThis'
  BY <1>1, <1>2, <1>4 DEF ReviewInv, SignedForThis, ApprovedBy
<1>9. ReviewsBuilt'
  BY <1>1, <1>4 DEF ReviewInv, ReviewsBuilt, Built, Given
<1>. QED BY <1>6, <1>7, <1>8, <1>9 DEF ReviewInv

LEMMA SigningKeeps ==
    ASSUME ReviewInv, Sign \/ Stale
    PROVE  ReviewInv'
<1>1. UNCHANGED <<built, tests, review, revJob>>
  BY DEF Sign, Stale
<1>2. TextsHonest' /\ signed \subseteq signed'
  <2>1. CASE Sign
    <3>1. PICK d \in DOMAIN review, approve \in BOOLEAN :
             LET s == [about |-> d, text |-> SignedMessage(d, approve)] IN
             signed' = signed \cup {s} /\ fresh' = fresh \cup {s}
      BY <2>1 DEF Sign
    <3>. DEFINE s == [about |-> d, text |-> SignedMessage(d, approve)]
    <3>2. s.text.dep = s.about /\ signed' = signed \cup {s} /\ fresh' = fresh \cup {s}
      BY <3>1 DEF SignedMessage
    <3>. HIDE DEF s
    <3>. QED BY <3>2 DEF ReviewInv, TextsHonest
  <2>2. CASE Stale
    BY <2>2 DEF Stale, ReviewInv, TextsHonest
  <2>. QED BY <2>1, <2>2
<1>3. RevFits' /\ SignedForThis'
  BY <1>1, <1>2 DEF ReviewInv, RevFits, RevFit, ApprovedBy, Given, SignedForThis
<1>. QED BY <1>1, <1>2, <1>3 DEF ReviewInv, ReviewType, ReviewsBuilt, Built, Given

LEMMA BuildTreeKeeps ==
    ASSUME ReviewInv, BuildTree
    PROVE  ReviewInv'
<1>1. PICK s \in Trees : built' = Append(built, s)
  BY DEF BuildTree
<1>2. UNCHANGED <<tests, review, signed, fresh, revJob>>
  BY DEF BuildTree, texts
<1>3. built \in Seq(Trees) /\ tests \in Seq(TestRuns)
  BY DEF ReviewInv, ReviewType
<1>4. /\ built' \in Seq(Trees) /\ Len(built') = Len(built) + 1 /\ Len(built) \in Nat
      /\ \A b \in 1..Len(built) : built'[b] = built[b]
  BY <1>1, <1>3
<1>5. Grows
  BY <1>2, <1>3, <1>4 DEF Grows
<1>6. RevFits'
  <2>1. ASSUME NEW w \in Owners \cup Approvers PROVE RevFit(revJob[w])'
    <3>1. PICK j \in RevJobs : j = revJob[w] /\ RevFit(j)
      BY DEF ReviewInv, ReviewType, RevFits
    <3>2. RevFit(j)'
      BY <1>5, <3>1, FitsOn
    <3>. QED BY <1>2, <3>1, <3>2 DEF RevFit
  <2>. QED BY <2>1 DEF RevFits
<1>. QED BY <1>2, <1>5, <1>6, ReviewsKept DEF ReviewInv, ReviewType

LEMMA ReviewRestartKeeps ==
    ASSUME ReviewInv, ReviewRestart \/ ReviewBoot
    PROVE  ReviewInv'
<1>1. /\ UNCHANGED <<built, review, signed, fresh>>
      /\ built \in Seq(Trees) /\ tests \in Seq(TestRuns)
  BY DEF ReviewRestart, ReviewBoot, texts, ReviewInv, ReviewType
<1>2. CASE ReviewRestart
  <2>1. revJob' \in [Owners \cup Approvers -> RevJobs] /\ \A w \in Owners \cup Approvers : revJob'[w] = NoRevJob
    BY <1>2, NoRevJobFits DEF ReviewRestart
  <2>2. RevFits'
    BY <2>1, NoRevJobFits DEF RevFits, RevFit
  <2>3. Grows
    BY <1>1, <1>2, GrowsAsItWas DEF ReviewRestart
  <2>. QED BY <1>1, <2>1, <2>2, <2>3, ReviewsKept
<1>3. CASE ReviewBoot
  <2>1. Grows
    <3>1. CASE UNCHANGED tests
      BY <1>1, <3>1, GrowsAsItWas
    <3>2. CASE tests' = FailUnfinished
      <4>1. \A t \in DOMAIN tests : tests[t] \in TestRuns
        BY <1>1
      <4>2. ASSUME NEW t \in DOMAIN tests
            PROVE  /\ tests'[t] \in TestRuns /\ tests'[t].source = tests[t].source
                   /\ tests[t].status = "passed" => tests'[t].status = "passed"
        <5>1. CASE tests[t].status = "running"
          <6>1. tests'[t] = [tests[t] EXCEPT !.status = "error"] /\ tests[t] \in TestRuns
            BY <3>2, <4>1, <5>1 DEF FailUnfinished
          <6>. QED BY <5>1, <6>1 DEF TestRuns
        <5>2. CASE tests[t].status # "running"
          <6>1. tests'[t] = tests[t]
            BY <3>2, <5>2 DEF FailUnfinished
          <6>. QED BY <4>1, <6>1
        <5>. QED BY <5>1, <5>2
      <4>3. DOMAIN tests = 1..Len(tests) /\ Len(tests) \in Nat
        BY <1>1
      <4>4. DOMAIN tests' = DOMAIN tests /\ tests' = [t \in DOMAIN tests |-> tests'[t]]
        BY <3>2 DEF FailUnfinished
      <4>5. tests' \in [1..Len(tests) -> TestRuns]
        BY <4>2, <4>3, <4>4
      <4>6. tests' \in Seq(TestRuns)
        BY <4>3, <4>5
      <4>. QED BY <1>1, <4>2, <4>4, <4>6 DEF Grows
    <3>. QED BY <1>3, <3>1, <3>2 DEF ReviewBoot
  <2>2. RevFits'
    <3>1. ASSUME NEW w \in Owners \cup Approvers PROVE RevFit(revJob[w])'
      <4>1. PICK j \in RevJobs : j = revJob[w] /\ RevFit(j)
        BY DEF ReviewInv, ReviewType, RevFits
      <4>2. RevFit(j)'
        BY <2>1, <4>1, FitsOn
      <4>. QED BY <1>3, <4>1, <4>2 DEF RevFit, ReviewBoot
    <3>. QED BY <3>1 DEF RevFits
  <2>. QED BY <1>1, <1>3, <2>1, <2>2, ReviewsKept DEF ReviewBoot, ReviewInv, ReviewType
<1>. QED BY <1>2, <1>3

LEMMA ReviewStep ==
    ASSUME ReviewInv, [ReviewNext]_revVars
    PROVE  ReviewInv'
<1>1. CASE UNCHANGED revVars
  BY <1>1 DEF revVars, texts, ReviewInv, ReviewType, TextsHonest, RevFits, RevFit, Given, ApprovedBy,
              ReviewsBuilt, Built, SignedForThis
<1>2. CASE ReviewNext
  BY <1>2, TestKeeps, DeployKeeps, DecisionKeeps, ApplyKeeps, SigningKeeps, BuildTreeKeeps,
     ReviewRestartKeeps DEF ReviewNext
<1>. QED BY <1>1, <1>2

LEMMA ReviewInvariant == ReviewSpec => []ReviewInv
  BY ReviewInitial, ReviewStep, PTL DEF ReviewSpec

\* A deployment is approved only by a signature for that deployment.
THEOREM AlwaysSignedForThis == ReviewSpec => []SignedForThis
<1>1. ReviewInv => SignedForThis
  BY DEF ReviewInv
<1>. QED BY ReviewInvariant, <1>1, PTL

\* The platform's own report, as an approver reads it, is of a run that passed
\* on the source of the build that was the latest when it was asked for
\* (testrun_service.go:200-247): the one deployed, or an earlier one.
THEOREM ReportAlwaysOfABuild == ReviewSpec => []ReportIsOfABuild
<1>1. ASSUME ReviewInv PROVE ReportIsOfABuild
  <2>1. ASSUME NEW d \in DOMAIN review, review[d].report # 0
        PROVE  /\ tests[review[d].report].status = "passed"
               /\ 0 < review[d].checked /\ review[d].checked <= review[d].build
               /\ tests[review[d].report].source = built[review[d].checked]
    <3>1. Built(review[d]) /\ Len(built) \in Nat
      BY <1>1 DEF ReviewInv, ReviewType, ReviewsBuilt
    <3>. QED BY <2>1, <3>1 DEF Built, Given
  <2>. QED BY <2>1 DEF ReportIsOfABuild
<1>. QED BY ReviewInvariant, <1>1, PTL
================================================================================
