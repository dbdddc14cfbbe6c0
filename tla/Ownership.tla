------------------------------- MODULE Ownership -------------------------------
(***************************************************************************)
(* The owners of one application: its registration, co-owners and          *)
(* transfers (application_service.go over application_owner_repo.go and    *)
(* ownership_transfer_repo.go).  A request asks whether its caller may,    *)
(* and writes in later steps.                                              *)
(*                                                                         *)
(*   registering -> assigning      granting, revoking, nominating          *)
(*   accepting -> replacing        expiring                                *)
(***************************************************************************)
EXTENDS Integers, Sequences, FiniteSets

CONSTANTS
    Users,
    Registrars,         \* the users who register the application
    CoOwners,           \* the users access is granted to and revoked from
    CoRoles,            \* the roles granted
    OwnerRequests,      \* requests at once
    MaxTransfers,       \* bound: nominations
    MaxOwnerFaults      \* bound: calls that fail, crashes

ASSUME OwnershipAssumption ==
    /\ (Registrars \cup CoOwners) \subseteq Users
    /\ CoRoles \subseteq {"secondary", "technical"}
    /\ {MaxTransfers, MaxOwnerFaults} \subseteq Nat

VARIABLES
    registered,     \* the application's row
    owner,          \* application_owners: the active rows, user and role
    transfer,       \* ownership_transfers, in order
    ownJob, ownerFaults,
    orphaned        \* history: a registration broke between its two writes

ownerVars == <<registered, owner, transfer, ownJob, ownerFaults, orphaned>>

NoOwnerJob == [pc |-> "idle", who |-> "nobody", target |-> "nobody", role |-> "none", t |-> 0]

InOwnerJob(w, pc) == ownJob[w].pc = pc
Takes(w, j) == ownJob[w] = NoOwnerJob /\ ownJob' = [ownJob EXCEPT ![w] = j]
Proceeds(w, pc) == ownJob' = [ownJob EXCEPT ![w].pc = pc]
Finishes(w) == ownJob' = [ownJob EXCEPT ![w] = NoOwnerJob]

Primary == {u \in Users : <<u, "primary">> \in owner}
PendingTransfer == {t \in DOMAIN transfer : transfer[t].status = "pending"}

(***************************************************************************)
(* Registration: the row, then its primary owner                           *)
(***************************************************************************)
RegisterApplication(w) ==
    /\ ~registered      \* NameExists
    /\ \E u \in Registrars : Takes(w, [NoOwnerJob EXCEPT !.pc = "registering", !.who = u])
    /\ UNCHANGED <<registered, owner, transfer, ownerFaults, orphaned>>

CreateApplication(w) ==
    /\ InOwnerJob(w, "registering")
    /\ IF registered THEN Finishes(w) ELSE Proceeds(w, "assigning")
    /\ registered' = TRUE
    /\ UNCHANGED <<owner, transfer, ownerFaults, orphaned>>

AssignPrimaryOwner(w) ==
    /\ InOwnerJob(w, "assigning")
    /\ owner' = owner \cup {<<ownJob[w].who, "primary">>}
    /\ Finishes(w)
    /\ UNCHANGED <<registered, transfer, ownerFaults, orphaned>>

(***************************************************************************)
(* What the primary owner asks for: the check, then the write              *)
(***************************************************************************)
RequirePrimaryOwner(w, job) ==
    /\ \E u \in Primary : Takes(w, [job EXCEPT !.who = IF job.pc = "nominating" THEN u ELSE "nobody"])
    /\ UNCHANGED <<registered, owner, transfer, ownerFaults, orphaned>>

GrantCoOwner(w) ==
    \E u \in CoOwners, r \in CoRoles :
        RequirePrimaryOwner(w, [NoOwnerJob EXCEPT !.pc = "granting", !.target = u, !.role = r])
RevokeCoOwner(w) ==
    \E u \in CoOwners : RequirePrimaryOwner(w, [NoOwnerJob EXCEPT !.pc = "revoking", !.target = u])
InitiateTransfer(w) ==
    \E u \in Users : RequirePrimaryOwner(w, [NoOwnerJob EXCEPT !.pc = "nominating", !.target = u])

AddOwner(w) ==
    /\ InOwnerJob(w, "granting")
    /\ owner' = owner \cup {<<ownJob[w].target, ownJob[w].role>>}
    /\ Finishes(w)
    /\ UNCHANGED <<registered, transfer, ownerFaults, orphaned>>

Access(u) == {x \in owner : x[1] = u /\ x[2] # "primary"}

RevokeOwner(w) ==
    /\ InOwnerJob(w, "revoking")
    /\ owner' = owner \ Access(ownJob[w].target)
    /\ Finishes(w)
    /\ UNCHANGED <<registered, transfer, ownerFaults, orphaned>>

\* one_pending_transfer_per_application, late or not.
CreateTransfer(w) ==
    /\ InOwnerJob(w, "nominating")
    /\ Len(transfer) < MaxTransfers
    /\ IF PendingTransfer # {} THEN UNCHANGED transfer
       ELSE transfer' = Append(transfer, [from |-> ownJob[w].who, to |-> ownJob[w].target,
                                          status |-> "pending", late |-> FALSE])
    /\ Finishes(w)
    /\ UNCHANGED <<registered, owner, ownerFaults, orphaned>>

TransferExpires ==
    /\ \E t \in PendingTransfer :
          ~transfer[t].late /\ transfer' = [transfer EXCEPT ![t].late = TRUE]
    /\ UNCHANGED <<registered, owner, ownJob, ownerFaults, orphaned>>

(***************************************************************************)
(* The nominee accepts                                                     *)
(***************************************************************************)
AcceptTransfer(w) ==
    /\ \E t \in PendingTransfer :
          Takes(w, [NoOwnerJob EXCEPT !.pc = IF transfer[t].late THEN "expiring" ELSE "accepting",
                                      !.who = transfer[t].from, !.target = transfer[t].to, !.t = t])
    /\ UNCHANGED <<registered, owner, transfer, ownerFaults, orphaned>>

MarkResolved(w) ==
    LET j == ownJob[w] IN
    /\ j.pc \in {"accepting", "expiring"}
    /\ IF j.t \notin PendingTransfer THEN UNCHANGED transfer /\ Finishes(w)
       ELSE IF j.pc = "expiring"
       THEN transfer' = [transfer EXCEPT ![j.t].status = "expired"] /\ Finishes(w)
       ELSE transfer' = [transfer EXCEPT ![j.t].status = "accepted"] /\ Proceeds(w, "replacing")
    /\ UNCHANGED <<registered, owner, ownerFaults, orphaned>>

\* Bug: whoever is the primary owner is replaced, not who handed it over.
Replaced_Anyone(from) == Primary

Replaced(from) == Primary \cap {from}

\* Bug: the three statements run without a transaction.
RolledBack_NoTransaction(w) == owner' = owner \ {<<ownJob[w].who, "primary">>}

RolledBack(w) == UNCHANGED owner

\* one_active_primary_owner_per_application refuses a second primary owner.
ReplacePrimaryOwner(w) ==
    LET j == ownJob[w] IN
    /\ InOwnerJob(w, "replacing")
    /\ IF Primary \ (Replaced(j.who) \cup {j.target}) # {} THEN RolledBack(w)
       ELSE owner' = (owner \ ((Replaced(j.who) \X {"primary"}) \cup Access(j.target)))
                     \cup {<<j.target, "primary">>}
    /\ Finishes(w)
    /\ UNCHANGED <<registered, transfer, ownerFaults, orphaned>>

\* A write fails, or the server goes down under the request: inside the
\* transaction the prior owner is put back.
OwnerRequestBreaks(w) ==
    /\ ~InOwnerJob(w, "idle") /\ ownerFaults < MaxOwnerFaults
    /\ ownerFaults' = ownerFaults + 1
    /\ IF InOwnerJob(w, "replacing") THEN RolledBack(w) ELSE UNCHANGED owner
    /\ orphaned' = (orphaned \/ InOwnerJob(w, "assigning"))
    /\ Finishes(w)
    /\ UNCHANGED <<registered, transfer>>

OwnershipInit ==
    /\ registered = FALSE /\ orphaned = FALSE
    /\ owner = {}
    /\ transfer = <<>>
    /\ ownJob = [w \in OwnerRequests |-> NoOwnerJob]
    /\ ownerFaults = 0

OwnershipNext ==
    \/ TransferExpires
    \/ \E w \in OwnerRequests :
          \/ RegisterApplication(w) \/ CreateApplication(w) \/ AssignPrimaryOwner(w)
          \/ GrantCoOwner(w) \/ AddOwner(w) \/ RevokeCoOwner(w) \/ RevokeOwner(w)
          \/ InitiateTransfer(w) \/ CreateTransfer(w)
          \/ AcceptTransfer(w) \/ MarkResolved(w) \/ ReplacePrimaryOwner(w)
          \/ OwnerRequestBreaks(w)

OwnershipSpec == OwnershipInit /\ [][OwnershipNext]_ownerVars

(***************************************************************************)
(* Properties                                                              *)
(***************************************************************************)
\* "An application in that state is permanently stranded" is what the one
\* transaction of the code prevents (application_owner_repo.go:93-104): from
\* its registration on an application has one active primary owner, whatever
\* grants, revocations and acceptances overlap or break; a registration that
\* breaks between its two writes is the exception.
OnePrimary ==
    registered /\ ~orphaned /\ (\A w \in OwnerRequests : ~InOwnerJob(w, "assigning"))
        => Cardinality(Primary) = 1

\* Ownership passes only from who nominated to who accepted: an acceptance
\* that was overtaken by another transfer takes nothing from the owner that
\* one made (application_service.go:433-436).
HandedOver ==
    [][\A u \in Primary, v \in Primary' : u # v =>
          \E t \in DOMAIN transfer : transfer[t] = [from |-> u, to |-> v, status |-> "accepted", late |-> transfer[t].late]]_ownerVars
================================================================================
