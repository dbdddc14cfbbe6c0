------------------------------- MODULE DevCopies -------------------------------
(***************************************************************************)
(* An application's dev copies (devcopy_service.go): each is an            *)
(* application of its own, made by the first dev deployment, removed by an *)
(* owner's reset or by the sweep once its application is archived or       *)
(* deleted.  The application's first production deployment can take the    *)
(* copy's data.  The services a copy is made of are those of Platform; the *)
(* calls made on the copy are steps here, and interleave.                  *)
(*                                                                         *)
(*   [register -> row ->] [validate ->] build -> built -> deploy -> up     *)
(*   archive -> delete -> end                                              *)
(***************************************************************************)
EXTENDS Naturals, FiniteSets

CONSTANTS
    Callers,        \* owners' requests at once
    MaxCopies,      \* bound: copies ever registered
    MaxProd,        \* bound: production deployments of the application
    MaxDcFaults     \* bound: calls that fail, crashes, holds

ASSUME DcAssumption == {MaxCopies, MaxProd, MaxDcFaults} \subseteq Nat

VARIABLES
    parent,     \* the application's lifecycle_status, and its hold
    copy,       \* the copies: their application, and their dev_copies row
    prod,       \* the application's production deployments
    own,        \* the application's database holds data its users entered
    dcJob, dcFaults

dcVars == <<parent, copy, prod, own, dcJob, dcFaults>>

Copy == 1..MaxCopies
Prod == 1..MaxProd
Sweeper == "dcSweep"
DcActors == Callers \cup {Sweeper}
Unregistered == [app |-> "none", row |-> "none", serves |-> FALSE, busy |-> FALSE,
                 late |-> FALSE, cut |-> FALSE]
Undeployed == [st |-> "none", from |-> 0]
Nobody == [pc |-> "idle", c |-> 0, seen |-> "none", to |-> "idle"]

Doing(a, pc) == dcJob[a].pc = pc
Mine(a) == dcJob[a].c
ThenAt(a, pc) == dcJob' = [dcJob EXCEPT ![a].pc = pc]
Leaves(a) == dcJob' = [dcJob EXCEPT ![a] = Nobody]
DcFault == dcFaults < MaxDcFaults /\ dcFaults' = dcFaults + 1

(***************************************************************************)
(* devcopy_repo.go                                                         *)
(***************************************************************************)
Over == {"archived", "deleted"}
LiveCopies == {c \in Copy : copy[c].row = "live"}


Orphaned == IF parent.st \in Over THEN LiveCopies ELSE {}

(***************************************************************************)
(* Deploy                                                                  *)
(***************************************************************************)
\* An application archived or deleted has no copy, and one that is held none
\* that can be deployed.  A copy archived or deleted on its own is over: it is
\* torn down, and another made.
DeployDev(r) ==
    /\ Doing(r, "idle")
    /\ parent.st \notin Over /\ ~parent.held
    /\ \/ LiveCopies = {} /\ ThenAt(r, "register")
       \/ \E c \in LiveCopies :
            dcJob' = [dcJob EXCEPT ![r] =
                IF copy[c].app \in Over
                THEN [Nobody EXCEPT !.pc = "archive", !.c = c, !.to = "register"]
                ELSE [Nobody EXCEPT !.c = c,
                        !.pc = IF copy[c].app \in {"draft", "validated"} THEN "validate" ELSE "build"]]
    /\ UNCHANGED <<parent, copy, prod, own, dcFaults>>

\* "<name>-dev", or the next name that is free.
Register(r) ==
    /\ Doing(r, "register")
    /\ \E c \in Copy :
        /\ copy[c] = Unregistered /\ \A e \in 1..(c - 1) : copy[e] # Unregistered
        /\ copy' = [copy EXCEPT ![c].app = "draft"]
        /\ dcJob' = [dcJob EXCEPT ![r].pc = "row", ![r].c = c]
    /\ UNCHANGED <<parent, prod, own, dcFaults>>

\* One live copy an application (migration 0027's index): an owner who comes
\* second is refused, and what was registered stays.
CreateRow(r) ==
    /\ Doing(r, "row")
    /\ IF LiveCopies = {}
       THEN copy' = [copy EXCEPT ![Mine(r)].row = "live"] /\ ThenAt(r, "validate")
       ELSE Leaves(r) /\ UNCHANGED copy
    /\ UNCHANGED <<parent, prod, own, dcFaults>>

ValidateCopy(r) ==
    /\ Doing(r, "validate")
    /\ \/ /\ copy[Mine(r)].app \in {"draft", "validated"}
          /\ copy' = [copy EXCEPT ![Mine(r)].app = "validated"]
          /\ ThenAt(r, "build")
       \/ Leaves(r) /\ UNCHANGED copy
    /\ UNCHANGED <<parent, prod, own, dcFaults>>

\* TriggerBuild, from its checks to the engine ...
BuildCopy(r) ==
    /\ Doing(r, "build")
    /\ LET c == Mine(r) IN
       IF copy[c].app \in {"validated", "running", "failed", "build"} /\ ~copy[c].busy
       THEN /\ copy' = [copy EXCEPT ![c].app = "build", ![c].busy = TRUE]
            /\ dcJob' = [dcJob EXCEPT ![r].pc = "built", ![r].seen = copy[c].app]
       ELSE Leaves(r) /\ UNCHANGED copy
    /\ UNCHANGED <<parent, prod, own, dcFaults>>

\* ... and what came of it: a failed build leaves a copy that ran as it was.
BuildEnds(r) ==
    /\ Doing(r, "built")
    /\ LET c == Mine(r)
           back == IF dcJob[r].seen \in {"running", "build"} THEN dcJob[r].seen ELSE "failed" IN
       \/ copy' = [copy EXCEPT ![c].busy = FALSE] /\ ThenAt(r, "deploy")
       \/ copy' = [copy EXCEPT ![c].busy = FALSE,
                               ![c].app = IF @ = "build" THEN back ELSE @] /\ Leaves(r)
    /\ UNCHANGED <<parent, prod, own, dcFaults>>

\* InitiateDeploy to dev, never gated: it asks for a build that succeeded and
\* not for the lifecycle status, so it also deploys a copy that a reset or the
\* sweep deleted since it was built (late).
DeployCopy(r) ==
    /\ Doing(r, "deploy")
    /\ LET c == Mine(r) IN
       IF copy[c].busy THEN Leaves(r) /\ UNCHANGED copy
       ELSE /\ copy' = [copy EXCEPT ![c] = [@ EXCEPT !.app = "deploying", !.busy = TRUE,
                                             !.late = copy[c].late \/ copy[c].app = "deleted"]]
            /\ ThenAt(r, "up")
    /\ UNCHANGED <<parent, prod, own, dcFaults>>

\* The status it was in was build, so a deployment that fails leaves the copy
\* failed, with the version before still serving.
DeployEnds(r) ==
    /\ Doing(r, "up")
    /\ \/ copy' = [copy EXCEPT ![Mine(r)] = [@ EXCEPT !.app = "running", !.busy = FALSE, !.serves = TRUE]]
       \/ copy' = [copy EXCEPT ![Mine(r)] = [@ EXCEPT !.app = "failed", !.busy = FALSE]]
    /\ Leaves(r)
    /\ UNCHANGED <<parent, prod, own, dcFaults>>

(***************************************************************************)
(* teardown, for a reset, the sweep or a copy that is over                 *)
(***************************************************************************)
Reset(r) ==
    /\ Doing(r, "idle") /\ parent.st # "deleted"
    /\ \E c \in LiveCopies :
        dcJob' = [dcJob EXCEPT ![r] = [Nobody EXCEPT !.pc = "archive", !.c = c]]
    /\ UNCHANGED <<parent, copy, prod, own, dcFaults>>

Sweep ==
    /\ Doing(Sweeper, "idle")
    /\ \E c \in Orphaned :
        dcJob' = [dcJob EXCEPT ![Sweeper] = [Nobody EXCEPT !.pc = "archive", !.c = c]]
    /\ UNCHANGED <<parent, copy, prod, own, dcFaults>>

\* Archive, if it runs or is suspended; an archived or deleted one is left.  It
\* is refused while a deployment is in flight.
ArchiveCopy(a) ==
    /\ Doing(a, "archive")
    /\ LET c == Mine(a) IN
       \/ /\ copy[c].app \in {"running", "suspended"} /\ ~copy[c].busy
          /\ copy' = [copy EXCEPT ![c].app = "archived", ![c].serves = FALSE]
          /\ ThenAt(a, "delete")
       \/ copy[c].app \notin {"running", "suspended", "deleted"} /\ ThenAt(a, "delete") /\ UNCHANGED copy
       \/ copy[c].app = "deleted" /\ ThenAt(a, "end") /\ UNCHANGED copy
       \/ copy[c].app \in {"running", "suspended"} /\ copy[c].busy /\ Leaves(a) /\ UNCHANGED copy
    /\ UNCHANGED <<parent, prod, own, dcFaults>>

\* Delete's two routes: from a state that is stopped, or one that never ran
\* and of which nothing is live.
Removable(c) ==
    \/ copy[c].app \in {"archived", "suspended"}
    \/ copy[c].app \in {"draft", "validated", "build", "failed"} /\ ~copy[c].serves /\ ~copy[c].busy

\* Bug: a copy that can't be deleted is taken for one that was.
DeleteCopy_Regardless(a) ==
    /\ Doing(a, "delete")
    /\ copy' = IF Removable(Mine(a)) THEN [copy EXCEPT ![Mine(a)].app = "deleted"] ELSE copy
    /\ ThenAt(a, "end")
    /\ UNCHANGED <<parent, prod, own, dcFaults>>

DeleteCopy(a) ==
    /\ Doing(a, "delete")
    /\ \/ /\ Removable(Mine(a))
          /\ copy' = [copy EXCEPT ![Mine(a)].app = "deleted"]
          /\ ThenAt(a, "end") /\ UNCHANGED dcFaults
       \/ ~Removable(Mine(a)) /\ Leaves(a) /\ UNCHANGED <<copy, dcFaults>>
       \/ DcFault /\ Leaves(a) /\ UNCHANGED copy
    /\ UNCHANGED <<parent, prod, own>>

EndRow(a) ==
    /\ Doing(a, "end")
    /\ copy' = [copy EXCEPT ![Mine(a)].row = "ended"]
    /\ IF dcJob[a].to = "register" THEN ThenAt(a, "register") ELSE Leaves(a)
    /\ UNCHANGED <<parent, prod, own, dcFaults>>

(***************************************************************************)
(* The copy as an application of its own                                   *)
(***************************************************************************)
CopyItself(c) ==
    /\ \/ /\ copy[c].app = "running" /\ ~copy[c].busy
          /\ copy' = [copy EXCEPT ![c].app = "suspended", ![c].serves = FALSE]
       \/ /\ copy[c].app = "suspended"
          /\ copy' = [copy EXCEPT ![c].app = "running", ![c].serves = TRUE]
       \/ /\ copy[c].app \in {"running", "suspended"} /\ ~copy[c].busy
          /\ copy' = [copy EXCEPT ![c].app = "archived", ![c].serves = FALSE]
       \/ Removable(c) /\ copy' = [copy EXCEPT ![c].app = "deleted"]
    /\ UNCHANGED <<parent, prod, own, dcJob, dcFaults>>

(***************************************************************************)
(* The application's production deployments                                *)
(***************************************************************************)
InFlightProd == \E d \in Prod : prod[d].st = "pending"

\* Dev data only for the first: none is running, or was.  Neither the
\* lifecycle status nor a hold is asked for.
FirstProd == \A d \in Prod : prod[d].st \notin {"running", "superseded"}

\* A copy that has run has a database to take it from.
Sources == {c \in LiveCopies : copy[c].serves \/ copy[c].app \in {"suspended", "archived"}}

DeployProd ==
    /\ ~InFlightProd
    /\ \E d \in Prod, c \in {0} \cup Sources :
        /\ prod[d] = Undeployed /\ \A e \in 1..(d - 1) : prod[e] # Undeployed
        /\ c # 0 => FirstProd
        /\ prod' = [prod EXCEPT ![d] = [st |-> "pending", from |-> c]]
    /\ UNCHANGED <<parent, copy, own, dcJob, dcFaults>>

\* Approved and activated, the copy runs once it is live; if the dev copy is
\* gone it fails, and the deployment stays.
GoLive ==
    /\ \E d \in Prod :
        /\ prod[d].st = "pending"
        /\ prod' = [e \in Prod |-> IF e = d THEN [prod[e] EXCEPT !.st = "running"]
                      ELSE IF prod[e].st = "running" THEN [prod[e] EXCEPT !.st = "superseded"]
                      ELSE prod[e]]
        /\ own' = (own /\ (prod[d].from = 0 \/ copy[prod[d].from].app = "deleted"))
    /\ parent' = [parent EXCEPT !.st = "running"]
    /\ UNCHANGED <<copy, dcJob, dcFaults>>

\* Rejected, not started, or given up on by the monitor with nothing to go
\* back to.
ProdFails ==
    /\ \E d \in Prod :
        /\ \/ prod[d].st = "pending"
           \/ /\ prod[d].st = "running" /\ parent.st = "running"
              /\ \A e \in Prod \ {d} : prod[e].st \notin {"pending", "superseded"}
        /\ prod' = [prod EXCEPT ![d].st = "failed"]
        /\ parent' = IF \E e \in Prod \ {d} : prod[e].st = "running" THEN parent
                     ELSE [parent EXCEPT !.st = "failed"]
    /\ UNCHANGED <<copy, own, dcJob, dcFaults>>

\* People use what runs.
Used ==
    /\ \E d \in Prod : prod[d].st = "running"
    /\ own' = TRUE
    /\ UNCHANGED <<parent, copy, prod, dcJob, dcFaults>>

\* Its owners archive or delete it, an administrator holds and releases it.
ParentMoves ==
    /\ \/ /\ parent.st = "running" /\ ~InFlightProd /\ ~parent.held
          /\ parent' = [parent EXCEPT !.st = "archived"]
          /\ prod' = [d \in Prod |-> IF prod[d].st = "running" THEN [prod[d] EXCEPT !.st = "archived"]
                                     ELSE prod[d]]
       \/ /\ parent.st \in {"validated", "failed", "archived"} /\ ~InFlightProd /\ ~parent.held
          /\ parent' = [parent EXCEPT !.st = "deleted"] /\ UNCHANGED prod
       \/ parent.held /\ parent' = [parent EXCEPT !.held = FALSE] /\ UNCHANGED prod
    /\ UNCHANGED <<copy, own, dcJob, dcFaults>>

Held ==
    /\ DcFault /\ parent.st = "running" /\ ~parent.held
    /\ parent' = [parent EXCEPT !.held = TRUE]
    /\ UNCHANGED <<copy, prod, own, dcJob>>

\* The server restarts: whatever was being done is left where it was, a build
\* or a deployment half way (cut), which nothing ends afterwards.
DcCrash ==
    /\ DcFault /\ dcJob' = [a \in DcActors |-> Nobody]
    /\ copy' = [c \in Copy |-> [copy[c] EXCEPT !.cut = @ \/ copy[c].busy]]
    /\ UNCHANGED <<parent, prod, own>>

-----------------------------------------------------------------------------
DcInit ==
    /\ parent = [st |-> "validated", held |-> FALSE]
    /\ copy = [c \in Copy |-> Unregistered]
    /\ prod = [d \in Prod |-> Undeployed]
    /\ own = FALSE
    /\ dcJob = [a \in DcActors |-> Nobody]
    /\ dcFaults = 0

TearsDown(a) == ArchiveCopy(a) \/ DeleteCopy(a) \/ EndRow(a)
Deploys(r) ==
    Register(r) \/ CreateRow(r) \/ ValidateCopy(r) \/ BuildCopy(r) \/ BuildEnds(r)
      \/ DeployCopy(r) \/ DeployEnds(r)

DcNext ==
    \/ \E r \in Callers : DeployDev(r) \/ Reset(r) \/ Deploys(r)
    \/ \E a \in DcActors : TearsDown(a)
    \/ \E c \in Copy : CopyItself(c)
    \/ Sweep \/ DeployProd \/ GoLive \/ ProdFails \/ Used \/ ParentMoves \/ Held \/ DcCrash

DcSpec == DcInit /\ [][DcNext]_dcVars

\* The sweep runs every minute; a request that has begun goes on.
DcFairSpec ==
    /\ DcSpec
    /\ WF_dcVars(Sweep \/ TearsDown(Sweeper))
    /\ \A r \in Callers : WF_dcVars(Deploys(r) \/ TearsDown(r))

-----------------------------------------------------------------------------
\* A dev copy's row ends only once its application is deleted, containers and
\* database with it (teardown), whatever else is done to the copy meanwhile;
\* only a deployment that was already on its way brings it back.
EndedIsDeleted == \A c \in Copy :
    copy[c].row = "ended" /\ ~copy[c].late => copy[c].app = "deleted" /\ ~copy[c].busy

\* "The copy goes when its application is archived or deleted"
\* (devcopy_service.go:19), but for two copies that can be neither archived nor
\* deleted: one with a version that serves that is neither running nor
\* suspended, and one whose build or deployment a restart cut.  A build or a
\* deployment that goes on only puts the end off.
Wedged(c) == copy[c].serves /\ copy[c].app \in {"build", "failed"}

\* "After that, production's data is its own and is never replaced"
\* (devcopy_service.go:17).
RealDataKept == [][own => own']_dcVars
===============================================================================
