---------------------------- MODULE PlatformStore ----------------------------
(***************************************************************************)
(* What the platform API keeps about one application, and the reads and    *)
(* writes its services make: the PostgreSQL rows, the containers Docker is *)
(* running, and where each request being handled has got to.  The services *)
(* of this module's users share all of it.                                 *)
(*                                                                         *)
(* A request is handled by a worker.  Every action of the services is one  *)
(* write (to a row or to Docker) with the reads since the write before, so *)
(* everything between two writes of one handler can be interleaved with    *)
(* other handlers, exactly as goroutines sharing a database can.           *)
(***************************************************************************)
EXTENDS Naturals, FiniteSets

CONSTANTS
    Workers,         \* requests (and background sweeps) handled at once
    MaxDeployments,  \* bound: deployments ever created
    MaxBuilds,       \* bound: builds ever created
    MaxFaults,       \* bound: cancelled requests, failed stops, restarts
    GatedEnvs,       \* APPROVAL_REQUIRED_ENVIRONMENTS
    IsDevCopy,       \* this application is the dev copy of another
    Ops              \* the operations requested in this instance

Env == {"dev", "production"}

ASSUME StoreAssumption ==
    /\ MaxDeployments \in Nat /\ MaxBuilds \in Nat /\ MaxFaults \in Nat
    /\ GatedEnvs \subseteq Env
    /\ IsDevCopy \in BOOLEAN

Dep == 1..MaxDeployments
Build == 1..MaxBuilds

LifecycleStatus ==
    {"validated", "build", "deploying", "rolled_back", "running", "suspended",
     "failed", "archived", "deleted"}
InFlightStatus == {"scanning", "pending_approval", "deploying", "health_check"}
DeploymentStatus ==
    InFlightStatus \cup {"none", "running", "failed", "rejected", "superseded",
                         "suspended", "archived"}
BuildStatus == {"none", "queued", "in_progress", "succeeded", "failed"}
Decision == {"none", "pending", "approved", "rejected"}

VARIABLES
    app,       \* applications.lifecycle_status
    hold,      \* an admin_holds row exists
    database,  \* the application's database is provisioned
    deps,      \* deployments, with their deployment_approvals row; ids are in
               \* creation order, "none" is a row not created yet; listed:
               \* the record names the containers that run for it
    nDeps,     \* how many exist
    builds, nBuilds,
    up,        \* deployments whose containers Docker is running
    rows,      \* deployments whose service_runtime_state rows name a container
    job,       \* what each worker is doing
    faults,    \* faults so far
    approved,  \* history: deployments somebody approved
    served     \* history: deployments that went live

depVars == <<deps, nDeps>>
buildVars == <<builds, nBuilds>>
runtimeVars == <<up, rows>>
history == <<approved, served>>
vars == <<app, hold, database, depVars, buildVars, runtimeVars, job, faults, history>>

Deployment == [status: DeploymentStatus, env: Env, build: 0..MaxBuilds,
               decision: Decision, listed: BOOLEAN]

NoDeployment == [status |-> "none", env |-> "dev", build |-> 0,
                 decision |-> "none", listed |-> FALSE]

(***************************************************************************)
(* A worker's local variables: where it is (pc), the operation, the        *)
(* deployment and build it works on, the other deployment it is retiring,  *)
(* the lifecycle status it read (seen) and the one it fails back to (back),*)
(* the approver's answer, and whether the request's context is alive.      *)
(***************************************************************************)
Idle == [pc |-> "idle", op |-> "none", dep |-> 0, prev |-> 0, build |-> 0,
         env |-> "dev", seen |-> "validated", back |-> "failed",
         approve |-> FALSE, alive |-> TRUE]

StoreInit ==
    /\ app = "validated" /\ hold = FALSE /\ database = FALSE
    /\ deps = [d \in Dep |-> NoDeployment] /\ nDeps = 0
    /\ builds = [b \in Build |-> "none"] /\ nBuilds = 0
    /\ up = {} /\ rows = {}
    /\ job = [w \in Workers |-> Idle]
    /\ faults = 0 /\ approved = {} /\ served = {}

-----------------------------------------------------------------------------
(* Reads *)

InFlight(d) == deps[d].status \in InFlightStatus
RunningDeps == {d \in Dep : deps[d].status = "running"}
LatestInFlight == nDeps > 0 /\ InFlight(nDeps)

\* ORDER BY created_at DESC LIMIT 1 over the rows in S.
IsNewest(d, S) == d \in S /\ \A e \in S : e <= d

\* Bug: a deployment somebody rejected counts as one that went live.
Completed_Rejected(d) == deps[d].status \in {"running", "superseded", "rejected"}

\* lastKnownGoodDeployment takes the newest other deployment that completed.
Completed(d) == deps[d].status \in {"running", "superseded"}
CompletedExcept(d) == {e \in Dep \ {d} : Completed(e)}

EverRan == \E d \in Dep :
    deps[d].status \in {"running", "superseded", "suspended", "archived"}

BuildInFlight == nBuilds > 0 /\ builds[nBuilds] \in {"queued", "in_progress"}

Gated(e) == e \in GatedEnvs /\ ~IsDevCopy

-----------------------------------------------------------------------------
(* Writes.  One row is written by each, and no condition is on the row but *)
(* its id -- except the lifecycle status, which is compared and swapped,   *)
(* and the two partial unique indexes, which refuse a write.               *)

SetStatus(d, s) == deps' = [deps EXCEPT ![d].status = s]

\* Bug: the index forgets deployments that wait at the gate.
IndexAllows_NotWaiting(d) ==
    \A e \in Dep \ {d} : deps[e].status \notin InFlightStatus \ {"pending_approval"}

\* one_in_flight_deployment_per_application
IndexAllows(d) == \A e \in Dep \ {d} : ~InFlight(e)

\* one_in_progress_build_per_application
BuildIndexAllows == \A b \in Build : builds[b] \notin {"queued", "in_progress"}

\* Bug: the application's containers are stopped, not the deployment's.
StopContainers_All(S) == up' = (IF S = {} THEN up ELSE {}) /\ UNCHANGED faults

\* Docker stops the containers of S; a stop that fails is ignored or logged.
StopContainers(S) ==
    \/ up' = up \ S /\ UNCHANGED faults
    \/ S \cap up # {} /\ faults < MaxFaults /\ faults' = faults + 1 /\ UNCHANGED up

-----------------------------------------------------------------------------
(* Workers *)

At(w, pc) == job[w].pc = pc
Become(w, j) == job' = [job EXCEPT ![w] = j]
Goto(w, pc) == Become(w, [job[w] EXCEPT !.pc = pc])
Return(w) == Become(w, Idle)
AtRest == \A w \in Workers : At(w, "idle")

\* A free worker takes a request for operation op.
Free(w, op) == At(w, "idle") /\ op \in Ops

\* Writes made with the request's context fail once it is cancelled.
Alive(w, pc) == At(w, pc) /\ job[w].alive
=============================================================================
