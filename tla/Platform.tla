------------------------------- MODULE Platform -------------------------------
(***************************************************************************)
(* The platform API on one application: the deployment, build and          *)
(* lifecycle services handling requests at once on the same rows, with     *)
(* callers that go away and a server that restarts.                        *)
(***************************************************************************)
EXTENDS DeployService, BuildService, LifecycleService

\* Requests carry their caller's context; the sweeps run on the server's own.
Cancellable(w) == ~At(w, "idle") /\ job[w].op \notin {"auto", "cleanup"}

CallerLeaves(w) ==
    /\ Cancellable(w) /\ job[w].alive
    /\ faults < MaxFaults /\ faults' = faults + 1
    /\ Become(w, [job[w] EXCEPT !.alive = FALSE])
    /\ UNCHANGED <<app, hold, database, depVars, buildVars, runtimeVars, history>>

\* The write the handler is about to make fails, and it returns the error.
WriteRefused(w) ==
    /\ job[w].pc \in DeployContextPcs \cup BuildContextPcs \cup LifecycleContextPcs
    /\ ~job[w].alive
    /\ Return(w)
    /\ UNCHANGED <<app, hold, database, depVars, buildVars, runtimeVars, faults, history>>

\* platform-api restarts: every handler is gone, the rows and the containers
\* are as they were.  Nothing at startup looks for what was in flight.
ServerRestarts ==
    /\ ~AtRest
    /\ faults < MaxFaults /\ faults' = faults + 1
    /\ job' = [w \in Workers |-> Idle]
    /\ UNCHANGED <<app, hold, database, depVars, buildVars, runtimeVars, history>>

Request(w) == DeployRequest(w) \/ RequestBuild(w) \/ LifecycleRequest(w)
Step(w) == DeployStep(w) \/ BuildStep(w) \/ LifecycleStep(w) \/ WriteRefused(w)

Next ==
    \/ \E w \in Workers : Request(w) \/ Step(w) \/ CallerLeaves(w)
    \/ ServerRestarts

Spec == StoreInit /\ [][Next]_vars

\* A handler that has begun keeps going: a goroutine is not starved.
FairSpec == Spec /\ \A w \in Workers : WF_vars(Step(w))

-----------------------------------------------------------------------------
Pcs == {"idle"} \cup DeployContextPcs \cup BuildContextPcs \cup LifecycleContextPcs
       \cup {"scan", "start", "health", "track", "untrack", "fail", "failApp",
             "building", "buildFailed", "resume", "recycle"}

Operations == {"none", "deploy", "rollback", "auto", "decide", "build", "suspend",
               "adminSuspend", "resume", "adminResume", "restart", "archive",
               "delete", "cleanup"}

Job == [pc : Pcs, op : Operations, dep : 0..MaxDeployments, prev : 0..MaxDeployments,
        build : 0..MaxBuilds, env : Env, seen : LifecycleStatus,
        back : {"running", "failed"}, approve : BOOLEAN, alive : BOOLEAN]

TypeOK ==
    /\ app \in LifecycleStatus
    /\ hold \in BOOLEAN /\ database \in BOOLEAN
    /\ deps \in [Dep -> Deployment] /\ nDeps \in 0..MaxDeployments
    /\ builds \in [Build -> BuildStatus] /\ nBuilds \in 0..MaxBuilds
    /\ up \subseteq Dep /\ rows \subseteq Dep
    /\ job \in [Workers -> Job]
    /\ faults \in Nat
    /\ approved \subseteq Dep /\ served \subseteq Dep

-----------------------------------------------------------------------------
(* Whatever the interleaving and the faults. *)

\* At most one deployment of the application is in flight (the partial unique
\* index, and every path that sets a status it covers).
OneInFlight == \A d, e \in Dep : InFlight(d) /\ InFlight(e) => d = e

\* A deployment to a gated environment gets containers only if somebody
\* approved it, or an earlier deployment of the same build to the same
\* environment: a rollback never runs what was not approved.
Activated == {"deploying", "health_check", "running", "superseded", "suspended", "archived"}
Cleared(b, e) == Gated(e) =>
    \E a \in approved : deps[a].build = b /\ deps[a].env = e
ProductionGate == \A d \in Dep :
    deps[d].status \in Activated => Cleared(deps[d].build, deps[d].env)

\* Nothing is deployed from a build that has not succeeded.
BuiltFirst == \A d \in Dep :
    deps[d].status # "none" => deps[d].build \in Build /\ builds[deps[d].build] = "succeeded"

-----------------------------------------------------------------------------
(* One request at a time. *)

\* A deployment in flight is waiting for an approver or somebody works on it;
\* otherwise no request is accepted for the application again.
NotStranded == \A d \in Dep :
    InFlight(d) => deps[d].status = "pending_approval" \/ \E w \in Workers : job[w].dep = d

\* Between requests one version runs at most ...
AtMostOneRunning == AtRest => Cardinality(RunningDeps) <= 1

\* ... an application that says it is running has a deployment that says so.
\* Of the rows only: the monitor may have taken the containers down before a
\* rollback that failed (deploy_service.go:874-885), a restart may have failed
\* half way, and services at zero have none ...
RunningHasVersion == AtRest /\ app = "running" => RunningDeps # {}

\* ... and no build or activation is left half way.
Settled == AtRest => app \notin {"deploying", "rolled_back"} /\ ~BuildInFlight

\* A deployment takes down the version that serves only when another serves.
Deploying(w) == job[w].op \in {"deploy", "rollback", "decide"}
Replaces == \A d \in up \ up' :
    (\E w \in Workers : Deploying(w)) /\ deps[d].status = "running"
        => \E e \in RunningDeps \ {d} : e \in up'
ReplacedFirst == [][Replaces]_vars

\* The versions, as Release sees them.
StageOf(d) ==
    CASE deps[d].status = "none" -> "untried"
      [] InFlight(d) -> "trial"
      [] deps[d].status = "running" -> "live"
      [] deps[d].status = "suspended" -> "parked"
      [] OTHER -> "ended"

Promised == INSTANCE Release WITH Versions <- Dep, stage <- [d \in Dep |-> StageOf(d)]
ImplementsRelease == Promised!Spec

\* A deployment that is not waiting for an approver comes out of flight ...
DeploymentsEnd == \A d \in Dep :
    deps[d].status \in {"scanning", "deploying", "health_check"}
        ~> ~InFlight(d) \/ deps[d].status = "pending_approval"

\* ... and the application out of the statuses an activation occupies.
StatusSettles == app \in {"deploying", "rolled_back"} ~> app \notin {"deploying", "rolled_back"}

-----------------------------------------------------------------------------
(* What the documentation says, and the code does not do. *)

\* "An application that has run is never removed this way" (failed_cleanup.go).
CleanupSparesServed == [][\A w \in Workers :
    job[w].op = "cleanup" /\ app # "deleted" /\ app' = "deleted" => served = {}]_vars
=============================================================================
