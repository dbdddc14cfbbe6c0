---------------------------- MODULE DeployService ----------------------------
(***************************************************************************)
(* DeploymentService (service/deploy_service.go): initiating a deployment, *)
(* deciding an approval, rolling back by request and automatically, and    *)
(* the activation pipeline all of them end in.                             *)
(*                                                                         *)
(*   deploy:   create -> scan -> gate -> ask                    (paused)   *)
(*                           \-> activate ...                              *)
(*   decide:   decide -> activate ... | reject -> rejectApp                *)
(*   rollback: create -> activate ...                                      *)
(*   activate -> occupy -> start -> checking -> health -> live -> publish  *)
(*            -> track -> retire -> supersede -> untrack                   *)
(*   any failure before live: fail -> failApp                              *)
(***************************************************************************)
EXTENDS PlatformStore

Transient(w) == IF job[w].op \in {"rollback", "auto"} THEN "rolled_back" ELSE "deploying"

-----------------------------------------------------------------------------
\* Bug: any build will do.
Deployable_AnyBuild == nBuilds > 0

Deployable == nBuilds > 0 /\ builds[nBuilds] = "succeeded"

(* InitiateDeploy's checks, up to the insert.  Nothing asks what lifecycle *)
(* status the application is in or whether an administrator holds it.      *)
RequestDeploy(w, e) ==
    /\ Free(w, "deploy")
    /\ IsDevCopy => e = "dev"
    /\ Deployable
    /\ ~LatestInFlight
    /\ nDeps < MaxDeployments
    /\ Become(w, [Idle EXCEPT !.pc = "create", !.op = "deploy",
                              !.build = nBuilds, !.env = e, !.seen = app])
    /\ UNCHANGED <<app, hold, database, depVars, buildVars, runtimeVars, faults, history>>

RollbackTarget(t) == Completed(t) /\ builds[deps[t].build] = "succeeded"

(* Rollback's checks, up to the insert. *)
RequestRollback(w, t) ==
    /\ Free(w, "rollback")
    /\ app \in {"running", "failed"}
    /\ ~LatestInFlight
    /\ RollbackTarget(t)
    /\ nDeps < MaxDeployments
    /\ Become(w, [Idle EXCEPT !.pc = "create", !.op = "rollback",
                              !.build = deps[t].build, !.env = deps[t].env,
                              !.seen = app])
    /\ UNCHANGED <<app, hold, database, depVars, buildVars, runtimeVars, faults, history>>

(* TriggerAutomaticRollback, called by the health monitor when it gives up *)
(* on a service of deployment d: the instance it was remediating is        *)
(* stopped and cleared, which is all of d's containers or only some.  The  *)
(* monitor sweeps in one goroutine.                                        *)
TriggerAutomaticRollback(w, d) ==
    /\ Free(w, "auto")
    /\ \A v \in Workers : job[v].op # "auto"
    /\ d \in rows /\ deps[d].status = "running"
    /\ \/ UNCHANGED runtimeVars
       \/ up' = up \ {d} /\ rows' = rows \ {d}
    /\ app = "running"
    /\ ~LatestInFlight
    /\ \/ \E t \in Dep :
            /\ nDeps < MaxDeployments
            /\ IsNewest(t, CompletedExcept(nDeps))
            /\ RollbackTarget(t)
            /\ Become(w, [Idle EXCEPT !.pc = "create", !.op = "auto", !.seen = app,
                                      !.build = deps[t].build, !.env = deps[t].env])
       \/ /\ \A t \in CompletedExcept(nDeps) :
                IsNewest(t, CompletedExcept(nDeps)) => ~RollbackTarget(t)
          /\ Become(w, [Idle EXCEPT !.pc = "giveUp", !.op = "auto", !.dep = nDeps])
    /\ UNCHANGED <<app, hold, database, depVars, buildVars, faults, history>>

\* No earlier good version: the deployment and the application are failed.
GiveUp(w) ==
    /\ Alive(w, "giveUp")
    /\ SetStatus(job[w].dep, "failed")
    /\ Goto(w, "giveUpApp")
    /\ UNCHANGED <<app, hold, database, nDeps, buildVars, runtimeVars, faults, history>>

GiveUpApp(w) ==
    /\ Alive(w, "giveUpApp")
    /\ app' = IF app = "running" THEN "failed" ELSE app
    /\ Return(w)
    /\ UNCHANGED <<hold, database, depVars, buildVars, runtimeVars, faults, history>>

\* INSERT ... 'scanning'; the partial unique index may refuse it.
Create(w) ==
    /\ Alive(w, "create")
    /\ IF IndexAllows(0) /\ nDeps < MaxDeployments THEN
          /\ nDeps' = nDeps + 1
          /\ deps' = [deps EXCEPT ![nDeps + 1] =
                       [NoDeployment EXCEPT !.status = "scanning",
                                            !.env = job[w].env, !.build = job[w].build]]
          /\ Become(w, [job[w] EXCEPT !.dep = nDeps + 1,
                                      !.pc = IF job[w].op = "deploy" THEN "scan" ELSE "activate"])
       ELSE Return(w) /\ UNCHANGED depVars
    /\ UNCHANGED <<app, hold, database, buildVars, runtimeVars, faults, history>>

\* Bugs: the failure is not written on the deployment; is not written at all;
\* always goes back to Running; goes back to the status that was read.
FailTo_AppOnly(w, from) ==
    Become(w, [job[w] EXCEPT !.pc = "failApp", !.seen = from, !.back = "failed"])
FailTo_Unwritten(w, from) == Return(w)
FailTo_Running(w, from) ==
    Become(w, [job[w] EXCEPT !.pc = "fail", !.seen = from, !.back = "running"])
FailTo_Seen(w, from) ==
    Become(w, [job[w] EXCEPT !.pc = "fail", !.seen = from, !.back = job[w].seen])

\* markDeploymentFailedFrom: SetFailed, then from the given lifecycle status
\* back to Running, if that is where the application was, or to Failed.
FailTo(w, from) ==
    Become(w, [job[w] EXCEPT !.pc = "fail", !.seen = from,
                             !.back = IF job[w].seen = "running" THEN "running" ELSE "failed"])

Fail(w) ==
    /\ At(w, "fail")
    /\ SetStatus(job[w].dep, "failed")
    /\ Goto(w, "failApp")
    /\ UNCHANGED <<app, hold, database, nDeps, buildVars, runtimeVars, faults, history>>

\* Bug: only a forward deployment's status is expected here.
FailApp_Deploying(w) ==
    /\ At(w, "failApp")
    /\ app' = IF app = "deploying" THEN job[w].back ELSE app
    /\ Return(w)
    /\ UNCHANGED <<hold, database, depVars, buildVars, runtimeVars, faults, history>>

FailApp(w) ==
    /\ At(w, "failApp")
    /\ app' = IF app = job[w].seen THEN job[w].back ELSE app
    /\ Return(w)
    /\ UNCHANGED <<hold, database, depVars, buildVars, runtimeVars, faults, history>>

\* The image scan of every service, and whether the deployment waits at the
\* gate.  Reports that can't be stored leave the deployment scanning.
Scan(w) ==
    /\ At(w, "scan")
    /\ \/ FailTo(w, job[w].seen)
       \/ ~job[w].alive /\ Return(w)
       \/ /\ job[w].alive
          /\ Goto(w, IF Gated(deps[job[w].dep].env) THEN "gate" ELSE "activate")
    /\ UNCHANGED <<app, hold, database, depVars, buildVars, runtimeVars, faults, history>>

AwaitApproval(w) ==
    /\ Alive(w, "gate")
    /\ IF IndexAllows(job[w].dep)
       THEN SetStatus(job[w].dep, "pending_approval") /\ Goto(w, "ask")
       ELSE Return(w) /\ UNCHANGED deps
    /\ UNCHANGED <<app, hold, database, nDeps, buildVars, runtimeVars, faults, history>>

AskApprovers(w) ==
    /\ Alive(w, "ask")
    /\ deps' = [deps EXCEPT ![job[w].dep].decision = "pending"]
    /\ Return(w)
    /\ UNCHANGED <<app, hold, database, nDeps, buildVars, runtimeVars, faults, history>>

-----------------------------------------------------------------------------
(* DecideApproval by an owner, or DecideSignedApproval by an approver: both *)
(* look at the status once, then decide.                                    *)
RequestDecision(w, d, yes) ==
    /\ Free(w, "decide")
    /\ deps[d].status = "pending_approval"
    /\ Become(w, [Idle EXCEPT !.pc = "decide", !.op = "decide",
                              !.dep = d, !.approve = yes])
    /\ UNCHANGED <<app, hold, database, depVars, buildVars, runtimeVars, faults, history>>

\* The approval row is written whatever it said before; the application's
\* status is read after it.
Decide(w) ==
    LET d == job[w].dep  yes == job[w].approve IN
    /\ Alive(w, "decide")
    /\ IF deps[d].decision = "none" THEN Return(w) /\ UNCHANGED <<deps, approved>>
       ELSE /\ deps' = [deps EXCEPT ![d].decision = IF yes THEN "approved" ELSE "rejected"]
            /\ approved' = IF yes THEN approved \cup {d} ELSE approved
            /\ Become(w, [job[w] EXCEPT !.seen = app,
                                        !.pc = IF yes THEN "activate" ELSE "reject"])
    /\ UNCHANGED <<app, hold, database, nDeps, buildVars, runtimeVars, faults, served>>

Reject(w) ==
    /\ Alive(w, "reject")
    /\ SetStatus(job[w].dep, "rejected")
    /\ IF job[w].seen = "running" THEN Return(w) ELSE Goto(w, "rejectApp")
    /\ UNCHANGED <<app, hold, database, nDeps, buildVars, runtimeVars, faults, history>>

RejectApp(w) ==
    /\ Alive(w, "rejectApp")
    /\ app' = IF app # job[w].seen THEN app
              ELSE IF RunningDeps \ {job[w].dep} = {} THEN "failed" ELSE "running"
    /\ Return(w)
    /\ UNCHANGED <<hold, database, depVars, buildVars, runtimeVars, faults, history>>

-----------------------------------------------------------------------------
(* deployAndActivate *)

\* A deployment.yaml that no longer parses fails the deployment before its
\* status is written.
SetDeploying(w) ==
    /\ At(w, "activate")
    /\ \/ FailTo(w, job[w].seen) /\ UNCHANGED deps
       \/ /\ job[w].alive
          /\ IF IndexAllows(job[w].dep)
             THEN SetStatus(job[w].dep, "deploying") /\ Goto(w, "occupy")
             ELSE Return(w) /\ UNCHANGED deps
    /\ UNCHANGED <<app, hold, database, nDeps, buildVars, runtimeVars, faults, history>>

\* The application moves from the status read earlier; if it has another one
\* by now the handler returns the error and leaves the deployment deploying.
Occupy(w) ==
    /\ Alive(w, "occupy")
    /\ IF app = job[w].seen THEN app' = Transient(w) /\ Goto(w, "start")
       ELSE Return(w) /\ UNCHANGED app
    /\ UNCHANGED <<hold, database, depVars, buildVars, runtimeVars, faults, history>>

\* EnsureProvisioned, WiringFor and StartContainer for every service.  When
\* one fails the ones started are stopped, which needs the context too and may
\* fail unnoticed.
StartContainers(w) ==
    LET d == job[w].dep IN
    /\ At(w, "start")
    /\ \/ /\ job[w].alive /\ database' = TRUE /\ up' = up \cup {d} /\ Goto(w, "checking")
          /\ UNCHANGED faults
       \/ /\ FailTo(w, Transient(w))
          /\ database' \in {database, TRUE}
          /\ \/ UNCHANGED <<up, faults>>
             \/ up' = up \cup {d} /\ ~job[w].alive /\ UNCHANGED faults
             \/ up' = up \cup {d} /\ faults < MaxFaults /\ faults' = faults + 1
    /\ UNCHANGED <<app, hold, depVars, buildVars, rows, history>>

SetHealthCheck(w) ==
    /\ Alive(w, "checking")
    /\ IF IndexAllows(job[w].dep)
       THEN SetStatus(job[w].dep, "health_check") /\ Goto(w, "health")
       ELSE Return(w) /\ UNCHANGED deps
    /\ UNCHANGED <<app, hold, database, nDeps, buildVars, runtimeVars, faults, history>>

HealthCheck(w) ==
    /\ At(w, "health")
    /\ \/ job[w].alive /\ Goto(w, "live") /\ UNCHANGED <<up, faults>>
       \/ /\ FailTo(w, Transient(w))
          /\ IF job[w].alive THEN StopContainers({job[w].dep}) ELSE UNCHANGED <<up, faults>>
    /\ UNCHANGED <<app, hold, database, depVars, buildVars, rows, history>>

SetRunning(w) ==
    LET d == job[w].dep IN
    /\ Alive(w, "live")
    /\ deps' = [deps EXCEPT ![d].status = "running", ![d].listed = TRUE]
    /\ served' = served \cup {d}
    /\ Goto(w, "publish")
    /\ UNCHANGED <<app, hold, database, nDeps, buildVars, runtimeVars, faults, approved>>

Publish(w) ==
    /\ Alive(w, "publish")
    /\ IF app = Transient(w) THEN app' = "running" /\ Goto(w, "track")
       ELSE Return(w) /\ UNCHANGED app
    /\ UNCHANGED <<hold, database, depVars, buildVars, runtimeVars, faults, history>>

\* InitializeForDeployment; its failure is only logged.
TrackServices(w) ==
    /\ At(w, "track")
    /\ \/ job[w].alive /\ rows' = rows \cup {job[w].dep} /\ UNCHANGED faults
       \/ ~job[w].alive /\ UNCHANGED <<rows, faults>>
       \/ faults < MaxFaults /\ faults' = faults + 1 /\ UNCHANGED rows
    /\ Goto(w, "retire")
    /\ UNCHANGED <<app, hold, database, depVars, buildVars, up, history>>

\* Bug: the version before stops and is still called running.
RetirePrevious_StopOnly(w) ==
    /\ Alive(w, "retire")
    /\ StopContainers(RunningDeps \ {job[w].dep})
    /\ Return(w)
    /\ UNCHANGED <<app, hold, database, depVars, buildVars, rows, history>>

\* The version before stops: the containers its deployment's record names.
RetirePrevious(w) ==
    LET others == RunningDeps \ {job[w].dep} IN
    /\ Alive(w, "retire")
    /\ \/ others = {} /\ Return(w) /\ UNCHANGED <<up, faults>>
       \/ \E p \in Dep :
            /\ IsNewest(p, others)
            /\ StopContainers(IF deps[p].listed THEN {p} ELSE {})
            /\ Become(w, [job[w] EXCEPT !.pc = "supersede", !.prev = p])
    /\ UNCHANGED <<app, hold, database, depVars, buildVars, rows, history>>

SetSuperseded(w) ==
    /\ Alive(w, "supersede")
    /\ SetStatus(job[w].prev, "superseded")
    /\ Goto(w, "untrack")
    /\ UNCHANGED <<app, hold, database, nDeps, buildVars, runtimeVars, faults, history>>

CleanupForDeployment(w) ==
    /\ At(w, "untrack")
    /\ rows' = IF job[w].alive THEN rows \ {job[w].prev} ELSE rows
    /\ Return(w)
    /\ UNCHANGED <<app, hold, database, depVars, buildVars, up, faults, history>>

-----------------------------------------------------------------------------
(* A handler whose context was cancelled returns at its next write. *)
DeployContextPcs ==
    {"create", "gate", "ask", "decide", "reject", "rejectApp", "activate", "occupy",
     "checking", "live", "publish", "retire", "supersede", "giveUp", "giveUpApp"}

DeployRequest(w) ==
    \/ \E e \in Env : RequestDeploy(w, e)
    \/ \E d \in Dep : RequestRollback(w, d)
    \/ \E d \in Dep : TriggerAutomaticRollback(w, d)
    \/ \E d \in Dep, yes \in BOOLEAN : RequestDecision(w, d, yes)

DeployStep(w) ==
    \/ Create(w) \/ Scan(w) \/ AwaitApproval(w) \/ AskApprovers(w)
    \/ Decide(w) \/ Reject(w) \/ RejectApp(w)
    \/ SetDeploying(w) \/ Occupy(w) \/ StartContainers(w) \/ SetHealthCheck(w)
    \/ HealthCheck(w) \/ SetRunning(w) \/ Publish(w) \/ TrackServices(w)
    \/ RetirePrevious(w) \/ SetSuperseded(w) \/ CleanupForDeployment(w)
    \/ Fail(w) \/ FailApp(w) \/ GiveUp(w) \/ GiveUpApp(w)
=============================================================================
