----------------------------- MODULE GateProofs -----------------------------
(***************************************************************************)
(* What is deployed was built, and what is deployed to a gated environment *)
(* was approved: proofs for every number of handlers, deployments, builds  *)
(* and faults, and every choice of gated environments.                     *)
(*                                                                         *)
(* Neither property is inductive: a handler decides (a build succeeded, an *)
(* approver said yes, a version is a rollback's target) several writes     *)
(* before it acts, so what it decided must hold until then.  SafeInv says  *)
(* so of every handler (Sound) and of builds, which one handler at a time  *)
(* works on (OwnBuild); the decisions keep because approvals and built     *)
(* builds are never taken back (ClearedKept, NextHandlers).                *)
(***************************************************************************)
EXTENDS PlatformProofs

-----------------------------------------------------------------------------
(* Where what runs comes from.  GoodBuilds succeeded, OpenBuilds are being   *)
(* built, ClearedPairs may go to a gated environment, FitDeps are of those.  *)
GoodBuilds == {b \in Build : builds[b] = "succeeded"}
OpenBuilds == {b \in 1..nBuilds : builds[b] \in {"queued", "in_progress"}}
ClearedPairs == {p \in (0..MaxBuilds) \X Env : Cleared(p[1], p[2])}
FitDeps == {d \in 1..nDeps : <<deps[d].build, deps[d].env>> \in ClearedPairs}

FitPcs == {"activate", "occupy", "start", "checking", "health", "live", "suspended",
           "unlist", "archived", "resume", "resumed", "list", "recycle", "relist", "touch"}
BuildPcs == {"toBuild", "begin", "building"}

\* What a handler works on is fit for what it is about to do with it.
Sound(w) ==
    /\ job[w].pc \in FitPcs => job[w].dep \in FitDeps
    /\ At(w, "supersede") => job[w].prev \in FitDeps
    /\ At(w, "hold") /\ job[w].seen = "running" => job[w].dep \in FitDeps
    /\ At(w, "stop") /\ job[w].op \in {"suspend", "adminSuspend", "archive"}
            => job[w].dep \in FitDeps
    /\ At(w, "create") => job[w].build \in GoodBuilds
    /\ At(w, "create") /\ job[w].op # "deploy"
            => <<job[w].build, job[w].env>> \in ClearedPairs
    /\ job[w].pc \in BuildPcs => job[w].build \in OpenBuilds

Handlers == \A w \in Workers : Sound(w)

\* Two handlers never work on one build.
OwnBuild == \A v, w \in Workers :
    job[v].pc \in BuildPcs /\ job[w].pc \in BuildPcs /\ job[v].build = job[w].build => v = w

Numbered == \A b \in Build : b > nBuilds => builds[b] = "none"
Approvable == approved \subseteq 1..nDeps

SafeInv ==
    /\ ProductionGate /\ BuiltFirst
    /\ Handlers /\ OwnBuild /\ Numbered /\ Approvable

-----------------------------------------------------------------------------
LEMMA ActiveFit ==
    ASSUME TypeInv, SafeInv, NEW d \in Dep, deps[d].status \in Activated
    PROVE  d \in FitDeps /\ <<deps[d].build, deps[d].env>> \in ClearedPairs
<1>1. d \in 1..nDeps
  BY StoreAssumption DEF TypeInv, TypeOK, Created, Dep, Activated
<1>2. <<deps[d].build, deps[d].env>> \in ClearedPairs
  BY RowFields DEF TypeInv, SafeInv, ProductionGate, ClearedPairs
<1>3. QED
  BY <1>1, <1>2 DEF FitDeps

LEMMA UsedBuilt ==
    ASSUME SafeInv, NEW d \in Dep, deps[d].status # "none"
    PROVE  deps[d].build \in GoodBuilds
BY DEF SafeInv, BuiltFirst, GoodBuilds

(* Approvals are only added, each to a deployment that exists. *)
LEMMA ApprovedStep ==
    ASSUME TypeInv, SafeInv, [Next]_vars
    PROVE  approved \subseteq approved' /\ approved' \subseteq 1..nDeps
<1> USE DEF history
<1>1. approved \subseteq 1..nDeps
  BY DEF SafeInv, Approvable
<1>2. ASSUME NEW w \in Workers, Decide(w)
      PROVE  approved \subseteq approved' /\ approved' \subseteq 1..nDeps
  <2>1. job[w].dep \in 1..nDeps
    BY <1>2 DEF Decide, TypeInv, Working, DeploymentPcs, Alive, At
  <2>2. QED
    BY <1>1, <1>2, <2>1 DEF Decide
<1>3. ASSUME NEW w \in Workers, DeployRequest(w) \/ DeployStep(w), ~Decide(w)
      PROVE  approved' = approved
  BY <1>3 DEF DeployRequest, RequestDeploy, RequestRollback, TriggerAutomaticRollback,
     RequestDecision, DeployStep, Create, Scan, AwaitApproval, AskApprovers, Reject,
     RejectApp, SetDeploying, Occupy, StartContainers, SetHealthCheck, HealthCheck,
     SetRunning, Publish, TrackServices, RetirePrevious, SetSuperseded,
     CleanupForDeployment, Fail, FailApp, GiveUp, GiveUpApp
<1>4. ASSUME NEW w \in Workers, RequestBuild(w) \/ BuildStep(w) \/ WriteRefused(w) \/ CallerLeaves(w)
      PROVE  approved' = approved
  BY <1>4 DEF RequestBuild, BuildStep, CreateBuild, MoveToBuild, MarkInProgress,
     FinishBuild, LoseOutcome, RestoreStatus, WriteRefused, CallerLeaves
<1>5. ASSUME NEW w \in Workers, LifecycleRequest(w) \/ LifecycleStep(w)
      PROVE  approved' = approved
  BY <1>5 DEF LifecycleRequest, RequestSuspend, RequestAdminSuspend, RequestResume,
     RequestAdminResume, RequestRestart, RequestArchive, RequestDelete, SweepFailed,
     LifecycleStep, PlaceHold, StopAllContainers, SetSuspended, Unlist, MoveToSuspended,
     RemoveHold, ResumeContainers, SetResumed, List, MoveToRunning, ReleaseHold, Recycle,
     Relist, TouchRunning, SetArchived, MoveToArchived, RemoveFailed, Deprovision,
     MoveToDeleted
<1>6. CASE ServerRestarts \/ UNCHANGED vars
  BY <1>1, <1>6 DEF ServerRestarts, vars
<1>7. QED
  BY <1>1, <1>2, <1>3, <1>4, <1>5, <1>6 DEF Next, Request, Step

(* A deployment's environment and build are set once, so what was cleared
   stays cleared. *)
LEMMA ClearedKept ==
    ASSUME TypeInv, SafeInv, [Next]_vars
    PROVE  ClearedPairs \subseteq ClearedPairs' /\ FitDeps \subseteq FitDeps'
<1>1. nDeps \in 0..MaxDeployments /\ nDeps' \in Nat /\ nDeps <= nDeps'
  <2>1. nDeps \in 0..MaxDeployments
    BY DEF TypeInv, TypeOK
  <2>2. QED
    BY <2>1, NextRows, StoreAssumption DEF RowsKept, RowCreated, RowSet
<1>2. \A d \in 1..nDeps : deps'[d].build = deps[d].build /\ deps'[d].env = deps[d].env
  <2>1. \A d \in 1..nDeps : d \in Dep /\ d # nDeps + 1
    BY <1>1, StoreAssumption DEF Dep
  <2>2. QED
    BY <2>1, NextRows DEF RowsKept, RowCreated, RowSet, SameRow
<1>3. \A a \in approved : a \in approved' /\ a \in 1..nDeps
  BY ApprovedStep DEF SafeInv, Approvable
<1>4. ClearedPairs \subseteq ClearedPairs'
  BY <1>2, <1>3 DEF ClearedPairs, Cleared
<1>5. FitDeps \subseteq FitDeps'
  BY <1>1, <1>2, <1>4 DEF FitDeps
<1>6. QED
  BY <1>4, <1>5

\* A step of w that has nothing to do with builds.
Alone(w) ==
    /\ UNCHANGED buildVars /\ job'[w].pc \notin BuildPcs
    /\ \A v \in Workers \ {w} : job'[v] = job[v]

LEMMA LatestFit ==
    ASSUME TypeInv, SafeInv, NEW s \in Activated, LatestIs(s)
    PROVE  nDeps \in FitDeps
<1>1. nDeps \in Dep
  BY StoreAssumption DEF LatestIs, TypeInv, TypeOK, Dep
<1>2. QED
  BY <1>1, ActiveFit DEF LatestIs

LEMMA DeployRequestSound ==
    ASSUME TypeInv, SafeInv, FitDeps \subseteq FitDeps',
           ClearedPairs \subseteq ClearedPairs', NEW w \in Workers, DeployRequest(w)
    PROVE  Sound(w)' /\ Alone(w)
<1> USE DEF At, Alive, Free, depVars, buildVars, runtimeVars, history
<1>1. ASSUME NEW e \in Env, RequestDeploy(w, e)
      PROVE  Sound(w)' /\ Alone(w)
  <2> DEFINE j == [Idle EXCEPT !.pc = "create", !.op = "deploy",
                               !.build = nBuilds, !.env = e, !.seen = app]
  <2>1. j.pc = "create" /\ j.op = "deploy" /\ j.build = nBuilds
    BY DEF Idle
  <2>2. job'[w] = j /\ \A v \in Workers \ {w} : job'[v] = job[v]
    BY <1>1, Others DEF RequestDeploy, TypeInv
  <2>3. nBuilds \in GoodBuilds'
    BY <1>1, StoreAssumption DEF RequestDeploy, Deployable, GoodBuilds, Build, TypeInv, TypeOK
  <2>4. UNCHANGED buildVars
    BY <1>1 DEF RequestDeploy
  <2>5. QED
    <3> HIDE DEF j
    <3>1. QED
      BY <2>1, <2>2, <2>3, <2>4 DEF Sound, Alone, FitPcs, BuildPcs
<1>2. ASSUME NEW d \in Dep, RequestRollback(w, d)
      PROVE  Sound(w)' /\ Alone(w)
  <2> DEFINE j == [Idle EXCEPT !.pc = "create", !.op = "rollback", !.build = deps[d].build,
                               !.env = deps[d].env, !.seen = app]
  <2>1. j.pc = "create" /\ j.build = deps[d].build /\ j.env = deps[d].env
    BY DEF Idle
  <2>2. job'[w] = j /\ \A v \in Workers \ {w} : job'[v] = job[v]
    BY <1>2, Others DEF RequestRollback, TypeInv
  <2>3. UNCHANGED buildVars
    BY <1>2 DEF RequestRollback
  <2>4. deps[d].status \in Activated /\ deps[d].status # "none"
    BY <1>2 DEF RequestRollback, RollbackTarget, Completed, Activated
  <2>5. deps[d].build \in GoodBuilds'
    BY <2>3, <2>4, UsedBuilt DEF GoodBuilds
  <2>6. <<deps[d].build, deps[d].env>> \in ClearedPairs'
    BY <2>4, ActiveFit
  <2>7. QED
    <3> HIDE DEF j
    <3>1. QED
      BY <2>1, <2>2, <2>3, <2>5, <2>6 DEF Sound, Alone, FitPcs, BuildPcs
<1>3. ASSUME NEW d \in Dep, TriggerAutomaticRollback(w, d)
      PROVE  Sound(w)' /\ Alone(w)
  <2> DEFINE j(t) == [Idle EXCEPT !.pc = "create", !.op = "auto", !.seen = app,
                                  !.build = deps[t].build, !.env = deps[t].env]
             g == [Idle EXCEPT !.pc = "giveUp", !.op = "auto", !.dep = nDeps]
  <2>1. /\ \A t : j(t).pc = "create" /\ j(t).build = deps[t].build /\ j(t).env = deps[t].env
        /\ g.pc = "giveUp"
    BY DEF Idle
  <2>2. job'[w] = g \/ \E t \in Dep : job'[w] = j(t) /\ RollbackTarget(t)
    <3>1. Become(w, g) \/ \E t \in Dep : Become(w, j(t)) /\ RollbackTarget(t)
      BY <1>3 DEF TriggerAutomaticRollback
    <3>2. QED
      BY <3>1, Others DEF TypeInv
  <2>3. \A v \in Workers \ {w} : job'[v] = job[v]
    BY <1>3, Others DEF TriggerAutomaticRollback, TypeInv
  <2>4. UNCHANGED buildVars
    BY <1>3 DEF TriggerAutomaticRollback
  <2>5. ASSUME NEW t \in Dep, RollbackTarget(t)
        PROVE  /\ deps[t].build \in GoodBuilds'
               /\ <<deps[t].build, deps[t].env>> \in ClearedPairs'
    <3>1. deps[t].status \in Activated /\ deps[t].status # "none"
      BY <2>5 DEF RollbackTarget, Completed, Activated
    <3>2. QED
      BY <2>4, <3>1, UsedBuilt, ActiveFit DEF GoodBuilds
  <2>6. QED
    <3> HIDE DEF j, g
    <3>1. QED
      BY <2>1, <2>2, <2>3, <2>4, <2>5 DEF Sound, Alone, FitPcs, BuildPcs
<1>4. ASSUME NEW d \in Dep, NEW yes \in BOOLEAN, RequestDecision(w, d, yes)
      PROVE  Sound(w)' /\ Alone(w)
  <2> DEFINE j == [Idle EXCEPT !.pc = "decide", !.op = "decide", !.dep = d, !.approve = yes]
  <2>1. j.pc = "decide"
    BY DEF Idle
  <2>2. job'[w] = j /\ \A v \in Workers \ {w} : job'[v] = job[v]
    BY <1>4, Others DEF RequestDecision, TypeInv
  <2>3. UNCHANGED buildVars
    BY <1>4 DEF RequestDecision
  <2>4. QED
    <3> HIDE DEF j
    <3>1. QED
      BY <2>1, <2>2, <2>3 DEF Sound, Alone, FitPcs, BuildPcs
<1>5. QED
  BY <1>1, <1>2, <1>3, <1>4 DEF DeployRequest

LEMMA DeployStepSound ==
    ASSUME TypeInv, SafeInv, FitDeps \subseteq FitDeps',
           ClearedPairs \subseteq ClearedPairs', NEW w \in Workers, DeployStep(w)
    PROVE  Sound(w)' /\ Alone(w)
<1> USE DEF At, Alive, Free, depVars, buildVars, runtimeVars, history
<1>1. CASE Create(w)
  <2>1. UNCHANGED buildVars
    BY <1>1 DEF Create
  <2>2. CASE IndexAllows(0) /\ nDeps < MaxDeployments
    <3> DEFINE pc == IF job[w].op = "deploy" THEN "scan" ELSE "activate"
               j == [job[w] EXCEPT !.dep = nDeps + 1, !.pc = pc]
               row == [NoDeployment EXCEPT !.status = "scanning", !.env = job[w].env,
                                           !.build = job[w].build]
    <3>1. j.pc = pc /\ j.dep = nDeps + 1
      <4>1. job[w] \in Job
        BY JobFields DEF TypeInv
      <4>2. QED
        BY <4>1 DEF Job
    <3>2. job'[w] = j /\ \A v \in Workers \ {w} : job'[v] = job[v]
      BY <1>1, <2>2, Others DEF Create, TypeInv
    <3>3. ASSUME job[w].op # "deploy"
          PROVE  nDeps + 1 \in FitDeps'
      <4>1. <<job[w].build, job[w].env>> \in ClearedPairs'
        BY <1>1, <3>3 DEF Create, SafeInv, Handlers, Sound
      <4>2. row.env = job[w].env /\ row.build = job[w].build
        BY DEF NoDeployment
      <4>3. nDeps + 1 \in Dep /\ nDeps + 1 \in 1..(nDeps + 1)
        BY <2>2, StoreAssumption DEF TypeInv, TypeOK, Dep
      <4>4. nDeps' = nDeps + 1 /\ deps'[nDeps + 1] = row
        BY <1>1, <2>2, <4>3 DEF Create, TypeInv, TypeOK
      <4>5. QED
        BY <4>1, <4>2, <4>3, <4>4 DEF FitDeps
    <3>4. QED
      <4> HIDE DEF j
      <4>1. QED
        BY <2>1, <3>1, <3>2, <3>3 DEF Sound, Alone, FitPcs, BuildPcs
  <2>3. CASE ~(IndexAllows(0) /\ nDeps < MaxDeployments)
    BY <1>1, <2>1, <2>3, ReturnEffect DEF Create, TypeInv, Sound, Alone, FitPcs, BuildPcs
  <2>4. QED
    BY <2>2, <2>3
<1>2. CASE Scan(w)
  <2>1. ASSUME ~Gated(deps[job[w].dep].env)
        PROVE  job[w].dep \in FitDeps
    <3>1. job[w].dep \in 1..nDeps /\ job[w].dep \in Dep
      BY <1>2, WorkingDep DEF Scan, TypeInv, Working, DeploymentPcs
    <3>2. QED
      BY <2>1, <3>1, RowFields DEF TypeInv, FitDeps, ClearedPairs, Cleared
  <2>2. QED
    <3>1. \/ FailTo(w, job[w].seen) \/ Return(w) \/ Goto(w, "gate")
          \/ ~Gated(deps[job[w].dep].env) /\ Goto(w, "activate")
      BY <1>2 DEF Scan
    <3>2. /\ \A v \in Workers \ {w} : job'[v] = job[v]
          /\ \/ job'[w].pc \in {"idle", "fail", "gate"}
             \/ ~Gated(deps[job[w].dep].env) /\ job'[w].pc = "activate" /\ job'[w].dep = job[w].dep
      BY <3>1, GotoEffect, FailToEffect, ReturnEffect DEF TypeInv
    <3>. QED BY <1>2, <2>1, <3>2 DEF Scan, Sound, Alone, FitPcs, BuildPcs
<1>3. CASE AwaitApproval(w)
  BY <1>3, GotoEffect, ReturnEffect
     DEF AwaitApproval, TypeInv, SafeInv, Handlers, Sound, Alone, FitPcs, BuildPcs
<1>4. CASE AskApprovers(w)
  BY <1>4, ReturnEffect
     DEF AskApprovers, TypeInv, SafeInv, Handlers, Sound, Alone, FitPcs, BuildPcs
<1>5. CASE Decide(w)
  <2>1. UNCHANGED buildVars
    BY <1>5 DEF Decide
  <2> DEFINE d == job[w].dep
             pc == IF job[w].approve THEN "activate" ELSE "reject"
             j == [job[w] EXCEPT !.seen = app, !.pc = pc]
  <2>2. CASE deps[d].decision = "none"
    BY <1>5, <2>1, <2>2, ReturnEffect DEF Decide, TypeInv, Sound, Alone, FitPcs, BuildPcs
  <2>3. CASE deps[d].decision # "none"
    <3>1. j.pc = pc /\ j.dep = d
      <4>1. job[w] \in Job
        BY JobFields DEF TypeInv
      <4>2. QED
        BY <4>1 DEF Job
    <3>2. job'[w] = j /\ \A v \in Workers \ {w} : job'[v] = job[v]
      BY <1>5, <2>3, Others DEF Decide, TypeInv
    <3>3. ASSUME job[w].approve
          PROVE  d \in FitDeps'
      <4>1. d \in 1..nDeps /\ d \in Dep /\ nDeps' = nDeps
        BY <1>5, WorkingDep DEF Decide, TypeInv, Working, DeploymentPcs
      <4>2. deps'[d].build = deps[d].build /\ deps'[d].env = deps[d].env
        BY <1>5, <2>3, <4>1, SetDecisionEffect DEF Decide, TypeInv
      <4>3. d \in approved'
        BY <1>5, <2>3, <3>3 DEF Decide
      <4>4. QED
        BY <4>1, <4>2, <4>3, RowFields DEF TypeInv, FitDeps, ClearedPairs, Cleared
    <3>4. QED
      <4> HIDE DEF j, d
      <4>1. QED
        BY <2>1, <3>1, <3>2, <3>3 DEF Sound, Alone, FitPcs, BuildPcs
  <2>4. QED
    BY <2>2, <2>3
<1>6. CASE Reject(w)
  BY <1>6, GotoEffect, ReturnEffect
     DEF Reject, TypeInv, SafeInv, Handlers, Sound, Alone, FitPcs, BuildPcs
<1>7. CASE RejectApp(w)
  BY <1>7, ReturnEffect
     DEF RejectApp, TypeInv, SafeInv, Handlers, Sound, Alone, FitPcs, BuildPcs
<1>8. CASE SetDeploying(w)
  <2>1. FailTo(w, job[w].seen) \/ Return(w) \/ Goto(w, "occupy")
    BY <1>8 DEF SetDeploying
  <2>2. /\ \A v \in Workers \ {w} : job'[v] = job[v]
        /\ job'[w].pc \in {"idle", "fail"} \/ (job'[w].dep = job[w].dep /\ job'[w].pc = "occupy")
    BY <2>1, GotoEffect, FailToEffect, ReturnEffect DEF TypeInv
  <2>3. job[w].dep \in FitDeps' /\ UNCHANGED buildVars
    BY <1>8 DEF SetDeploying, SafeInv, Handlers, Sound, FitPcs
  <2>. QED BY <2>2, <2>3 DEF Sound, Alone, FitPcs, BuildPcs
<1>9. CASE Occupy(w)
  BY <1>9, GotoEffect, ReturnEffect
     DEF Occupy, TypeInv, SafeInv, Handlers, Sound, Alone, FitPcs, BuildPcs
<1>10. CASE StartContainers(w)
  <2>1. job[w].dep \in FitDeps'
    BY <1>10 DEF StartContainers, SafeInv, Handlers, Sound, FitPcs
  <2>2. /\ job'[w].pc \in {"checking", "fail"} /\ job'[w].dep = job[w].dep
        /\ \A v \in Workers \ {w} : job'[v] = job[v]
    <3>1. CASE Goto(w, "checking")
      BY <3>1, GotoEffect DEF TypeInv
    <3>2. CASE FailTo(w, Transient(w))
      BY <3>2, FailToEffect DEF TypeInv
    <3>3. QED
      BY <1>10, <3>1, <3>2 DEF StartContainers
  <2>3. UNCHANGED buildVars
    BY <1>10 DEF StartContainers
  <2>4. QED
    BY <2>1, <2>2, <2>3 DEF Sound, Alone, FitPcs, BuildPcs
<1>11. CASE SetHealthCheck(w)
  BY <1>11, GotoEffect, ReturnEffect
     DEF SetHealthCheck, TypeInv, SafeInv, Handlers, Sound, Alone, FitPcs, BuildPcs
<1>12. CASE HealthCheck(w)
  BY <1>12, GotoEffect, FailToEffect
     DEF HealthCheck, TypeInv, SafeInv, Handlers, Sound, Alone, FitPcs, BuildPcs
<1>13. CASE SetRunning(w)
  BY <1>13, GotoEffect
     DEF SetRunning, TypeInv, SafeInv, Handlers, Sound, Alone, FitPcs, BuildPcs
<1>14. CASE Publish(w)
  BY <1>14, GotoEffect, ReturnEffect
     DEF Publish, TypeInv, SafeInv, Handlers, Sound, Alone, FitPcs, BuildPcs
<1>15. CASE TrackServices(w)
  BY <1>15, GotoEffect
     DEF TrackServices, TypeInv, SafeInv, Handlers, Sound, Alone, FitPcs, BuildPcs
<1>16. CASE RetirePrevious(w)
  <2> DEFINE j(p) == [job[w] EXCEPT !.pc = "supersede", !.prev = p]
  <2>1. \A p : j(p).pc = "supersede" /\ j(p).prev = p
    <3>1. job[w] \in Job
      BY JobFields DEF TypeInv
    <3>2. QED
      BY <3>1 DEF Job
  <2>2. \A v \in Workers \ {w} : job'[v] = job[v]
    BY <1>16, ReturnEffect, Others DEF RetirePrevious, TypeInv
  <2>3. job'[w].pc = "idle" \/ \E p \in RunningDeps : job'[w] = j(p)
    BY <1>16, ReturnEffect, Others DEF RetirePrevious, TypeInv, IsNewest
  <2>4. RunningDeps \subseteq FitDeps'
    BY ActiveFit DEF RunningDeps, Activated
  <2>5. UNCHANGED buildVars
    BY <1>16 DEF RetirePrevious
  <2>6. QED
    <3> HIDE DEF j
    <3>1. QED
      BY <2>1, <2>2, <2>3, <2>4, <2>5 DEF Sound, Alone, FitPcs, BuildPcs
<1>17. CASE SetSuperseded(w)
  BY <1>17, GotoEffect
     DEF SetSuperseded, TypeInv, SafeInv, Handlers, Sound, Alone, FitPcs, BuildPcs
<1>18. CASE CleanupForDeployment(w)
  BY <1>18, ReturnEffect
     DEF CleanupForDeployment, TypeInv, SafeInv, Handlers, Sound, Alone, FitPcs,
        BuildPcs
<1>19. CASE Fail(w)
  BY <1>19, GotoEffect
     DEF Fail, TypeInv, SafeInv, Handlers, Sound, Alone, FitPcs, BuildPcs
<1>20. CASE FailApp(w)
  BY <1>20, ReturnEffect
     DEF FailApp, TypeInv, SafeInv, Handlers, Sound, Alone, FitPcs, BuildPcs
<1>21. CASE GiveUp(w)
  BY <1>21, GotoEffect
     DEF GiveUp, TypeInv, SafeInv, Handlers, Sound, Alone, FitPcs, BuildPcs
<1>22. CASE GiveUpApp(w)
  BY <1>22, ReturnEffect
     DEF GiveUpApp, TypeInv, SafeInv, Handlers, Sound, Alone, FitPcs, BuildPcs
<1>23. QED
  BY <1>1, <1>2, <1>3, <1>4, <1>5, <1>6, <1>7, <1>8, <1>9, <1>10, <1>11, <1>12, <1>13,
     <1>14, <1>15, <1>16, <1>17, <1>18, <1>19, <1>20, <1>21, <1>22 DEF DeployStep

LEMMA LifecycleRequestSound ==
    ASSUME TypeInv, SafeInv, FitDeps \subseteq FitDeps',
           ClearedPairs \subseteq ClearedPairs', NEW w \in Workers, LifecycleRequest(w)
    PROVE  Sound(w)' /\ Alone(w)
<1> USE DEF At, Alive, Free, depVars, buildVars, runtimeVars, history
<1>1. CASE RequestSuspend(w)
  <2>1. nDeps \in FitDeps
    <3>1. LatestIs("running")
      BY <1>1 DEF RequestSuspend
    <3>2. QED
      BY <3>1, LatestFit DEF Activated
  <2>2. /\ job'[w].pc = "stop" /\ job'[w].dep = nDeps
        /\ \A v \in Workers \ {w} : job'[v] = job[v]
    BY <1>1, StartEffect DEF RequestSuspend, TypeInv
  <2>3. UNCHANGED buildVars
    BY <1>1 DEF RequestSuspend
  <2>4. QED
    BY <2>1, <2>2, <2>3 DEF Sound, Alone, FitPcs, BuildPcs
<1>2. CASE RequestAdminSuspend(w)
  <2>1. app = "running" => nDeps \in FitDeps
    <3>1. app = "running" => LatestIs("running")
      BY <1>2 DEF RequestAdminSuspend, AdminSuspendable
    <3>2. QED
      BY <3>1, LatestFit DEF Activated
  <2>2. /\ job'[w].pc = "hold" /\ job'[w].dep = nDeps /\ job'[w].seen = app
        /\ \A v \in Workers \ {w} : job'[v] = job[v]
    BY <1>2, StartEffect DEF RequestAdminSuspend, TypeInv
  <2>3. UNCHANGED buildVars
    BY <1>2 DEF RequestAdminSuspend
  <2>4. QED
    BY <2>1, <2>2, <2>3 DEF Sound, Alone, FitPcs, BuildPcs
<1>3. CASE RequestResume(w)
  <2>1. nDeps \in FitDeps
    <3>1. LatestIs("suspended")
      BY <1>3 DEF RequestResume
    <3>2. QED
      BY <3>1, LatestFit DEF Activated
  <2>2. /\ job'[w].pc = "resume" /\ job'[w].dep = nDeps
        /\ \A v \in Workers \ {w} : job'[v] = job[v]
    BY <1>3, StartEffect DEF RequestResume, TypeInv
  <2>3. UNCHANGED buildVars
    BY <1>3 DEF RequestResume
  <2>4. QED
    BY <2>1, <2>2, <2>3 DEF Sound, Alone, FitPcs, BuildPcs
<1>4. CASE RequestAdminResume(w)
  <2> DEFINE pc == IF app = "suspended" THEN "resume" ELSE "release"
  <2>1. app = "suspended" => nDeps \in FitDeps
    <3>1. app = "suspended" => LatestIs("suspended")
      BY <1>4 DEF RequestAdminResume
    <3>2. QED
      BY <3>1, LatestFit DEF Activated
  <2>2. /\ job'[w].pc = pc /\ job'[w].dep = nDeps
        /\ \A v \in Workers \ {w} : job'[v] = job[v]
    BY <1>4, StartEffect DEF RequestAdminResume, TypeInv
  <2>3. UNCHANGED buildVars
    BY <1>4 DEF RequestAdminResume
  <2>4. QED
    BY <2>1, <2>2, <2>3 DEF Sound, Alone, FitPcs, BuildPcs
<1>5. CASE RequestRestart(w)
  <2>1. nDeps \in FitDeps
    <3>1. LatestIs("running")
      BY <1>5 DEF RequestRestart
    <3>2. QED
      BY <3>1, LatestFit DEF Activated
  <2>2. /\ job'[w].pc = "recycle" /\ job'[w].dep = nDeps
        /\ \A v \in Workers \ {w} : job'[v] = job[v]
    BY <1>5, StartEffect DEF RequestRestart, TypeInv
  <2>3. UNCHANGED buildVars
    BY <1>5 DEF RequestRestart
  <2>4. QED
    BY <2>1, <2>2, <2>3 DEF Sound, Alone, FitPcs, BuildPcs
<1>6. CASE RequestArchive(w)
  <2> DEFINE pc == CASE LatestIs("running") -> "stop"
                     [] LatestIs("suspended") -> "archived"
                     [] OTHER -> "toArchived"
  <2>1. /\ job'[w].pc = pc /\ job'[w].dep = nDeps
        /\ \A v \in Workers \ {w} : job'[v] = job[v]
    BY <1>6, StartEffect DEF RequestArchive, TypeInv
  <2>2. pc = "toArchived" \/ nDeps \in FitDeps
    <3>1. CASE LatestIs("running")
      BY <3>1, LatestFit DEF Activated
    <3>2. CASE LatestIs("suspended")
      BY <3>2, LatestFit DEF Activated
    <3>3. QED
      BY <3>1, <3>2
  <2>3. pc \in {"stop", "archived", "toArchived"}
    OBVIOUS
  <2>4. UNCHANGED buildVars
    BY <1>6 DEF RequestArchive
  <2>5. QED
    <3> HIDE DEF pc
    <3>1. QED
      BY <2>1, <2>2, <2>3, <2>4 DEF Sound, Alone, FitPcs, BuildPcs
<1>7. CASE RequestDelete(w)
  BY <1>7, StartEffect
     DEF RequestDelete, StartDelete, TypeInv, SafeInv, Handlers, Sound, Alone, FitPcs,
        BuildPcs
<1>8. CASE SweepFailed(w)
  BY <1>8, StartEffect
     DEF SweepFailed, TypeInv, SafeInv, Handlers, Sound, Alone, FitPcs, BuildPcs
<1>9. QED
  BY <1>1, <1>2, <1>3, <1>4, <1>5, <1>6, <1>7, <1>8 DEF LifecycleRequest

LEMMA LifecycleStepSound ==
    ASSUME TypeInv, SafeInv, FitDeps \subseteq FitDeps',
           ClearedPairs \subseteq ClearedPairs', NEW w \in Workers, LifecycleStep(w)
    PROVE  Sound(w)' /\ Alone(w)
<1> USE DEF At, Alive, Free, depVars, buildVars, runtimeVars, history
<1>1. CASE PlaceHold(w)
  BY <1>1, GotoEffect, ReturnEffect
     DEF PlaceHold, TypeInv, SafeInv, Handlers, Sound, Alone, FitPcs, BuildPcs
<1>2. CASE StopAllContainers(w)
  BY <1>2, GotoEffect
     DEF StopAllContainers, AfterStop, TypeInv, SafeInv, Handlers, Sound, Alone,
        FitPcs, BuildPcs
<1>3. CASE SetSuspended(w)
  BY <1>3, GotoEffect
     DEF SetSuspended, TypeInv, SafeInv, Handlers, Sound, Alone, FitPcs, BuildPcs
<1>4. CASE Unlist(w)
  BY <1>4, GotoEffect
     DEF Unlist, TypeInv, SafeInv, Handlers, Sound, Alone, FitPcs, BuildPcs
<1>5. CASE MoveToSuspended(w)
  BY <1>5, GotoEffect, ReturnEffect
     DEF MoveToSuspended, TypeInv, SafeInv, Handlers, Sound, Alone, FitPcs, BuildPcs
<1>6. CASE RemoveHold(w)
  BY <1>6, ReturnEffect
     DEF RemoveHold, TypeInv, SafeInv, Handlers, Sound, Alone, FitPcs, BuildPcs
<1>7. CASE ResumeContainers(w)
  <2>1. /\ \A v \in Workers \ {w} : job'[v] = job[v]
        /\ job'[w].pc = "idle" \/ (job'[w].dep = job[w].dep /\ job'[w].pc = "resumed")
    BY <1>7, ResumeEffect, ReturnEffect DEF TypeInv
  <2>2. job[w].dep \in FitDeps' /\ UNCHANGED buildVars
    BY <1>7 DEF ResumeContainers, SafeInv, Handlers, Sound, FitPcs
  <2>. QED BY <2>1, <2>2 DEF Sound, Alone, FitPcs, BuildPcs
<1>8. CASE SetResumed(w)
  BY <1>8, GotoEffect
     DEF SetResumed, TypeInv, SafeInv, Handlers, Sound, Alone, FitPcs, BuildPcs
<1>9. CASE List(w)
  BY <1>9, GotoEffect
     DEF List, TypeInv, SafeInv, Handlers, Sound, Alone, FitPcs, BuildPcs
<1>10. CASE MoveToRunning(w)
  BY <1>10, GotoEffect, ReturnEffect
     DEF MoveToRunning, TypeInv, SafeInv, Handlers, Sound, Alone, FitPcs, BuildPcs
<1>11. CASE ReleaseHold(w)
  BY <1>11, ReturnEffect
     DEF ReleaseHold, TypeInv, SafeInv, Handlers, Sound, Alone, FitPcs, BuildPcs
<1>12. CASE Recycle(w)
  <2> DEFINE j(p) == [job[w] EXCEPT !.pc = "relist", !.prev = p]
  <2>1. \A p : j(p).pc = "relist" /\ j(p).dep = job[w].dep
    <3>1. job[w] \in Job
      BY JobFields DEF TypeInv
    <3>2. QED
      BY <3>1 DEF Job
  <2>2. \A v \in Workers \ {w} : job'[v] = job[v]
    BY <1>12, ReturnEffect, Others DEF Recycle, TypeInv
  <2>3. job'[w].pc = "idle" \/ \E p : job'[w] = j(p)
    <3>1. Return(w) \/ \E p : Become(w, j(p))
      BY <1>12 DEF Recycle
    <3>2. QED
      BY <3>1, ReturnEffect, Others DEF TypeInv
  <2>4. job[w].dep \in FitDeps'
    BY <1>12 DEF Recycle, SafeInv, Handlers, Sound, FitPcs
  <2>5. UNCHANGED buildVars
    BY <1>12 DEF Recycle
  <2>6. QED
    <3> HIDE DEF j
    <3>1. QED
      BY <2>1, <2>2, <2>3, <2>4, <2>5 DEF Sound, Alone, FitPcs, BuildPcs
<1>13. CASE Relist(w)
  BY <1>13, GotoEffect
     DEF Relist, TypeInv, SafeInv, Handlers, Sound, Alone, FitPcs, BuildPcs
<1>14. CASE TouchRunning(w)
  BY <1>14, ReturnEffect
     DEF TouchRunning, TypeInv, SafeInv, Handlers, Sound, Alone, FitPcs, BuildPcs
<1>15. CASE SetArchived(w)
  BY <1>15, GotoEffect
     DEF SetArchived, TypeInv, SafeInv, Handlers, Sound, Alone, FitPcs, BuildPcs
<1>16. CASE MoveToArchived(w)
  BY <1>16, ReturnEffect
     DEF MoveToArchived, TypeInv, SafeInv, Handlers, Sound, Alone, FitPcs, BuildPcs
<1>17. CASE RemoveFailed(w)
  BY <1>17, StartEffect, ReturnEffect
     DEF RemoveFailed, StartDelete, TypeInv, SafeInv, Handlers, Sound, Alone, FitPcs,
        BuildPcs
<1>18. CASE Deprovision(w)
  BY <1>18, GotoEffect
     DEF Deprovision, TypeInv, SafeInv, Handlers, Sound, Alone, FitPcs, BuildPcs
<1>19. CASE MoveToDeleted(w)
  BY <1>19, ReturnEffect
     DEF MoveToDeleted, TypeInv, SafeInv, Handlers, Sound, Alone, FitPcs, BuildPcs
<1>20. QED
  BY <1>1, <1>2, <1>3, <1>4, <1>5, <1>6, <1>7, <1>8, <1>9, <1>10, <1>11, <1>12, <1>13,
     <1>14, <1>15, <1>16, <1>17, <1>18, <1>19 DEF LifecycleStep

LEMMA BuildRequestSound ==
    ASSUME TypeInv, SafeInv, NEW w \in Workers, RequestBuild(w)
    PROVE  Sound(w)' /\ Alone(w)
<1> DEFINE j == [Idle EXCEPT !.pc = "newBuild", !.op = "build", !.seen = app]
<1>1. j.pc = "newBuild"
  BY DEF Idle
<1>2. job'[w] = j /\ \A v \in Workers \ {w} : job'[v] = job[v]
  BY Others DEF RequestBuild, TypeInv
<1>3. UNCHANGED buildVars
  BY DEF RequestBuild
<1>4. QED
  <2> HIDE DEF j
  <2>1. QED
    BY <1>1, <1>2, <1>3 DEF Sound, Alone, FitPcs, BuildPcs, At

LEMMA CallerLeavesSound ==
    ASSUME TypeInv, SafeInv, FitDeps \subseteq FitDeps', ClearedPairs \subseteq ClearedPairs',
           NEW w \in Workers, CallerLeaves(w)
    PROVE  /\ Sound(w)' /\ UNCHANGED buildVars
           /\ job'[w].pc = job[w].pc /\ job'[w].build = job[w].build
           /\ \A v \in Workers \ {w} : job'[v] = job[v]
<1> DEFINE j == [job[w] EXCEPT !.alive = FALSE]
<1>1. /\ j.pc = job[w].pc /\ j.dep = job[w].dep /\ j.prev = job[w].prev
      /\ j.build = job[w].build /\ j.env = job[w].env /\ j.seen = job[w].seen
      /\ j.op = job[w].op
  <2>1. job[w] \in Job
    BY JobFields DEF TypeInv
  <2>2. QED
    BY <2>1 DEF Job
<1>2. job'[w] = j /\ \A v \in Workers \ {w} : job'[v] = job[v]
  BY Others DEF CallerLeaves, TypeInv
<1>3. UNCHANGED buildVars
  BY DEF CallerLeaves
<1>4. OpenBuilds' = OpenBuilds /\ GoodBuilds' = GoodBuilds
  BY <1>3 DEF OpenBuilds, GoodBuilds, buildVars
<1>5. Sound(w)
  BY DEF SafeInv, Handlers
<1>6. QED
  <2> HIDE DEF j
  <2>1. QED
    BY <1>1, <1>2, <1>3, <1>4, <1>5 DEF Sound, At

(* Builds.  A handler of BuildService writes only its own build, and opens
   one only when none is open (one_in_progress_build_per_application). *)
BuildsMoved(w) ==
    /\ GoodBuilds \subseteq GoodBuilds'
    /\ Numbered'
    /\ \A v \in Workers \ {w} :
            job'[v] = job[v] /\ (job[v].pc \in BuildPcs => job[v].build \in OpenBuilds')
    /\ \A v \in Workers \ {w} :
            job[v].pc \in BuildPcs /\ job'[w].pc \in BuildPcs => job[v].build # job'[w].build

LEMMA AloneMoved ==
    ASSUME SafeInv, NEW w \in Workers, Alone(w)
    PROVE  BuildsMoved(w)
<1>1. OpenBuilds' = OpenBuilds /\ GoodBuilds' = GoodBuilds /\ Numbered'
  BY DEF Alone, OpenBuilds, GoodBuilds, buildVars, SafeInv, Numbered
<1>2. QED
  BY <1>1 DEF Alone, BuildsMoved, SafeInv, Handlers, Sound

(* A write to the handler's own build, from which it goes on or returns. *)
LEMMA OwnBuildMoved ==
    ASSUME TypeInv, SafeInv, NEW w \in Workers, job[w].pc \in BuildPcs,
           NEW s \in BuildStatus \ {"none"}, builds' = [builds EXCEPT ![job[w].build] = s],
           nBuilds' = nBuilds, \A v \in Workers \ {w} : job'[v] = job[v],
           job'[w].pc \in BuildPcs => job'[w].build = job[w].build
    PROVE  /\ BuildsMoved(w)
           /\ s \in {"queued", "in_progress"} => job[w].build \in OpenBuilds'
<1>1. job[w].build \in OpenBuilds /\ job[w].build \in Build
  <2>1. job[w].build \in OpenBuilds
    BY DEF SafeInv, Handlers, Sound
  <2>2. QED
    BY <2>1, StoreAssumption DEF OpenBuilds, TypeInv, TypeOK, Build
<1>2. \A b \in Build : builds'[b] = IF b = job[w].build THEN s ELSE builds[b]
  BY <1>1 DEF TypeInv, TypeOK
<1>3. \A b \in 1..nBuilds : b \in Build
  BY StoreAssumption DEF TypeInv, TypeOK, Build
<1>4. GoodBuilds \subseteq GoodBuilds'
  BY <1>1, <1>2 DEF GoodBuilds, OpenBuilds
<1>5. Numbered'
  BY <1>1, <1>2 DEF SafeInv, Numbered, OpenBuilds, TypeInv, TypeOK
<1>6. \A v \in Workers \ {w} :
          job[v].pc \in BuildPcs => job[v].build # job[w].build /\ job[v].build \in OpenBuilds
  BY DEF SafeInv, OwnBuild, Handlers, Sound
<1>7. \A b \in OpenBuilds : b # job[w].build => b \in OpenBuilds'
  BY <1>2, <1>3 DEF OpenBuilds
<1>8. s \in {"queued", "in_progress"} => job[w].build \in OpenBuilds'
  BY <1>1, <1>2 DEF OpenBuilds
<1>9. QED
  BY <1>4, <1>5, <1>6, <1>7, <1>8 DEF BuildsMoved

LEMMA BuildStepSound ==
    ASSUME TypeInv, SafeInv, NEW w \in Workers, BuildStep(w)
    PROVE  Sound(w)' /\ BuildsMoved(w)
<1> USE DEF At, Alive
<1>1. CASE CreateBuild(w)
  <2>1. CASE BuildIndexAllows /\ nBuilds < MaxBuilds
    <3> DEFINE j == [job[w] EXCEPT !.build = nBuilds + 1, !.pc = "toBuild"]
    <3>1. j.pc = "toBuild" /\ j.build = nBuilds + 1
      <4>1. job[w] \in Job
        BY JobFields DEF TypeInv
      <4>2. QED
        BY <4>1 DEF Job
    <3>2. job'[w] = j /\ \A v \in Workers \ {w} : job'[v] = job[v]
      BY <1>1, <2>1, Others DEF CreateBuild, TypeInv
    <3>3. nBuilds \in 0..MaxBuilds /\ nBuilds + 1 \in Build /\ nBuilds' = nBuilds + 1
      BY <1>1, <2>1, StoreAssumption DEF CreateBuild, TypeInv, TypeOK, Build
    <3>4. \A b \in Build : builds'[b] = IF b = nBuilds + 1 THEN "queued" ELSE builds[b]
      BY <1>1, <2>1, <3>3 DEF CreateBuild, TypeInv, TypeOK
    <3>5. nBuilds + 1 \in OpenBuilds'
      BY <3>3, <3>4 DEF OpenBuilds
    <3>6. OpenBuilds = {}
      BY <2>1, StoreAssumption DEF OpenBuilds, BuildIndexAllows, TypeInv, TypeOK, Build
    <3>7. \A v \in Workers : job[v].pc \notin BuildPcs
      BY <3>6 DEF SafeInv, Handlers, Sound
    <3>8. GoodBuilds \subseteq GoodBuilds'
      <4>1. builds[nBuilds + 1] = "none"
        BY <3>3 DEF SafeInv, Numbered
      <4>2. QED
        BY <3>4, <4>1 DEF GoodBuilds
    <3>9. Numbered'
      BY <3>3, <3>4 DEF SafeInv, Numbered, Build
    <3>10. QED
      <4> HIDE DEF j
      <4>1. QED
        BY <3>1, <3>2, <3>5, <3>7, <3>8, <3>9 DEF Sound, BuildsMoved, FitPcs, BuildPcs
  <2>2. CASE ~(BuildIndexAllows /\ nBuilds < MaxBuilds)
    <3>1. Alone(w) /\ job'[w].pc = "idle"
      BY <1>1, <2>2, ReturnEffect DEF CreateBuild, TypeInv, Alone, BuildPcs
    <3>2. QED
      BY <3>1, AloneMoved DEF Sound, FitPcs, BuildPcs
  <2>3. QED
    BY <2>1, <2>2
<1>2. CASE MoveToBuild(w)
  <2>1. /\ \/ job'[w].pc = "begin" /\ job'[w].build = job[w].build
           \/ job'[w].pc = "idle"
        /\ \A v \in Workers \ {w} : job'[v] = job[v]
    BY <1>2, GotoEffect, ReturnEffect DEF MoveToBuild, TypeInv
  <2>2. OpenBuilds' = OpenBuilds /\ GoodBuilds' = GoodBuilds /\ Numbered'
    BY <1>2 DEF MoveToBuild, OpenBuilds, GoodBuilds, buildVars, SafeInv, Numbered
  <2>3. job[w].pc = "toBuild"
    BY <1>2 DEF MoveToBuild
  <2>4. QED
    BY <2>1, <2>2, <2>3 DEF Sound, BuildsMoved, SafeInv, Handlers, OwnBuild, FitPcs, BuildPcs
<1>3. CASE MarkInProgress(w)
  <2>1. /\ job'[w].pc = "building" /\ job'[w].build = job[w].build
        /\ \A v \in Workers \ {w} : job'[v] = job[v]
    BY <1>3, GotoEffect DEF MarkInProgress, TypeInv
  <2>2. BuildsMoved(w) /\ job[w].build \in OpenBuilds'
    BY <1>3, <2>1, OwnBuildMoved DEF MarkInProgress, BuildPcs, BuildStatus
  <2>3. QED
    BY <2>1, <2>2 DEF Sound, FitPcs, BuildPcs
<1>4. CASE FinishBuild(w)
  <2>1. /\ job'[w].pc \in {"idle", "buildFailed"}
        /\ \A v \in Workers \ {w} : job'[v] = job[v]
    BY <1>4, GotoEffect, ReturnEffect DEF FinishBuild, TypeInv
  <2>2. BuildsMoved(w)
    BY <1>4, <2>1, OwnBuildMoved DEF FinishBuild, BuildPcs, BuildStatus
  <2>3. QED
    BY <2>1, <2>2 DEF Sound, FitPcs, BuildPcs
<1>5. CASE LoseOutcome(w)
  <2>1. Alone(w) /\ job'[w].pc = "idle"
    BY <1>5, ReturnEffect DEF LoseOutcome, TypeInv, Alone, BuildPcs
  <2>2. QED
    BY <2>1, AloneMoved DEF Sound, FitPcs, BuildPcs
<1>6. CASE RestoreStatus(w)
  <2>1. Alone(w) /\ job'[w].pc = "idle"
    BY <1>6, ReturnEffect DEF RestoreStatus, TypeInv, Alone, BuildPcs
  <2>2. QED
    BY <2>1, AloneMoved DEF Sound, FitPcs, BuildPcs
<1>7. QED
  BY <1>1, <1>2, <1>3, <1>4, <1>5, <1>6 DEF BuildStep

-----------------------------------------------------------------------------
LEMMA HandlersMoved ==
    ASSUME SafeInv, FitDeps \subseteq FitDeps', ClearedPairs \subseteq ClearedPairs',
           NEW w \in Workers, Sound(w)', BuildsMoved(w)
    PROVE  Handlers' /\ OwnBuild' /\ Numbered' /\ GoodBuilds \subseteq GoodBuilds'
<1>1. ASSUME NEW v \in Workers, v # w
      PROVE  Sound(v)'
  <2>1. Sound(v)
    BY DEF SafeInv, Handlers
  <2>2. /\ job'[v] = job[v] /\ GoodBuilds \subseteq GoodBuilds'
        /\ job[v].pc \in BuildPcs => job[v].build \in OpenBuilds'
    BY <1>1 DEF BuildsMoved
  <2>3. QED
    BY <2>1, <2>2 DEF Sound, At
<1>2. Handlers'
  BY <1>1 DEF Handlers
<1>3. OwnBuild'
  BY DEF SafeInv, OwnBuild, BuildsMoved
<1>4. QED
  BY <1>2, <1>3 DEF BuildsMoved

LEMMA NextHandlers ==
    ASSUME TypeInv, SafeInv, [Next]_vars
    PROVE  Handlers' /\ OwnBuild' /\ Numbered' /\ GoodBuilds \subseteq GoodBuilds'
<1>1. FitDeps \subseteq FitDeps' /\ ClearedPairs \subseteq ClearedPairs'
  BY ClearedKept
<1>2. ASSUME NEW w \in Workers, Request(w)
      PROVE  Sound(w)' /\ BuildsMoved(w)
  BY <1>1, <1>2, DeployRequestSound, BuildRequestSound, LifecycleRequestSound, AloneMoved
     DEF Request
<1>3. ASSUME NEW w \in Workers, WriteRefused(w)
      PROVE  Sound(w)' /\ BuildsMoved(w)
  <2>1. Alone(w) /\ job'[w].pc = "idle"
    BY <1>3, ReturnEffect DEF WriteRefused, TypeInv, Alone, BuildPcs
  <2>2. QED
    BY <2>1, AloneMoved DEF Sound, At, FitPcs, BuildPcs
<1>4. ASSUME NEW w \in Workers, Step(w)
      PROVE  Sound(w)' /\ BuildsMoved(w)
  BY <1>1, <1>3, <1>4, DeployStepSound, BuildStepSound, LifecycleStepSound, AloneMoved DEF Step
<1>5. ASSUME NEW w \in Workers, CallerLeaves(w)
      PROVE  Sound(w)' /\ BuildsMoved(w)
  <2>1. /\ UNCHANGED buildVars /\ job'[w].pc = job[w].pc /\ job'[w].build = job[w].build
        /\ Sound(w)' /\ \A v \in Workers \ {w} : job'[v] = job[v]
    BY <1>1, <1>5, CallerLeavesSound
  <2>2. OpenBuilds' = OpenBuilds /\ GoodBuilds' = GoodBuilds /\ Numbered'
    BY <2>1 DEF OpenBuilds, GoodBuilds, buildVars, SafeInv, Numbered
  <2>3. QED
    BY <2>1, <2>2 DEF BuildsMoved, SafeInv, OwnBuild, Handlers, Sound
<1>6. CASE ServerRestarts
  <2>1. GoodBuilds' = GoodBuilds /\ Numbered'
    BY <1>6 DEF ServerRestarts, GoodBuilds, buildVars, SafeInv, Numbered
  <2>2. \A w \in Workers : job'[w].pc = "idle"
    BY <1>6 DEF ServerRestarts, Idle
  <2>3. QED
    BY <2>1, <2>2 DEF Handlers, Sound, OwnBuild, At, FitPcs, BuildPcs
<1>7. CASE UNCHANGED vars
  <2>1. UNCHANGED <<job, builds, nBuilds>>
    BY <1>7 DEF vars, buildVars
  <2>2. GoodBuilds' = GoodBuilds /\ OpenBuilds' = OpenBuilds /\ Numbered'
    BY <2>1 DEF GoodBuilds, OpenBuilds, SafeInv, Numbered
  <2>3. \A w \in Workers : Sound(w)'
    BY <1>1, <2>1, <2>2 DEF SafeInv, Handlers, Sound, At
  <2>4. QED
    BY <2>1, <2>2, <2>3 DEF Handlers, SafeInv, OwnBuild
<1>8. QED
  BY <1>1, <1>2, <1>4, <1>5, <1>6, <1>7, HandlersMoved DEF Next

LEMMA SafeInvStep == TypeInv /\ SafeInv /\ [Next]_vars => SafeInv'
<1> SUFFICES ASSUME TypeInv, SafeInv, [Next]_vars PROVE SafeInv'
  OBVIOUS
<1>1. Handlers' /\ OwnBuild' /\ Numbered' /\ GoodBuilds \subseteq GoodBuilds'
  BY NextHandlers
<1>2. FitDeps \subseteq FitDeps' /\ ClearedPairs \subseteq ClearedPairs'
  BY ClearedKept
<1>3. Approvable'
  BY ApprovedStep, NextRows DEF Approvable, RowsKept, RowCreated, RowSet, TypeInv, TypeOK
<1>4. ASSUME NEW d \in Dep, deps'[d].status \in Activated
      PROVE  <<deps'[d].build, deps'[d].env>> \in ClearedPairs'
  <2>1. CASE SameRow(d)
    BY <1>2, <1>4, <2>1, ActiveFit DEF SameRow
  <2>2. ASSUME NEW w \in Workers, RowCreated(w), ~SameRow(d)
        PROVE  FALSE
    BY <1>4, <2>2 DEF RowCreated, Activated
  <2>3. ASSUME NEW w \in Workers, RowSet(w, d), d \in 1..nDeps
        PROVE  <<deps'[d].build, deps'[d].env>> \in ClearedPairs'
    <3>1. d \in FitDeps
      BY <1>4, <2>3 DEF RowSet, SafeInv, Handlers, Sound, ActivePcs, FitPcs
    <3>2. QED
      BY <1>2, <2>3, <3>1 DEF RowSet, FitDeps
  <2>4. QED
    BY <2>1, <2>2, <2>3, NextRows DEF RowsKept, RowSet
<1>5. ProductionGate'
  BY <1>4 DEF ProductionGate, ClearedPairs
<1>6. ASSUME NEW d \in Dep, deps'[d].status # "none"
      PROVE  deps'[d].build \in GoodBuilds'
  <2>1. CASE SameRow(d)
    BY <1>1, <1>6, <2>1, UsedBuilt DEF SameRow
  <2>2. ASSUME NEW w \in Workers, RowCreated(w), ~SameRow(d)
        PROVE  deps'[d].build \in GoodBuilds'
    BY <1>1, <2>2 DEF RowCreated, SafeInv, Handlers, Sound
  <2>3. ASSUME NEW w \in Workers, RowSet(w, d), d \in 1..nDeps
        PROVE  deps'[d].build \in GoodBuilds'
    <3>1. deps[d].status # "none"
      BY <2>3 DEF TypeInv, Created, TypeOK
    <3>2. QED
      BY <1>1, <2>3, <3>1, UsedBuilt DEF RowSet
  <2>4. QED
    BY <2>1, <2>2, <2>3, NextRows DEF RowsKept, RowSet
<1>7. BuiltFirst'
  BY <1>6 DEF BuiltFirst, GoodBuilds
<1>8. QED
  BY <1>1, <1>3, <1>5, <1>7 DEF SafeInv

(* Between the moment a handler finds a build succeeded, an approver's yes, or
   a version to go back to, and the write it makes on that account, nothing
   the other handlers do makes it untrue. *)
THEOREM SafeInvHolds == Spec => []SafeInv
<1>1. StoreInit => SafeInv
  BY DEF StoreInit, SafeInv, ProductionGate, BuiltFirst, Handlers, Sound, OwnBuild, Numbered,
     Approvable, Activated, NoDeployment, Idle, At, FitPcs, BuildPcs
<1>2. TypeInv /\ SafeInv /\ [Next]_vars => SafeInv'
  BY SafeInvStep
<1>3. QED
  BY <1>1, <1>2, TypeInvHolds, PTL DEF Spec

(* No deployment to a gated environment gets containers unless somebody
   approved it or an earlier one of the same build to the same environment,
   by whatever path: the gate, a rollback, an automatic rollback, a resume,
   a restart, under any interleaving of any number of handlers. *)
THEOREM ProductionGateHolds == Spec => []ProductionGate
BY SafeInvHolds, PTL DEF SafeInv

(* Every deployment ever created is of a build that has succeeded. *)
THEOREM BuiltFirstHolds == Spec => []BuiltFirst
BY SafeInvHolds, PTL DEF SafeInv
=============================================================================
