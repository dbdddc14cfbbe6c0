---------------------------- MODULE PlatformProofs ----------------------------
(***************************************************************************)
(* Proofs about Platform for any number of handlers, deployments, builds   *)
(* and faults.                                                             *)
(***************************************************************************)
EXTENDS Platform, TLAPS

(***************************************************************************)
(* TypeOK is not inductive alone: a handler that is past its checks works  *)
(* on a deployment that exists (Working), and the rows after nDeps are not *)
(* used yet (Created).                                                     *)
(***************************************************************************)
DeploymentPcs ==
    {"scan", "gate", "ask", "decide", "reject", "rejectApp", "activate", "occupy",
     "start", "checking", "health", "live", "publish", "track", "retire", "supersede",
     "untrack", "fail", "failApp", "giveUp", "giveUpApp", "hold", "stop", "suspended",
     "unlist", "archived", "toSuspended", "unhold", "resume", "resumed", "list",
     "toRunning", "recycle", "relist", "touch"}

Created == \A d \in Dep : d > nDeps <=> deps[d].status = "none"

Working == \A w \in Workers :
    /\ job[w].pc \in DeploymentPcs => job[w].dep \in 1..nDeps
    /\ At(w, "supersede") => job[w].prev \in 1..nDeps

TypeInv == TypeOK /\ Created /\ Working

-----------------------------------------------------------------------------
(* The forms in which the services rewrite a worker's job. *)

LEMMA IdleJob == Idle \in Job
BY StoreAssumption DEF Idle, Job, Env, LifecycleStatus, Pcs, Operations

LEMMA JobPc ==
    ASSUME NEW j \in Job, NEW pc \in Pcs
    PROVE  [j EXCEPT !.pc = pc] \in Job
BY DEF Job

LEMMA JobAlive ==
    ASSUME NEW j \in Job, NEW a \in BOOLEAN
    PROVE  [j EXCEPT !.alive = a] \in Job
BY DEF Job

LEMMA JobDep ==
    ASSUME NEW j \in Job, NEW d \in 0..MaxDeployments, NEW pc \in Pcs
    PROVE  [j EXCEPT !.dep = d, !.pc = pc] \in Job
BY DEF Job

LEMMA JobPrev ==
    ASSUME NEW j \in Job, NEW pc \in Pcs, NEW p \in 0..MaxDeployments
    PROVE  [j EXCEPT !.pc = pc, !.prev = p] \in Job
BY DEF Job

LEMMA JobBuild ==
    ASSUME NEW j \in Job, NEW b \in 0..MaxBuilds, NEW pc \in Pcs
    PROVE  [j EXCEPT !.build = b, !.pc = pc] \in Job
BY DEF Job

LEMMA JobSeen ==
    ASSUME NEW j \in Job, NEW s \in LifecycleStatus, NEW pc \in Pcs
    PROVE  [j EXCEPT !.seen = s, !.pc = pc] \in Job
BY DEF Job

LEMMA JobBack ==
    ASSUME NEW j \in Job, NEW pc \in Pcs, NEW s \in LifecycleStatus,
           NEW b \in {"running", "failed"}
    PROVE  [j EXCEPT !.pc = pc, !.seen = s, !.back = b] \in Job
BY DEF Job

LEMMA NewDeploy ==
    ASSUME NEW j \in Job, NEW pc \in Pcs, NEW op \in Operations, NEW b \in 0..MaxBuilds,
           NEW e \in Env, NEW s \in LifecycleStatus
    PROVE  [j EXCEPT !.pc = pc, !.op = op, !.build = b, !.env = e, !.seen = s] \in Job
BY DEF Job

LEMMA NewRollback ==
    ASSUME NEW j \in Job, NEW pc \in Pcs, NEW op \in Operations, NEW b \in 0..MaxBuilds,
           NEW e \in Env, NEW s \in LifecycleStatus
    PROVE  [j EXCEPT !.pc = pc, !.op = op, !.seen = s, !.build = b, !.env = e] \in Job
BY DEF Job

LEMMA NewDecision ==
    ASSUME NEW j \in Job, NEW pc \in Pcs, NEW op \in Operations,
           NEW d \in 0..MaxDeployments, NEW a \in BOOLEAN
    PROVE  [j EXCEPT !.pc = pc, !.op = op, !.dep = d, !.approve = a] \in Job
BY DEF Job

LEMMA NewGiveUp ==
    ASSUME NEW j \in Job, NEW pc \in Pcs, NEW op \in Operations, NEW d \in 0..MaxDeployments
    PROVE  [j EXCEPT !.pc = pc, !.op = op, !.dep = d] \in Job
BY DEF Job

LEMMA NewBuildJob ==
    ASSUME NEW j \in Job, NEW pc \in Pcs, NEW op \in Operations, NEW s \in LifecycleStatus
    PROVE  [j EXCEPT !.pc = pc, !.op = op, !.seen = s] \in Job
BY DEF Job

LEMMA NewLifecycleJob ==
    ASSUME NEW j \in Job, NEW pc \in Pcs, NEW op \in Operations,
           NEW d \in 0..MaxDeployments, NEW s \in LifecycleStatus
    PROVE  [j EXCEPT !.pc = pc, !.op = op, !.dep = d, !.seen = s] \in Job
BY DEF Job

-----------------------------------------------------------------------------
(* What a write leaves well typed. *)

LEMMA JobFields ==
    ASSUME TypeOK, NEW w \in Workers
    PROVE  /\ job[w] \in Job
           /\ job[w].dep \in 0..MaxDeployments /\ job[w].prev \in 0..MaxDeployments
           /\ job[w].build \in 0..MaxBuilds /\ job[w].env \in Env
           /\ job[w].seen \in LifecycleStatus /\ job[w].back \in {"running", "failed"}
           /\ job[w].approve \in BOOLEAN /\ job[w].alive \in BOOLEAN
           /\ job[w].pc \in Pcs /\ job[w].op \in Operations
BY DEF TypeOK, Job

LEMMA BecomeType ==
    ASSUME TypeOK, NEW w \in Workers, NEW j \in Job, Become(w, j)
    PROVE  job' \in [Workers -> Job]
BY DEF TypeOK, Become

LEMMA ReturnType ==
    ASSUME TypeOK, NEW w \in Workers, Return(w)
    PROVE  job' \in [Workers -> Job]
BY IdleJob, BecomeType DEF Return

LEMMA GotoType ==
    ASSUME TypeOK, NEW w \in Workers, NEW pc \in Pcs, Goto(w, pc)
    PROVE  job' \in [Workers -> Job]
<1>1. [job[w] EXCEPT !.pc = pc] \in Job
  BY JobFields, JobPc
<1>2. QED
  BY <1>1, BecomeType DEF Goto

LEMMA FailToType ==
    ASSUME TypeOK, NEW w \in Workers, NEW from \in LifecycleStatus, FailTo(w, from)
    PROVE  job' \in [Workers -> Job]
<1> DEFINE back == IF job[w].seen = "running" THEN "running" ELSE "failed"
<1>1. back \in {"running", "failed"} /\ "fail" \in Pcs
  BY DEF Pcs
<1>2. [job[w] EXCEPT !.pc = "fail", !.seen = from, !.back = back] \in Job
  BY <1>1, JobFields, JobBack
<1>3. QED
  BY <1>2, BecomeType DEF FailTo

LEMMA StartType ==
    ASSUME TypeOK, NEW w \in Workers, NEW op \in Operations, NEW pc \in Pcs,
           NEW d \in 0..MaxDeployments, Start(w, op, pc, d)
    PROVE  job' \in [Workers -> Job]
<1>1. [Idle EXCEPT !.pc = pc, !.op = op, !.dep = d, !.seen = app] \in Job
  BY IdleJob, NewLifecycleJob DEF TypeOK
<1>2. QED
  BY <1>1, BecomeType DEF Start

\* A resume remembers whether it started something.
LEMMA ResumeEffect ==
    ASSUME TypeOK, NEW w \in Workers, ResumeContainers(w)
    PROVE  \/ Return(w)
           \/ /\ job' \in [Workers -> Job] /\ \A v \in Workers \ {w} : job'[v] = job[v]
              /\ job'[w].pc = "resumed" /\ job'[w].op = job[w].op /\ job'[w].dep = job[w].dep
              /\ job'[w].build = job[w].build /\ job'[w].env = job[w].env /\ job'[w].seen = job[w].seen
              /\ job'[w].back = job[w].back /\ job'[w].alive = job[w].alive
<1>1. CASE Return(w)
  BY <1>1
<1>2. ASSUME NEW p \in 0..MaxDeployments, Become(w, [job[w] EXCEPT !.pc = "resumed", !.prev = p])
      PROVE  /\ job' \in [Workers -> Job] /\ \A v \in Workers \ {w} : job'[v] = job[v]
             /\ job'[w].pc = "resumed" /\ job'[w].op = job[w].op /\ job'[w].dep = job[w].dep
             /\ job'[w].build = job[w].build /\ job'[w].env = job[w].env /\ job'[w].seen = job[w].seen
             /\ job'[w].back = job[w].back /\ job'[w].alive = job[w].alive
  <2>1. job[w] \in Job /\ "resumed" \in Pcs
    BY JobFields DEF Pcs, LifecycleContextPcs
  <2>2. PICK j \in Job : j = [job[w] EXCEPT !.pc = "resumed", !.prev = p]
    BY <2>1, JobPrev
  <2>3. /\ j.pc = "resumed" /\ j.op = job[w].op /\ j.dep = job[w].dep /\ j.build = job[w].build
        /\ j.env = job[w].env /\ j.seen = job[w].seen /\ j.back = job[w].back /\ j.alive = job[w].alive
    BY <2>1, <2>2 DEF Job
  <2>4. job' \in [Workers -> Job] /\ job' = [job EXCEPT ![w] = j]
    BY <1>2, <2>2, BecomeType DEF Become
  <2>. QED BY <2>3, <2>4 DEF TypeOK
<1>3. ASSUME NEW started, Become(w, [job[w] EXCEPT !.pc = "resumed",
                                                  !.prev = IF started = {} THEN 0 ELSE job[w].dep])
      PROVE  \E p \in 0..MaxDeployments : Become(w, [job[w] EXCEPT !.pc = "resumed", !.prev = p])
  <2>1. 0 \in 0..MaxDeployments /\ job[w].dep \in 0..MaxDeployments
    BY StoreAssumption, JobFields
  <2>. QED BY <1>3, <2>1
<1>. QED BY <1>1, <1>2, <1>3 DEF ResumeContainers

LEMMA SetStatusType ==
    ASSUME TypeOK, NEW d, NEW s \in DeploymentStatus, SetStatus(d, s)
    PROVE  deps' \in [Dep -> Deployment]
BY DEF TypeOK, SetStatus, Deployment

LEMMA SetDecisionType ==
    ASSUME TypeOK, NEW d, NEW x \in Decision, deps' = [deps EXCEPT ![d].decision = x]
    PROVE  deps' \in [Dep -> Deployment]
BY DEF TypeOK, Deployment

LEMMA SetListedType ==
    ASSUME TypeOK, NEW d, NEW x \in BOOLEAN, deps' = [deps EXCEPT ![d].listed = x]
    PROVE  deps' \in [Dep -> Deployment]
BY DEF TypeOK, Deployment

LEMMA RowFields ==
    ASSUME TypeOK, NEW d \in Dep
    PROVE  /\ deps[d] \in Deployment /\ deps[d].status \in DeploymentStatus
           /\ deps[d].env \in Env /\ deps[d].build \in 0..MaxBuilds
           /\ deps[d].decision \in Decision /\ deps[d].listed \in BOOLEAN
BY DEF TypeOK, Deployment

-----------------------------------------------------------------------------
(* What a handler's write to its job changes. *)

LEMMA Others ==
    ASSUME TypeOK, NEW w \in Workers, NEW j, Become(w, j)
    PROVE  job'[w] = j /\ \A v \in Workers \ {w} : job'[v] = job[v]
BY DEF TypeOK, Become

LEMMA GotoEffect ==
    ASSUME TypeOK, NEW w \in Workers, NEW pc, Goto(w, pc)
    PROVE  /\ job'[w].pc = pc
           /\ job'[w].op = job[w].op /\ job'[w].dep = job[w].dep
           /\ job'[w].prev = job[w].prev /\ job'[w].build = job[w].build
           /\ job'[w].env = job[w].env /\ job'[w].seen = job[w].seen
           /\ \A v \in Workers \ {w} : job'[v] = job[v]
<1>1. job[w] \in Job
  BY JobFields
<1>2. /\ [job[w] EXCEPT !.pc = pc].pc = pc
      /\ [job[w] EXCEPT !.pc = pc].op = job[w].op
      /\ [job[w] EXCEPT !.pc = pc].dep = job[w].dep
      /\ [job[w] EXCEPT !.pc = pc].prev = job[w].prev
      /\ [job[w] EXCEPT !.pc = pc].build = job[w].build
      /\ [job[w] EXCEPT !.pc = pc].env = job[w].env
      /\ [job[w] EXCEPT !.pc = pc].seen = job[w].seen
  BY <1>1 DEF Job
<1>3. QED
  BY <1>2, Others DEF Goto

LEMMA ReturnEffect ==
    ASSUME TypeOK, NEW w \in Workers, Return(w)
    PROVE  job'[w].pc = "idle" /\ \A v \in Workers \ {w} : job'[v] = job[v]
BY Others DEF Return, Idle

LEMMA FailToEffect ==
    ASSUME TypeOK, NEW w \in Workers, NEW from, FailTo(w, from)
    PROVE  /\ job'[w].pc = "fail" /\ job'[w].dep = job[w].dep
           /\ \A v \in Workers \ {w} : job'[v] = job[v]
<1> DEFINE back == IF job[w].seen = "running" THEN "running" ELSE "failed"
           j == [job[w] EXCEPT !.pc = "fail", !.seen = from, !.back = back]
<1>1. job[w] \in Job
  BY JobFields
<1>2. j.pc = "fail" /\ j.dep = job[w].dep
  BY <1>1 DEF Job
<1>3. QED
  BY <1>2, Others DEF FailTo

LEMMA StartEffect ==
    ASSUME TypeOK, NEW w \in Workers, NEW op, NEW pc, NEW d, Start(w, op, pc, d)
    PROVE  /\ job'[w].pc = pc /\ job'[w].op = op /\ job'[w].dep = d /\ job'[w].seen = app
           /\ \A v \in Workers \ {w} : job'[v] = job[v]
<1> DEFINE j == [Idle EXCEPT !.pc = pc, !.op = op, !.dep = d, !.seen = app]
<1>1. j.pc = pc /\ j.op = op /\ j.dep = d /\ j.seen = app
  BY DEF Idle
<1>2. QED
  BY <1>1, Others DEF Start

LEMMA SetLiveType ==
    ASSUME TypeOK, NEW d, NEW s \in DeploymentStatus, NEW x \in BOOLEAN,
           deps' = [deps EXCEPT ![d].status = s, ![d].listed = x]
    PROVE  deps' \in [Dep -> Deployment]
BY DEF TypeOK, Deployment

LEMMA StopType ==
    ASSUME TypeOK, NEW S, StopContainers(S)
    PROVE  up' \subseteq Dep /\ faults' \in Nat
BY DEF TypeOK, StopContainers

LEMMA WorkingDep ==
    ASSUME TypeOK, Working, NEW w \in Workers, job[w].pc \in DeploymentPcs
    PROVE  job[w].dep \in Dep
BY StoreAssumption DEF TypeOK, Working, Dep

-----------------------------------------------------------------------------
(* Each step keeps the types. *)

LEMMA DeployRequestType ==
    ASSUME TypeOK, Working, NEW w \in Workers, DeployRequest(w)
    PROVE  TypeOK'
<1> USE DEF At, Alive, Free, depVars, buildVars, runtimeVars, history
<1>1. ASSUME NEW e \in Env, RequestDeploy(w, e)
      PROVE  TypeOK'
  <2>1. [Idle EXCEPT !.pc = "create", !.op = "deploy",
                     !.build = nBuilds, !.env = e, !.seen = app] \in Job
    BY IdleJob, NewDeploy DEF TypeOK, Pcs, DeployContextPcs, Operations
  <2>2. job' \in [Workers -> Job]
    BY <1>1, <2>1, BecomeType DEF RequestDeploy
  <2>3. QED
    BY <1>1, <2>2 DEF RequestDeploy, TypeOK
<1>2. ASSUME NEW d \in Dep, RequestRollback(w, d)
      PROVE  TypeOK'
  <2>1. [Idle EXCEPT !.pc = "create", !.op = "rollback", !.build = deps[d].build,
                     !.env = deps[d].env, !.seen = app] \in Job
    <3>1. "create" \in Pcs /\ "rollback" \in Operations /\ app \in LifecycleStatus
      BY DEF TypeOK, Pcs, DeployContextPcs, Operations
    <3>2. deps[d].build \in 0..MaxBuilds /\ deps[d].env \in Env
      BY RowFields
    <3>3. QED
      BY <3>1, <3>2, IdleJob, NewDeploy
  <2>2. job' \in [Workers -> Job]
    BY <1>2, <2>1, BecomeType DEF RequestRollback
  <2>3. QED
    BY <1>2, <2>2 DEF RequestRollback, TypeOK
<1>3. ASSUME NEW d \in Dep, TriggerAutomaticRollback(w, d)
      PROVE  TypeOK'
  <2>1. /\ "create" \in Pcs /\ "giveUp" \in Pcs /\ "auto" \in Operations
        /\ app \in LifecycleStatus /\ nDeps \in 0..MaxDeployments
    BY DEF TypeOK, Pcs, DeployContextPcs, Operations
  <2>2. \A t \in Dep : [Idle EXCEPT !.pc = "create", !.op = "auto", !.seen = app,
                                    !.build = deps[t].build, !.env = deps[t].env] \in Job
    BY <2>1, IdleJob, RowFields, NewRollback
  <2>3. [Idle EXCEPT !.pc = "giveUp", !.op = "auto", !.dep = nDeps] \in Job
    BY <2>1, IdleJob, NewGiveUp
  <2>4. job' \in [Workers -> Job]
    BY <1>3, <2>2, <2>3, BecomeType DEF TriggerAutomaticRollback
  <2>5. up' \subseteq Dep /\ rows' \subseteq Dep
    BY <1>3 DEF TriggerAutomaticRollback, TypeOK
  <2>6. QED
    BY <1>3, <2>4, <2>5 DEF TriggerAutomaticRollback, TypeOK
<1>4. ASSUME NEW d \in Dep, NEW yes \in BOOLEAN, RequestDecision(w, d, yes)
      PROVE  TypeOK'
  <2>1. d \in 0..MaxDeployments /\ "decide" \in Pcs /\ "decide" \in Operations
    BY StoreAssumption DEF Dep, Pcs, DeployContextPcs, Operations
  <2>2. [Idle EXCEPT !.pc = "decide", !.op = "decide", !.dep = d, !.approve = yes] \in Job
    BY <2>1, IdleJob, NewDecision
  <2>3. job' \in [Workers -> Job]
    BY <1>4, <2>2, BecomeType DEF RequestDecision
  <2>4. QED
    BY <1>4, <2>3 DEF RequestDecision, TypeOK
<1>5. QED
  BY <1>1, <1>2, <1>3, <1>4 DEF DeployRequest

LEMMA DeployStepType ==
    ASSUME TypeOK, Working, NEW w \in Workers, DeployStep(w)
    PROVE  TypeOK'
<1> USE DEF At, Alive, Free, depVars, buildVars, runtimeVars, history
<1>1. CASE Create(w)
  <2> DEFINE pc == IF job[w].op = "deploy" THEN "scan" ELSE "activate"
  <2>1. CASE IndexAllows(0) /\ nDeps < MaxDeployments
    <3>1. nDeps + 1 \in Dep /\ nDeps + 1 \in 0..MaxDeployments
      BY <2>1, StoreAssumption DEF TypeOK, Dep
    <3>2. pc \in Pcs
      BY DEF Pcs, DeployContextPcs
    <3>3. [job[w] EXCEPT !.dep = nDeps + 1, !.pc = pc] \in Job
      BY <3>1, <3>2, JobFields, JobDep
    <3>4. job' \in [Workers -> Job]
      BY <1>1, <2>1, <3>3, BecomeType DEF Create
    <3>5. [NoDeployment EXCEPT !.status = "scanning", !.env = job[w].env,
                               !.build = job[w].build] \in Deployment
      BY JobFields, StoreAssumption
         DEF NoDeployment, Deployment, DeploymentStatus, InFlightStatus, Env, Decision
    <3>6. deps' \in [Dep -> Deployment]
      BY <1>1, <2>1, <3>5 DEF Create, TypeOK
    <3>7. QED
      BY <1>1, <2>1, <3>1, <3>4, <3>6 DEF Create, TypeOK
  <2>2. CASE ~(IndexAllows(0) /\ nDeps < MaxDeployments)
    BY <1>1, <2>2, ReturnType DEF Create, TypeOK
  <2>3. QED
    BY <2>1, <2>2
<1>2. CASE Scan(w)
  <2>1. "gate" \in Pcs /\ "activate" \in Pcs
    BY DEF Pcs, DeployContextPcs
  <2>2. FailTo(w, job[w].seen) \/ Return(w) \/ Goto(w, "gate") \/ Goto(w, "activate")
    BY <1>2 DEF Scan
  <2>3. job' \in [Workers -> Job]
    BY <2>1, <2>2, GotoType, FailToType, ReturnType, JobFields
  <2>. QED BY <1>2, <2>3 DEF Scan, TypeOK
<1>3. CASE AwaitApproval(w)
  BY <1>3, GotoType, ReturnType, SetStatusType
     DEF AwaitApproval, Pcs, DeployContextPcs, DeploymentStatus, InFlightStatus,
        TypeOK
<1>4. CASE AskApprovers(w)
  BY <1>4, ReturnType, SetDecisionType DEF AskApprovers, Decision, TypeOK
<1>5. CASE Decide(w)
  <2> DEFINE d == job[w].dep
             pc == IF job[w].approve THEN "activate" ELSE "reject"
             answer == IF job[w].approve THEN "approved" ELSE "rejected"
  <2>1. CASE deps[d].decision = "none"
    BY <1>5, <2>1, ReturnType DEF Decide, TypeOK
  <2>2. CASE deps[d].decision # "none"
    <3>1. pc \in Pcs /\ answer \in Decision /\ app \in LifecycleStatus
      BY DEF Pcs, DeployContextPcs, Decision, TypeOK
    <3>2. [job[w] EXCEPT !.seen = app, !.pc = pc] \in Job
      BY <3>1, JobFields, JobSeen
    <3>3. job' \in [Workers -> Job]
      BY <1>5, <2>2, <3>2, BecomeType DEF Decide
    <3>4. deps' \in [Dep -> Deployment]
      BY <1>5, <2>2, <3>1, SetDecisionType DEF Decide
    <3>5. d \in Dep
      BY <1>5, WorkingDep DEF Decide, DeploymentPcs
    <3>6. approved' \subseteq Dep
      BY <1>5, <2>2, <3>5 DEF Decide, TypeOK
    <3>7. QED
      BY <1>5, <3>3, <3>4, <3>6 DEF Decide, TypeOK
  <2>3. QED
    BY <2>1, <2>2
<1>6. CASE Reject(w)
  BY <1>6, GotoType, ReturnType, SetStatusType
     DEF Reject, Pcs, DeployContextPcs, DeploymentStatus, TypeOK
<1>7. CASE RejectApp(w)
  BY <1>7, ReturnType, JobFields DEF RejectApp, LifecycleStatus, TypeOK
<1>8. CASE SetDeploying(w)
  <2>1. "occupy" \in Pcs /\ "deploying" \in DeploymentStatus
    BY DEF Pcs, DeployContextPcs, DeploymentStatus, InFlightStatus
  <2>2. FailTo(w, job[w].seen) \/ Return(w) \/ Goto(w, "occupy")
    BY <1>8 DEF SetDeploying
  <2>3. job' \in [Workers -> Job]
    BY <2>1, <2>2, GotoType, FailToType, ReturnType, JobFields
  <2>4. deps' \in [Dep -> Deployment]
    <3>1. UNCHANGED deps \/ SetStatus(job[w].dep, "deploying")
      BY <1>8 DEF SetDeploying
    <3>. QED BY <2>1, <3>1, SetStatusType DEF TypeOK
  <2>. QED BY <1>8, <2>3, <2>4 DEF SetDeploying, TypeOK
<1>9. CASE Occupy(w)
  BY <1>9, GotoType, ReturnType, JobFields
     DEF Occupy, Pcs, DeployContextPcs, LifecycleStatus, Transient, TypeOK
<1>10. CASE StartContainers(w)
  <2>1. job[w].dep \in Dep
    BY <1>10, WorkingDep DEF StartContainers, DeploymentPcs
  <2>2. "checking" \in Pcs /\ Transient(w) \in LifecycleStatus
    BY DEF Pcs, DeployContextPcs, Transient, LifecycleStatus
  <2>3. job' \in [Workers -> Job]
    BY <1>10, <2>2, GotoType, FailToType DEF StartContainers
  <2>4. up' \subseteq Dep /\ database' \in BOOLEAN
    BY <1>10, <2>1 DEF StartContainers, TypeOK
  <2>5. faults' \in Nat
    <3>1. faults' = faults \/ faults' = faults + 1
      BY <1>10 DEF StartContainers
    <3>. QED BY <3>1 DEF TypeOK
  <2>6. QED
    BY <1>10, <2>3, <2>4, <2>5 DEF StartContainers, TypeOK
<1>11. CASE SetHealthCheck(w)
  BY <1>11, GotoType, ReturnType, SetStatusType
     DEF SetHealthCheck, Pcs, DeployContextPcs, DeploymentStatus, InFlightStatus,
        TypeOK
<1>12. CASE HealthCheck(w)
  <2>1. "live" \in Pcs /\ Transient(w) \in LifecycleStatus
    BY DEF Pcs, DeployContextPcs, Transient, LifecycleStatus
  <2>2. job' \in [Workers -> Job]
    BY <1>12, <2>1, GotoType, FailToType DEF HealthCheck
  <2>3. up' \subseteq Dep /\ faults' \in Nat
    BY <1>12, StopType DEF HealthCheck, TypeOK
  <2>4. QED
    BY <1>12, <2>2, <2>3 DEF HealthCheck, TypeOK
<1>13. CASE SetRunning(w)
  <2>1. job[w].dep \in Dep
    BY <1>13, WorkingDep DEF SetRunning, DeploymentPcs
  <2>2. job' \in [Workers -> Job]
    BY <1>13, GotoType DEF SetRunning, Pcs, DeployContextPcs
  <2>3. deps' \in [Dep -> Deployment]
    BY <1>13, SetLiveType DEF SetRunning, DeploymentStatus
  <2>4. QED
    BY <1>13, <2>1, <2>2, <2>3 DEF SetRunning, TypeOK
<1>14. CASE Publish(w)
  BY <1>14, GotoType, ReturnType, JobFields
     DEF Publish, Pcs, DeployContextPcs, LifecycleStatus, Transient, TypeOK
<1>15. CASE TrackServices(w)
  <2>1. job[w].dep \in Dep
    BY <1>15, WorkingDep DEF TrackServices, DeploymentPcs
  <2>2. job' \in [Workers -> Job]
    BY <1>15, GotoType DEF TrackServices, Pcs, DeployContextPcs
  <2>3. rows' \subseteq Dep /\ faults' \in Nat
    BY <1>15, <2>1 DEF TrackServices, TypeOK
  <2>4. QED
    BY <1>15, <2>2, <2>3 DEF TrackServices, TypeOK
<1>16. CASE RetirePrevious(w)
  <2>1. "supersede" \in Pcs /\ \A p \in Dep : p \in 0..MaxDeployments
    BY StoreAssumption DEF Pcs, DeployContextPcs, Dep
  <2>2. \A p \in Dep : [job[w] EXCEPT !.pc = "supersede", !.prev = p] \in Job
    BY <2>1, JobFields, JobPrev
  <2>3. job' \in [Workers -> Job]
    BY <1>16, <2>2, BecomeType, ReturnType DEF RetirePrevious
  <2>4. up' \subseteq Dep /\ faults' \in Nat
    BY <1>16, StopType DEF RetirePrevious, TypeOK
  <2>5. QED
    BY <1>16, <2>3, <2>4 DEF RetirePrevious, TypeOK
<1>17. CASE SetSuperseded(w)
  BY <1>17, GotoType, SetStatusType
     DEF SetSuperseded, Pcs, DeployContextPcs, DeploymentStatus, TypeOK
<1>18. CASE CleanupForDeployment(w)
  BY <1>18, ReturnType DEF CleanupForDeployment, TypeOK
<1>19. CASE Fail(w)
  BY <1>19, GotoType, SetStatusType DEF Fail, Pcs, DeploymentStatus, TypeOK
<1>20. CASE FailApp(w)
  BY <1>20, ReturnType, JobFields DEF FailApp, LifecycleStatus, TypeOK
<1>21. CASE GiveUp(w)
  BY <1>21, GotoType, SetStatusType
     DEF GiveUp, Pcs, DeployContextPcs, DeploymentStatus, TypeOK
<1>22. CASE GiveUpApp(w)
  BY <1>22, ReturnType, JobFields DEF GiveUpApp, LifecycleStatus, TypeOK
<1>23. QED
  BY <1>1, <1>2, <1>3, <1>4, <1>5, <1>6, <1>7, <1>8, <1>9, <1>10, <1>11, <1>12, <1>13,
     <1>14, <1>15, <1>16, <1>17, <1>18, <1>19, <1>20, <1>21, <1>22 DEF DeployStep

LEMMA BuildStepType ==
    ASSUME TypeOK, Working, NEW w \in Workers, BuildStep(w)
    PROVE  TypeOK'
<1> USE DEF At, Alive, Free, depVars, buildVars, runtimeVars, history
<1>1. CASE CreateBuild(w)
  <2>1. CASE BuildIndexAllows /\ nBuilds < MaxBuilds
    <3>1. nBuilds + 1 \in Build /\ nBuilds + 1 \in 0..MaxBuilds /\ "toBuild" \in Pcs
      BY <2>1, StoreAssumption DEF TypeOK, Build, Pcs, BuildContextPcs
    <3>2. [job[w] EXCEPT !.build = nBuilds + 1, !.pc = "toBuild"] \in Job
      BY <3>1, JobFields, JobBuild
    <3>3. job' \in [Workers -> Job]
      BY <1>1, <2>1, <3>2, BecomeType DEF CreateBuild
    <3>4. QED
      BY <1>1, <2>1, <3>1, <3>3 DEF CreateBuild, TypeOK, BuildStatus
  <2>2. CASE ~(BuildIndexAllows /\ nBuilds < MaxBuilds)
    BY <1>1, <2>2, ReturnType DEF CreateBuild, TypeOK
  <2>3. QED
    BY <2>1, <2>2
<1>2. CASE MoveToBuild(w)
  BY <1>2, GotoType, ReturnType, JobFields
     DEF MoveToBuild, Pcs, BuildContextPcs, LifecycleStatus, TypeOK
<1>3. CASE MarkInProgress(w)
  BY <1>3, GotoType DEF MarkInProgress, Pcs, BuildContextPcs, BuildStatus, TypeOK
<1>4. CASE FinishBuild(w)
  BY <1>4, GotoType, ReturnType DEF FinishBuild, Pcs, BuildStatus, TypeOK
<1>5. CASE LoseOutcome(w)
  BY <1>5, ReturnType DEF LoseOutcome, TypeOK
<1>6. CASE RestoreStatus(w)
  BY <1>6, ReturnType, JobFields DEF RestoreStatus, LifecycleStatus, TypeOK
<1>7. QED
  BY <1>1, <1>2, <1>3, <1>4, <1>5, <1>6 DEF BuildStep

LEMMA LifecycleRequestType ==
    ASSUME TypeOK, Working, NEW w \in Workers, LifecycleRequest(w)
    PROVE  TypeOK'
<1> USE DEF At, Alive, Free, depVars, buildVars, runtimeVars, history
<1>1. CASE RequestSuspend(w)
  BY <1>1, StartType DEF RequestSuspend, Pcs, LifecycleContextPcs, Operations, TypeOK
<1>2. CASE RequestAdminSuspend(w)
  BY <1>2, StartType
     DEF RequestAdminSuspend, Pcs, LifecycleContextPcs, Operations, TypeOK
<1>3. CASE RequestResume(w)
  BY <1>3, StartType DEF RequestResume, Pcs, LifecycleContextPcs, Operations, TypeOK
<1>4. CASE RequestAdminResume(w)
  BY <1>4, StartType
     DEF RequestAdminResume, Pcs, LifecycleContextPcs, Operations, TypeOK
<1>5. CASE RequestRestart(w)
  BY <1>5, StartType DEF RequestRestart, Pcs, Operations, TypeOK
<1>6. CASE RequestArchive(w)
  BY <1>6, StartType DEF RequestArchive, Pcs, LifecycleContextPcs, Operations, TypeOK
<1>7. CASE RequestDelete(w)
  BY <1>7, StartType
     DEF RequestDelete, StartDelete, Operations, Pcs, LifecycleContextPcs, TypeOK
<1>8. CASE SweepFailed(w)
  BY <1>8, StartType, StoreAssumption
     DEF SweepFailed, Pcs, LifecycleContextPcs, Operations, TypeOK
<1>9. QED
  BY <1>1, <1>2, <1>3, <1>4, <1>5, <1>6, <1>7, <1>8 DEF LifecycleRequest

LEMMA LifecycleStepType ==
    ASSUME TypeOK, Working, NEW w \in Workers, LifecycleStep(w)
    PROVE  TypeOK'
<1> USE DEF At, Alive, Free, depVars, buildVars, runtimeVars, history
<1>1. CASE PlaceHold(w)
  BY <1>1, GotoType, ReturnType DEF PlaceHold, Pcs, LifecycleContextPcs, TypeOK
<1>2. CASE StopAllContainers(w)
  <2>1. AfterStop(w) \in Pcs
    BY DEF AfterStop, Pcs, LifecycleContextPcs
  <2>2. job' \in [Workers -> Job]
    BY <1>2, <2>1, GotoType DEF StopAllContainers
  <2>3. up' \subseteq Dep /\ rows' \subseteq Dep /\ faults' \in Nat
    BY <1>2, StopType DEF StopAllContainers, TypeOK
  <2>4. QED
    BY <1>2, <2>2, <2>3 DEF StopAllContainers, TypeOK
<1>3. CASE SetSuspended(w)
  BY <1>3, GotoType, SetStatusType
     DEF SetSuspended, Pcs, LifecycleContextPcs, DeploymentStatus, TypeOK
<1>4. CASE Unlist(w)
  BY <1>4, GotoType, SetListedType, JobFields
     DEF Unlist, Pcs, LifecycleContextPcs, TypeOK
<1>5. CASE MoveToSuspended(w)
  BY <1>5, GotoType, ReturnType, JobFields
     DEF MoveToSuspended, Pcs, LifecycleContextPcs, LifecycleStatus, TypeOK
<1>6. CASE RemoveHold(w)
  BY <1>6, ReturnType DEF RemoveHold, TypeOK
<1>7. CASE ResumeContainers(w)
  <2>1. job[w].dep \in Dep
    BY <1>7, WorkingDep DEF ResumeContainers, DeploymentPcs
  <2>2. job' \in [Workers -> Job]
    BY <1>7, ResumeEffect, ReturnType
  <2>3. up' \subseteq Dep /\ rows' \subseteq Dep
    BY <1>7, <2>1 DEF ResumeContainers, TypeOK
  <2>4. QED
    BY <1>7, <2>2, <2>3 DEF ResumeContainers, TypeOK
<1>8. CASE SetResumed(w)
  BY <1>8, GotoType, SetStatusType
     DEF SetResumed, Pcs, LifecycleContextPcs, DeploymentStatus, TypeOK
<1>9. CASE List(w)
  BY <1>9, GotoType, SetListedType, JobFields DEF List, Pcs, LifecycleContextPcs, TypeOK
<1>10. CASE MoveToRunning(w)
  BY <1>10, GotoType, ReturnType, JobFields
     DEF MoveToRunning, Pcs, LifecycleContextPcs, LifecycleStatus, TypeOK
<1>11. CASE ReleaseHold(w)
  BY <1>11, ReturnType DEF ReleaseHold, TypeOK
<1>12. CASE Recycle(w)
  <2> DEFINE recycled == rows \cap {job[w].dep}
  <2>1. \A p \in 0..MaxDeployments :
            [job[w] EXCEPT !.pc = "relist", !.prev = p] \in Job
    BY JobFields, JobPrev DEF Pcs, LifecycleContextPcs
  <2>2. (IF recycled = {} THEN 0 ELSE job[w].dep) \in 0..MaxDeployments
    BY JobFields, StoreAssumption
  <2>3. job' \in [Workers -> Job]
    BY <1>12, <2>1, <2>2, BecomeType, ReturnType DEF Recycle
  <2>4. job[w].dep \in Dep
    BY <1>12, WorkingDep DEF Recycle, DeploymentPcs
  <2>5. \E x \in BOOLEAN : deps' = [deps EXCEPT ![job[w].dep].listed = x]
    <3>1. deps[job[w].dep].listed \in BOOLEAN
      BY <2>4, RowFields
    <3>2. QED
      BY <1>12, <3>1 DEF Recycle
  <2>6. deps' \in [Dep -> Deployment]
    BY <2>5, SetListedType
  <2>7. up' \subseteq Dep
    BY <1>12 DEF Recycle, TypeOK
  <2>8. QED
    BY <1>12, <2>3, <2>6, <2>7 DEF Recycle, TypeOK
<1>13. CASE Relist(w)
  BY <1>13, GotoType, SetListedType, JobFields
     DEF Relist, Pcs, LifecycleContextPcs, TypeOK
<1>14. CASE TouchRunning(w)
  BY <1>14, ReturnType, SetStatusType DEF TouchRunning, DeploymentStatus, TypeOK
<1>15. CASE SetArchived(w)
  BY <1>15, GotoType, SetStatusType
     DEF SetArchived, Pcs, LifecycleContextPcs, DeploymentStatus, TypeOK
<1>16. CASE MoveToArchived(w)
  BY <1>16, ReturnType, JobFields DEF MoveToArchived, LifecycleStatus, TypeOK
<1>17. CASE RemoveFailed(w)
  BY <1>17, StartType, ReturnType
     DEF RemoveFailed, StartDelete, Operations, Pcs, LifecycleContextPcs, TypeOK
<1>18. CASE Deprovision(w)
  BY <1>18, GotoType DEF Deprovision, Pcs, LifecycleContextPcs, TypeOK
<1>19. CASE MoveToDeleted(w)
  BY <1>19, ReturnType, JobFields DEF MoveToDeleted, LifecycleStatus, TypeOK
<1>20. QED
  BY <1>1, <1>2, <1>3, <1>4, <1>5, <1>6, <1>7, <1>8, <1>9, <1>10, <1>11, <1>12, <1>13,
     <1>14, <1>15, <1>16, <1>17, <1>18, <1>19 DEF LifecycleStep

-----------------------------------------------------------------------------
(* Each step keeps Created and Working. *)

LEMMA WorkingFrame ==
    ASSUME TypeOK, Working, NEW w \in Workers, nDeps' \in Nat, nDeps <= nDeps',
           \A v \in Workers \ {w} : job'[v] = job[v],
           job'[w].pc \in DeploymentPcs => job'[w].dep \in 1..nDeps',
           job'[w].pc = "supersede" => job'[w].prev \in 1..nDeps'
    PROVE  Working'
BY StoreAssumption DEF Working, At, TypeOK

LEMMA CreatedFrame ==
    ASSUME Created, nDeps' = nDeps,
           \A d \in Dep : deps'[d].status = "none" <=> deps[d].status = "none"
    PROVE  Created'
BY DEF Created

LEMMA SetStatusEffect ==
    ASSUME TypeOK, NEW d, NEW s, SetStatus(d, s)
    PROVE  \A e \in Dep : /\ deps'[e].status = (IF e = d THEN s ELSE deps[e].status)
                          /\ deps'[e].build = deps[e].build /\ deps'[e].env = deps[e].env
BY DEF TypeOK, Deployment, SetStatus

LEMMA SetDecisionEffect ==
    ASSUME TypeOK, NEW d, NEW x, deps' = [deps EXCEPT ![d].decision = x]
    PROVE  \A e \in Dep : /\ deps'[e].status = deps[e].status
                          /\ deps'[e].build = deps[e].build /\ deps'[e].env = deps[e].env
BY DEF TypeOK, Deployment

LEMMA SetListedEffect ==
    ASSUME TypeOK, NEW d, NEW x, deps' = [deps EXCEPT ![d].listed = x]
    PROVE  \A e \in Dep : /\ deps'[e].status = deps[e].status
                          /\ deps'[e].build = deps[e].build /\ deps'[e].env = deps[e].env
BY DEF TypeOK, Deployment

LEMMA SetLiveEffect ==
    ASSUME TypeOK, NEW d,
           deps' = [deps EXCEPT ![d].status = "running", ![d].listed = TRUE]
    PROVE  \A e \in Dep : /\ deps'[e].status = (IF e = d THEN "running" ELSE deps[e].status)
                          /\ deps'[e].build = deps[e].build /\ deps'[e].env = deps[e].env
BY DEF TypeOK, Deployment

LEMMA CreatedSet ==
    ASSUME TypeInv, NEW d \in 1..nDeps, NEW s, s # "none", SetStatus(d, s), nDeps' = nDeps
    PROVE  Created'
BY SetStatusEffect, StoreAssumption DEF TypeInv, Created, TypeOK, Dep

LEMMA DeployRequestWorking ==
    ASSUME TypeInv, NEW w \in Workers, DeployRequest(w)
    PROVE  Created' /\ Working'
<1> USE DEF At, Alive, Free, depVars, buildVars, runtimeVars, history
<1>1. ASSUME NEW e \in Env, RequestDeploy(w, e)
      PROVE  Created' /\ Working'
  <2> DEFINE j == [Idle EXCEPT !.pc = "create", !.op = "deploy",
                               !.build = nBuilds, !.env = e, !.seen = app]
  <2>1. j.pc = "create"
    BY DEF Idle
  <2>2. job'[w] = j /\ \A v \in Workers \ {w} : job'[v] = job[v]
    BY <1>1, Others DEF RequestDeploy, TypeInv
  <2>3. nDeps' = nDeps /\ deps' = deps
    BY <1>1 DEF RequestDeploy
  <2>4. QED
    <3> HIDE DEF j
    <3>1. QED
      BY <2>1, <2>2, <2>3, WorkingFrame, CreatedFrame DEF TypeInv, TypeOK, DeploymentPcs
<1>2. ASSUME NEW d \in Dep, RequestRollback(w, d)
      PROVE  Created' /\ Working'
  <2> DEFINE j == [Idle EXCEPT !.pc = "create", !.op = "rollback", !.build = deps[d].build,
                               !.env = deps[d].env, !.seen = app]
  <2>1. j.pc = "create"
    BY DEF Idle
  <2>2. job'[w] = j /\ \A v \in Workers \ {w} : job'[v] = job[v]
    BY <1>2, Others DEF RequestRollback, TypeInv
  <2>3. nDeps' = nDeps /\ deps' = deps
    BY <1>2 DEF RequestRollback
  <2>4. QED
    <3> HIDE DEF j
    <3>1. QED
      BY <2>1, <2>2, <2>3, WorkingFrame, CreatedFrame DEF TypeInv, TypeOK, DeploymentPcs
<1>3. ASSUME NEW d \in Dep, TriggerAutomaticRollback(w, d)
      PROVE  Created' /\ Working'
  <2> DEFINE j(t) == [Idle EXCEPT !.pc = "create", !.op = "auto", !.seen = app,
                                  !.build = deps[t].build, !.env = deps[t].env]
             g == [Idle EXCEPT !.pc = "giveUp", !.op = "auto", !.dep = nDeps]
  <2>1. (\A t \in Dep : j(t).pc = "create") /\ g.pc = "giveUp" /\ g.dep = nDeps
    BY DEF Idle
  <2>2. job'[w] = g \/ \E t \in Dep : job'[w] = j(t)
    <3>1. Become(w, g) \/ \E t \in Dep : Become(w, j(t))
      BY <1>3 DEF TriggerAutomaticRollback
    <3>2. QED
      BY <3>1, Others DEF TypeInv
  <2>3. \A v \in Workers \ {w} : job'[v] = job[v]
    BY <1>3, Others DEF TriggerAutomaticRollback, TypeInv
  <2>4. nDeps \in 1..nDeps
    <3>1. deps[d].status # "none"
      BY <1>3 DEF TriggerAutomaticRollback
    <3>2. QED
      BY <3>1, StoreAssumption DEF TypeInv, Created, TypeOK, Dep
  <2>5. nDeps' = nDeps /\ deps' = deps
    BY <1>3 DEF TriggerAutomaticRollback
  <2>6. Working'
    <3> HIDE DEF j, g
    <3>1. QED
      BY <2>1, <2>2, <2>3, <2>4, <2>5, WorkingFrame DEF TypeInv, TypeOK, DeploymentPcs
  <2>7. QED
    BY <2>5, <2>6, CreatedFrame DEF TypeInv
<1>4. ASSUME NEW d \in Dep, NEW yes \in BOOLEAN, RequestDecision(w, d, yes)
      PROVE  Created' /\ Working'
  <2> DEFINE j == [Idle EXCEPT !.pc = "decide", !.op = "decide", !.dep = d, !.approve = yes]
  <2>1. j.pc = "decide" /\ j.dep = d
    BY DEF Idle
  <2>2. job'[w] = j /\ \A v \in Workers \ {w} : job'[v] = job[v]
    BY <1>4, Others DEF RequestDecision, TypeInv
  <2>3. d \in 1..nDeps
    BY <1>4, StoreAssumption DEF RequestDecision, TypeInv, Created, TypeOK, Dep
  <2>4. nDeps' = nDeps /\ deps' = deps
    BY <1>4 DEF RequestDecision
  <2>5. QED
    <3> HIDE DEF j
    <3>1. QED
      BY <2>1, <2>2, <2>3, <2>4, WorkingFrame, CreatedFrame DEF TypeInv, TypeOK
<1>5. QED
  BY <1>1, <1>2, <1>3, <1>4 DEF DeployRequest

LEMMA DeployStepWorking ==
    ASSUME TypeInv, NEW w \in Workers, DeployStep(w)
    PROVE  Created' /\ Working'
<1> USE DEF At, Alive, Free, depVars, buildVars, runtimeVars, history
<1>1. CASE Create(w)
  <2>1. CASE IndexAllows(0) /\ nDeps < MaxDeployments
    <3> DEFINE pc == IF job[w].op = "deploy" THEN "scan" ELSE "activate"
               j == [job[w] EXCEPT !.dep = nDeps + 1, !.pc = pc]
               row == [NoDeployment EXCEPT !.status = "scanning", !.env = job[w].env,
                                           !.build = job[w].build]
    <3>1. j.pc = pc /\ j.dep = nDeps + 1
      <4>1. job[w] \in Job
        BY JobFields DEF TypeInv
      <4>2. QED
        BY <4>1 DEF Job
    <3>2. job'[w] = j /\ \A v \in Workers \ {w} : job'[v] = job[v]
      BY <1>1, <2>1, Others DEF Create, TypeInv
    <3>3. nDeps' = nDeps + 1 /\ nDeps \in Nat
      BY <1>1, <2>1, StoreAssumption DEF Create, TypeInv, TypeOK
    <3>4. pc # "supersede"
      OBVIOUS
    <3>5. Working'
      <4> HIDE DEF j, pc
      <4>1. QED
        BY <3>1, <3>2, <3>3, <3>4, WorkingFrame DEF TypeInv
    <3>6. row.status = "scanning"
      BY DEF NoDeployment
    <3>7. \A d \in Dep : deps'[d] = IF d = nDeps + 1 THEN row ELSE deps[d]
      BY <1>1, <2>1 DEF Create, TypeInv, TypeOK
    <3>8. Created'
      <4> HIDE DEF row
      <4>1. QED
        BY <3>3, <3>6, <3>7, StoreAssumption DEF TypeInv, Created, Dep
    <3>9. QED
      BY <3>5, <3>8
  <2>2. CASE ~(IndexAllows(0) /\ nDeps < MaxDeployments)
    BY <1>1, <2>2, ReturnEffect, WorkingFrame, CreatedFrame
       DEF Create, TypeInv, TypeOK, DeploymentPcs
  <2>3. QED
    BY <2>1, <2>2
<1>2. CASE Scan(w)
  <2>1. FailTo(w, job[w].seen) \/ Return(w) \/ Goto(w, "gate") \/ Goto(w, "activate")
    BY <1>2 DEF Scan
  <2>2. /\ \A v \in Workers \ {w} : job'[v] = job[v]
        /\ \/ job'[w].pc = "idle"
           \/ job'[w].dep = job[w].dep /\ job'[w].pc \in {"fail", "gate", "activate"}
    BY <2>1, GotoEffect, FailToEffect, ReturnEffect DEF TypeInv
  <2>3. deps' = deps /\ nDeps' = nDeps
    BY <1>2 DEF Scan
  <2>4. job[w].dep \in 1..nDeps
    BY <1>2 DEF Scan, TypeInv, Working, DeploymentPcs
  <2>. QED BY <2>2, <2>3, <2>4, WorkingFrame, CreatedFrame DEF TypeInv, TypeOK, DeploymentPcs
<1>3. CASE AwaitApproval(w)
  <2>1. Created'
    BY <1>3, CreatedSet, CreatedFrame
       DEF AwaitApproval, TypeInv, TypeOK, Working, DeploymentPcs
  <2>2. Working'
    BY <1>3, GotoEffect, ReturnEffect, WorkingFrame
       DEF AwaitApproval, TypeInv, TypeOK, Working, DeploymentPcs
  <2>3. QED
    BY <2>1, <2>2
<1>4. CASE AskApprovers(w)
  <2>1. Created'
    BY <1>4, SetDecisionEffect, CreatedFrame
       DEF AskApprovers, TypeInv, TypeOK, Working, DeploymentPcs
  <2>2. Working'
    BY <1>4, ReturnEffect, WorkingFrame
       DEF AskApprovers, TypeInv, TypeOK, Working, DeploymentPcs
  <2>3. QED
    BY <2>1, <2>2
<1>5. CASE Decide(w)
  <2> DEFINE d == job[w].dep
             pc == IF job[w].approve THEN "activate" ELSE "reject"
             j == [job[w] EXCEPT !.seen = app, !.pc = pc]
  <2>1. Created'
    <3>1. \A e \in Dep : deps'[e].status = deps[e].status
      <4>1. CASE deps[d].decision = "none"
        BY <1>5, <4>1 DEF Decide
      <4>2. CASE deps[d].decision # "none"
        <5>1. \E x : deps' = [deps EXCEPT ![d].decision = x]
          BY <1>5, <4>2 DEF Decide
        <5>2. QED
          BY <5>1, SetDecisionEffect DEF TypeInv
      <4>3. QED
        BY <4>1, <4>2
    <3>2. nDeps' = nDeps
      BY <1>5 DEF Decide
    <3>3. QED
      BY <3>1, <3>2, CreatedFrame DEF TypeInv
  <2>2. CASE deps[d].decision = "none"
    BY <1>5, <2>1, <2>2, ReturnEffect, WorkingFrame DEF Decide, TypeInv, TypeOK, DeploymentPcs
  <2>3. CASE deps[d].decision # "none"
    <3>1. job[w] \in Job
      BY JobFields DEF TypeInv
    <3>2. j.pc = pc /\ j.dep = d
      BY <3>1 DEF Job
    <3>3. job'[w] = j /\ \A v \in Workers \ {w} : job'[v] = job[v]
      BY <1>5, <2>3, Others DEF Decide, TypeInv
    <3>4. d \in 1..nDeps /\ nDeps' = nDeps /\ nDeps \in Nat
      BY <1>5, StoreAssumption DEF Decide, TypeInv, TypeOK, Working, DeploymentPcs
    <3>5. pc # "supersede"
      OBVIOUS
    <3>6. Working'
      <4> HIDE DEF d, pc, j
      <4>1. QED
        BY <3>2, <3>3, <3>4, <3>5, WorkingFrame DEF TypeInv
    <3>7. QED
      BY <2>1, <3>6
  <2>4. QED
    BY <2>2, <2>3
<1>6. CASE Reject(w)
  <2>1. Created'
    BY <1>6, CreatedSet, CreatedFrame
       DEF Reject, TypeInv, TypeOK, Working, DeploymentPcs
  <2>2. Working'
    BY <1>6, GotoEffect, ReturnEffect, WorkingFrame
       DEF Reject, TypeInv, TypeOK, Working, DeploymentPcs
  <2>3. QED
    BY <2>1, <2>2
<1>7. CASE RejectApp(w)
  BY <1>7, ReturnEffect, WorkingFrame, CreatedFrame
     DEF RejectApp, TypeInv, TypeOK, Working, DeploymentPcs
<1>8. CASE SetDeploying(w)
  <2>1. Created'
    BY <1>8, CreatedSet, CreatedFrame
       DEF SetDeploying, TypeInv, TypeOK, Working, DeploymentPcs
  <2>2. Working'
    <3>1. FailTo(w, job[w].seen) \/ Return(w) \/ Goto(w, "occupy")
      BY <1>8 DEF SetDeploying
    <3>2. /\ \A v \in Workers \ {w} : job'[v] = job[v]
          /\ job'[w].pc = "idle" \/ (job'[w].dep = job[w].dep /\ job'[w].pc \in {"fail", "occupy"})
      BY <3>1, GotoEffect, FailToEffect, ReturnEffect DEF TypeInv
    <3>3. nDeps' = nDeps /\ job[w].dep \in 1..nDeps
      BY <1>8 DEF SetDeploying, TypeInv, Working, DeploymentPcs
    <3>. QED BY <3>2, <3>3, WorkingFrame DEF TypeInv, TypeOK, DeploymentPcs
  <2>3. QED
    BY <2>1, <2>2
<1>9. CASE Occupy(w)
  BY <1>9, GotoEffect, ReturnEffect, WorkingFrame, CreatedFrame
     DEF Occupy, TypeInv, TypeOK, Working, DeploymentPcs
<1>10. CASE StartContainers(w)
  <2>1. job'[w].dep = job[w].dep /\ job'[w].pc \in {"checking", "fail"}
    BY <1>10, GotoEffect, FailToEffect DEF StartContainers, TypeInv
  <2>2. \A v \in Workers \ {w} : job'[v] = job[v]
    BY <1>10, GotoEffect, FailToEffect DEF StartContainers, TypeInv
  <2>3. deps' = deps /\ nDeps' = nDeps
    BY <1>10 DEF StartContainers
  <2>4. job[w].dep \in 1..nDeps
    BY <1>10 DEF StartContainers, TypeInv, Working, DeploymentPcs
  <2>5. QED
    BY <2>1, <2>2, <2>3, <2>4, WorkingFrame, CreatedFrame DEF TypeInv, TypeOK
<1>11. CASE SetHealthCheck(w)
  <2>1. Created'
    BY <1>11, CreatedSet, CreatedFrame
       DEF SetHealthCheck, TypeInv, TypeOK, Working, DeploymentPcs
  <2>2. Working'
    BY <1>11, GotoEffect, ReturnEffect, WorkingFrame
       DEF SetHealthCheck, TypeInv, TypeOK, Working, DeploymentPcs
  <2>3. QED
    BY <2>1, <2>2
<1>12. CASE HealthCheck(w)
  BY <1>12, GotoEffect, FailToEffect, WorkingFrame, CreatedFrame
     DEF HealthCheck, TypeInv, TypeOK, Working, DeploymentPcs
<1>13. CASE SetRunning(w)
  <2>1. \A d \in Dep : (deps'[d].status = "none" <=> deps[d].status = "none")
    <3>1. \A d \in Dep : deps'[d].status = IF d = job[w].dep THEN "running" ELSE deps[d].status
      <4>1. deps' = [deps EXCEPT ![job[w].dep].status = "running",
                                 ![job[w].dep].listed = TRUE]
        BY <1>13 DEF SetRunning
      <4>2. QED
        BY <4>1, SetLiveEffect DEF TypeInv
    <3>2. job[w].dep \in 1..nDeps /\ nDeps \in Nat
      BY <1>13, StoreAssumption DEF SetRunning, TypeInv, TypeOK, Working, DeploymentPcs
    <3>3. \A d \in Dep : d = job[w].dep => deps[d].status # "none"
      BY <3>2, StoreAssumption DEF TypeInv, Created, Dep
    <3>4. QED
      BY <3>1, <3>3
  <2>2. Created'
    BY <1>13, <2>1, CreatedFrame DEF SetRunning, TypeInv
  <2>3. Working'
    BY <1>13, GotoEffect, WorkingFrame DEF SetRunning, TypeInv, TypeOK, Working, DeploymentPcs
  <2>4. QED
    BY <2>2, <2>3
<1>14. CASE Publish(w)
  BY <1>14, GotoEffect, ReturnEffect, WorkingFrame, CreatedFrame
     DEF Publish, TypeInv, TypeOK, Working, DeploymentPcs
<1>15. CASE TrackServices(w)
  BY <1>15, GotoEffect, WorkingFrame, CreatedFrame
     DEF TrackServices, TypeInv, TypeOK, Working, DeploymentPcs
<1>16. CASE RetirePrevious(w)
  <2> DEFINE j(p) == [job[w] EXCEPT !.pc = "supersede", !.prev = p]
  <2>1. \A p : j(p).pc = "supersede" /\ j(p).prev = p /\ j(p).dep = job[w].dep
    <3>1. job[w] \in Job
      BY JobFields DEF TypeInv
    <3>2. QED
      BY <3>1 DEF Job
  <2>2. \A v \in Workers \ {w} : job'[v] = job[v]
    BY <1>16, ReturnEffect, Others DEF RetirePrevious, TypeInv
  <2>3. job'[w].pc = "idle" \/ \E p \in RunningDeps : job'[w] = j(p)
    BY <1>16, ReturnEffect, Others DEF RetirePrevious, TypeInv, IsNewest
  <2>4. \A p \in RunningDeps : p \in 1..nDeps
    BY StoreAssumption DEF RunningDeps, TypeInv, TypeOK, Created, Dep
  <2>5. job[w].dep \in 1..nDeps /\ deps' = deps /\ nDeps' = nDeps
    BY <1>16 DEF RetirePrevious, TypeInv, Working, DeploymentPcs
  <2>6. Working'
    <3> HIDE DEF j
    <3>1. QED
      BY <2>1, <2>2, <2>3, <2>4, <2>5, WorkingFrame DEF TypeInv, TypeOK, DeploymentPcs
  <2>7. QED
    BY <2>5, <2>6, CreatedFrame DEF TypeInv
<1>17. CASE SetSuperseded(w)
  <2>1. Created'
    BY <1>17, CreatedSet, CreatedFrame
       DEF SetSuperseded, TypeInv, TypeOK, Working, DeploymentPcs
  <2>2. Working'
    BY <1>17, GotoEffect, WorkingFrame
       DEF SetSuperseded, TypeInv, TypeOK, Working, DeploymentPcs
  <2>3. QED
    BY <2>1, <2>2
<1>18. CASE CleanupForDeployment(w)
  BY <1>18, ReturnEffect, WorkingFrame, CreatedFrame
     DEF CleanupForDeployment, TypeInv, TypeOK, Working, DeploymentPcs
<1>19. CASE Fail(w)
  <2>1. Created'
    BY <1>19, CreatedSet, CreatedFrame
       DEF Fail, TypeInv, TypeOK, Working, DeploymentPcs
  <2>2. Working'
    BY <1>19, GotoEffect, WorkingFrame DEF Fail, TypeInv, TypeOK, Working, DeploymentPcs
  <2>3. QED
    BY <2>1, <2>2
<1>20. CASE FailApp(w)
  BY <1>20, ReturnEffect, WorkingFrame, CreatedFrame
     DEF FailApp, TypeInv, TypeOK, Working, DeploymentPcs
<1>21. CASE GiveUp(w)
  <2>1. Created'
    BY <1>21, CreatedSet, CreatedFrame
       DEF GiveUp, TypeInv, TypeOK, Working, DeploymentPcs
  <2>2. Working'
    BY <1>21, GotoEffect, WorkingFrame
       DEF GiveUp, TypeInv, TypeOK, Working, DeploymentPcs
  <2>3. QED
    BY <2>1, <2>2
<1>22. CASE GiveUpApp(w)
  BY <1>22, ReturnEffect, WorkingFrame, CreatedFrame
     DEF GiveUpApp, TypeInv, TypeOK, Working, DeploymentPcs
<1>23. QED
  BY <1>1, <1>2, <1>3, <1>4, <1>5, <1>6, <1>7, <1>8, <1>9, <1>10, <1>11, <1>12, <1>13,
     <1>14, <1>15, <1>16, <1>17, <1>18, <1>19, <1>20, <1>21, <1>22 DEF DeployStep

LEMMA BuildStepWorking ==
    ASSUME TypeInv, NEW w \in Workers, BuildStep(w)
    PROVE  Created' /\ Working'
<1> USE DEF At, Alive, Free, depVars, buildVars, runtimeVars, history
<1>1. CASE CreateBuild(w)
  <2> DEFINE j == [job[w] EXCEPT !.build = nBuilds + 1, !.pc = "toBuild"]
  <2>1. j.pc = "toBuild"
    <3>1. job[w] \in Job
      BY JobFields DEF TypeInv
    <3>2. QED
      BY <3>1 DEF Job
  <2>2. /\ job'[w] = j \/ job'[w].pc = "idle"
        /\ \A v \in Workers \ {w} : job'[v] = job[v]
    BY <1>1, ReturnEffect, Others DEF CreateBuild, TypeInv
  <2>3. nDeps' = nDeps /\ deps' = deps
    BY <1>1 DEF CreateBuild
  <2>4. QED
    <3> HIDE DEF j
    <3>1. QED
      BY <2>1, <2>2, <2>3, WorkingFrame, CreatedFrame DEF TypeInv, TypeOK, DeploymentPcs
<1>2. CASE MoveToBuild(w)
  BY <1>2, GotoEffect, ReturnEffect, WorkingFrame, CreatedFrame
     DEF MoveToBuild, TypeInv, TypeOK, Working, DeploymentPcs
<1>3. CASE MarkInProgress(w)
  BY <1>3, GotoEffect, WorkingFrame, CreatedFrame
     DEF MarkInProgress, TypeInv, TypeOK, Working, DeploymentPcs
<1>4. CASE FinishBuild(w)
  BY <1>4, GotoEffect, ReturnEffect, WorkingFrame, CreatedFrame
     DEF FinishBuild, TypeInv, TypeOK, Working, DeploymentPcs
<1>5. CASE LoseOutcome(w)
  BY <1>5, ReturnEffect, WorkingFrame, CreatedFrame
     DEF LoseOutcome, TypeInv, TypeOK, Working, DeploymentPcs
<1>6. CASE RestoreStatus(w)
  BY <1>6, ReturnEffect, WorkingFrame, CreatedFrame
     DEF RestoreStatus, TypeInv, TypeOK, Working, DeploymentPcs
<1>7. QED
  BY <1>1, <1>2, <1>3, <1>4, <1>5, <1>6 DEF BuildStep

LEMMA LifecycleRequestWorking ==
    ASSUME TypeInv, NEW w \in Workers, LifecycleRequest(w)
    PROVE  Created' /\ Working'
<1> USE DEF At, Alive, Free, depVars, buildVars, runtimeVars, history
<1>1. CASE RequestSuspend(w)
  BY <1>1, StartEffect, WorkingFrame, CreatedFrame
     DEF RequestSuspend, LatestIs, TypeInv, TypeOK, Working, DeploymentPcs
<1>2. CASE RequestAdminSuspend(w)
  BY <1>2, StartEffect, WorkingFrame, CreatedFrame
     DEF RequestAdminSuspend, AdminSuspendable, TypeInv, TypeOK, Working,
        DeploymentPcs
<1>3. CASE RequestResume(w)
  BY <1>3, StartEffect, WorkingFrame, CreatedFrame
     DEF RequestResume, LatestIs, TypeInv, TypeOK, Working, DeploymentPcs
<1>4. CASE RequestAdminResume(w)
  BY <1>4, StartEffect, WorkingFrame, CreatedFrame
     DEF RequestAdminResume, LatestIs, TypeInv, TypeOK, Working, DeploymentPcs
<1>5. CASE RequestRestart(w)
  BY <1>5, StartEffect, WorkingFrame, CreatedFrame
     DEF RequestRestart, LatestIs, TypeInv, TypeOK, Working, DeploymentPcs
<1>6. CASE RequestArchive(w)
  BY <1>6, StartEffect, WorkingFrame, CreatedFrame
     DEF RequestArchive, LatestIs, TypeInv, TypeOK, Working, DeploymentPcs
<1>7. CASE RequestDelete(w)
  BY <1>7, StartEffect, WorkingFrame, CreatedFrame
     DEF RequestDelete, StartDelete, TypeInv, TypeOK, Working, DeploymentPcs
<1>8. CASE SweepFailed(w)
  BY <1>8, StartEffect, WorkingFrame, CreatedFrame
     DEF SweepFailed, TypeInv, TypeOK, Working, DeploymentPcs
<1>9. QED
  BY <1>1, <1>2, <1>3, <1>4, <1>5, <1>6, <1>7, <1>8 DEF LifecycleRequest

LEMMA LifecycleStepWorking ==
    ASSUME TypeInv, NEW w \in Workers, LifecycleStep(w)
    PROVE  Created' /\ Working'
<1> USE DEF At, Alive, Free, depVars, buildVars, runtimeVars, history
<1>1. CASE PlaceHold(w)
  BY <1>1, GotoEffect, ReturnEffect, WorkingFrame, CreatedFrame
     DEF PlaceHold, TypeInv, TypeOK, Working, DeploymentPcs
<1>2. CASE StopAllContainers(w)
  BY <1>2, GotoEffect, WorkingFrame, CreatedFrame
     DEF StopAllContainers, AfterStop, TypeInv, TypeOK, Working, DeploymentPcs
<1>3. CASE SetSuspended(w)
  <2>1. Created'
    BY <1>3, CreatedSet, CreatedFrame
       DEF SetSuspended, TypeInv, TypeOK, Working, DeploymentPcs
  <2>2. Working'
    BY <1>3, GotoEffect, WorkingFrame
       DEF SetSuspended, TypeInv, TypeOK, Working, DeploymentPcs
  <2>3. QED
    BY <2>1, <2>2
<1>4. CASE Unlist(w)
  <2>1. Created'
    BY <1>4, SetListedEffect, CreatedFrame
       DEF Unlist, TypeInv, TypeOK, Working, DeploymentPcs
  <2>2. Working'
    BY <1>4, GotoEffect, WorkingFrame
       DEF Unlist, TypeInv, TypeOK, Working, DeploymentPcs
  <2>3. QED
    BY <2>1, <2>2
<1>5. CASE MoveToSuspended(w)
  BY <1>5, GotoEffect, ReturnEffect, WorkingFrame, CreatedFrame
     DEF MoveToSuspended, TypeInv, TypeOK, Working, DeploymentPcs
<1>6. CASE RemoveHold(w)
  BY <1>6, ReturnEffect, WorkingFrame, CreatedFrame
     DEF RemoveHold, TypeInv, TypeOK, Working, DeploymentPcs
<1>7. CASE ResumeContainers(w)
  <2>1. /\ \A v \in Workers \ {w} : job'[v] = job[v]
        /\ job'[w].pc = "idle" \/ (job'[w].dep = job[w].dep /\ job'[w].pc = "resumed")
    BY <1>7, ResumeEffect, ReturnEffect DEF TypeInv
  <2>2. deps' = deps /\ nDeps' = nDeps
    BY <1>7 DEF ResumeContainers
  <2>3. job[w].dep \in 1..nDeps
    BY <1>7 DEF ResumeContainers, TypeInv, Working, DeploymentPcs
  <2>. QED BY <2>1, <2>2, <2>3, WorkingFrame, CreatedFrame DEF TypeInv, TypeOK, DeploymentPcs
<1>8. CASE SetResumed(w)
  <2>1. Created'
    BY <1>8, CreatedSet, CreatedFrame
       DEF SetResumed, TypeInv, TypeOK, Working, DeploymentPcs
  <2>2. Working'
    BY <1>8, GotoEffect, WorkingFrame
       DEF SetResumed, TypeInv, TypeOK, Working, DeploymentPcs
  <2>3. QED
    BY <2>1, <2>2
<1>9. CASE List(w)
  <2>1. Created'
    BY <1>9, SetListedEffect, CreatedFrame
       DEF List, TypeInv, TypeOK, Working, DeploymentPcs
  <2>2. Working'
    BY <1>9, GotoEffect, WorkingFrame DEF List, TypeInv, TypeOK, Working, DeploymentPcs
  <2>3. QED
    BY <2>1, <2>2
<1>10. CASE MoveToRunning(w)
  BY <1>10, GotoEffect, ReturnEffect, WorkingFrame, CreatedFrame
     DEF MoveToRunning, TypeInv, TypeOK, Working, DeploymentPcs
<1>11. CASE ReleaseHold(w)
  BY <1>11, ReturnEffect, WorkingFrame, CreatedFrame
     DEF ReleaseHold, TypeInv, TypeOK, Working, DeploymentPcs
<1>12. CASE Recycle(w)
  <2> DEFINE recycled == rows \cap {job[w].dep}
             j(p) == [job[w] EXCEPT !.pc = "relist", !.prev = p]
  <2>1. \A p : j(p).pc = "relist" /\ j(p).dep = job[w].dep
    <3>1. job[w] \in Job
      BY JobFields DEF TypeInv
    <3>2. QED
      BY <3>1 DEF Job
  <2>2. \A v \in Workers \ {w} : job'[v] = job[v]
    BY <1>12, ReturnEffect, Others DEF Recycle, TypeInv
  <2>3. job'[w].pc = "idle" \/ \E p \in 0..MaxDeployments : job'[w] = j(p)
    <3>1. (IF recycled = {} THEN 0 ELSE job[w].dep) \in 0..MaxDeployments
      BY JobFields, StoreAssumption DEF TypeInv
    <3>2. Return(w) \/ Become(w, j(IF recycled = {} THEN 0 ELSE job[w].dep))
      BY <1>12 DEF Recycle
    <3>3. job'[w].pc = "idle" \/ job'[w] = j(IF recycled = {} THEN 0 ELSE job[w].dep)
      BY <3>2, ReturnEffect, Others DEF TypeInv
    <3>4. QED
      BY <3>1, <3>3
  <2>4. job[w].dep \in 1..nDeps /\ nDeps' = nDeps
    BY <1>12 DEF Recycle, TypeInv, Working, DeploymentPcs
  <2>5. Working'
    <3> HIDE DEF j
    <3>1. QED
      BY <2>1, <2>2, <2>3, <2>4, WorkingFrame DEF TypeInv, TypeOK, DeploymentPcs
  <2>6. \E x : deps' = [deps EXCEPT ![job[w].dep].listed = x]
    BY <1>12 DEF Recycle
  <2>7. Created'
    BY <2>4, <2>6, SetListedEffect, CreatedFrame DEF TypeInv
  <2>8. QED
    BY <2>5, <2>7
<1>13. CASE Relist(w)
  <2>1. Created'
    BY <1>13, SetListedEffect, CreatedFrame
       DEF Relist, TypeInv, TypeOK, Working, DeploymentPcs
  <2>2. Working'
    BY <1>13, GotoEffect, WorkingFrame
       DEF Relist, TypeInv, TypeOK, Working, DeploymentPcs
  <2>3. QED
    BY <2>1, <2>2
<1>14. CASE TouchRunning(w)
  <2>1. Created'
    BY <1>14, CreatedSet, CreatedFrame
       DEF TouchRunning, TypeInv, TypeOK, Working, DeploymentPcs
  <2>2. Working'
    BY <1>14, ReturnEffect, WorkingFrame
       DEF TouchRunning, TypeInv, TypeOK, Working, DeploymentPcs
  <2>3. QED
    BY <2>1, <2>2
<1>15. CASE SetArchived(w)
  <2>1. Created'
    BY <1>15, CreatedSet, CreatedFrame
       DEF SetArchived, TypeInv, TypeOK, Working, DeploymentPcs
  <2>2. Working'
    BY <1>15, GotoEffect, WorkingFrame
       DEF SetArchived, TypeInv, TypeOK, Working, DeploymentPcs
  <2>3. QED
    BY <2>1, <2>2
<1>16. CASE MoveToArchived(w)
  BY <1>16, ReturnEffect, WorkingFrame, CreatedFrame
     DEF MoveToArchived, TypeInv, TypeOK, Working, DeploymentPcs
<1>17. CASE RemoveFailed(w)
  BY <1>17, StartEffect, ReturnEffect, WorkingFrame, CreatedFrame
     DEF RemoveFailed, StartDelete, TypeInv, TypeOK, Working, DeploymentPcs
<1>18. CASE Deprovision(w)
  BY <1>18, GotoEffect, WorkingFrame, CreatedFrame
     DEF Deprovision, TypeInv, TypeOK, Working, DeploymentPcs
<1>19. CASE MoveToDeleted(w)
  BY <1>19, ReturnEffect, WorkingFrame, CreatedFrame
     DEF MoveToDeleted, TypeInv, TypeOK, Working, DeploymentPcs
<1>20. QED
  BY <1>1, <1>2, <1>3, <1>4, <1>5, <1>6, <1>7, <1>8, <1>9, <1>10, <1>11, <1>12, <1>13,
     <1>14, <1>15, <1>16, <1>17, <1>18, <1>19 DEF LifecycleStep

-----------------------------------------------------------------------------
(* Steps that are nobody's operation. *)

LEMMA BuildRequestInv ==
    ASSUME TypeInv, NEW w \in Workers, RequestBuild(w)
    PROVE  TypeInv'
<1> USE DEF At, Alive, Free, depVars, buildVars, runtimeVars, history
<1> DEFINE j == [Idle EXCEPT !.pc = "newBuild", !.op = "build", !.seen = app]
<1>1. j \in Job
  BY IdleJob, NewBuildJob DEF TypeInv, TypeOK, Pcs, BuildContextPcs, Operations
<1>2. j.pc = "newBuild"
  BY DEF Idle
<1>3. job' \in [Workers -> Job]
  BY <1>1, BecomeType DEF RequestBuild, TypeInv
<1>4. TypeOK'
  BY <1>3 DEF RequestBuild, TypeInv, TypeOK
<1>5. job'[w] = j /\ \A v \in Workers \ {w} : job'[v] = job[v]
  BY Others DEF RequestBuild, TypeInv
<1>6. nDeps' = nDeps /\ deps' = deps
  BY DEF RequestBuild
<1>7. QED
  <2> HIDE DEF j
  <2>1. QED
    BY <1>2, <1>4, <1>5, <1>6, WorkingFrame, CreatedFrame DEF TypeInv, TypeOK, DeploymentPcs

LEMMA WriteRefusedInv ==
    ASSUME TypeInv, NEW w \in Workers, WriteRefused(w)
    PROVE  TypeInv'
<1> USE DEF depVars, buildVars, runtimeVars, history
<1>1. TypeOK'
  BY ReturnType DEF WriteRefused, TypeInv, TypeOK
<1>2. Created' /\ Working'
  BY ReturnEffect, WorkingFrame, CreatedFrame DEF WriteRefused, TypeInv, TypeOK, DeploymentPcs
<1>3. QED
  BY <1>1, <1>2 DEF TypeInv

LEMMA CallerLeavesInv ==
    ASSUME TypeInv, NEW w \in Workers, CallerLeaves(w)
    PROVE  TypeInv'
<1> USE DEF depVars, buildVars, runtimeVars, history
<1> DEFINE j == [job[w] EXCEPT !.alive = FALSE]
<1>1. j \in Job
  BY JobFields, JobAlive DEF TypeInv
<1>2. j.pc = job[w].pc /\ j.dep = job[w].dep /\ j.prev = job[w].prev
  <2>1. job[w] \in Job
    BY JobFields DEF TypeInv
  <2>2. QED
    BY <2>1 DEF Job
<1>3. job' \in [Workers -> Job]
  BY <1>1, BecomeType DEF CallerLeaves, TypeInv
<1>4. TypeOK'
  BY <1>3 DEF CallerLeaves, TypeInv, TypeOK
<1>5. job'[w] = j /\ \A v \in Workers \ {w} : job'[v] = job[v]
  BY Others DEF CallerLeaves, TypeInv
<1>6. nDeps' = nDeps /\ deps' = deps
  BY DEF CallerLeaves
<1>7. Working'
  <2> HIDE DEF j
  <2>1. QED
    BY <1>2, <1>5, <1>6, WorkingFrame DEF TypeInv, TypeOK, Working, At
<1>8. QED
  BY <1>4, <1>6, <1>7, CreatedFrame DEF TypeInv

LEMMA ServerRestartsInv ==
    ASSUME TypeInv, ServerRestarts
    PROVE  TypeInv'
<1> USE DEF depVars, buildVars, runtimeVars, history
<1>1. TypeOK'
  BY IdleJob DEF ServerRestarts, TypeInv, TypeOK
<1>2. Created' /\ Working'
  BY DEF ServerRestarts, TypeInv, Created, Working, At, Idle, DeploymentPcs
<1>3. QED
  BY <1>1, <1>2 DEF TypeInv

-----------------------------------------------------------------------------
LEMMA InitInv == StoreInit => TypeInv
<1> SUFFICES ASSUME StoreInit PROVE TypeInv
  OBVIOUS
<1>1. NoDeployment \in Deployment
  BY StoreAssumption DEF NoDeployment, Deployment, DeploymentStatus, Env, Decision
<1>2. deps \in [Dep -> Deployment] /\ job \in [Workers -> Job] /\ builds \in [Build -> BuildStatus]
  BY <1>1, IdleJob DEF StoreInit, BuildStatus
<1>3. nDeps \in 0..MaxDeployments /\ nBuilds \in 0..MaxBuilds
  BY StoreAssumption DEF StoreInit
<1>4. TypeOK
  BY <1>2, <1>3 DEF StoreInit, TypeOK, LifecycleStatus
<1>5. Created
  BY StoreAssumption DEF StoreInit, Created, NoDeployment, Dep
<1>6. Working
  BY DEF StoreInit, Working, At, Idle, DeploymentPcs
<1>7. QED
  BY <1>4, <1>5, <1>6 DEF TypeInv

LEMMA StepInv == TypeInv /\ [Next]_vars => TypeInv'
<1> SUFFICES ASSUME TypeInv, [Next]_vars PROVE TypeInv'
  OBVIOUS
<1>1. ASSUME NEW w \in Workers, Request(w)
      PROVE  TypeInv'
  BY <1>1, DeployRequestType, DeployRequestWorking, BuildRequestInv,
     LifecycleRequestType, LifecycleRequestWorking DEF Request, TypeInv
<1>2. ASSUME NEW w \in Workers, Step(w)
      PROVE  TypeInv'
  BY <1>2, DeployStepType, DeployStepWorking, BuildStepType, BuildStepWorking,
     LifecycleStepType, LifecycleStepWorking, WriteRefusedInv DEF Step, TypeInv
<1>3. CASE UNCHANGED vars
  BY <1>3 DEF vars, depVars, buildVars, runtimeVars, history,
              TypeInv, TypeOK, Created, Working, At
<1>4. QED
  BY <1>1, <1>2, <1>3, CallerLeavesInv, ServerRestartsInv DEF Next

(* Whatever the numbers of handlers, deployments, builds and faults, and in
   whatever order they interleave, every row keeps its shape, every handler
   past its checks works on a deployment that exists, and ids are used in
   order (the rows the services write, and DeploymentRepo.Create). *)
THEOREM TypeInvHolds == Spec => []TypeInv
<1>1. StoreInit => TypeInv
  BY InitInv
<1>2. TypeInv /\ [Next]_vars => TypeInv'
  BY StepInv
<1>3. QED
  BY <1>1, <1>2, PTL DEF Spec

(* The state keeps its type: the statuses the domain package names, the
   references between rows, and what a handler remembers across its writes. *)
THEOREM TypeCorrect == Spec => []TypeOK
<1>1. TypeInv => TypeOK
  BY DEF TypeInv
<1>2. QED
  BY <1>1, TypeInvHolds, PTL

-----------------------------------------------------------------------------
(* What a step does to the deployments' rows.  IndexAllows(0): no deployment *)
(* is in flight.  ActivePcs: where a handler makes its deployment live or    *)
(* lets it stay so.                                                          *)
SameRow(d) ==
    /\ deps'[d].status = deps[d].status
    /\ deps'[d].build = deps[d].build /\ deps'[d].env = deps[d].env

RowsKept == nDeps' = nDeps /\ \A d \in Dep : SameRow(d)

RowCreated(w) ==
    /\ At(w, "create") /\ IndexAllows(0)
    /\ nDeps' = nDeps + 1 /\ nDeps + 1 \in Dep
    /\ \A d \in Dep \ {nDeps + 1} : SameRow(d)
    /\ deps'[nDeps + 1].status = "scanning"
    /\ deps'[nDeps + 1].build = job[w].build /\ deps'[nDeps + 1].env = job[w].env

ActivePcs == {"activate", "checking", "live", "suspended", "resumed", "touch", "archived"}

RowSet(w, d) ==
    /\ nDeps' = nDeps
    /\ \A e \in Dep \ {d} : SameRow(e)
    /\ deps'[d].build = deps[d].build /\ deps'[d].env = deps[d].env
    /\ deps'[d].status \in InFlightStatus => IndexAllows(d)
    /\ deps'[d].status \in Activated =>
            \/ job[w].pc \in ActivePcs /\ job[w].dep = d
            \/ At(w, "supersede") /\ job[w].prev = d

RowsStep(w) == RowsKept \/ RowCreated(w) \/ \E d \in 1..nDeps : RowSet(w, d)

LEMMA RowSetBy ==
    ASSUME TypeInv, NEW w \in Workers, NEW d \in 1..nDeps, NEW s, SetStatus(d, s),
           nDeps' = nDeps,
           s \in InFlightStatus => IndexAllows(d),
           s \in Activated => \/ job[w].pc \in ActivePcs /\ job[w].dep = d
                              \/ At(w, "supersede") /\ job[w].prev = d
    PROVE  RowsStep(w)
<1>1. d \in Dep
  BY StoreAssumption DEF TypeInv, TypeOK, Dep
<1>2. \A e \in Dep : /\ deps'[e].status = IF e = d THEN s ELSE deps[e].status
                     /\ deps'[e].build = deps[e].build /\ deps'[e].env = deps[e].env
  BY SetStatusEffect DEF TypeInv
<1>3. RowSet(w, d)
  BY <1>1, <1>2 DEF RowSet, SameRow
<1>4. QED
  BY <1>3 DEF RowsStep

LEMMA DeployRequestRows ==
    ASSUME TypeInv, NEW w \in Workers, DeployRequest(w)
    PROVE  RowsStep(w)
<1> USE DEF At, Alive, Free, depVars, buildVars, runtimeVars, history
<1>1. ASSUME NEW e \in Env, RequestDeploy(w, e)
      PROVE  RowsStep(w)
  BY <1>1 DEF RequestDeploy, RowsStep, RowsKept, SameRow
<1>2. ASSUME NEW d \in Dep, RequestRollback(w, d)
      PROVE  RowsStep(w)
  BY <1>2 DEF RequestRollback, RowsStep, RowsKept, SameRow
<1>3. ASSUME NEW d \in Dep, TriggerAutomaticRollback(w, d)
      PROVE  RowsStep(w)
  BY <1>3 DEF TriggerAutomaticRollback, RowsStep, RowsKept, SameRow
<1>4. ASSUME NEW d \in Dep, NEW yes \in BOOLEAN, RequestDecision(w, d, yes)
      PROVE  RowsStep(w)
  BY <1>4 DEF RequestDecision, RowsStep, RowsKept, SameRow
<1>5. QED
  BY <1>1, <1>2, <1>3, <1>4 DEF DeployRequest

LEMMA DeployStepRows ==
    ASSUME TypeInv, NEW w \in Workers, DeployStep(w)
    PROVE  RowsStep(w)
<1> USE DEF At, Alive, Free, depVars, buildVars, runtimeVars, history
<1>1. CASE Create(w)
  <2>1. CASE IndexAllows(0) /\ nDeps < MaxDeployments
    <3> DEFINE row == [NoDeployment EXCEPT !.status = "scanning", !.env = job[w].env,
                                           !.build = job[w].build]
    <3>1. row.status = "scanning" /\ row.env = job[w].env /\ row.build = job[w].build
      BY DEF NoDeployment
    <3>2. nDeps + 1 \in Dep
      BY <2>1, StoreAssumption DEF TypeInv, TypeOK, Dep
    <3>3. deps' = [deps EXCEPT ![nDeps + 1] = row] /\ nDeps' = nDeps + 1
      BY <1>1, <2>1 DEF Create
    <3>4. \A d \in Dep : deps'[d] = IF d = nDeps + 1 THEN row ELSE deps[d]
      BY <3>3 DEF TypeInv, TypeOK
    <3>5. RowCreated(w)
      <4> HIDE DEF row
      <4>1. QED
        BY <1>1, <2>1, <3>1, <3>2, <3>3, <3>4 DEF RowCreated, SameRow, Create
    <3>6. QED
      BY <3>5 DEF RowsStep
  <2>2. CASE ~(IndexAllows(0) /\ nDeps < MaxDeployments)
    BY <1>1, <2>2 DEF Create, RowsStep, RowsKept, SameRow
  <2>3. QED
    BY <2>1, <2>2
<1>2. CASE Scan(w)
  BY <1>2 DEF Scan, RowsStep, RowsKept, SameRow
<1>3. CASE AwaitApproval(w)
  <2>1. job[w].dep \in 1..nDeps
    BY <1>3 DEF AwaitApproval, TypeInv, Working, DeploymentPcs
  <2>2. QED
    BY <1>3, <2>1, RowSetBy
       DEF AwaitApproval, InFlightStatus, Activated, ActivePcs, RowsStep, RowsKept,
          SameRow
<1>4. CASE AskApprovers(w)
  BY <1>4, SetDecisionEffect DEF AskApprovers, RowsStep, RowsKept, SameRow, TypeInv
<1>5. CASE Decide(w)
  <2>1. nDeps' = nDeps
    BY <1>5 DEF Decide
  <2>2. QED
    BY <1>5, <2>1, SetDecisionEffect DEF Decide, RowsStep, RowsKept, SameRow, TypeInv
<1>6. CASE Reject(w)
  <2>1. job[w].dep \in 1..nDeps
    BY <1>6 DEF Reject, TypeInv, Working, DeploymentPcs
  <2>2. QED
    BY <1>6, <2>1, RowSetBy DEF Reject, InFlightStatus, Activated, ActivePcs
<1>7. CASE RejectApp(w)
  BY <1>7 DEF RejectApp, RowsStep, RowsKept, SameRow
<1>8. CASE SetDeploying(w)
  <2>1. job[w].dep \in 1..nDeps
    BY <1>8 DEF SetDeploying, TypeInv, Working, DeploymentPcs
  <2>2. QED
    BY <1>8, <2>1, RowSetBy
       DEF SetDeploying, InFlightStatus, Activated, ActivePcs, RowsStep, RowsKept,
          SameRow
<1>9. CASE Occupy(w)
  BY <1>9 DEF Occupy, RowsStep, RowsKept, SameRow
<1>10. CASE StartContainers(w)
  BY <1>10 DEF StartContainers, RowsStep, RowsKept, SameRow
<1>11. CASE SetHealthCheck(w)
  <2>1. job[w].dep \in 1..nDeps
    BY <1>11 DEF SetHealthCheck, TypeInv, Working, DeploymentPcs
  <2>2. QED
    BY <1>11, <2>1, RowSetBy
       DEF SetHealthCheck, InFlightStatus, Activated, ActivePcs, RowsStep, RowsKept,
          SameRow
<1>12. CASE HealthCheck(w)
  BY <1>12 DEF HealthCheck, RowsStep, RowsKept, SameRow
<1>13. CASE SetRunning(w)
  <2>1. job[w].dep \in 1..nDeps /\ job[w].dep \in Dep
    BY <1>13, WorkingDep DEF SetRunning, TypeInv, Working, DeploymentPcs
  <2>2. \A e \in Dep : /\ deps'[e].status = IF e = job[w].dep THEN "running" ELSE deps[e].status
                       /\ deps'[e].build = deps[e].build /\ deps'[e].env = deps[e].env
    BY <1>13, SetLiveEffect DEF SetRunning, TypeInv
  <2>3. nDeps' = nDeps /\ job[w].pc = "live"
    BY <1>13 DEF SetRunning
  <2>4. RowSet(w, job[w].dep)
    BY <2>1, <2>2, <2>3 DEF RowSet, SameRow, ActivePcs, InFlightStatus
  <2>5. QED
    BY <2>1, <2>4 DEF RowsStep
<1>14. CASE Publish(w)
  BY <1>14 DEF Publish, RowsStep, RowsKept, SameRow
<1>15. CASE TrackServices(w)
  BY <1>15 DEF TrackServices, RowsStep, RowsKept, SameRow
<1>16. CASE RetirePrevious(w)
  BY <1>16 DEF RetirePrevious, RowsStep, RowsKept, SameRow
<1>17. CASE SetSuperseded(w)
  <2>1. job[w].prev \in 1..nDeps
    BY <1>17 DEF SetSuperseded, TypeInv, Working
  <2>2. QED
    BY <1>17, <2>1, RowSetBy DEF SetSuperseded, InFlightStatus, Activated
<1>18. CASE CleanupForDeployment(w)
  BY <1>18 DEF CleanupForDeployment, RowsStep, RowsKept, SameRow
<1>19. CASE Fail(w)
  <2>1. job[w].dep \in 1..nDeps
    BY <1>19 DEF Fail, TypeInv, Working, DeploymentPcs
  <2>2. QED
    BY <1>19, <2>1, RowSetBy DEF Fail, InFlightStatus, Activated, ActivePcs
<1>20. CASE FailApp(w)
  BY <1>20 DEF FailApp, RowsStep, RowsKept, SameRow
<1>21. CASE GiveUp(w)
  <2>1. job[w].dep \in 1..nDeps
    BY <1>21 DEF GiveUp, TypeInv, Working, DeploymentPcs
  <2>2. QED
    BY <1>21, <2>1, RowSetBy DEF GiveUp, InFlightStatus, Activated, ActivePcs
<1>22. CASE GiveUpApp(w)
  BY <1>22 DEF GiveUpApp, RowsStep, RowsKept, SameRow
<1>23. QED
  BY <1>1, <1>2, <1>3, <1>4, <1>5, <1>6, <1>7, <1>8, <1>9, <1>10, <1>11, <1>12, <1>13,
     <1>14, <1>15, <1>16, <1>17, <1>18, <1>19, <1>20, <1>21, <1>22 DEF DeployStep

LEMMA BuildStepRows ==
    ASSUME TypeInv, NEW w \in Workers, BuildStep(w)
    PROVE  RowsStep(w)
<1> USE DEF At, Alive, Free, depVars, buildVars, runtimeVars, history
<1>1. CASE CreateBuild(w)
  BY <1>1 DEF CreateBuild, RowsStep, RowsKept, SameRow
<1>2. CASE MoveToBuild(w)
  BY <1>2 DEF MoveToBuild, RowsStep, RowsKept, SameRow
<1>3. CASE MarkInProgress(w)
  BY <1>3 DEF MarkInProgress, RowsStep, RowsKept, SameRow
<1>4. CASE FinishBuild(w)
  BY <1>4 DEF FinishBuild, RowsStep, RowsKept, SameRow
<1>5. CASE LoseOutcome(w)
  BY <1>5 DEF LoseOutcome, RowsStep, RowsKept, SameRow
<1>6. CASE RestoreStatus(w)
  BY <1>6 DEF RestoreStatus, RowsStep, RowsKept, SameRow
<1>7. QED
  BY <1>1, <1>2, <1>3, <1>4, <1>5, <1>6 DEF BuildStep

LEMMA LifecycleRequestRows ==
    ASSUME TypeInv, NEW w \in Workers, LifecycleRequest(w)
    PROVE  RowsStep(w)
<1> USE DEF At, Alive, Free, depVars, buildVars, runtimeVars, history
<1>1. CASE RequestSuspend(w)
  BY <1>1 DEF RequestSuspend, RowsStep, RowsKept, SameRow
<1>2. CASE RequestAdminSuspend(w)
  BY <1>2 DEF RequestAdminSuspend, RowsStep, RowsKept, SameRow
<1>3. CASE RequestResume(w)
  BY <1>3 DEF RequestResume, RowsStep, RowsKept, SameRow
<1>4. CASE RequestAdminResume(w)
  BY <1>4 DEF RequestAdminResume, RowsStep, RowsKept, SameRow
<1>5. CASE RequestRestart(w)
  BY <1>5 DEF RequestRestart, RowsStep, RowsKept, SameRow
<1>6. CASE RequestArchive(w)
  BY <1>6 DEF RequestArchive, RowsStep, RowsKept, SameRow
<1>7. CASE RequestDelete(w)
  BY <1>7 DEF RequestDelete, RowsStep, RowsKept, SameRow
<1>8. CASE SweepFailed(w)
  BY <1>8 DEF SweepFailed, RowsStep, RowsKept, SameRow
<1>9. QED
  BY <1>1, <1>2, <1>3, <1>4, <1>5, <1>6, <1>7, <1>8 DEF LifecycleRequest

LEMMA LifecycleStepRows ==
    ASSUME TypeInv, NEW w \in Workers, LifecycleStep(w)
    PROVE  RowsStep(w)
<1> USE DEF At, Alive, Free, depVars, buildVars, runtimeVars, history
<1>1. CASE PlaceHold(w)
  BY <1>1 DEF PlaceHold, RowsStep, RowsKept, SameRow
<1>2. CASE StopAllContainers(w)
  BY <1>2 DEF StopAllContainers, RowsStep, RowsKept, SameRow
<1>3. CASE SetSuspended(w)
  <2>1. job[w].dep \in 1..nDeps
    BY <1>3 DEF SetSuspended, TypeInv, Working, DeploymentPcs
  <2>2. QED
    BY <1>3, <2>1, RowSetBy DEF SetSuspended, InFlightStatus, Activated, ActivePcs
<1>4. CASE Unlist(w)
  BY <1>4, SetListedEffect DEF Unlist, RowsStep, RowsKept, SameRow, TypeInv
<1>5. CASE MoveToSuspended(w)
  BY <1>5 DEF MoveToSuspended, RowsStep, RowsKept, SameRow
<1>6. CASE RemoveHold(w)
  BY <1>6 DEF RemoveHold, RowsStep, RowsKept, SameRow
<1>7. CASE ResumeContainers(w)
  BY <1>7 DEF ResumeContainers, RowsStep, RowsKept, SameRow
<1>8. CASE SetResumed(w)
  <2>1. job[w].dep \in 1..nDeps
    BY <1>8 DEF SetResumed, TypeInv, Working, DeploymentPcs
  <2>2. QED
    BY <1>8, <2>1, RowSetBy DEF SetResumed, InFlightStatus, Activated, ActivePcs
<1>9. CASE List(w)
  BY <1>9, SetListedEffect DEF List, RowsStep, RowsKept, SameRow, TypeInv
<1>10. CASE MoveToRunning(w)
  BY <1>10 DEF MoveToRunning, RowsStep, RowsKept, SameRow
<1>11. CASE ReleaseHold(w)
  BY <1>11 DEF ReleaseHold, RowsStep, RowsKept, SameRow
<1>12. CASE Recycle(w)
  <2>1. \E x : deps' = [deps EXCEPT ![job[w].dep].listed = x]
    BY <1>12 DEF Recycle
  <2>2. nDeps' = nDeps
    BY <1>12 DEF Recycle
  <2>3. QED
    BY <2>1, <2>2, SetListedEffect DEF RowsStep, RowsKept, SameRow, TypeInv
<1>13. CASE Relist(w)
  BY <1>13, SetListedEffect DEF Relist, RowsStep, RowsKept, SameRow, TypeInv
<1>14. CASE TouchRunning(w)
  <2>1. job[w].dep \in 1..nDeps
    BY <1>14 DEF TouchRunning, TypeInv, Working, DeploymentPcs
  <2>2. QED
    BY <1>14, <2>1, RowSetBy DEF TouchRunning, InFlightStatus, Activated, ActivePcs
<1>15. CASE SetArchived(w)
  <2>1. job[w].dep \in 1..nDeps
    BY <1>15 DEF SetArchived, TypeInv, Working, DeploymentPcs
  <2>2. QED
    BY <1>15, <2>1, RowSetBy DEF SetArchived, InFlightStatus, Activated, ActivePcs
<1>16. CASE MoveToArchived(w)
  BY <1>16 DEF MoveToArchived, RowsStep, RowsKept, SameRow
<1>17. CASE RemoveFailed(w)
  BY <1>17 DEF RemoveFailed, RowsStep, RowsKept, SameRow
<1>18. CASE Deprovision(w)
  BY <1>18 DEF Deprovision, RowsStep, RowsKept, SameRow
<1>19. CASE MoveToDeleted(w)
  BY <1>19 DEF MoveToDeleted, RowsStep, RowsKept, SameRow
<1>20. QED
  BY <1>1, <1>2, <1>3, <1>4, <1>5, <1>6, <1>7, <1>8, <1>9, <1>10, <1>11, <1>12, <1>13,
     <1>14, <1>15, <1>16, <1>17, <1>18, <1>19 DEF LifecycleStep

LEMMA NextRows ==
    ASSUME TypeInv, [Next]_vars
    PROVE  RowsKept \/ \E w \in Workers : RowCreated(w) \/ \E d \in 1..nDeps : RowSet(w, d)
<1> USE DEF depVars
<1>1. ASSUME NEW w \in Workers, Request(w)
      PROVE  RowsStep(w)
  BY <1>1, DeployRequestRows, LifecycleRequestRows
     DEF Request, RequestBuild, RowsStep, RowsKept, SameRow
<1>2. ASSUME NEW w \in Workers, Step(w)
      PROVE  RowsStep(w)
  BY <1>2, DeployStepRows, BuildStepRows, LifecycleStepRows
     DEF Step, WriteRefused, RowsStep, RowsKept, SameRow
<1>3. ASSUME NEW w \in Workers, CallerLeaves(w)
      PROVE  RowsKept
  BY <1>3 DEF CallerLeaves, RowsKept, SameRow
<1>4. CASE ServerRestarts
  BY <1>4 DEF ServerRestarts, RowsKept, SameRow
<1>5. CASE UNCHANGED vars
  BY <1>5 DEF vars, RowsKept, SameRow
<1>6. QED
  BY <1>1, <1>2, <1>3, <1>4, <1>5 DEF Next, RowsStep

(* The partial unique index, and every path that sets a status it covers,
   keep at most one deployment of the application in flight. *)
LEMMA OneInFlightStep == TypeInv /\ OneInFlight /\ [Next]_vars => OneInFlight'
<1> SUFFICES ASSUME TypeInv, OneInFlight, [Next]_vars PROVE OneInFlight'
  OBVIOUS
<1>1. CASE RowsKept
  BY <1>1 DEF RowsKept, SameRow, OneInFlight, InFlight
<1>2. ASSUME NEW w \in Workers, RowCreated(w)
      PROVE  OneInFlight'
  BY <1>2, StoreAssumption DEF RowCreated, SameRow, IndexAllows, OneInFlight, InFlight, Dep
<1>3. ASSUME NEW w \in Workers, NEW d \in 1..nDeps, RowSet(w, d)
      PROVE  OneInFlight'
  BY <1>3 DEF RowSet, SameRow, IndexAllows, OneInFlight, InFlight
<1>4. QED
  BY <1>1, <1>2, <1>3, NextRows

(* At most one deployment is in flight, for any number of handlers and any
   number of deployments (one_in_flight_deployment_per_application). *)
THEOREM OneInFlightHolds == Spec => []OneInFlight
<1>1. StoreInit => OneInFlight
  BY DEF StoreInit, OneInFlight, InFlight, InFlightStatus, NoDeployment
<1>2. TypeInv /\ OneInFlight /\ [Next]_vars => OneInFlight'
  BY OneInFlightStep
<1>3. QED
  BY <1>1, <1>2, TypeInvHolds, PTL DEF Spec
=============================================================================
