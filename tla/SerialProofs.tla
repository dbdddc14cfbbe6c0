----------------------------- MODULE SerialProofs -----------------------------
(***************************************************************************)
(* Theorems about Platform with one request at a time, for any number of   *)
(* deployments and builds: without faults a deployment is never stranded,  *)
(* one version runs and the application says so, every activation and      *)
(* every build is settled, and the pipeline implements Release; with any   *)
(* faults, the version that serves is taken down only once another serves. *)
(***************************************************************************)
EXTENDS PlatformProofs, FiniteSetTheorems

(***************************************************************************)
(* One request at a time, without faults                                   *)
(***************************************************************************)
\* The deployments in flight, those that wait for an approver, and those that
\* are suspended.
Trial == {d \in Dep : InFlight(d)}
Asked == {d \in Dep : deps[d].status = "pending_approval"}
Parked == {d \in Dep : deps[d].status = "suspended"}
Few(S) == \A d, e \in S : d = e

\* Where the handler answers for a deployment in flight, where it goes by the
\* status it read, where the application is on its way up, and where a version
\* serves.
FlightPcs == {"scan", "gate", "activate", "occupy", "start", "checking", "health", "live", "fail"}
SeenPcs == {"create", "scan", "gate", "activate", "occupy", "reject", "rejectApp", "fail", "failApp",
            "newBuild", "toBuild"}
BackPcs == {"create", "scan", "gate", "activate", "occupy", "start", "checking", "health", "live",
            "newBuild", "toBuild", "begin", "building", "buildFailed"}
TransientPcs == {"start", "checking", "health", "live", "publish"}
ServingPcs == {"publish", "track", "retire", "supersede", "untrack", "recycle", "relist", "touch",
               "list", "toRunning", "suspended"}
OwnersOp(w) == job[w].op \in {"suspend", "adminSuspend"}

\* Only the newest deployment is in flight: it waits for an approver, or the
\* handler works on it.
Flights(w) ==
    /\ Trial \subseteq {nDeps}
    /\ \A d \in Trial \ Asked : job[w].pc \in FlightPcs
    /\ job[w].pc \in FlightPcs \cup {"ask", "decide", "reject"} => job[w].dep = nDeps /\ nDeps \in Trial

\* One version serves, and a second one while it replaces the first.
Versions(w) ==
    /\ job[w].pc \in {"publish", "track", "retire"} => Few(RunningDeps \ {job[w].dep})
    /\ job[w].pc = "supersede" =>
          /\ job[w].prev # job[w].dep /\ job[w].prev \in RunningDeps
          /\ RunningDeps \subseteq {job[w].dep, job[w].prev}
    /\ job[w].pc \notin {"publish", "track", "retire", "supersede"} => Few(RunningDeps)

\* The handler's deployment is what it was when the request was accepted.
Latest(w) ==
    /\ job[w].pc \in ServingPcs => job[w].dep \in RunningDeps
    /\ job[w].pc = "stop" /\ OwnersOp(w) => job[w].dep \in RunningDeps
    /\ job[w].pc \in {"stop", "unlist"} /\ job[w].op = "archive" => job[w].dep \in RunningDeps
    /\ job[w].pc = "hold" =>
          job[w].op = "adminSuspend" /\ (job[w].seen = "running" => job[w].dep \in RunningDeps)
    /\ job[w].pc = "suspended" => OwnersOp(w)
    /\ job[w].pc \in {"resume", "resumed"} => job[w].dep = nDeps /\ nDeps \in Parked
    /\ job[w].pc = "archived" => job[w].op = "archive" /\ job[w].dep \in RunningDeps \cup Parked
    /\ job[w].pc = "toArchived" => job[w].op = "archive"
    /\ job[w].pc = "toSuspended" => job[w].op # "archive"

\* The application is in the status the handler read or put it in.
Status(w) ==
    /\ app \in {"deploying", "rolled_back"} => job[w].pc \in TransientPcs \cup {"fail", "failApp"}
    /\ job[w].pc \in SeenPcs => app = job[w].seen
    /\ job[w].op = "archive" /\ job[w].pc \in {"stop", "unlist", "archived", "toArchived"} => app = job[w].seen
    /\ job[w].pc \in TransientPcs => app = Transient(w)
    /\ job[w].pc \in {"resume", "resumed", "list", "toRunning"} => app = "suspended"

\* A running application has a deployment that says it is running, and so has
\* one that a handler may put back to running.
Serves(w) ==
    /\ app = "running" => RunningDeps # {} \/ job[w].pc \in {"giveUpApp", "unlist", "toSuspended", "toArchived"}
    /\ app = "suspended" => RunningDeps = {} \/ job[w].pc \in {"list", "toRunning"}
    /\ job[w].pc \in {"unlist", "toSuspended"} /\ job[w].op # "archive" => RunningDeps = {}
    /\ job[w].pc \in BackPcs /\ job[w].seen = "running" => RunningDeps # {}
    /\ job[w].pc \in {"fail", "failApp"} /\ job[w].back = "running" => RunningDeps # {}

\* The newest build is being built only while the handler builds it.
Building(w) ==
    /\ BuildInFlight => job[w].pc \in {"toBuild", "begin", "building"}
    /\ job[w].pc \in {"toBuild", "begin", "building"} => job[w].build = nBuilds

SerialInv(w) ==
    /\ faults = 0 /\ job[w].alive
    /\ Flights(w) /\ Versions(w) /\ Latest(w) /\ Status(w) /\ Serves(w) /\ Building(w)

(***************************************************************************)
(* What a write changes                                                    *)
(***************************************************************************)
LEMMA SameDeps ==
    ASSUME \A d \in Dep : deps'[d].status = deps[d].status
    PROVE  RunningDeps' = RunningDeps /\ Trial' = Trial /\ Asked' = Asked /\ Parked' = Parked
  BY DEF RunningDeps, Trial, Asked, Parked, InFlight

\* The deployment in the sets of its status, and in no other.
Stays(S, d, in) == IF in THEN S \cup {d} ELSE S \ {d}

LEMMA SetDeps ==
    ASSUME NEW d \in Dep, NEW s,
           \A e \in Dep : deps'[e].status = IF e = d THEN s ELSE deps[e].status
    PROVE  /\ RunningDeps' = Stays(RunningDeps, d, s = "running")
           /\ Trial' = Stays(Trial, d, s \in InFlightStatus)
           /\ Asked' = Stays(Asked, d, s = "pending_approval")
           /\ Parked' = Stays(Parked, d, s = "suspended")
  BY DEF RunningDeps, Trial, Asked, Parked, InFlight, Stays

LEMMA SameBuilds == ASSUME UNCHANGED buildVars PROVE (BuildInFlight' <=> BuildInFlight) /\ nBuilds' = nBuilds
  BY DEF BuildInFlight, buildVars

LEMMA GotoFields ==
    ASSUME TypeOK, NEW w \in Workers, NEW pc, Goto(w, pc)
    PROVE  /\ job'[w].pc = pc /\ job'[w].op = job[w].op /\ job'[w].dep = job[w].dep
           /\ job'[w].prev = job[w].prev /\ job'[w].build = job[w].build
           /\ job'[w].seen = job[w].seen /\ job'[w].back = job[w].back /\ job'[w].alive = job[w].alive
<1>1. job[w] \in Job
  BY JobFields
<1>2. PICK j : j = [job[w] EXCEPT !.pc = pc]
  OBVIOUS
<1>3. job'[w] = j
  BY <1>2, Others DEF Goto
<1>. QED BY <1>1, <1>2, <1>3 DEF Job

LEMMA ReturnFields ==
    ASSUME TypeOK, NEW w \in Workers, Return(w) PROVE job'[w].pc = "idle" /\ job'[w].op = "none" /\ job'[w].alive
  BY Others DEF Return, Idle

LEMMA FailToFields ==
    ASSUME TypeOK, NEW w \in Workers, NEW from, FailTo(w, from)
    PROVE  /\ job'[w].pc = "fail" /\ job'[w].op = job[w].op /\ job'[w].dep = job[w].dep
           /\ job'[w].seen = from /\ job'[w].alive = job[w].alive
           /\ job'[w].back = IF job[w].seen = "running" THEN "running" ELSE "failed"
<1>1. job[w] \in Job
  BY JobFields
<1>2. PICK back : back = IF job[w].seen = "running" THEN "running" ELSE "failed"
  OBVIOUS
<1>3. PICK j : j = [job[w] EXCEPT !.pc = "fail", !.seen = from, !.back = back]
  OBVIOUS
<1>4. job'[w] = j
  BY <1>2, <1>3, Others DEF FailTo
<1>5. j.pc = "fail" /\ j.op = job[w].op /\ j.dep = job[w].dep /\ j.seen = from /\ j.alive = job[w].alive /\ j.back = back
  BY <1>1, <1>3 DEF Job
<1>. QED BY <1>2, <1>4, <1>5

LEMMA StartFields ==
    ASSUME TypeOK, NEW w \in Workers, NEW op, NEW pc, NEW d, Start(w, op, pc, d)
    PROVE  /\ job'[w].pc = pc /\ job'[w].op = op /\ job'[w].dep = d /\ job'[w].seen = app /\ job'[w].alive
<1>1. PICK j : j = [Idle EXCEPT !.pc = pc, !.op = op, !.dep = d, !.seen = app]
  OBVIOUS
<1>2. j.pc = pc /\ j.op = op /\ j.dep = d /\ j.seen = app /\ j.alive
  BY <1>1 DEF Idle
<1>3. job'[w] = j
  BY <1>1, Others DEF Start
<1>. QED BY <1>2, <1>3

\* A handler that is done, and one that has not begun.
AtRestInv ==
    /\ Trial \subseteq {nDeps} /\ Trial \subseteq Asked /\ Few(RunningDeps)
    /\ app \notin {"deploying", "rolled_back"} /\ ~BuildInFlight
    /\ app = "running" => RunningDeps # {}
    /\ app = "suspended" => RunningDeps = {}

LEMMA RestsSound ==
    ASSUME NEW w, SerialInv(w), job[w].pc = "idle" PROVE AtRestInv
  BY DEF SerialInv, AtRestInv, Flights, Versions, Status, Serves, Building, TransientPcs, FlightPcs

LEMMA ReturnSound ==
    ASSUME TypeOK, NEW w \in Workers, Return(w), faults' = 0, AtRestInv' PROVE SerialInv(w)'
<1>1. job'[w].pc = "idle" /\ job'[w].op = "none" /\ job'[w].alive
  BY ReturnFields
<1>2. Flights(w)' /\ Versions(w)' /\ Latest(w)' /\ Status(w)' /\ Serves(w)' /\ Building(w)'
  BY <1>1 DEF AtRestInv, Flights, Versions, Latest, Status, Serves, Building, TransientPcs, FlightPcs, SeenPcs,
     BackPcs, ServingPcs, OwnersOp
<1>. QED BY <1>1, <1>2 DEF SerialInv

SameSets == /\ RunningDeps' = RunningDeps /\ Trial' = Trial /\ Asked' = Asked /\ Parked' = Parked
            /\ nDeps' = nDeps
SameBuilding == (BuildInFlight' <=> BuildInFlight) /\ nBuilds' = nBuilds

LEMMA SameRows ==
    ASSUME UNCHANGED depVars, UNCHANGED buildVars PROVE SameSets /\ SameBuilding
  BY SameDeps, SameBuilds DEF SameSets, SameBuilding, depVars

\* A deployment is of one kind.
LEMMA Kinds ==
    /\ Trial \subseteq Dep /\ RunningDeps \subseteq Dep /\ Parked \subseteq Dep /\ Asked \subseteq Trial
    /\ RunningDeps \cap Trial = {} /\ Parked \cap Trial = {} /\ Parked \cap RunningDeps = {}
  BY DEF Trial, RunningDeps, Parked, Asked, InFlight, InFlightStatus

LEMMA StatusSets ==
    ASSUME TypeOK, NEW d \in Dep, NEW s, SetStatus(d, s)
    PROVE  /\ RunningDeps' = Stays(RunningDeps, d, s = "running")
           /\ Trial' = Stays(Trial, d, s \in InFlightStatus)
           /\ Asked' = Stays(Asked, d, s = "pending_approval")
           /\ Parked' = Stays(Parked, d, s = "suspended")
<1>1. \A e \in Dep : deps'[e].status = IF e = d THEN s ELSE deps[e].status
  BY SetStatusEffect
<1>. QED BY <1>1, SetDeps

LEMMA AskedSets ==
    ASSUME TypeOK, NEW d \in Trial, SetStatus(d, "pending_approval")
    PROVE  RunningDeps' = RunningDeps /\ Trial' = Trial /\ Asked' = Asked \cup {d} /\ Parked' = Parked
  BY StatusSets, Kinds DEF Stays, InFlightStatus

LEMMA TriedSets ==
    ASSUME TypeOK, NEW d \in Trial, NEW s \in {"deploying", "health_check"}, SetStatus(d, s)
    PROVE  RunningDeps' = RunningDeps /\ Trial' = Trial /\ Asked' = Asked \ {d} /\ Parked' = Parked
  BY StatusSets, Kinds DEF Stays, InFlightStatus

LEMMA LiveSets ==
    ASSUME TypeOK, NEW d \in Trial, deps' = [deps EXCEPT ![d].status = "running", ![d].listed = TRUE]
    PROVE  RunningDeps' = RunningDeps \cup {d} /\ Trial' = Trial \ {d} /\ Asked' = Asked \ {d} /\ Parked' = Parked
<1>0. d \in Dep
  BY Kinds
<1>1. \A e \in Dep : deps'[e].status = IF e = d THEN "running" ELSE deps[e].status
  BY <1>0, SetLiveEffect
<1>2. /\ RunningDeps' = Stays(RunningDeps, d, "running" = "running")
      /\ Trial' = Stays(Trial, d, "running" \in InFlightStatus)
      /\ Asked' = Stays(Asked, d, "running" = "pending_approval")
      /\ Parked' = Stays(Parked, d, "running" = "suspended")
  BY <1>0, <1>1, SetDeps
<1>. QED BY <1>1, <1>2, Kinds DEF Stays, InFlightStatus

LEMMA CreatedSets ==
    ASSUME NEW d \in Dep, deps[d].status = "none",
           \A e \in Dep : deps'[e].status = IF e = d THEN "scanning" ELSE deps[e].status
    PROVE  RunningDeps' = RunningDeps /\ Trial' = Trial \cup {d} /\ Asked' = Asked /\ Parked' = Parked
<1>1. d \notin RunningDeps /\ d \notin Asked /\ d \notin Parked
  BY DEF RunningDeps, Asked, Parked
<1>2. /\ RunningDeps' = Stays(RunningDeps, d, "scanning" = "running")
      /\ Trial' = Stays(Trial, d, "scanning" \in InFlightStatus)
      /\ Asked' = Stays(Asked, d, "scanning" = "pending_approval")
      /\ Parked' = Stays(Parked, d, "scanning" = "suspended")
  BY <1>1, SetDeps
<1>. QED BY <1>1, <1>2 DEF Stays, InFlightStatus

\* Nothing is in flight when the newest deployment is not.
LEMMA NoneInFlight ==
    ASSUME TypeOK, Trial \subseteq {nDeps}, ~LatestInFlight PROVE Trial = {}
  BY StoreAssumption DEF Trial, LatestInFlight, TypeOK, Dep

(***************************************************************************)
(* Requests                                                                *)
(***************************************************************************)
LEMMA DeployRequestSound ==
    ASSUME TypeInv, NEW w \in Workers, SerialInv(w), DeployRequest(w) PROVE SerialInv(w)'
<1>1. TypeOK /\ AtRestInv /\ faults' = 0 /\ job[w].pc = "idle" /\ app' = app
  BY RestsSound DEF TypeInv, DeployRequest, RequestDeploy, RequestRollback, TriggerAutomaticRollback,
     RequestDecision, Free, At, SerialInv
<1>2. SameSets /\ SameBuilding
  BY SameRows DEF DeployRequest, RequestDeploy, RequestRollback, TriggerAutomaticRollback, RequestDecision
<1> USE DEF SerialInv, Flights, Versions, Latest, Status, Serves, Building, AtRestInv, SameSets, SameBuilding,
        TransientPcs, FlightPcs, SeenPcs, BackPcs, ServingPcs, OwnersOp
<1>3. ASSUME NEW j, Become(w, j), j.pc = "create", j.seen = app, j.op # "archive", j.alive PROVE SerialInv(w)'
  BY <1>1, <1>2, <1>3, Others DEF Transient
<1>4. ASSUME NEW e \in Env, RequestDeploy(w, e) PROVE SerialInv(w)'
  <2>1. PICK j : j = [Idle EXCEPT !.pc = "create", !.op = "deploy", !.build = nBuilds, !.env = e, !.seen = app]
    OBVIOUS
  <2>2. j.pc = "create" /\ j.seen = app /\ j.op = "deploy" /\ j.alive
    BY <2>1 DEF Idle
  <2>. QED BY <1>3, <1>4, <2>1, <2>2 DEF RequestDeploy
<1>5. ASSUME NEW t \in Dep, RequestRollback(w, t) PROVE SerialInv(w)'
  <2>1. PICK j : j = [Idle EXCEPT !.pc = "create", !.op = "rollback", !.build = deps[t].build,
                                  !.env = deps[t].env, !.seen = app]
    OBVIOUS
  <2>2. j.pc = "create" /\ j.seen = app /\ j.op = "rollback" /\ j.alive
    BY <2>1 DEF Idle
  <2>. QED BY <1>3, <1>5, <2>1, <2>2 DEF RequestRollback
<1>6. ASSUME NEW d \in Dep, TriggerAutomaticRollback(w, d) PROVE SerialInv(w)'
  <2>1. CASE \E t \in Dep : Become(w, [Idle EXCEPT !.pc = "create", !.op = "auto", !.seen = app,
                                                   !.build = deps[t].build, !.env = deps[t].env])
    <3>1. PICK t \in Dep : Become(w, [Idle EXCEPT !.pc = "create", !.op = "auto", !.seen = app,
                                                  !.build = deps[t].build, !.env = deps[t].env])
      BY <2>1
    <3>2. PICK j : j = [Idle EXCEPT !.pc = "create", !.op = "auto", !.seen = app,
                                    !.build = deps[t].build, !.env = deps[t].env]
      OBVIOUS
    <3>3. j.pc = "create" /\ j.seen = app /\ j.op = "auto" /\ j.alive
      BY <3>2 DEF Idle
    <3>. QED BY <1>3, <3>1, <3>2, <3>3
  <2>2. CASE Become(w, [Idle EXCEPT !.pc = "giveUp", !.op = "auto", !.dep = nDeps])
    <3>1. PICK j : j = [Idle EXCEPT !.pc = "giveUp", !.op = "auto", !.dep = nDeps]
      OBVIOUS
    <3>2. j.pc = "giveUp" /\ j.op = "auto" /\ j.alive
      BY <3>1 DEF Idle
    <3>3. job'[w] = j
      BY <1>1, <2>2, <3>1, Others
    <3>. QED BY <1>1, <1>2, <3>2, <3>3 DEF Transient
  <2>. QED BY <1>6, <2>1, <2>2 DEF TriggerAutomaticRollback
<1>7. ASSUME NEW d \in Dep, NEW yes \in BOOLEAN, RequestDecision(w, d, yes) PROVE SerialInv(w)'
  <2>1. PICK j : j = [Idle EXCEPT !.pc = "decide", !.op = "decide", !.dep = d, !.approve = yes]
    OBVIOUS
  <2>2. j.pc = "decide" /\ j.op = "decide" /\ j.dep = d /\ j.alive
    BY <2>1 DEF Idle
  <2>3. d \in Trial /\ d \in Asked
    BY <1>7 DEF RequestDecision, Trial, Asked, InFlight, InFlightStatus
  <2>4. job'[w] = j
    BY <1>1, <1>7, <2>1, Others DEF RequestDecision
  <2>. QED BY <1>1, <1>2, <2>2, <2>3, <2>4 DEF Transient
<1>. QED BY <1>4, <1>5, <1>6, <1>7 DEF DeployRequest

LEMMA LifecycleRequestSound ==
    ASSUME TypeInv, NEW w \in Workers, SerialInv(w), LifecycleRequest(w) PROVE SerialInv(w)'
<1>1. TypeOK /\ AtRestInv /\ faults' = 0 /\ job[w].pc = "idle" /\ app' = app
  BY RestsSound DEF TypeInv, LifecycleRequest, RequestSuspend, RequestAdminSuspend, RequestResume, RequestAdminResume,
     RequestRestart, RequestArchive, RequestDelete, SweepFailed, Free, At, SerialInv
<1>2. SameSets /\ SameBuilding
  BY SameRows DEF LifecycleRequest, RequestSuspend, RequestAdminSuspend, RequestResume, RequestAdminResume,
     RequestRestart, RequestArchive, RequestDelete, SweepFailed
<1>3. (LatestIs("running") => nDeps \in RunningDeps) /\ (LatestIs("suspended") => nDeps \in Parked)
  BY <1>1, StoreAssumption DEF LatestIs, RunningDeps, Parked, TypeOK, Dep
<1> USE <1>1, <1>2, <1>3, StartFields
<1> USE DEF SerialInv, Flights, Versions, Latest, Status, Serves, Building, AtRestInv, SameSets, SameBuilding,
        TransientPcs, FlightPcs, SeenPcs, BackPcs, ServingPcs, OwnersOp, Transient
<1>4. CASE RequestSuspend(w)
  BY <1>4 DEF RequestSuspend
<1>5. CASE RequestAdminSuspend(w)
  BY <1>5 DEF RequestAdminSuspend, AdminSuspendable
<1>6. CASE RequestResume(w)
  BY <1>6 DEF RequestResume
<1>7. CASE RequestAdminResume(w)
  BY <1>7 DEF RequestAdminResume
<1>8. CASE RequestRestart(w)
  BY <1>8 DEF RequestRestart
<1>9. CASE RequestArchive(w)
  BY <1>9 DEF RequestArchive
<1>10. CASE RequestDelete(w)
  BY <1>10 DEF RequestDelete, StartDelete
<1>11. CASE SweepFailed(w)
  BY <1>11 DEF SweepFailed
<1>. QED BY <1>4, <1>5, <1>6, <1>7, <1>8, <1>9, <1>10, <1>11 DEF LifecycleRequest

(***************************************************************************)
(* Deployments                                                             *)
(***************************************************************************)
LEMMA CreateSound ==
    ASSUME TypeInv, NEW w \in Workers, SerialInv(w), Create(w) PROVE SerialInv(w)'
<1>1. /\ TypeOK /\ job[w].pc = "create" /\ job[w].alive /\ app' = app /\ faults' = 0 /\ SameBuilding
      /\ job[w] \in Job
  BY SameBuilds, JobFields DEF TypeInv, Create, Alive, At, SerialInv, SameBuilding
<1> USE DEF SerialInv, Flights, Versions, Latest, Status, Serves, Building, AtRestInv, SameSets, SameBuilding,
        TransientPcs, FlightPcs, SeenPcs, BackPcs, ServingPcs, OwnersOp
<1>2. CASE IndexAllows(0) /\ nDeps < MaxDeployments
  <2>1. PICK d : d = nDeps + 1
    OBVIOUS
  <2>2. PICK pc : pc = IF job[w].op = "deploy" THEN "scan" ELSE "activate"
    OBVIOUS
  <2>3. PICK j : j = [job[w] EXCEPT !.dep = d, !.pc = pc]
    OBVIOUS
  <2>4. job'[w] = j
    BY <1>1, <1>2, <2>1, <2>2, <2>3, Others DEF Create
  <2>5. j.dep = d /\ j.pc = pc /\ j.op = job[w].op /\ j.seen = job[w].seen /\ j.alive = job[w].alive
    BY <1>1, <2>3 DEF Job
  <2>6. d \in Dep /\ nDeps' = d
    BY <1>1, <1>2, <2>1, StoreAssumption DEF Create, TypeOK, Dep
  <2>7. Trial = {}
    BY <1>1, <1>2, StoreAssumption DEF IndexAllows, Trial, Dep
  <2>8. PICK new : new = [NoDeployment EXCEPT !.status = "scanning", !.env = job[w].env, !.build = job[w].build]
    OBVIOUS
  <2>9. new.status = "scanning"
    BY <2>8 DEF NoDeployment
  <2>10. deps' = [deps EXCEPT ![d] = new]
    BY <1>2, <2>1, <2>8 DEF Create
  <2>11. \A e \in Dep : deps'[e].status = IF e = d THEN "scanning" ELSE deps[e].status
    BY <1>1, <2>6, <2>9, <2>10 DEF TypeOK
  <2>12. deps[d].status = "none"
    BY <1>1, <2>1, <2>6, StoreAssumption DEF TypeInv, Created, Dep, TypeOK
  <2>13. RunningDeps' = RunningDeps /\ Trial' = {d}
    BY <2>6, <2>7, <2>11, <2>12, CreatedSets
  <2>. QED BY <1>1, <2>2, <2>4, <2>5, <2>6, <2>13 DEF Transient
<1>3. CASE ~(IndexAllows(0) /\ nDeps < MaxDeployments)
  <2>1. Return(w) /\ SameSets
    BY <1>1, <1>3, SameRows DEF Create
  <2>. QED BY <1>1, <2>1, ReturnSound, Kinds
<1>. QED BY <1>2, <1>3

LEMMA DeployStepSound ==
    ASSUME MaxFaults = 0, TypeInv, NEW w \in Workers, SerialInv(w), DeployStep(w) PROVE SerialInv(w)'
<1>1. TypeOK /\ job[w].alive /\ faults = 0
  BY DEF TypeInv, SerialInv
<1> DEFINE d == job[w].dep
<1>2. job[w].pc \in DeploymentPcs => d \in Dep /\ d \in 1..nDeps
  BY WorkingDep DEF TypeInv, Working
<1> HIDE DEF d
<1> USE <1>1, Kinds
<1> USE DEF Alive, At, d
<1> USE DEF SerialInv, Flights, Versions, Latest, Status, Serves, Building, AtRestInv, SameSets, SameBuilding,
        TransientPcs, FlightPcs, SeenPcs, BackPcs, ServingPcs, OwnersOp
<1>3. CASE Create(w)
  BY <1>3, CreateSound
<1>4. CASE Scan(w)
  <2>1. SameSets /\ SameBuilding /\ app' = app /\ faults' = 0
    BY <1>4, SameRows DEF Scan
  <2>2. CASE FailTo(w, job[w].seen)
    BY <1>4, <2>1, <2>2, FailToFields DEF Scan, Transient
  <2>3. CASE Goto(w, "gate") \/ Goto(w, "activate")
    BY <1>4, <2>1, <2>3, GotoFields DEF Scan, Transient
  <2>. QED BY <1>4, <2>2, <2>3 DEF Scan
<1>5. CASE AwaitApproval(w)
  <2>1. SameBuilding /\ app' = app /\ faults' = 0 /\ nDeps' = nDeps /\ d \in Dep /\ d = nDeps /\ d \in Trial
    BY <1>2, <1>5, SameBuilds DEF AwaitApproval, DeploymentPcs
  <2>2. IndexAllows(d)
    BY <2>1 DEF IndexAllows, Trial
  <2>3. SetStatus(d, "pending_approval") /\ Goto(w, "ask")
    BY <1>5, <2>2 DEF AwaitApproval
  <2>4. RunningDeps' = RunningDeps /\ Trial' = Trial /\ Asked' = Asked \cup {d} /\ Parked' = Parked
    BY <2>1, <2>3, AskedSets
  <2>. QED BY <1>5, <2>1, <2>3, <2>4, GotoFields DEF AwaitApproval, Transient
<1>6. CASE AskApprovers(w)
  <2>1. SameBuilding /\ app' = app /\ faults' = 0 /\ nDeps' = nDeps /\ Return(w)
    BY <1>6, SameBuilds DEF AskApprovers
  <2>2. SameSets
    BY <1>6, <2>1, SetDecisionEffect, SameDeps DEF AskApprovers
  <2>. QED BY <1>6, <2>1, <2>2, ReturnSound DEF AskApprovers
<1>7. CASE Decide(w)
  <2>1. SameBuilding /\ app' = app /\ faults' = 0 /\ nDeps' = nDeps
    BY <1>7, SameBuilds DEF Decide
  <2>2. CASE deps[d].decision = "none"
    <3>1. SameSets /\ Return(w)
      BY <1>7, <2>1, <2>2, SameDeps DEF Decide
    <3>. QED BY <1>7, <2>1, <3>1, ReturnSound DEF Decide
  <2>3. CASE deps[d].decision # "none"
    <3>1. SameSets
      BY <1>7, <2>1, <2>3, SetDecisionEffect, SameDeps DEF Decide
    <3>2. PICK pc : pc = IF job[w].approve THEN "activate" ELSE "reject"
      OBVIOUS
    <3>3. PICK j : j = [job[w] EXCEPT !.seen = app, !.pc = pc]
      OBVIOUS
    <3>4. j.pc = pc /\ j.seen = app /\ j.dep = d /\ j.op = job[w].op /\ j.alive
      BY <3>3, JobFields DEF Job
    <3>5. job'[w] = j
      BY <1>7, <2>3, <3>2, <3>3, Others DEF Decide
    <3>. QED BY <1>7, <2>1, <3>1, <3>2, <3>4, <3>5 DEF Decide, Transient
  <2>. QED BY <2>2, <2>3
<1>8. CASE Reject(w)
  <2>1. SameBuilding /\ app' = app /\ faults' = 0 /\ nDeps' = nDeps /\ d \in Dep /\ d = nDeps /\ d \in Trial
    BY <1>2, <1>8, SameBuilds DEF Reject, DeploymentPcs
  <2>2. RunningDeps' = RunningDeps /\ Trial' = Trial \ {d} /\ Asked' = Asked \ {d} /\ Parked' = Parked
    BY <1>8, <2>1, StatusSets DEF Reject, Stays, InFlightStatus
  <2>3. CASE Return(w)
    BY <1>8, <2>1, <2>2, <2>3, ReturnSound DEF Reject
  <2>4. CASE Goto(w, "rejectApp")
    BY <1>8, <2>1, <2>2, <2>4, GotoFields DEF Reject, Transient
  <2>. QED BY <1>8, <2>3, <2>4 DEF Reject
<1>9. CASE RejectApp(w)
  <2>1. SameSets /\ SameBuilding /\ faults' = 0 /\ Return(w)
    BY <1>9, SameRows DEF RejectApp
  <2>2. app' = IF RunningDeps \ {d} = {} THEN "failed" ELSE "running"
    BY <1>9 DEF RejectApp
  <2>. QED BY <1>9, <2>1, <2>2, ReturnSound DEF RejectApp
<1>10. CASE SetDeploying(w)
  <2>0. CASE FailTo(w, job[w].seen) /\ UNCHANGED deps
    <3>1. SameSets /\ SameBuilding /\ app' = app /\ faults' = 0
      BY <1>10, <2>0, SameRows DEF SetDeploying, depVars
    <3>. QED BY <1>10, <2>0, <3>1, FailToFields DEF SetDeploying, Transient
  <2>1. SameBuilding /\ app' = app /\ faults' = 0 /\ nDeps' = nDeps /\ d \in Dep /\ d = nDeps /\ d \in Trial
    BY <1>2, <1>10, SameBuilds DEF SetDeploying, DeploymentPcs
  <2>2. IndexAllows(d)
    BY <2>1 DEF IndexAllows, Trial
  <2>3. CASE SetStatus(d, "deploying") /\ Goto(w, "occupy")
    <3>1. RunningDeps' = RunningDeps /\ Trial' = Trial /\ Asked' = Asked \ {d} /\ Parked' = Parked
      BY <2>1, <2>3, TriedSets
    <3>. QED BY <1>10, <2>1, <2>3, <3>1, GotoFields DEF SetDeploying, Transient
  <2>. QED BY <1>10, <2>0, <2>2, <2>3 DEF SetDeploying
<1>11. CASE Occupy(w)
  <2>1. SameSets /\ SameBuilding /\ faults' = 0
    BY <1>11, SameRows DEF Occupy
  <2>2. app' = Transient(w) /\ Goto(w, "start")
    BY <1>11 DEF Occupy
  <2>. QED BY <1>11, <2>1, <2>2, GotoFields DEF Occupy, Transient
<1>12. CASE StartContainers(w)
  <2>1. app' = app /\ UNCHANGED depVars /\ UNCHANGED buildVars /\ job[w].pc = "start"
    BY <1>12 DEF StartContainers
  <2>2. UNCHANGED faults
    <3>1. UNCHANGED faults \/ faults < MaxFaults
      BY <1>12 DEF StartContainers
    <3>. QED BY <3>1
  <2>3. SameSets /\ SameBuilding /\ faults' = 0
    BY <2>1, <2>2, SameRows
  <2>4. Goto(w, "checking") \/ FailTo(w, Transient(w))
    BY <1>12 DEF StartContainers
  <2>5. CASE Goto(w, "checking")
    BY <2>1, <2>3, <2>5, GotoFields DEF Transient
  <2>6. CASE FailTo(w, Transient(w))
    BY <2>1, <2>3, <2>6, FailToFields DEF Transient
  <2>. QED BY <2>4, <2>5, <2>6
<1>13. CASE SetHealthCheck(w)
  <2>1. SameBuilding /\ app' = app /\ faults' = 0 /\ nDeps' = nDeps /\ d \in Dep /\ d = nDeps /\ d \in Trial
    BY <1>2, <1>13, SameBuilds DEF SetHealthCheck, DeploymentPcs
  <2>2. IndexAllows(d)
    BY <2>1 DEF IndexAllows, Trial
  <2>3. SetStatus(d, "health_check") /\ Goto(w, "health")
    BY <1>13, <2>2 DEF SetHealthCheck
  <2>4. RunningDeps' = RunningDeps /\ Trial' = Trial /\ Asked' = Asked \ {d} /\ Parked' = Parked
    BY <2>1, <2>3, TriedSets
  <2>. QED BY <1>13, <2>1, <2>3, <2>4, GotoFields DEF SetHealthCheck, Transient
<1>14. CASE HealthCheck(w)
  <2>1. SameSets /\ SameBuilding /\ app' = app /\ faults' = 0
    BY <1>14, SameRows DEF HealthCheck, StopContainers
  <2>2. CASE Goto(w, "live")
    BY <1>14, <2>1, <2>2, GotoFields DEF HealthCheck, Transient
  <2>3. CASE FailTo(w, Transient(w))
    BY <1>14, <2>1, <2>3, FailToFields DEF HealthCheck, Transient
  <2>. QED BY <1>14, <2>2, <2>3 DEF HealthCheck
<1>15. CASE SetRunning(w)
  <2>1. SameBuilding /\ app' = app /\ faults' = 0 /\ nDeps' = nDeps /\ d \in Dep /\ d = nDeps /\ d \in Trial
    BY <1>2, <1>15, SameBuilds DEF SetRunning, DeploymentPcs
  <2>2. deps' = [deps EXCEPT ![d].status = "running", ![d].listed = TRUE]
    BY <1>15 DEF SetRunning
  <2>3. RunningDeps' = RunningDeps \cup {d} /\ Trial' = Trial \ {d} /\ Asked' = Asked \ {d} /\ Parked' = Parked
    BY <2>1, <2>2, LiveSets
  <2>. QED BY <1>15, <2>1, <2>3, GotoFields DEF SetRunning, Transient
<1>16. CASE Publish(w)
  <2>1. SameSets /\ SameBuilding /\ faults' = 0
    BY <1>16, SameRows DEF Publish
  <2>2. app' = "running" /\ Goto(w, "track")
    BY <1>16 DEF Publish
  <2>. QED BY <1>16, <2>1, <2>2, GotoFields DEF Publish, Transient
<1>17. CASE TrackServices(w)
  <2>1. SameSets /\ SameBuilding /\ app' = app /\ faults' = 0 /\ Goto(w, "retire")
    BY <1>17, SameRows DEF TrackServices
  <2>. QED BY <1>17, <2>1, GotoFields DEF TrackServices, Transient
<1>18. CASE RetirePrevious(w)
  <2>1. UNCHANGED depVars /\ UNCHANGED buildVars /\ app' = app
    BY <1>18 DEF RetirePrevious
  <2>4. faults' = 0
    <3>1. UNCHANGED faults \/ \E S : StopContainers(S)
      BY <1>18 DEF RetirePrevious
    <3>. QED BY <3>1 DEF StopContainers
  <2>5. SameSets /\ SameBuilding
    BY <2>1, SameRows
  <2>2. CASE RunningDeps \ {d} = {} /\ Return(w)
    <3>1. job[w].pc = "retire" /\ Few(RunningDeps) /\ RunningDeps # {}
      BY <1>18, <2>2 DEF RetirePrevious, Few
    <3>. QED BY <2>1, <2>2, <2>4, <2>5, <3>1, ReturnSound
  <2>3. ASSUME NEW p \in RunningDeps \ {d}, Become(w, [job[w] EXCEPT !.pc = "supersede", !.prev = p])
        PROVE SerialInv(w)'
    <3>1. PICK j : j = [job[w] EXCEPT !.pc = "supersede", !.prev = p]
      OBVIOUS
    <3>2. j.pc = "supersede" /\ j.prev = p /\ j.dep = d /\ j.op = job[w].op /\ j.alive
      BY <3>1, JobFields DEF Job
    <3>3. job'[w] = j
      BY <2>3, <3>1, Others
    <3>. QED BY <1>18, <2>1, <2>3, <2>4, <2>5, <3>2, <3>3 DEF RetirePrevious, Transient, Few
  <2>. QED BY <1>18, <2>2, <2>3 DEF RetirePrevious, IsNewest
<1>19. CASE SetSuperseded(w)
  <2>1. SameBuilding /\ app' = app /\ faults' = 0 /\ nDeps' = nDeps /\ job[w].prev \in RunningDeps
    BY <1>19, SameBuilds DEF SetSuperseded
  <2>2. /\ RunningDeps' = RunningDeps \ {job[w].prev} /\ Trial' = Trial /\ Asked' = Asked /\ Parked' = Parked
    BY <1>19, <2>1, StatusSets DEF SetSuperseded, Stays, InFlightStatus
  <2>. QED BY <1>19, <2>1, <2>2, GotoFields DEF SetSuperseded, Transient, Few
<1>20. CASE CleanupForDeployment(w)
  <2>1. SameSets /\ SameBuilding /\ app' = app /\ faults' = 0 /\ Return(w)
    BY <1>20, SameRows DEF CleanupForDeployment
  <2>. QED BY <1>20, <2>1, ReturnSound DEF CleanupForDeployment
<1>21. CASE Fail(w)
  <2>1. SameBuilding /\ app' = app /\ faults' = 0 /\ nDeps' = nDeps /\ d \in Dep /\ d = nDeps /\ d \in Trial
    BY <1>2, <1>21, SameBuilds DEF Fail, DeploymentPcs
  <2>2. RunningDeps' = RunningDeps /\ Trial' = Trial \ {d} /\ Asked' = Asked \ {d} /\ Parked' = Parked
    BY <1>21, <2>1, StatusSets DEF Fail, Stays, InFlightStatus
  <2>. QED BY <1>21, <2>1, <2>2, GotoFields DEF Fail, Transient
<1>22. CASE FailApp(w)
  <2>1. SameSets /\ SameBuilding /\ faults' = 0 /\ Return(w) /\ app' = job[w].back
    BY <1>22, SameRows DEF FailApp
  <2>. QED BY <1>22, <2>1, ReturnSound, JobFields DEF FailApp
<1>23. CASE GiveUp(w)
  <2>1. SameBuilding /\ app' = app /\ faults' = 0 /\ nDeps' = nDeps /\ d \in Dep
    BY <1>2, <1>23, SameBuilds DEF GiveUp, DeploymentPcs
  <2>2. RunningDeps' = RunningDeps \ {d} /\ Trial' = Trial \ {d} /\ Asked' = Asked \ {d} /\ Parked' = Parked \ {d}
    BY <1>23, <2>1, StatusSets DEF GiveUp, Stays, InFlightStatus
  <2>. QED BY <1>23, <2>1, <2>2, GotoFields DEF GiveUp, Transient, Few
<1>24. CASE GiveUpApp(w)
  <2>1. SameSets /\ SameBuilding /\ faults' = 0 /\ Return(w) /\ app' = IF app = "running" THEN "failed" ELSE app
    BY <1>24, SameRows DEF GiveUpApp
  <2>. QED BY <1>24, <2>1, ReturnSound DEF GiveUpApp
<1>. QED
  BY <1>3, <1>4, <1>5, <1>6, <1>7, <1>8, <1>9, <1>10, <1>11, <1>12, <1>13, <1>14, <1>15, <1>16,
     <1>17, <1>18, <1>19, <1>20, <1>21, <1>22, <1>23, <1>24 DEF DeployStep

(***************************************************************************)
(* Builds                                                                  *)
(***************************************************************************)
LEMMA BuildRequestSound ==
    ASSUME TypeInv, NEW w \in Workers, SerialInv(w), RequestBuild(w) PROVE SerialInv(w)'
<1>1. TypeOK /\ AtRestInv /\ faults' = 0 /\ job[w].pc = "idle" /\ app' = app /\ SameSets /\ SameBuilding
  BY RestsSound, SameRows DEF TypeInv, RequestBuild, Free, At, SerialInv
<1>2. PICK j : j = [Idle EXCEPT !.pc = "newBuild", !.op = "build", !.seen = app]
  OBVIOUS
<1>3. j.pc = "newBuild" /\ j.op = "build" /\ j.seen = app /\ j.alive
  BY <1>2 DEF Idle
<1>4. job'[w] = j
  BY <1>1, <1>2, Others DEF RequestBuild
<1> USE DEF SerialInv, Flights, Versions, Latest, Status, Serves, Building, AtRestInv, SameSets, SameBuilding,
        TransientPcs, FlightPcs, SeenPcs, BackPcs, ServingPcs, OwnersOp
<1>. QED BY <1>1, <1>3, <1>4 DEF Transient

LEMMA BuildStepSound ==
    ASSUME TypeInv, NEW w \in Workers, SerialInv(w), BuildStep(w) PROVE SerialInv(w)'
<1>1. TypeOK /\ job[w].alive /\ faults = 0 /\ faults' = 0 /\ UNCHANGED depVars
  BY DEF TypeInv, SerialInv, BuildStep, CreateBuild, MoveToBuild, MarkInProgress, FinishBuild, LoseOutcome,
     RestoreStatus
<1>2. SameSets
  BY <1>1, SameDeps DEF SameSets, depVars
<1>3. nBuilds \in 0..MaxBuilds /\ builds \in [Build -> BuildStatus]
  BY <1>1 DEF TypeOK
<1> USE <1>1, <1>2, Kinds
<1> USE DEF Alive, At
<1> USE DEF SerialInv, Flights, Versions, Latest, Status, Serves, Building, AtRestInv, SameSets, SameBuilding,
        TransientPcs, FlightPcs, SeenPcs, BackPcs, ServingPcs, OwnersOp
<1>4. CASE CreateBuild(w)
  <2>1. app' = app
    BY <1>4 DEF CreateBuild
  <2>2. CASE BuildIndexAllows /\ nBuilds < MaxBuilds
    <3>1. PICK n : n = nBuilds + 1
      OBVIOUS
    <3>2. PICK j : j = [job[w] EXCEPT !.build = n, !.pc = "toBuild"]
      OBVIOUS
    <3>3. j.pc = "toBuild" /\ j.build = n /\ j.op = job[w].op /\ j.seen = job[w].seen /\ j.alive
      BY <3>2, JobFields DEF Job
    <3>4. job'[w] = j /\ nBuilds' = n
      BY <1>4, <2>2, <3>1, <3>2, Others DEF CreateBuild
    <3>. QED BY <1>4, <2>1, <3>3, <3>4 DEF CreateBuild, Transient
  <2>3. CASE ~(BuildIndexAllows /\ nBuilds < MaxBuilds)
    <3>1. Return(w) /\ SameBuilding
      BY <1>4, <2>3, SameBuilds DEF CreateBuild
    <3>. QED BY <1>4, <2>1, <3>1, ReturnSound DEF CreateBuild
  <2>. QED BY <2>2, <2>3
<1>5. CASE MoveToBuild(w)
  <2>1. SameBuilding /\ app' = "build" /\ Goto(w, "begin")
    BY <1>5, SameBuilds DEF MoveToBuild
  <2>. QED BY <1>5, <2>1, GotoFields DEF MoveToBuild, Transient
<1>6. CASE MarkInProgress(w)
  <2>1. app' = app /\ Goto(w, "building") /\ nBuilds' = nBuilds
    BY <1>6 DEF MarkInProgress
  <2>. QED BY <1>6, <2>1, GotoFields DEF MarkInProgress, Transient
<1>7. CASE FinishBuild(w)
  <2>1. app' = app /\ nBuilds' = nBuilds /\ job[w].build = nBuilds
    BY <1>7 DEF FinishBuild
  <2>2. ~BuildInFlight'
    <3>1. PICK s \in {"succeeded", "failed"} : builds' = [builds EXCEPT ![nBuilds] = s]
      BY <1>7, <2>1 DEF FinishBuild
    <3>2. nBuilds > 0 => builds'[nBuilds] = s
      BY <1>3, <3>1, StoreAssumption DEF Build
    <3>. QED BY <2>1, <3>1, <3>2 DEF BuildInFlight
  <2>3. CASE Return(w)
    BY <1>7, <2>1, <2>2, <2>3, ReturnSound DEF FinishBuild
  <2>4. CASE Goto(w, "buildFailed")
    BY <1>7, <2>1, <2>2, <2>4, GotoFields DEF FinishBuild, Transient
  <2>. QED BY <1>7, <2>3, <2>4 DEF FinishBuild
<1>8. CASE LoseOutcome(w)
  BY <1>8 DEF LoseOutcome
<1>9. CASE RestoreStatus(w)
  <2>1. SameBuilding /\ Return(w)
    BY <1>9, SameBuilds DEF RestoreStatus
  <2>2. app' = IF app # "build" THEN app
               ELSE IF job[w].seen \in {"running", "build"} THEN job[w].seen ELSE "failed"
    BY <1>9 DEF RestoreStatus
  <2>. QED BY <1>9, <2>1, <2>2, ReturnSound DEF RestoreStatus
<1>. QED BY <1>4, <1>5, <1>6, <1>7, <1>8, <1>9 DEF BuildStep

(***************************************************************************)
(* Lifecycle                                                               *)
(***************************************************************************)
LEMMA LifecycleStepSound ==
    ASSUME MaxFaults = 0, TypeInv, NEW w \in Workers, SerialInv(w), LifecycleStep(w) PROVE SerialInv(w)'
<1>1. TypeOK /\ job[w].alive /\ faults = 0
  BY DEF TypeInv, SerialInv
<1>2. UNCHANGED buildVars /\ nDeps' = nDeps
  <2>1. CASE ResumeContainers(w)
    BY <2>1 DEF ResumeContainers, depVars
  <2>2. CASE Recycle(w)
    BY <2>2 DEF Recycle, depVars
  <2>. QED
    BY <2>1, <2>2 DEF LifecycleStep, PlaceHold, StopAllContainers, SetSuspended, Unlist, MoveToSuspended, RemoveHold,
       SetResumed, List, MoveToRunning, ReleaseHold, Relist, TouchRunning, SetArchived, MoveToArchived,
       RemoveFailed, Deprovision, MoveToDeleted, depVars
<1>3. faults' = 0
  <2>1. ASSUME NEW c, StopContainers(c) PROVE UNCHANGED faults
    BY <1>1, <2>1 DEF StopContainers
  <2>2. CASE StopAllContainers(w)
    BY <1>1, <2>1, <2>2 DEF StopAllContainers
  <2>3. CASE Recycle(w)
    BY <1>1, <2>1, <2>3 DEF Recycle
  <2>4. CASE ResumeContainers(w)
    BY <1>1, <2>4 DEF ResumeContainers
  <2>. QED
    BY <1>1, <2>2, <2>3, <2>4 DEF LifecycleStep, PlaceHold, SetSuspended, Unlist, MoveToSuspended, RemoveHold,
       SetResumed, List, MoveToRunning, ReleaseHold, Relist, TouchRunning, SetArchived, MoveToArchived,
       RemoveFailed, Deprovision, MoveToDeleted
<1>4. SameBuilding
  BY <1>2, SameBuilds DEF SameBuilding
<1> DEFINE d == job[w].dep
<1>5. job[w].pc \in DeploymentPcs => d \in Dep
  BY WorkingDep DEF TypeInv
<1>6. UNCHANGED depVars => SameSets
  BY <1>2, SameRows
<1>7. ASSUME NEW x, deps' = [deps EXCEPT ![d].listed = x] PROVE SameSets
  BY <1>1, <1>2, <1>7, SetListedEffect, SameDeps DEF SameSets
<1> HIDE DEF d
<1> USE <1>1, <1>2, <1>3, <1>4, Kinds
<1> USE DEF Alive, At, d
<1> USE DEF SerialInv, Flights, Versions, Latest, Status, Serves, Building, AtRestInv, SameSets, SameBuilding,
        TransientPcs, FlightPcs, SeenPcs, BackPcs, ServingPcs, OwnersOp
<1>8. CASE PlaceHold(w)
  <2>1. SameSets /\ app' = app
    BY <1>6, <1>8 DEF PlaceHold
  <2>2. CASE job[w].seen = "running" /\ Goto(w, "stop")
    BY <1>8, <2>1, <2>2, GotoFields DEF PlaceHold, Transient
  <2>3. CASE Return(w)
    BY <1>8, <2>1, <2>3, ReturnSound DEF PlaceHold
  <2>. QED BY <1>8, <2>2, <2>3 DEF PlaceHold
<1>9. CASE StopAllContainers(w)
  <2>1. SameSets /\ app' = app /\ Goto(w, AfterStop(w))
    BY <1>6, <1>9 DEF StopAllContainers
  <2>2. AfterStop(w) = IF OwnersOp(w) THEN "suspended" ELSE IF job[w].op = "archive" THEN "unlist" ELSE "deprovision"
    BY DEF AfterStop
  <2>3. PICK pc : pc = AfterStop(w)
    OBVIOUS
  <2>. QED BY <1>9, <2>1, <2>2, <2>3, GotoFields DEF StopAllContainers, Transient
<1>10. CASE SetSuspended(w)
  <2>1. app' = app /\ d \in Dep
    BY <1>5, <1>10 DEF SetSuspended, DeploymentPcs
  <2>2. RunningDeps' = RunningDeps \ {d} /\ Trial' = Trial \ {d} /\ Asked' = Asked \ {d}
    BY <1>10, <2>1, StatusSets DEF SetSuspended, Stays, InFlightStatus
  <2>. QED BY <1>10, <2>1, <2>2, GotoFields DEF SetSuspended, Transient, Few
<1>11. CASE Unlist(w)
  <2>1. app' = app /\ deps' = [deps EXCEPT ![d].listed = FALSE]
    BY <1>11 DEF Unlist
  <2>2. SameSets
    BY <1>7, <2>1
  <2>. QED BY <1>11, <2>1, <2>2, GotoFields DEF Unlist, Transient
<1>12. CASE MoveToSuspended(w)
  <2>1. SameSets /\ app' = IF app = "running" THEN "suspended" ELSE app
    BY <1>6, <1>12 DEF MoveToSuspended
  <2>2. CASE app # "running" /\ Goto(w, "unhold")
    BY <1>12, <2>1, <2>2, GotoFields DEF MoveToSuspended, Transient
  <2>3. CASE Return(w)
    BY <1>12, <2>1, <2>3, ReturnSound DEF MoveToSuspended
  <2>. QED BY <1>12, <2>2, <2>3 DEF MoveToSuspended
<1>13. CASE RemoveHold(w)
  <2>1. SameSets /\ app' = app /\ Return(w)
    BY <1>6, <1>13 DEF RemoveHold
  <2>. QED BY <1>13, <2>1, ReturnSound DEF RemoveHold
<1>14. CASE ResumeContainers(w)
  <2>1. SameSets /\ app' = app
    BY <1>6, <1>14 DEF ResumeContainers
  <2>2. CASE ~Return(w)
    BY <1>14, <2>1, <2>2, ResumeEffect DEF ResumeContainers, Transient
  <2>3. CASE Return(w)
    BY <1>14, <2>1, <2>3, ReturnSound DEF ResumeContainers
  <2>. QED BY <2>2, <2>3
<1>15. CASE SetResumed(w)
  <2>1. app' = app /\ d \in Dep
    BY <1>5, <1>15 DEF SetResumed, DeploymentPcs
  <2>2. RunningDeps' = RunningDeps \cup {d} /\ Trial' = Trial \ {d} /\ Asked' = Asked \ {d} /\ Parked' = Parked \ {d}
    BY <1>15, <2>1, StatusSets DEF SetResumed, Stays, InFlightStatus
  <2>. QED BY <1>15, <2>1, <2>2, GotoFields DEF SetResumed, Transient, Few
<1>16. CASE List(w)
  <2>1. app' = app /\ deps' = [deps EXCEPT ![d].listed = job[w].prev # 0]
    BY <1>16 DEF List
  <2>2. SameSets
    BY <1>7, <2>1
  <2>. QED BY <1>16, <2>1, <2>2, GotoFields DEF List, Transient
<1>17. CASE MoveToRunning(w)
  <2>1. SameSets /\ app' = IF app = "suspended" THEN "running" ELSE app
    BY <1>6, <1>17 DEF MoveToRunning
  <2>2. CASE Goto(w, "release")
    BY <1>17, <2>1, <2>2, GotoFields DEF MoveToRunning, Transient
  <2>3. CASE Return(w)
    BY <1>17, <2>1, <2>3, ReturnSound DEF MoveToRunning
  <2>. QED BY <1>17, <2>2, <2>3 DEF MoveToRunning
<1>18. CASE ReleaseHold(w)
  <2>1. SameSets /\ app' = app /\ Return(w)
    BY <1>6, <1>18 DEF ReleaseHold
  <2>. QED BY <1>18, <2>1, ReturnSound DEF ReleaseHold
<1>19. CASE Recycle(w)
  <2>1. app' = app /\ \E x : deps' = [deps EXCEPT ![d].listed = @ /\ x]
    BY <1>19 DEF Recycle
  <2>2. SameSets
    <3>1. PICK x : deps' = [deps EXCEPT ![d].listed = @ /\ x]
      BY <2>1
    <3>2. deps' = [deps EXCEPT ![d].listed = deps[d].listed /\ x]
      BY <3>1
    <3>. QED BY <1>7, <3>2
  <2>3. ASSUME NEW p, Become(w, [job[w] EXCEPT !.pc = "relist", !.prev = p]) PROVE SerialInv(w)'
    <3>1. PICK j : j = [job[w] EXCEPT !.pc = "relist", !.prev = p]
      OBVIOUS
    <3>2. j.pc = "relist" /\ j.dep = d /\ j.op = job[w].op /\ j.alive
      BY <3>1, JobFields DEF Job
    <3>3. job'[w] = j
      BY <2>3, <3>1, Others
    <3>. QED BY <1>19, <2>1, <2>2, <3>2, <3>3 DEF Recycle, Transient
  <2>4. CASE Return(w)
    BY <1>19, <2>1, <2>2, <2>4, ReturnSound DEF Recycle
  <2>. QED BY <1>19, <2>3, <2>4 DEF Recycle
<1>20. CASE Relist(w)
  <2>1. app' = app /\ \E x : deps' = [deps EXCEPT ![d].listed = x]
    BY <1>20 DEF Relist
  <2>2. SameSets
    BY <1>7, <2>1
  <2>. QED BY <1>20, <2>1, <2>2, GotoFields DEF Relist, Transient
<1>21. CASE TouchRunning(w)
  <2>1. app' = app /\ d \in Dep /\ d \in RunningDeps
    BY <1>5, <1>21 DEF TouchRunning, DeploymentPcs
  <2>2. RunningDeps' = RunningDeps /\ Trial' = Trial /\ Asked' = Asked
    BY <1>21, <2>1, StatusSets DEF TouchRunning, Stays, InFlightStatus
  <2>. QED BY <1>21, <2>1, <2>2, ReturnSound DEF TouchRunning
<1>22. CASE SetArchived(w)
  <2>1. app' = app /\ d \in Dep
    BY <1>5, <1>22 DEF SetArchived, DeploymentPcs
  <2>2. RunningDeps' = RunningDeps \ {d} /\ Trial' = Trial \ {d} /\ Asked' = Asked \ {d}
    BY <1>22, <2>1, StatusSets DEF SetArchived, Stays, InFlightStatus
  <2>. QED BY <1>22, <2>1, <2>2, GotoFields DEF SetArchived, Transient, Few
<1>23. CASE MoveToArchived(w)
  <2>1. SameSets /\ app' = "archived" /\ Return(w)
    BY <1>6, <1>23 DEF MoveToArchived
  <2>. QED BY <1>23, <2>1, ReturnSound DEF MoveToArchived
<1>24. CASE RemoveFailed(w)
  <2>1. SameSets /\ app' = app
    BY <1>6, <1>24 DEF RemoveFailed
  <2>2. CASE StartDelete(w, "cleanup")
    <3>1. PICK pc \in {"stop", "deprovision"} : Start(w, "cleanup", pc, nDeps)
      BY <2>2 DEF StartDelete
    <3>. QED BY <1>24, <2>1, <3>1, StartFields DEF RemoveFailed, Transient
  <2>3. CASE Return(w)
    BY <1>24, <2>1, <2>3, ReturnSound DEF RemoveFailed
  <2>. QED BY <1>24, <2>2, <2>3 DEF RemoveFailed
<1>25. CASE Deprovision(w)
  <2>1. SameSets /\ app' = app /\ Goto(w, "toDeleted")
    BY <1>6, <1>25 DEF Deprovision
  <2>. QED BY <1>25, <2>1, GotoFields DEF Deprovision, Transient
<1>26. CASE MoveToDeleted(w)
  <2>1. SameSets /\ app' = (IF app = job[w].seen THEN "deleted" ELSE app) /\ Return(w)
    BY <1>6, <1>26 DEF MoveToDeleted
  <2>. QED BY <1>26, <2>1, ReturnSound DEF MoveToDeleted
<1>. QED
  BY <1>8, <1>9, <1>10, <1>11, <1>12, <1>13, <1>14, <1>15, <1>16, <1>17, <1>18, <1>19, <1>20, <1>21, <1>22,
     <1>23, <1>24, <1>25, <1>26 DEF LifecycleStep

(***************************************************************************)
(* One request at a time                                                   *)
(***************************************************************************)
LEMMA SerialInit ==
    ASSUME NEW w \in Workers, StoreInit PROVE SerialInv(w)
<1>1. job[w] = Idle /\ app = "validated" /\ faults = 0 /\ ~BuildInFlight
  BY DEF StoreInit, BuildInFlight
<1>2. Trial = {} /\ RunningDeps = {} /\ Asked = {} /\ Parked = {}
  BY DEF StoreInit, Trial, RunningDeps, Asked, Parked, InFlight, InFlightStatus, NoDeployment
<1>3. job[w].pc = "idle" /\ job[w].op = "none" /\ job[w].alive
  BY <1>1 DEF Idle
<1>. QED BY <1>1, <1>2, <1>3 DEF SerialInv, Flights, Versions, Latest, Status, Serves, Building, Few,
     TransientPcs, FlightPcs, SeenPcs, BackPcs, ServingPcs, OwnersOp

LEMMA SerialStep ==
    ASSUME NEW w, Workers = {w}, MaxFaults = 0, TypeInv, SerialInv(w), [Next]_vars PROVE SerialInv(w)'
<1>1. faults = 0 /\ job[w].alive
  BY DEF SerialInv
<1>2. CASE Request(w)
  BY <1>2, DeployRequestSound, BuildRequestSound, LifecycleRequestSound DEF Request
<1>3. CASE Step(w)
  BY <1>1, <1>3, DeployStepSound, BuildStepSound, LifecycleStepSound DEF Step, WriteRefused
<1>4. CASE CallerLeaves(w)
  BY <1>1, <1>4 DEF CallerLeaves
<1>5. CASE ServerRestarts
  BY <1>1, <1>5 DEF ServerRestarts
<1>6. CASE UNCHANGED vars
  <2>1. SameSets /\ SameBuilding /\ job' = job /\ app' = app /\ faults' = faults
    BY <1>6, SameRows DEF vars
  <2>. QED BY <2>1 DEF SerialInv, Flights, Versions, Latest, Status, Serves, Building, SameSets, SameBuilding,
       OwnersOp, Transient
<1>. QED BY <1>2, <1>3, <1>4, <1>5, <1>6 DEF Next

(* A single handler finds only the newest deployment in flight, one version
   that serves, and the application in the status it read or left it in. *)
LEMMA SerialHolds ==
    ASSUME NEW w, Workers = {w}, MaxFaults = 0 PROVE Spec => []SerialInv(w)
<1>1. StoreInit => SerialInv(w)
  BY SerialInit
<1>2. TypeInv /\ SerialInv(w) /\ [Next]_vars => SerialInv(w)'
  BY SerialStep
<1>. QED BY <1>1, <1>2, TypeInvHolds, PTL DEF Spec

(* With one request at a time and no fault, a deployment in flight waits for an
   approver or a handler works on it, so that the application can be deployed
   again (InitiateDeploy refuses it otherwise). *)
THEOREM NeverStranded ==
    ASSUME NEW w, Workers = {w}, MaxFaults = 0 PROVE Spec => []NotStranded
<1>1. SerialInv(w) => NotStranded
  <2> SUFFICES ASSUME SerialInv(w), NEW d \in Dep, InFlight(d)
               PROVE  deps[d].status = "pending_approval" \/ \E v \in Workers : job[v].dep = d
    BY DEF NotStranded
  <2>1. d \in Trial /\ (d \in Asked => deps[d].status = "pending_approval")
    BY DEF Trial, Asked
  <2>2. CASE d \notin Asked
    <3>1. d = nDeps /\ job[w].pc \in FlightPcs
      BY <2>1, <2>2 DEF SerialInv, Flights
    <3>2. job[w].dep = d
      BY <3>1 DEF SerialInv, Flights
    <3>. QED BY <3>2
  <2>. QED BY <2>1, <2>2
<1>2. Spec => []SerialInv(w)
  BY SerialHolds
<1>. QED BY <1>1, <1>2, PTL

LEMMA RestFacts ==
    ASSUME NEW w, Workers = {w}, SerialInv(w), AtRest PROVE AtRestInv
  BY RestsSound DEF AtRest, At

(* Between requests one version runs at most (retireOldRunningDeployment
   supersedes the one before each time a deployment goes live). *)
THEOREM AlwaysAtMostOneRunning ==
    ASSUME NEW w, Workers = {w}, MaxFaults = 0 PROVE Spec => []AtMostOneRunning
<1>1. SerialInv(w) => AtMostOneRunning
  <2> SUFFICES ASSUME SerialInv(w), AtRest PROVE Cardinality(RunningDeps) <= 1
    BY DEF AtMostOneRunning
  <2>1. Few(RunningDeps)
    BY RestFacts DEF AtRestInv
  <2>2. CASE RunningDeps = {}
    BY <2>2, FS_EmptySet
  <2>3. CASE RunningDeps # {}
    <3>1. PICK d \in RunningDeps : RunningDeps = {d}
      BY <2>1, <2>3 DEF Few
    <3>2. Cardinality({d}) = 1
      BY FS_Singleton
    <3>. QED BY <3>1, <3>2
  <2>. QED BY <2>2, <2>3
<1>2. Spec => []SerialInv(w)
  BY SerialHolds
<1>. QED BY <1>1, <1>2, PTL

(* Between requests, an application that says it is running has a deployment that
   says so: no handler puts the application back to running, or leaves it there,
   when the deployments' rows have none.  Whether that version's containers run is
   another matter: deploy_service.go:874-885 names a case in which they do not. *)
THEOREM RunningAlwaysHasVersion ==
    ASSUME NEW w, Workers = {w}, MaxFaults = 0 PROVE Spec => []RunningHasVersion
<1>1. SerialInv(w) => RunningHasVersion
  BY RestFacts DEF RunningHasVersion, AtRestInv
<1>2. Spec => []SerialInv(w)
  BY SerialHolds
<1>. QED BY <1>1, <1>2, PTL

(* Between requests, no activation and no build is left half way: every path
   out of deployAndActivate and runBuild writes how it ended. *)
THEOREM AlwaysSettled ==
    ASSUME NEW w, Workers = {w}, MaxFaults = 0 PROVE Spec => []Settled
<1>1. SerialInv(w) => Settled
  BY RestFacts DEF Settled, AtRestInv
<1>2. Spec => []SerialInv(w)
  BY SerialHolds
<1>. QED BY <1>1, <1>2, PTL

(***************************************************************************)
(* The versions, as Release sees them                                      *)
(***************************************************************************)
NameOf(s) ==
    IF s = "none" THEN "untried" ELSE IF s \in InFlightStatus THEN "trial"
    ELSE IF s = "running" THEN "live" ELSE IF s = "suspended" THEN "parked" ELSE "ended"

LEMMA StageName == ASSUME NEW d PROVE StageOf(d) = NameOf(deps[d].status)
  BY DEF StageOf, NameOf, InFlight, InFlightStatus

\* Only d's status changes, to s.
Moves(d, s) == \A e \in Dep : deps'[e].status = IF e = d THEN s ELSE deps[e].status

EndedStatus == {"failed", "rejected", "superseded", "archived"}

\* The changes of status there are.
Tries(d, s) ==
    /\ deps[d].status = "none" /\ s = "scanning"
    /\ d = nDeps + 1 /\ Trial = {} /\ Few(RunningDeps)
Tested(d, s) == d \in Trial /\ s \in InFlightStatus \cup EndedStatus \cup {"running"}
Serving(d, s) == d \in RunningDeps /\ s \in EndedStatus \cup {"running"}
Suspends(d, s) == d \in RunningDeps /\ s = "suspended" /\ Few(RunningDeps)
Resumes(d, s) == d \in Parked /\ s = "running" /\ d = nDeps /\ RunningDeps = {} /\ Trial = {}
Ends(d, s) == deps[d].status # "none" /\ s = "failed"
Archives(d, s) == d \in Parked /\ s = "archived"

Change(d, s) ==
    /\ Moves(d, s)
    /\ Tries(d, s) \/ Tested(d, s) \/ Serving(d, s) \/ Suspends(d, s) \/ Resumes(d, s) \/ Ends(d, s) \/ Archives(d, s)

StatusesKept == \A d \in Dep : deps'[d].status = deps[d].status
Changes == StatusesKept \/ \E d \in Dep, s \in DeploymentStatus : Change(d, s)

LEMMA SetsChange ==
    ASSUME TypeOK, NEW d \in Dep, NEW s \in DeploymentStatus, SetStatus(d, s),
           \/ Tested(d, s) \/ Serving(d, s) \/ Suspends(d, s) \/ Resumes(d, s) \/ Ends(d, s) \/ Archives(d, s)
    PROVE  Changes
<1>1. Moves(d, s)
  BY SetStatusEffect DEF Moves
<1>. QED BY <1>1 DEF Changes, Change

LEMMA DeployStepChanges ==
    ASSUME TypeInv, NEW w \in Workers, SerialInv(w), DeployStep(w) PROVE Changes
<1>1. TypeOK
  BY DEF TypeInv
<1> DEFINE d == job[w].dep
<1>2. job[w].pc \in DeploymentPcs => d \in Dep /\ deps[d].status # "none"
  BY WorkingDep, StoreAssumption DEF TypeInv, Working, Created, TypeOK, Dep
<1>3. job[w].pc \in FlightPcs \cup {"ask", "decide", "reject"} => d \in Trial
  BY DEF SerialInv, Flights
<1> HIDE DEF d
<1>4. CASE Create(w)
  <2>1. CASE IndexAllows(0) /\ nDeps < MaxDeployments
    <3>1. PICK n : n = nDeps + 1
      OBVIOUS
    <3>2. n \in Dep /\ deps[n].status = "none"
      BY <1>1, <2>1, <3>1, StoreAssumption DEF TypeInv, TypeOK, Created, Dep
    <3>3. Trial = {} /\ Few(RunningDeps)
      BY <1>4, <2>1, StoreAssumption DEF IndexAllows, Trial, Dep, Create, Alive, At, SerialInv, Versions
    <3>4. PICK new : new = [NoDeployment EXCEPT !.status = "scanning", !.env = job[w].env, !.build = job[w].build]
      OBVIOUS
    <3>5. new.status = "scanning"
      BY <3>4 DEF NoDeployment
    <3>6. deps' = [deps EXCEPT ![n] = new]
      BY <1>4, <2>1, <3>1, <3>4 DEF Create
    <3>7. Moves(n, "scanning")
      BY <1>1, <3>2, <3>5, <3>6 DEF TypeOK, Moves
    <3>8. "scanning" \in DeploymentStatus
      BY DEF DeploymentStatus, InFlightStatus
    <3>. QED BY <3>1, <3>2, <3>3, <3>7, <3>8 DEF Changes, Change, Tries
  <2>2. CASE ~(IndexAllows(0) /\ nDeps < MaxDeployments)
    BY <1>4, <2>2 DEF Create, Changes, StatusesKept, depVars
  <2>. QED BY <2>1, <2>2
<1>5. CASE Scan(w) \/ RejectApp(w) \/ Occupy(w) \/ StartContainers(w) \/ HealthCheck(w) \/ Publish(w)
           \/ TrackServices(w) \/ RetirePrevious(w) \/ CleanupForDeployment(w) \/ FailApp(w) \/ GiveUpApp(w)
  BY <1>5 DEF Scan, RejectApp, Occupy, StartContainers, HealthCheck, Publish, TrackServices, RetirePrevious,
     CleanupForDeployment, FailApp, GiveUpApp, depVars, Changes, StatusesKept
<1>6. CASE AskApprovers(w) \/ Decide(w)
  <2>1. UNCHANGED deps \/ \E x : deps' = [deps EXCEPT ![d].decision = x]
    BY <1>6 DEF AskApprovers, Decide, d
  <2>. QED BY <1>1, <2>1, SetDecisionEffect DEF Changes, StatusesKept
<1>7. CASE AwaitApproval(w) \/ SetDeploying(w) \/ SetHealthCheck(w)
  <2>1. UNCHANGED deps \/ \E s \in InFlightStatus : SetStatus(d, s)
    BY <1>7 DEF AwaitApproval, SetDeploying, SetHealthCheck, InFlightStatus, d
  <2>2. d \in Trial /\ d \in Dep
    BY <1>2, <1>3, <1>7 DEF AwaitApproval, SetDeploying, SetHealthCheck, Alive, At, FlightPcs, DeploymentPcs
  <2>. QED BY <1>1, <2>1, <2>2, SetsChange DEF Tested, DeploymentStatus, Changes, StatusesKept
<1>8. CASE Reject(w) \/ Fail(w)
  <2>1. \E s \in {"rejected", "failed"} : SetStatus(d, s)
    BY <1>8 DEF Reject, Fail, d
  <2>2. d \in Trial /\ d \in Dep
    BY <1>2, <1>3, <1>8 DEF Reject, Fail, Alive, At, FlightPcs, DeploymentPcs
  <2>. QED BY <1>1, <2>1, <2>2, SetsChange DEF Tested, DeploymentStatus, EndedStatus
<1>9. CASE SetRunning(w)
  <2>1. d \in Trial /\ d \in Dep
    BY <1>2, <1>3, <1>9 DEF SetRunning, Alive, At, FlightPcs, DeploymentPcs
  <2>2. deps' = [deps EXCEPT ![d].status = "running", ![d].listed = TRUE]
    BY <1>9 DEF SetRunning, d
  <2>3. Moves(d, "running")
    BY <1>1, <2>2, SetLiveEffect DEF Moves
  <2>. QED BY <2>1, <2>3 DEF Changes, Change, Tested, DeploymentStatus
<1>10. CASE SetSuperseded(w)
  <2>1. job[w].prev \in RunningDeps /\ job[w].prev \in Dep
    BY <1>10, Kinds DEF SetSuperseded, Alive, At, SerialInv, Versions
  <2>2. SetStatus(job[w].prev, "superseded")
    BY <1>10 DEF SetSuperseded
  <2>. QED BY <1>1, <2>1, <2>2, SetsChange DEF Serving, EndedStatus, DeploymentStatus
<1>11. CASE GiveUp(w)
  <2>1. SetStatus(d, "failed") /\ d \in Dep /\ deps[d].status # "none"
    BY <1>2, <1>11 DEF GiveUp, Alive, At, DeploymentPcs, d
  <2>. QED BY <1>1, <2>1, SetsChange DEF Ends, DeploymentStatus
<1>. QED BY <1>4, <1>5, <1>6, <1>7, <1>8, <1>9, <1>10, <1>11 DEF DeployStep

LEMMA LifecycleStepChanges ==
    ASSUME TypeInv, NEW w \in Workers, SerialInv(w), LifecycleStep(w) PROVE Changes
<1>1. TypeOK
  BY DEF TypeInv
<1> DEFINE d == job[w].dep
<1>2. job[w].pc \in DeploymentPcs => d \in Dep
  BY WorkingDep DEF TypeInv
<1> HIDE DEF d
<1>3. CASE PlaceHold(w) \/ StopAllContainers(w) \/ MoveToSuspended(w) \/ RemoveHold(w) \/ ResumeContainers(w)
           \/ MoveToRunning(w) \/ ReleaseHold(w) \/ MoveToArchived(w) \/ RemoveFailed(w) \/ Deprovision(w)
           \/ MoveToDeleted(w)
  BY <1>3 DEF PlaceHold, StopAllContainers, MoveToSuspended, RemoveHold, ResumeContainers, MoveToRunning, ReleaseHold,
     MoveToArchived, RemoveFailed, Deprovision, MoveToDeleted, depVars, Changes, StatusesKept
<1>4. CASE Unlist(w) \/ List(w) \/ Recycle(w) \/ Relist(w)
  <2>1. \E x : deps' = [deps EXCEPT ![d].listed = x]
    <3>1. CASE Recycle(w)
      <4>1. PICK x : deps' = [deps EXCEPT ![d].listed = @ /\ x]
        BY <3>1 DEF Recycle, d
      <4>2. deps' = [deps EXCEPT ![d].listed = deps[d].listed /\ x]
        BY <4>1
      <4>. QED BY <4>2
    <3>2. CASE Unlist(w) \/ List(w) \/ Relist(w)
      BY <3>2 DEF Unlist, List, Relist, d
    <3>. QED BY <1>4, <3>1, <3>2
  <2>. QED BY <1>1, <2>1, SetListedEffect DEF Changes, StatusesKept
<1>5. CASE SetSuspended(w)
  <2>1. SetStatus(d, "suspended") /\ d \in Dep /\ d \in RunningDeps /\ Few(RunningDeps)
    BY <1>2, <1>5 DEF SetSuspended, Alive, At, DeploymentPcs, SerialInv, Latest, Versions, ServingPcs, d
  <2>. QED BY <1>1, <2>1, SetsChange DEF Suspends, DeploymentStatus
<1>6. CASE SetResumed(w)
  <2>1. SetStatus(d, "running") /\ d \in Dep /\ d \in Parked /\ d = nDeps
    BY <1>2, <1>6 DEF SetResumed, Alive, At, DeploymentPcs, SerialInv, Latest, d
  <2>2. RunningDeps = {}
    BY <1>6 DEF SetResumed, Alive, At, SerialInv, Serves, Status
  <2>3. Trial = {}
    BY <2>1, Kinds DEF SerialInv, Flights
  <2>. QED BY <1>1, <2>1, <2>2, <2>3, SetsChange DEF Resumes, DeploymentStatus
<1>7. CASE TouchRunning(w)
  <2>1. SetStatus(d, "running") /\ d \in Dep /\ d \in RunningDeps
    BY <1>2, <1>7 DEF TouchRunning, Alive, At, DeploymentPcs, SerialInv, Latest, ServingPcs, d
  <2>. QED BY <1>1, <2>1, SetsChange DEF Serving, DeploymentStatus
<1>8. CASE SetArchived(w)
  <2>1. SetStatus(d, "archived") /\ d \in Dep /\ d \in RunningDeps \cup Parked
    BY <1>2, <1>8 DEF SetArchived, Alive, At, DeploymentPcs, SerialInv, Latest, d
  <2>. QED BY <1>1, <2>1, SetsChange DEF Serving, Archives, EndedStatus, DeploymentStatus
<1>. QED BY <1>3, <1>4, <1>5, <1>6, <1>7, <1>8 DEF LifecycleStep

LEMMA StepChanges ==
    ASSUME NEW w, Workers = {w}, TypeInv, SerialInv(w), [Next]_vars PROVE Changes
<1>1. CASE Request(w)
  BY <1>1 DEF Request, DeployRequest, RequestDeploy, RequestRollback, TriggerAutomaticRollback, RequestDecision,
     RequestBuild, LifecycleRequest, RequestSuspend, RequestAdminSuspend, RequestResume, RequestAdminResume,
     RequestRestart, RequestArchive, RequestDelete, SweepFailed, depVars, Changes, StatusesKept
<1>2. CASE Step(w)
  <2>1. CASE BuildStep(w) \/ WriteRefused(w)
    BY <2>1 DEF BuildStep, WriteRefused, CreateBuild, MoveToBuild, MarkInProgress, FinishBuild, LoseOutcome,
       RestoreStatus, depVars, Changes, StatusesKept
  <2>. QED BY <1>2, <2>1, DeployStepChanges, LifecycleStepChanges DEF Step
<1>3. CASE CallerLeaves(w) \/ ServerRestarts \/ UNCHANGED vars
  BY <1>3 DEF CallerLeaves, ServerRestarts, vars, depVars, Changes, StatusesKept
<1>. QED BY <1>1, <1>2, <1>3 DEF Next

\* The abstract state, and what a change of one status does to it.
Stages == [d \in Dep |-> StageOf(d)]

LEMMA StageAt == \A d \in Dep : Stages[d] = NameOf(deps[d].status)
  BY StageName DEF Stages

LEMMA StageSets ==
    /\ {d \in Dep : Stages[d] = "trial"} = Trial /\ {d \in Dep : Stages[d] = "live"} = RunningDeps
    /\ {d \in Dep : Stages[d] = "parked"} = Parked
  BY StageAt DEF NameOf, Trial, RunningDeps, Parked, InFlight, InFlightStatus

LEMMA StagesIn ==
    Promised!In("trial") = Trial /\ Promised!In("live") = RunningDeps /\ Promised!In("parked") = Parked
  BY StageSets DEF Promised!In, Stages

LEMMA SameCardinality == ASSUME NEW S PROVE Promised!Cardinality(S) = Cardinality(S)
  BY DEF Cardinality, Promised!Cardinality

LEMMA StagesNext == Stages' = [d \in Dep |-> NameOf(deps'[d].status)]
  BY DEF Stages, StageOf, NameOf, InFlight, InFlightStatus

LEMMA StagesMove ==
    ASSUME NEW d \in Dep, NEW s, Moves(d, s) PROVE Stages' = [Stages EXCEPT ![d] = NameOf(s)]
<1>1. Stages' = [e \in Dep |-> IF e = d THEN NameOf(s) ELSE Stages[e]]
  BY StagesNext, StageAt DEF Moves
<1>2. Stages \in [Dep -> {Stages[e] : e \in Dep}]
  BY DEF Stages
<1>. QED BY <1>1 DEF Stages

LEMMA ChangePromised ==
    ASSUME TypeInv, NEW d \in Dep, NEW s \in DeploymentStatus, Change(d, s)
    PROVE  Promised!Next \/ UNCHANGED Stages
<1>1. Stages[d] = NameOf(deps[d].status) /\ Stages' = [Stages EXCEPT ![d] = NameOf(s)]
  BY StageAt, StagesMove DEF Change
<1>2. Stages[d] = NameOf(s) => UNCHANGED Stages
  BY <1>1 DEF Stages
<1>3. \A e \in Dep : Stages[e] = "untried" <=> e > nDeps
  BY StageAt DEF NameOf, TypeInv, Created
<1>4. TypeOK
  BY DEF TypeInv
<1>5. CASE Tries(d, s)
  <2>1. Stages[d] = "untried" /\ NameOf(s) = "trial"
    BY <1>1, <1>5 DEF NameOf, Tries, InFlightStatus
  <2>2. Promised!In("trial") = {} /\ Promised!In("live") = RunningDeps
    BY <1>5, StagesIn DEF Tries
  <2>3. Cardinality(RunningDeps) <= 1
    <3>1. CASE RunningDeps = {}
      BY <3>1, FS_EmptySet
    <3>2. CASE RunningDeps # {}
      <4>1. PICK e \in RunningDeps : RunningDeps = {e}
        BY <1>5, <3>2 DEF Tries, Few
      <4>2. Cardinality({e}) = 1
        BY FS_Singleton
      <4>. QED BY <4>1, <4>2
    <3>. QED BY <3>1, <3>2
  <2>4. \A u \in Dep : u < d => Stages[u] # "untried"
    BY <1>3, <1>4, <1>5, StoreAssumption DEF Tries, Dep, TypeOK
  <2>5. Promised!Try(d)
    BY <1>1, <2>1, <2>2, <2>3, <2>4, SameCardinality DEF Promised!Try, Promised!Move, Stages
  <2>. QED BY <2>5 DEF Promised!Next
<1>6. CASE Tested(d, s)
  <2>1. Stages[d] = "trial" /\ NameOf(s) \in {"trial", "live", "ended"}
    BY <1>1, <1>6 DEF NameOf, Tested, Trial, InFlight, InFlightStatus, EndedStatus
  <2>2. CASE NameOf(s) = "trial"
    BY <1>2, <2>1, <2>2
  <2>3. CASE NameOf(s) = "live"
    <3>1. Promised!GoLive(d)
      BY <1>1, <2>1, <2>3 DEF Promised!GoLive, Promised!Move, Stages
    <3>. QED BY <3>1 DEF Promised!Next
  <2>4. CASE NameOf(s) = "ended"
    <3>1. Promised!Drop(d)
      BY <1>1, <2>1, <2>4 DEF Promised!Drop, Promised!Move, Stages
    <3>. QED BY <3>1 DEF Promised!Next
  <2>. QED BY <2>1, <2>2, <2>3, <2>4
<1>7. CASE Serving(d, s)
  <2>1. Stages[d] = "live" /\ NameOf(s) \in {"live", "ended"}
    BY <1>1, <1>7 DEF NameOf, Serving, RunningDeps, InFlightStatus, EndedStatus
  <2>2. CASE NameOf(s) = "ended"
    <3>1. Promised!Withdraw(d)
      BY <1>1, <2>1, <2>2 DEF Promised!Withdraw, Promised!Move, Stages
    <3>. QED BY <3>1 DEF Promised!Next
  <2>. QED BY <1>2, <2>1, <2>2
<1>8. CASE Suspends(d, s)
  <2>1. Stages[d] = "live" /\ NameOf(s) = "parked"
    BY <1>1, <1>8 DEF NameOf, Suspends, RunningDeps, InFlightStatus
  <2>2. RunningDeps = {d}
    BY <1>8 DEF Suspends, Few
  <2>3. Promised!In("live") = {d} /\ Cardinality({d}) = 1
    BY <2>2, StagesIn, FS_Singleton
  <2>4. Promised!Park(d)
    BY <1>1, <2>1, <2>3, SameCardinality DEF Promised!Park, Promised!Move, Stages
  <2>. QED BY <2>4 DEF Promised!Next
<1>9. CASE Resumes(d, s)
  <2>1. Stages[d] = "parked" /\ NameOf(s) = "live"
    BY <1>1, <1>9 DEF NameOf, Resumes, Parked, InFlightStatus
  <2>2. Promised!In("live") = {} /\ Promised!In("trial") = {}
    BY <1>9, StagesIn DEF Resumes
  <2>3. \A u \in Dep : u > d => Stages[u] = "untried"
    BY <1>3, <1>9 DEF Resumes
  <2>4. Promised!Unpark(d)
    BY <1>1, <2>1, <2>2, <2>3 DEF Promised!Unpark, Promised!Move, Stages
  <2>. QED BY <2>4 DEF Promised!Next
<1>10. CASE Ends(d, s)
  <2>1. Stages[d] \in {"trial", "live", "parked", "ended"} /\ NameOf(s) = "ended"
    BY <1>1, <1>10 DEF NameOf, Ends, InFlightStatus
  <2>2. CASE Stages[d] = "trial"
    <3>1. Promised!Drop(d)
      BY <1>1, <2>1, <2>2 DEF Promised!Drop, Promised!Move, Stages
    <3>. QED BY <3>1 DEF Promised!Next
  <2>3. CASE Stages[d] = "live"
    <3>1. Promised!Withdraw(d)
      BY <1>1, <2>1, <2>3 DEF Promised!Withdraw, Promised!Move, Stages
    <3>. QED BY <3>1 DEF Promised!Next
  <2>4. CASE Stages[d] = "parked"
    <3>1. Promised!Forget(d)
      BY <1>1, <2>1, <2>4 DEF Promised!Forget, Promised!Move, Stages
    <3>. QED BY <3>1 DEF Promised!Next
  <2>. QED BY <1>2, <2>1, <2>2, <2>3, <2>4
<1>11. CASE Archives(d, s)
  <2>1. Stages[d] = "parked" /\ NameOf(s) = "ended"
    BY <1>1, <1>11 DEF NameOf, Archives, Parked, InFlightStatus
  <2>2. Promised!Forget(d)
    BY <1>1, <2>1 DEF Promised!Forget, Promised!Move, Stages
  <2>. QED BY <2>2 DEF Promised!Next
<1>. QED BY <1>5, <1>6, <1>7, <1>8, <1>9, <1>10, <1>11 DEF Change

(* With one request at a time and no fault, the pipeline keeps what Release
   promises, for any number of versions: one is tried at a time, and only once
   the one before has replaced its predecessor; one that ended never comes back;
   and a suspended one comes back only while nothing newer was tried. *)
THEOREM KeepsRelease ==
    ASSUME NEW w, Workers = {w}, MaxFaults = 0 PROVE Spec => ImplementsRelease
<1>1. StoreInit => Promised!Init
  <2> SUFFICES ASSUME StoreInit PROVE Promised!Init
    OBVIOUS
  <2>1. \A d \in Dep : StageOf(d) = "untried"
    BY StageName DEF StoreInit, NoDeployment, NameOf
  <2>. QED BY <2>1 DEF Promised!Init
<1>2. TypeInv /\ SerialInv(w) /\ [Next]_vars => Promised!Next \/ UNCHANGED Stages
  <2> SUFFICES ASSUME TypeInv, SerialInv(w), [Next]_vars PROVE Promised!Next \/ UNCHANGED Stages
    OBVIOUS
  <2>1. StatusesKept => UNCHANGED Stages
    BY StagesNext, StageAt DEF StatusesKept, Stages
  <2>. QED BY <2>1, StepChanges, ChangePromised DEF Changes
<1>3. TypeInv /\ SerialInv(w) /\ [Next]_vars => [Promised!Next]_[d \in Dep |-> StageOf(d)]
  BY <1>2 DEF Stages
<1>4. Spec => []SerialInv(w)
  BY SerialHolds
<1>. QED BY <1>1, <1>3, <1>4, TypeInvHolds, PTL DEF Spec, ImplementsRelease, Promised!Spec

(***************************************************************************)
(* One request at a time, whatever the faults                              *)
(***************************************************************************)
\* Where the handler's deployment runs, and where it serves; where the handler
\* has a lifecycle request.
RunsPcs == {"checking", "health", "live", "publish", "track", "retire"}
LivePcs == {"publish", "track", "retire"}
LifecyclePcs == LifecycleContextPcs \cup {"resume", "recycle"}

Replacing(w) ==
    /\ job[w].pc \in RunsPcs => job[w].dep \in up
    /\ job[w].pc \in LivePcs => job[w].dep \in RunningDeps
    /\ job[w].pc = "health" => job[w].dep \notin RunningDeps
    /\ job[w].pc \in LifecyclePcs => ~Deploying(w)
    /\ job[w].pc = "idle" => job[w].op = "none"

\* Where nothing is asked of the handler's deployment.
LEMMA Elsewhere ==
    ASSUME NEW w, job'[w].pc \notin RunsPcs \cup LifecyclePcs, job'[w].pc = "idle" => job'[w].op = "none"
    PROVE  Replacing(w)'
  BY DEF Replacing, RunsPcs, LivePcs

LEMMA ReturnReplacing == ASSUME TypeOK, NEW w \in Workers, Return(w) PROVE Replacing(w)'
  BY ReturnFields DEF Replacing, RunsPcs, LivePcs, LifecyclePcs, LifecycleContextPcs

LEMMA FailToReplacing == ASSUME TypeOK, NEW w \in Workers, NEW s, FailTo(w, s) PROVE Replacing(w)'
  BY FailToFields DEF Replacing, RunsPcs, LivePcs, LifecyclePcs, LifecycleContextPcs

LEMMA GotoReplacing ==
    ASSUME TypeOK, NEW w \in Workers, NEW pc, Goto(w, pc), pc \notin RunsPcs \cup LifecyclePcs \cup {"idle"}
    PROVE  Replacing(w)'
  BY GotoFields DEF Replacing, RunsPcs, LivePcs

LEMMA GotoLifecycle ==
    ASSUME TypeOK, NEW w \in Workers, NEW pc \in LifecyclePcs, Goto(w, pc), ~Deploying(w) PROVE Replacing(w)'
  BY GotoFields DEF Replacing, RunsPcs, LivePcs, LifecyclePcs, LifecycleContextPcs, Deploying

LEMMA DeployRequestReplacing ==
    ASSUME TypeOK, NEW w \in Workers, DeployRequest(w) PROVE Replacing(w)'
<1>1. ASSUME NEW j, Become(w, j), j.pc \in {"create", "giveUp", "decide"} PROVE Replacing(w)'
  BY <1>1, Others, Elsewhere DEF RunsPcs, LifecyclePcs, LifecycleContextPcs
<1>2. ASSUME NEW e \in Env, RequestDeploy(w, e) PROVE Replacing(w)'
  <2>1. PICK j : j = [Idle EXCEPT !.pc = "create", !.op = "deploy", !.build = nBuilds, !.env = e, !.seen = app]
    OBVIOUS
  <2>2. j.pc = "create"
    BY <2>1 DEF Idle
  <2>. QED BY <1>1, <1>2, <2>1, <2>2 DEF RequestDeploy
<1>3. ASSUME NEW t \in Dep, RequestRollback(w, t) PROVE Replacing(w)'
  <2>1. PICK j : j = [Idle EXCEPT !.pc = "create", !.op = "rollback", !.build = deps[t].build,
                                  !.env = deps[t].env, !.seen = app]
    OBVIOUS
  <2>2. j.pc = "create"
    BY <2>1 DEF Idle
  <2>. QED BY <1>1, <1>3, <2>1, <2>2 DEF RequestRollback
<1>4. ASSUME NEW d \in Dep, TriggerAutomaticRollback(w, d) PROVE Replacing(w)'
  <2>1. CASE \E t \in Dep : Become(w, [Idle EXCEPT !.pc = "create", !.op = "auto", !.seen = app,
                                                   !.build = deps[t].build, !.env = deps[t].env])
    <3>1. PICK t \in Dep : Become(w, [Idle EXCEPT !.pc = "create", !.op = "auto", !.seen = app,
                                                  !.build = deps[t].build, !.env = deps[t].env])
      BY <2>1
    <3>2. PICK j : j = [Idle EXCEPT !.pc = "create", !.op = "auto", !.seen = app,
                                    !.build = deps[t].build, !.env = deps[t].env]
      OBVIOUS
    <3>3. j.pc = "create"
      BY <3>2 DEF Idle
    <3>. QED BY <1>1, <3>1, <3>2, <3>3
  <2>2. CASE Become(w, [Idle EXCEPT !.pc = "giveUp", !.op = "auto", !.dep = nDeps])
    <3>1. PICK j : j = [Idle EXCEPT !.pc = "giveUp", !.op = "auto", !.dep = nDeps]
      OBVIOUS
    <3>2. j.pc = "giveUp"
      BY <3>1 DEF Idle
    <3>. QED BY <1>1, <2>2, <3>1, <3>2
  <2>. QED BY <1>4, <2>1, <2>2 DEF TriggerAutomaticRollback
<1>5. ASSUME NEW d \in Dep, NEW yes \in BOOLEAN, RequestDecision(w, d, yes) PROVE Replacing(w)'
  <2>1. PICK j : j = [Idle EXCEPT !.pc = "decide", !.op = "decide", !.dep = d, !.approve = yes]
    OBVIOUS
  <2>2. j.pc = "decide"
    BY <2>1 DEF Idle
  <2>. QED BY <1>1, <1>5, <2>1, <2>2 DEF RequestDecision
<1>. QED BY <1>2, <1>3, <1>4, <1>5 DEF DeployRequest

LEMMA LifecycleRequestReplacing ==
    ASSUME TypeOK, NEW w \in Workers, LifecycleRequest(w) PROVE Replacing(w)'
<1>1. \E op \in {"suspend", "adminSuspend", "resume", "adminResume", "restart", "archive", "delete", "cleanup"},
         pc \in LifecyclePcs : \E d : Start(w, op, pc, d)
  BY DEF LifecycleRequest, RequestSuspend, RequestAdminSuspend, RequestResume, RequestAdminResume, RequestRestart,
     RequestArchive, RequestDelete, SweepFailed, StartDelete, LifecyclePcs, LifecycleContextPcs
<1>2. job'[w].op \notin {"deploy", "rollback", "decide"} /\ job'[w].pc \in LifecyclePcs
  BY <1>1, StartFields
<1>. QED BY <1>2 DEF Replacing, RunsPcs, LivePcs, LifecyclePcs, LifecycleContextPcs, Deploying

LEMMA BuildReplacing ==
    ASSUME TypeOK, NEW w \in Workers, RequestBuild(w) \/ BuildStep(w) PROVE Replacing(w)'
<1>1. CASE RequestBuild(w)
  <2>1. PICK j : j = [Idle EXCEPT !.pc = "newBuild", !.op = "build", !.seen = app]
    OBVIOUS
  <2>2. j.pc = "newBuild"
    BY <2>1 DEF Idle
  <2>3. job'[w] = j
    BY <1>1, <2>1, Others DEF RequestBuild
  <2>. QED BY <2>2, <2>3, Elsewhere DEF RunsPcs, LifecyclePcs, LifecycleContextPcs
<1>2. CASE CreateBuild(w) /\ ~Return(w)
  <2>1. PICK j : j = [job[w] EXCEPT !.build = nBuilds + 1, !.pc = "toBuild"]
    OBVIOUS
  <2>2. j.pc = "toBuild"
    BY <2>1, JobFields DEF Job
  <2>3. job'[w] = j
    BY <1>2, <2>1, Others DEF CreateBuild
  <2>. QED BY <2>2, <2>3, Elsewhere DEF RunsPcs, LifecyclePcs, LifecycleContextPcs
<1>3. CASE BuildStep(w) /\ ~CreateBuild(w)
  <2>1. Return(w) \/ \E pc \in {"begin", "building", "buildFailed"} : Goto(w, pc)
    BY <1>3 DEF BuildStep, MoveToBuild, MarkInProgress, FinishBuild, LoseOutcome, RestoreStatus
  <2>. QED BY <2>1, ReturnReplacing, GotoReplacing DEF RunsPcs, LifecyclePcs, LifecycleContextPcs
<1>. QED BY <1>1, <1>2, <1>3, ReturnReplacing DEF BuildStep

LEMMA DeployStepReplacing ==
    ASSUME TypeInv, NEW w \in Workers, Replacing(w), DeployStep(w) PROVE Replacing(w)'
<1>1. TypeOK
  BY DEF TypeInv
<1> DEFINE d == job[w].dep
<1>2. job[w].pc \in DeploymentPcs => d \in Dep
  BY WorkingDep DEF TypeInv
<1> HIDE DEF d
<1>3. CASE Create(w)
  <2>1. PICK pc \in {"scan", "activate"} : pc = IF job[w].op = "deploy" THEN "scan" ELSE "activate"
    OBVIOUS
  <2>2. PICK j : j = [job[w] EXCEPT !.dep = nDeps + 1, !.pc = pc]
    OBVIOUS
  <2>3. j.pc = pc
    BY <1>1, <2>2, JobFields DEF Job
  <2>4. Return(w) \/ job'[w] = j
    BY <1>1, <1>3, <2>1, <2>2, Others DEF Create
  <2>. QED BY <1>1, <2>3, <2>4, ReturnReplacing, Elsewhere DEF RunsPcs, LifecyclePcs, LifecycleContextPcs
<1>4. CASE Decide(w)
  <2>1. PICK pc \in {"activate", "reject"} : pc = IF job[w].approve THEN "activate" ELSE "reject"
    OBVIOUS
  <2>2. PICK j : j = [job[w] EXCEPT !.seen = app, !.pc = pc]
    OBVIOUS
  <2>3. j.pc = pc
    BY <1>1, <2>2, JobFields DEF Job
  <2>4. Return(w) \/ job'[w] = j
    BY <1>1, <1>4, <2>1, <2>2, Others DEF Decide
  <2>. QED BY <1>1, <2>3, <2>4, ReturnReplacing, Elsewhere DEF RunsPcs, LifecyclePcs, LifecycleContextPcs
<1>5. CASE Scan(w) \/ AwaitApproval(w) \/ AskApprovers(w) \/ Reject(w) \/ RejectApp(w) \/ SetDeploying(w) \/ Occupy(w)
           \/ SetSuperseded(w) \/ CleanupForDeployment(w) \/ Fail(w) \/ FailApp(w) \/ GiveUp(w) \/ GiveUpApp(w)
  <2>1. \/ Return(w) \/ FailTo(w, job[w].seen)
        \/ \E pc \in {"gate", "activate", "ask", "rejectApp", "occupy", "start", "untrack", "failApp", "giveUpApp"} :
              Goto(w, pc)
    BY <1>5 DEF Scan, AwaitApproval, AskApprovers, Reject, RejectApp, SetDeploying, Occupy, SetSuperseded,
       CleanupForDeployment, Fail, FailApp, GiveUp, GiveUpApp
  <2>. QED BY <1>1, <2>1, ReturnReplacing, FailToReplacing, GotoReplacing DEF RunsPcs, LifecyclePcs, LifecycleContextPcs
<1>6. CASE StartContainers(w)
  <2>1. CASE Goto(w, "checking") /\ up' = up \cup {d}
    BY <1>1, <2>1, GotoFields DEF Replacing, RunsPcs, LivePcs, LifecyclePcs, LifecycleContextPcs, d
  <2>2. CASE FailTo(w, Transient(w))
    BY <1>1, <2>2, FailToReplacing
  <2>. QED BY <1>6, <2>1, <2>2 DEF StartContainers, d
<1>7. CASE SetHealthCheck(w)
  <2>1. CASE SetStatus(d, "health_check") /\ Goto(w, "health")
    <3>1. d \in Dep /\ up' = up /\ d \in up
      BY <1>2, <1>7 DEF SetHealthCheck, Alive, At, DeploymentPcs, runtimeVars, Replacing, RunsPcs, d
    <3>2. d \notin RunningDeps'
      BY <1>1, <2>1, <3>1, SetStatusEffect DEF RunningDeps
    <3>. QED BY <1>1, <2>1, <3>1, <3>2, GotoFields DEF Replacing, RunsPcs, LivePcs, LifecyclePcs, LifecycleContextPcs, d
  <2>. QED BY <1>1, <1>7, <2>1, ReturnReplacing DEF SetHealthCheck, d
<1>8. CASE HealthCheck(w)
  <2>1. CASE Goto(w, "live") /\ UNCHANGED up
    <3>1. d \in up
      BY <1>8 DEF HealthCheck, At, Replacing, RunsPcs, d
    <3>. QED BY <1>1, <2>1, <3>1, GotoFields DEF Replacing, RunsPcs, LivePcs, LifecyclePcs, LifecycleContextPcs, d
  <2>2. CASE FailTo(w, Transient(w))
    BY <1>1, <2>2, FailToReplacing
  <2>. QED BY <1>8, <2>1, <2>2 DEF HealthCheck
<1>9. CASE SetRunning(w)
  <2>1. d \in Dep /\ up' = up /\ d \in up /\ Goto(w, "publish")
    BY <1>2, <1>9 DEF SetRunning, Alive, At, DeploymentPcs, runtimeVars, Replacing, RunsPcs, d
  <2>2. deps' = [deps EXCEPT ![d].status = "running", ![d].listed = TRUE]
    BY <1>9 DEF SetRunning, d
  <2>3. d \in RunningDeps'
    BY <1>1, <2>1, <2>2, SetLiveEffect DEF RunningDeps
  <2>. QED BY <1>1, <2>1, <2>3, GotoFields DEF Replacing, RunsPcs, LivePcs, LifecyclePcs, LifecycleContextPcs, d
<1>10. CASE Publish(w) \/ TrackServices(w)
  <2>1. up' = up /\ d \in up /\ d \in RunningDeps /\ UNCHANGED deps
    BY <1>10 DEF Publish, TrackServices, Alive, At, runtimeVars, depVars, Replacing, RunsPcs, LivePcs, d
  <2>2. d \in RunningDeps'
    BY <2>1 DEF RunningDeps
  <2>3. Return(w) \/ \E pc \in {"track", "retire"} : Goto(w, pc)
    BY <1>10 DEF Publish, TrackServices
  <2>. QED BY <1>1, <2>1, <2>2, <2>3, ReturnReplacing, GotoFields
          DEF Replacing, RunsPcs, LivePcs, LifecyclePcs, LifecycleContextPcs, d
<1>11. CASE RetirePrevious(w)
  <2>1. ASSUME NEW p, Become(w, [job[w] EXCEPT !.pc = "supersede", !.prev = p]) PROVE Replacing(w)'
    <3>1. PICK j : j = [job[w] EXCEPT !.pc = "supersede", !.prev = p]
      OBVIOUS
    <3>2. j.pc = "supersede"
      BY <1>1, <3>1, JobFields DEF Job
    <3>3. job'[w] = j
      BY <1>1, <2>1, <3>1, Others
    <3>. QED BY <3>2, <3>3, Elsewhere DEF RunsPcs, LifecyclePcs, LifecycleContextPcs
  <2>. QED BY <1>1, <1>11, <2>1, ReturnReplacing DEF RetirePrevious
<1>. QED BY <1>3, <1>4, <1>5, <1>6, <1>7, <1>8, <1>9, <1>10, <1>11 DEF DeployStep

LEMMA LifecycleStepReplacing ==
    ASSUME TypeOK, NEW w \in Workers, Replacing(w), LifecycleStep(w) PROVE Replacing(w)'
<1>1. ~Deploying(w)
  BY DEF LifecycleStep, PlaceHold, StopAllContainers, SetSuspended, Unlist, MoveToSuspended, RemoveHold,
     ResumeContainers, SetResumed, List, MoveToRunning, ReleaseHold, Recycle, Relist, TouchRunning, SetArchived,
     MoveToArchived, RemoveFailed, Deprovision, MoveToDeleted, Alive, At, Replacing, LifecyclePcs, LifecycleContextPcs
<1>2. CASE Recycle(w)
  <2>1. ASSUME NEW p, Become(w, [job[w] EXCEPT !.pc = "relist", !.prev = p]) PROVE Replacing(w)'
    <3>1. PICK j : j = [job[w] EXCEPT !.pc = "relist", !.prev = p]
      OBVIOUS
    <3>2. j.pc = "relist" /\ j.op = job[w].op
      BY <3>1, JobFields DEF Job
    <3>3. job'[w] = j
      BY <2>1, <3>1, Others
    <3>. QED BY <1>1, <3>2, <3>3 DEF Replacing, RunsPcs, LivePcs, Deploying
  <2>. QED BY <1>2, <2>1, ReturnReplacing DEF Recycle
<1>3. CASE RemoveFailed(w)
  <2>1. Return(w) \/ \E pc \in {"stop", "deprovision"} : Start(w, "cleanup", pc, nDeps)
    BY <1>3 DEF RemoveFailed, StartDelete
  <2>. QED BY <2>1, ReturnReplacing, StartFields DEF Replacing, RunsPcs, LivePcs, Deploying
<1>4. CASE StopAllContainers(w)
  <2>1. AfterStop(w) \in LifecyclePcs /\ Goto(w, AfterStop(w))
    BY <1>4 DEF StopAllContainers, AfterStop, LifecyclePcs, LifecycleContextPcs
  <2>. QED BY <1>1, <2>1, GotoLifecycle
<1>6. CASE ResumeContainers(w)
  BY <1>1, <1>6, ResumeEffect, ReturnReplacing DEF Replacing, RunsPcs, LivePcs, Deploying
<1>5. CASE LifecycleStep(w) /\ ~Recycle(w) /\ ~RemoveFailed(w) /\ ~StopAllContainers(w) /\ ~ResumeContainers(w)
  <2>1. Return(w) \/ \E pc \in LifecyclePcs : Goto(w, pc)
    BY <1>5 DEF LifecycleStep, PlaceHold, SetSuspended, Unlist, MoveToSuspended, RemoveHold, SetResumed, List,
       MoveToRunning, ReleaseHold, Relist, TouchRunning, SetArchived, MoveToArchived, Deprovision, MoveToDeleted,
       LifecyclePcs, LifecycleContextPcs
  <2>. QED BY <1>1, <2>1, ReturnReplacing, GotoLifecycle
<1>. QED BY <1>2, <1>3, <1>4, <1>5, <1>6

LEMMA ReplacingStep ==
    ASSUME NEW w, Workers = {w}, TypeInv, Replacing(w), [Next]_vars PROVE Replacing(w)'
<1>1. TypeOK
  BY DEF TypeInv
<1>2. CASE Request(w)
  BY <1>1, <1>2, DeployRequestReplacing, LifecycleRequestReplacing, BuildReplacing DEF Request
<1>3. CASE Step(w)
  BY <1>1, <1>3, DeployStepReplacing, LifecycleStepReplacing, BuildReplacing, ReturnReplacing DEF Step, WriteRefused
<1>4. CASE CallerLeaves(w)
  <2>1. PICK j : j = [job[w] EXCEPT !.alive = FALSE]
    OBVIOUS
  <2>2. j.pc = job[w].pc /\ j.op = job[w].op /\ j.dep = job[w].dep
    BY <1>1, <2>1, JobFields DEF Job
  <2>3. job'[w] = j /\ up' = up /\ UNCHANGED deps
    BY <1>1, <1>4, <2>1, Others DEF CallerLeaves, runtimeVars, depVars
  <2>4. RunningDeps' = RunningDeps
    BY <2>3 DEF RunningDeps
  <2>. QED BY <2>2, <2>3, <2>4 DEF Replacing, Deploying
<1>5. CASE ServerRestarts
  <2>1. job'[w] = Idle
    BY <1>5 DEF ServerRestarts
  <2>2. job'[w].pc = "idle" /\ job'[w].op = "none"
    BY <2>1 DEF Idle
  <2>. QED BY <2>2, Elsewhere DEF RunsPcs, LifecyclePcs, LifecycleContextPcs
<1>6. CASE UNCHANGED vars
  <2>1. job' = job /\ up' = up /\ UNCHANGED deps
    BY <1>6 DEF vars, runtimeVars, depVars
  <2>2. RunningDeps' = RunningDeps
    BY <2>1 DEF RunningDeps
  <2>. QED BY <2>1, <2>2 DEF Replacing, Deploying
<1>. QED BY <1>2, <1>3, <1>4, <1>5, <1>6 DEF Next

\* What takes a deployment's containers down.
LEMMA TakenDown ==
    ASSUME NEW w, Workers = {w}, Next, NEW d \in up \ up'
    PROVE  \/ At(w, "idle")
           \/ job[w].pc \in {"stop", "recycle"}
           \/ At(w, "health") /\ d = job[w].dep
           \/ At(w, "retire") /\ d # job[w].dep /\ up' = up \ {d}
<1>1. CASE Request(w)
  BY <1>1 DEF Request, DeployRequest, RequestDeploy, RequestRollback, TriggerAutomaticRollback, RequestDecision,
     RequestBuild, LifecycleRequest, RequestSuspend, RequestAdminSuspend, RequestResume, RequestAdminResume,
     RequestRestart, RequestArchive, RequestDelete, SweepFailed, Free, At
<1>2. CASE StopAllContainers(w) \/ Recycle(w)
  BY <1>2 DEF StopAllContainers, Recycle, Alive, At
<1>3. CASE HealthCheck(w)
  BY <1>3 DEF HealthCheck, StopContainers, At
<1>4. CASE RetirePrevious(w)
  <2>1. ASSUME NEW p \in Dep, IsNewest(p, RunningDeps \ {job[w].dep}),
               StopContainers(IF deps[p].listed THEN {p} ELSE {})
        PROVE  d # job[w].dep /\ up' = up \ {d}
    <3>1. PICK S \in {{p}, {}} : StopContainers(S)
      BY <2>1
    <3>2. up' = up \ S /\ d \in S
      BY <3>1 DEF StopContainers
    <3>3. p # job[w].dep
      BY <2>1 DEF IsNewest
    <3>. QED BY <3>1, <3>2, <3>3
  <2>. QED BY <1>4, <2>1 DEF RetirePrevious, Alive, At
<1>5. CASE DeployStep(w) /\ ~HealthCheck(w) /\ ~RetirePrevious(w)
  BY <1>5 DEF DeployStep, Create, Scan, AwaitApproval, AskApprovers, Decide, Reject, RejectApp, SetDeploying, Occupy,
     StartContainers, SetHealthCheck, SetRunning, Publish, TrackServices, SetSuperseded, CleanupForDeployment, Fail,
     FailApp, GiveUp, GiveUpApp, runtimeVars
<1>6. CASE LifecycleStep(w) /\ ~StopAllContainers(w) /\ ~Recycle(w)
  BY <1>6 DEF LifecycleStep, PlaceHold, SetSuspended, Unlist, MoveToSuspended, RemoveHold, ResumeContainers, SetResumed,
     List, MoveToRunning, ReleaseHold, Relist, TouchRunning, SetArchived, MoveToArchived, RemoveFailed, Deprovision,
     MoveToDeleted, runtimeVars
<1>7. CASE BuildStep(w) \/ WriteRefused(w) \/ CallerLeaves(w) \/ ServerRestarts
  BY <1>7 DEF BuildStep, CreateBuild, MoveToBuild, MarkInProgress, FinishBuild, LoseOutcome, RestoreStatus, WriteRefused,
     CallerLeaves, ServerRestarts, runtimeVars
<1>. QED BY <1>1, <1>2, <1>3, <1>4, <1>5, <1>6, <1>7 DEF Next, Step

(* With one request at a time, and whatever callers leave, stops fail or
   servers restart, a deployment takes down the version that serves only when
   its own version serves and its containers run (retireOldRunningDeployment
   comes after markDeploymentRunning). *)
THEOREM AlwaysReplacedFirst ==
    ASSUME NEW w, Workers = {w} PROVE Spec => ReplacedFirst
<1>1. StoreInit => Replacing(w)
  <2> SUFFICES ASSUME StoreInit PROVE Replacing(w)
    OBVIOUS
  <2>1. job[w].pc = "idle" /\ job[w].op = "none"
    BY DEF StoreInit, Idle
  <2>. QED BY <2>1 DEF Replacing, RunsPcs, LivePcs, LifecyclePcs, LifecycleContextPcs
<1>2. TypeInv /\ Replacing(w) /\ [Next]_vars => Replacing(w)'
  BY ReplacingStep
<1>3. TypeInv /\ Replacing(w) /\ [Next]_vars => [Replaces]_vars
  <2> SUFFICES ASSUME TypeInv, Replacing(w), Next, NEW d \in up \ up', Deploying(w), deps[d].status = "running"
               PROVE  \E e \in RunningDeps \ {d} : e \in up'
    BY DEF Replaces
  <2>1. job[w].pc \notin LifecyclePcs \cup {"idle"}
    BY DEF Replacing, Deploying
  <2>2. CASE At(w, "health") /\ d = job[w].dep
    <3>1. d \in Dep \ RunningDeps
      BY <2>2 DEF Replacing, At, RunsPcs, TypeInv, TypeOK
    <3>. QED BY <3>1 DEF RunningDeps
  <2>3. CASE At(w, "retire") /\ d # job[w].dep /\ up' = up \ {d}
    <3>1. job[w].dep \in RunningDeps /\ job[w].dep \in up
      BY <2>3 DEF Replacing, At, RunsPcs, LivePcs
    <3>. QED BY <2>3, <3>1
  <2>. QED BY <2>1, <2>2, <2>3, TakenDown DEF At, LifecyclePcs, LifecycleContextPcs
<1>. QED BY <1>1, <1>2, <1>3, TypeInvHolds, PTL DEF Spec, ReplacedFirst
===============================================================================
