---------------------------- MODULE ServiceRuntime ----------------------------
(***************************************************************************)
(* The containers of one live deployment: what Docker runs, what           *)
(* service_runtime_state records, and everything that starts, stops or     *)
(* records a container without the others knowing: a request's cold start  *)
(* and the idle sweep (scale_service.go), the health monitor               *)
(* (health_service.go), an owner's restart (lifecycle_service.go) and the  *)
(* next deployment's cutover (deploy_service.go).                          *)
(*                                                                         *)
(*   request (one per service): start -> check -> record                   *)
(*   sweep:    stop -> clear                                               *)
(*   monitor:  probe -> claim -> stop -> start -> check -> record          *)
(*                                       start -> adopt                    *)
(*   owner:    stop -> start -> check -> record -> relist                  *)
(*             retire -> delete                                            *)
(***************************************************************************)
EXTENDS Integers, FiniteSets

CONSTANTS
    Services,          \* of the deployment
    Eligible,          \* those that may scale to zero
    MaxContainers,     \* bound: containers ever created
    MaxMishaps,        \* bound: containers that exit or hang, stops and writes that fail, restarts
    MaxRestarts,       \* bound: restarts of the platform's server
    Limit,             \* remediationCircuitLimit
    ReusePorts         \* Docker may publish a port another container had

ASSUME RuntimeAssumption ==
    /\ Eligible \subseteq Services /\ IsFiniteSet(Services)
    /\ Services \cap {"sweep", "monitor", "owner"} = {}
    /\ {MaxContainers, MaxMishaps, MaxRestarts, Limit} \subseteq Nat
    /\ MaxContainers >= Cardinality(Services)

VARIABLES
    ctr,        \* what Docker has of each container
    row,        \* container_id and host_port recorded for a service; None at zero
    deleted,    \* the deployment's rows are deleted
    listed,     \* Deployment.Containers
    job,        \* what each actor is doing
    failures,   \* consecutive failed probes
    recent,     \* remediations within the window
    loose,      \* history: containers that a failure let go of
    mishaps, restarts

rtVars == <<ctr, row, deleted, listed, job, failures, recent, loose, mishaps, restarts>>
mind == <<failures, recent>>
world == <<loose, mishaps, restarts>>

None == 0
Ids == 1..MaxContainers
Jobs == Services \cup {"sweep", "monitor", "owner"}
Quiet == [pc |-> "idle", svc |-> "none", old |-> None, new |-> None, todo |-> {}, done |-> {}]
Unused == [st |-> "unused", svc |-> "none", port |-> None, again |-> FALSE]

Running(c) == ctr[c].st \in {"up", "hung"}
RunningFor(s) == {c \in Ids : Running(c) /\ ctr[c].svc = s}
Answers(p) == \E c \in Ids : ctr[c].st = "up" /\ ctr[c].port = p
Goto(j, pc) == job' = [job EXCEPT ![j].pc = pc]
Return(j) == job' = [job EXCEPT ![j] = Quiet]
At(j, pc) == job[j].pc = pc
Svc(j) == job[j].svc
Port(c) == ctr[c].port

(***************************************************************************)
(* Docker (runtimeengine/docker.go)                                        *)
(***************************************************************************)
\* removeLeftover: a container under the name a start would take that isn't
\* running.  An activation's containers are named otherwise.
RemoveLeftover(s) ==
    [c \in Ids |-> IF ctr[c].svc = s /\ ctr[c].again /\ ctr[c].st = "exited"
                   THEN [ctr[c] EXCEPT !.st = "gone"] ELSE ctr[c]]

NameTaken(s) == \E c \in RunningFor(s) : ctr[c].again

FreePorts(c) ==
    IF ReusePorts THEN {p \in Ids : \A x \in Ids : Running(x) => Port(x) # p}
                  ELSE {c}

StartContainer(s, c, p) ==
    /\ ~NameTaken(s)
    /\ ctr[c] = Unused /\ \A x \in 1..(c - 1) : ctr[x] # Unused
    /\ p \in FreePorts(c)
    /\ ctr' = [RemoveLeftover(s) EXCEPT ![c] =
                 [st |-> "up", svc |-> s, port |-> p, again |-> TRUE]]

\* A start that fails leaves nothing behind: what it created is discarded.
StartFails(s) == ctr' = RemoveLeftover(s)

\* Stop fails for a container that is gone; it removes what it stops.
Removed(c) == [ctr EXCEPT ![c].st = "gone"]
Stops(c) == ctr[c].st # "gone"

\* A container that breaks, a stop or a write that fails for a reason of its
\* own, a restart.
Mishap == mishaps < MaxMishaps /\ mishaps' = mishaps + 1

LetGo(S) == loose' = loose \cup {c \in S \cap Ids : Running(c)}

\* A stop whose failure is ignored.
StopOrNot(c) ==
    \/ ctr' = Removed(c) /\ UNCHANGED <<loose, mishaps>>
    \/ Mishap /\ LetGo({c}) /\ UNCHANGED ctr

(***************************************************************************)
(* service_runtime_state (service_runtime_state_repo.go)                   *)
(***************************************************************************)
\* Bug: the container is dropped whichever it is.
ClearContainer_Any(s, c) == row' = [row EXCEPT ![s] = None]

\* Compare-and-swap on container_id.
ClearContainer(s, c) == row' = IF row[s] = c THEN [row EXCEPT ![s] = None] ELSE row

\* No row, no record: UPDATE ... WHERE finds nothing, and that is no error.
SetContainer(s, c) == row' = IF deleted THEN row ELSE [row EXCEPT ![s] = c]

ListAllActive == {<<s, row[s]>> : s \in {t \in Services : row[t] # None}}
ListEligibleActive == {x \in ListAllActive : x[1] \in Eligible}

\* InitializeForDeployment: every service with the container its deployment
\* started for it.
RuntimeInit ==
    /\ LET first == CHOOSE f \in [Services -> 1..Cardinality(Services)] :
                        \A s, t \in Services : f[s] = f[t] => s = t
       IN /\ ctr = [c \in Ids |->
                      IF c > Cardinality(Services) THEN Unused
                      ELSE [st |-> "up", svc |-> CHOOSE s \in Services : first[s] = c,
                            port |-> c, again |-> FALSE]]
          /\ row = first
          /\ listed = {first[s] : s \in Services}
    /\ deleted = FALSE
    /\ job = [j \in Jobs |-> Quiet]
    /\ failures = [s \in Services |-> 0]
    /\ recent = [s \in Services |-> 0]
    /\ loose = {} /\ mishaps = 0 /\ restarts = 0

(***************************************************************************)
(* A replacement: started, health-checked, recorded.                       *)
(***************************************************************************)
Replacers == Services \cup {"monitor", "owner"}

\* The monitor goes on to the next service of its sweep; a restart ends at
\* the first that fails.
NextService(j) ==
    job' = [job EXCEPT ![j] =
        CASE j = "monitor" -> [Quiet EXCEPT !.pc = "probe", !.todo = job[j].todo]
          [] OTHER -> Quiet]

Start(j) ==
    /\ At(j, "start")
    /\ \/ \E c, p \in Ids :
            /\ StartContainer(Svc(j), c, p)
            /\ job' = [job EXCEPT ![j].pc = "check", ![j].new = c]
       \/ /\ StartFails(Svc(j))
          /\ IF j = "monitor" THEN Goto(j, "adopt") ELSE NextService(j)
    /\ UNCHANGED <<row, deleted, listed, mind, world>>

\* HealthCheck polls the port, whoever answers there.
Check(j) ==
    /\ At(j, "check")
    /\ IF Answers(Port(job[j].new))
       THEN Goto(j, "record") /\ UNCHANGED <<ctr, loose, mishaps>>
       ELSE NextService(j) /\ StopOrNot(job[j].new)
    /\ UNCHANGED <<row, deleted, listed, mind, restarts>>

\* A container that exited since its check has given up its name: recorded
\* now, it takes the place of one that was started and recorded meanwhile.
Overwritten(j) == IF Running(job[j].new) THEN {} ELSE {row[Svc(j)]}

Record(j) ==
    /\ At(j, "record")
    /\ SetContainer(Svc(j), job[j].new)
    /\ LetGo(Overwritten(j))
    /\ recent' = IF j = "monitor" THEN [recent EXCEPT ![Svc(j)] = @ + 1] ELSE recent
    /\ IF j = "owner"
       THEN job' = [job EXCEPT ![j] = [Quiet EXCEPT !.pc = "restart", !.todo = job[j].todo,
                                         !.done = job[j].done \cup {job[j].new}]]
       ELSE NextService(j)
    /\ UNCHANGED <<ctr, deleted, listed, failures, mishaps, restarts>>

\* The container that could not be recorded is not stopped.
RecordFails(j) ==
    /\ At(j, "record")
    /\ Mishap /\ LetGo({job[j].new})
    /\ NextService(j)
    /\ UNCHANGED <<ctr, row, deleted, listed, mind, restarts>>

(***************************************************************************)
(* Scale to zero (scale_service.go)                                        *)
(***************************************************************************)
\* EnsureRunning: requests for one service share one cold start, which
\* outlives them.
ColdStart(s) ==
    /\ At(s, "idle")
    /\ ~deleted /\ row[s] = None
    /\ job' = [job EXCEPT ![s] = [Quiet EXCEPT !.pc = "start", !.svc = s]]
    /\ UNCHANGED <<ctr, row, deleted, listed, mind, world>>

\* SweepIdle: which of the eligible services have been idle is up to their
\* requests.
IdleList ==
    /\ At("sweep", "idle")
    /\ \E idle \in SUBSET ListEligibleActive \ {{}} :
          job' = [job EXCEPT !["sweep"].pc = "stop", !["sweep"].todo = idle]
    /\ UNCHANGED <<ctr, row, deleted, listed, mind, world>>

IdleStop ==
    /\ At("sweep", "stop")
    /\ \/ job["sweep"].todo = {} /\ Return("sweep") /\ UNCHANGED <<ctr, mishaps>>
       \/ \E x \in job["sweep"].todo :
            \/ /\ Stops(x[2]) /\ ctr' = Removed(x[2])
               /\ job' = [job EXCEPT !["sweep"] =
                    [@ EXCEPT !.pc = "clear", !.svc = x[1], !.old = x[2],
                             !.todo = job["sweep"].todo \ {x}]]
               /\ UNCHANGED mishaps
            \/ /\ Mishap \/ (~Stops(x[2]) /\ UNCHANGED mishaps)
               /\ job' = [job EXCEPT !["sweep"].todo = @ \ {x}]
               /\ UNCHANGED ctr
    /\ UNCHANGED <<row, deleted, listed, mind, loose, restarts>>

IdleClear ==
    /\ At("sweep", "clear")
    /\ \/ ClearContainer(Svc("sweep"), job["sweep"].old) /\ UNCHANGED mishaps
       \/ Mishap /\ UNCHANGED row
    /\ Goto("sweep", "stop")
    /\ UNCHANGED <<ctr, deleted, listed, mind, loose, restarts>>

(***************************************************************************)
(* Health monitoring (health_service.go)                                   *)
(***************************************************************************)
MonitorList ==
    /\ At("monitor", "idle")
    /\ ListAllActive # {}
    /\ job' = [job EXCEPT !["monitor"].pc = "probe", !["monitor"].todo = ListAllActive]
    /\ UNCHANGED <<ctr, row, deleted, listed, mind, world>>

\* Bug: a failure is forgotten by the next sweep.
Fails_Forgotten(x) == IF Answers(Port(x[2])) THEN 0 ELSE 1

\* recordFailure, resetFailures: how often in a row a listed instance has not
\* answered.
Fails(x) == IF Answers(Port(x[2])) THEN 0 ELSE failures[x[1]] + 1

\* A failed probe counts only when it is the second in a row.
MonitorProbe ==
    /\ At("monitor", "probe")
    /\ \/ job["monitor"].todo = {} /\ Return("monitor") /\ UNCHANGED failures
       \/ \E x \in job["monitor"].todo :
            LET left == job["monitor"].todo \ {x}
            IN /\ failures' = [failures EXCEPT ![x[1]] = Fails(x)]
               /\ job' = [job EXCEPT !["monitor"] =
                    IF Fails(x) < 2 THEN [@ EXCEPT !.todo = left]
                    ELSE [@ EXCEPT !.pc = "claim", !.svc = x[1], !.old = x[2], !.todo = left]]
    /\ UNCHANGED <<ctr, row, deleted, listed, recent, world>>

\* remediate takes the instance out of the serving pool first.  When the row
\* has changed since it was listed, it is left alone.
MonitorClaim ==
    /\ At("monitor", "claim")
    /\ ClearContainer(Svc("monitor"), job["monitor"].old)
    /\ failures' = [failures EXCEPT ![Svc("monitor")] = 0]
    /\ IF row[Svc("monitor")] = job["monitor"].old THEN Goto("monitor", "stop") ELSE NextService("monitor")
    /\ UNCHANGED <<ctr, deleted, listed, recent, world>>

ClaimFails ==
    /\ At("monitor", "claim") /\ Mishap
    /\ NextService("monitor")
    /\ UNCHANGED <<ctr, row, deleted, listed, mind, loose, restarts>>

\* The circuit breaker: restarted often enough lately, it stays down and its
\* owners are told once, or the deployment is rolled back.
MonitorStop ==
    /\ At("monitor", "stop")
    /\ StopOrNot(job["monitor"].old)
    /\ IF recent[Svc("monitor")] < Limit THEN Goto("monitor", "start") ELSE NextService("monitor")
    /\ UNCHANGED <<row, deleted, listed, mind, restarts>>

\* adoptedConcurrentStart: a failed start waits for a request's cold start to
\* record its container; without one it is given up.
MonitorAdopt ==
    /\ At("monitor", "adopt")
    /\ recent' = IF row[Svc("monitor")] = None THEN recent
                 ELSE [recent EXCEPT ![Svc("monitor")] = @ + 1]
    /\ NextService("monitor")
    /\ UNCHANGED <<ctr, row, deleted, listed, failures, world>>

\* A remediation leaves the circuit breaker's window.
WindowPasses(s) ==
    /\ recent[s] > 0
    /\ recent' = [recent EXCEPT ![s] = @ - 1]
    /\ UNCHANGED <<ctr, row, deleted, listed, job, failures, world>>

(***************************************************************************)
(* The owner: a restart, or the next deployment's cutover                  *)
(***************************************************************************)
OwnerRestart ==
    /\ At("owner", "idle") /\ ~deleted
    /\ job' = [job EXCEPT !["owner"].pc = "restart", !["owner"].todo = ListAllActive]
    /\ UNCHANGED <<ctr, row, deleted, listed, mind, world>>

\* An instance that can't be stopped ends the restart.
RestartNext ==
    /\ At("owner", "restart")
    /\ \/ job["owner"].todo = {} /\ Goto("owner", "relist") /\ UNCHANGED <<ctr, mishaps>>
       \/ \E x \in job["owner"].todo :
            \/ /\ Stops(x[2]) /\ ctr' = Removed(x[2])
               /\ job' = [job EXCEPT !["owner"] =
                    [@ EXCEPT !.pc = "start", !.svc = x[1], !.todo = job["owner"].todo \ {x}]]
               /\ UNCHANGED mishaps
            \/ /\ Mishap \/ (~Stops(x[2]) /\ UNCHANGED mishaps)
               /\ Return("owner") /\ UNCHANGED ctr
    /\ UNCHANGED <<row, deleted, listed, mind, loose, restarts>>

\* UpdateContainers: the deployment's record becomes the recycled ones.
Relist ==
    /\ At("owner", "relist")
    /\ listed' = job["owner"].done
    /\ Return("owner")
    /\ UNCHANGED <<ctr, row, deleted, mind, world>>

\* The next deployment is live: this one's recorded containers are stopped,
\* and then its rows deleted.
Retire ==
    /\ At("owner", "idle") /\ ~deleted
    /\ ctr' = [c \in Ids |-> IF c \in listed THEN [ctr[c] EXCEPT !.st = "gone"] ELSE ctr[c]]
    /\ Goto("owner", "delete")
    /\ UNCHANGED <<row, deleted, listed, mind, world>>

DeleteForDeployment ==
    /\ At("owner", "delete")
    /\ deleted' = TRUE
    /\ row' = [s \in Services |-> None]
    /\ Return("owner")
    /\ UNCHANGED <<ctr, listed, mind, world>>

(***************************************************************************)
(* What happens to containers and to the server                            *)
(***************************************************************************)
Breaks(c) ==
    /\ ctr[c].st = "up" /\ Mishap
    /\ \E st \in {"hung", "exited"} : ctr' = [ctr EXCEPT ![c].st = st]
    /\ UNCHANGED <<row, deleted, listed, job, mind, loose, restarts>>

\* Whatever was under way is lost; nothing looks for it at startup.
ServerRestarts ==
    /\ restarts < MaxRestarts /\ Mishap
    /\ restarts' = restarts + 1
    /\ job' = [j \in Jobs |-> Quiet]
    /\ failures' = [s \in Services |-> 0]
    /\ recent' = [s \in Services |-> 0]
    /\ UNCHANGED <<ctr, row, deleted, listed, loose>>

Monitor ==
    \/ MonitorList \/ MonitorProbe \/ MonitorClaim \/ MonitorStop \/ MonitorAdopt
    \/ Start("monitor") \/ Check("monitor") \/ Record("monitor")

RuntimeNext ==
    \/ \E j \in Replacers : Start(j) \/ Check(j) \/ Record(j) \/ RecordFails(j)
    \/ \E s \in Services : ColdStart(s) \/ WindowPasses(s)
    \/ IdleList \/ IdleStop \/ IdleClear
    \/ MonitorList \/ MonitorProbe \/ MonitorClaim \/ ClaimFails \/ MonitorStop \/ MonitorAdopt
    \/ OwnerRestart \/ RestartNext \/ Relist
    \/ Retire \/ DeleteForDeployment
    \/ \E c \in Ids : Breaks(c)
    \/ ServerRestarts

RuntimeSpec == RuntimeInit /\ [][RuntimeNext]_rtVars

\* The health sweeper runs on a ticker for as long as the server does.
RuntimeFairSpec == RuntimeSpec /\ WF_rtVars(Monitor)

(***************************************************************************)
(* Properties                                                              *)
(***************************************************************************)
Held(c) == \E j \in Jobs : c \in {job[j].new, job[j].old}

\* Until its deployment is retired or the server restarts, every container
\* that runs is the one recorded for its service, or somebody is about to
\* record or to stop it: the compare-and-swap of ClearContainer and the order
\* in which the sweeps stop and clear never lose one.  What may be lost is a
\* container that could not be stopped, or not be recorded, and one that was
\* recorded while another start's container had exited and took its place.
Accounted ==
    \A c \in Ids :
        Running(c) /\ ~deleted /\ ~At("owner", "delete") /\ restarts = 0 =>
            row[ctr[c].svc] = c \/ Held(c) \/ c \in loose

\* The routing table doesn't keep a container that doesn't answer: whoever
\* stopped it, and whatever was lost in a restart, the health monitor takes it
\* out (FR-085, health_service.go:166-171).
Stale(s) == row[s] # None /\ ctr[row[s]].st # "up"
StaleRecordHeals == \A s \in Services : []<>~Stale(s)

===============================================================================
