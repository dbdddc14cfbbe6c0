-------------------------- MODULE LifecycleService ---------------------------
(***************************************************************************)
(* LifecycleService (service/lifecycle_service.go, admin_hold.go) and the  *)
(* sweep that removes failed applications (failed_cleanup.go).             *)
(*                                                                         *)
(*   suspend: [hold ->] stop -> suspended -> unlist -> toSuspended         *)
(*            [-> unhold]                                                  *)
(*   resume:  resume -> resumed -> list -> toRunning [-> release]          *)
(*   restart: recycle -> relist -> touch                                   *)
(*   archive: stop -> unlist -> archived -> toArchived                     *)
(*   delete:  stop -> deprovision -> toDeleted                             *)
(*   cleanup: remove -> (delete)                                           *)
(***************************************************************************)
EXTENDS PlatformStore

Start(w, op, pc, d) ==
    Become(w, [Idle EXCEPT !.pc = pc, !.op = op, !.dep = d, !.seen = app])

LatestIs(s) == nDeps > 0 /\ deps[nDeps].status = s

\* Bug: the latest deployment is taken for the one that is running.
RequestSuspend_Latest(w) ==
    /\ Free(w, "suspend")
    /\ app = "running" /\ nDeps > 0
    /\ Start(w, "suspend", "stop", nDeps)
    /\ UNCHANGED <<app, hold, database, depVars, buildVars, runtimeVars, faults, history>>

RequestSuspend(w) ==
    /\ Free(w, "suspend")
    /\ app = "running" /\ LatestIs("running")
    /\ Start(w, "suspend", "stop", nDeps)
    /\ UNCHANGED <<app, hold, database, depVars, buildVars, runtimeVars, faults, history>>

\* AdminSuspend's checks: a running application's latest deployment must be
\* the running one; one its owners suspended is only held.
AdminSuspendable ==
    /\ app \in {"running", "suspended"}
    /\ nDeps > 0
    /\ app = "running" => LatestIs("running")

RequestAdminSuspend(w) ==
    /\ Free(w, "adminSuspend")
    /\ AdminSuspendable
    /\ Start(w, "adminSuspend", "hold", nDeps)
    /\ UNCHANGED <<app, hold, database, depVars, buildVars, runtimeVars, faults, history>>

PlaceHold(w) ==
    /\ Alive(w, "hold")
    /\ hold' = TRUE
    /\ IF job[w].seen = "running" THEN Goto(w, "stop") ELSE Return(w)
    /\ UNCHANGED <<app, database, depVars, buildVars, runtimeVars, faults, history>>

\* stopAllContainers: what the runtime rows name.  A container that doesn't
\* stop, or is gone already, is only logged and its row kept.
AfterStop(w) ==
    CASE job[w].op \in {"suspend", "adminSuspend"} -> "suspended"
      [] job[w].op = "archive" -> "unlist"
      [] OTHER -> "deprovision"

StopAllContainers(w) ==
    LET d == job[w].dep IN
    /\ Alive(w, "stop")
    /\ StopContainers(rows \cap {d})
    /\ rows' = IF faults' = faults THEN rows \ (up \cap {d}) ELSE rows
    /\ Goto(w, AfterStop(w))
    /\ UNCHANGED <<app, hold, database, depVars, buildVars, history>>

SetSuspended(w) ==
    /\ Alive(w, "suspended")
    /\ SetStatus(job[w].dep, "suspended")
    /\ Goto(w, "unlist")
    /\ UNCHANGED <<app, hold, database, nDeps, buildVars, runtimeVars, faults, history>>

\* UpdateContainers with none.
Unlist(w) ==
    /\ Alive(w, "unlist")
    /\ deps' = [deps EXCEPT ![job[w].dep].listed = FALSE]
    /\ Goto(w, IF job[w].op = "archive" THEN "archived" ELSE "toSuspended")
    /\ UNCHANGED <<app, hold, database, nDeps, buildVars, runtimeVars, faults, history>>

MoveToSuspended(w) ==
    /\ Alive(w, "toSuspended")
    /\ app' = IF app = "running" THEN "suspended" ELSE app
    /\ IF app # "running" /\ job[w].op = "adminSuspend" THEN Goto(w, "unhold") ELSE Return(w)
    /\ UNCHANGED <<hold, database, depVars, buildVars, runtimeVars, faults, history>>

\* A hold that couldn't be carried out is lifted.
RemoveHold(w) ==
    /\ Alive(w, "unhold")
    /\ hold' = FALSE
    /\ Return(w)
    /\ UNCHANGED <<app, database, depVars, buildVars, runtimeVars, faults, history>>

-----------------------------------------------------------------------------
RequestResume(w) ==
    /\ Free(w, "resume")
    /\ ~hold
    /\ app = "suspended" /\ LatestIs("suspended")
    /\ Start(w, "resume", "resume", nDeps)
    /\ UNCHANGED <<app, hold, database, depVars, buildVars, runtimeVars, faults, history>>

\* AdminResume: the hold goes once the application, if suspended, is back.
RequestAdminResume(w) ==
    /\ Free(w, "adminResume")
    /\ hold
    /\ app = "suspended" => LatestIs("suspended")
    /\ Start(w, "adminResume", IF app = "suspended" THEN "resume" ELSE "release", nDeps)
    /\ UNCHANGED <<app, hold, database, depVars, buildVars, runtimeVars, faults, history>>

\* The services that never scale to zero start again, each checked and
\* recorded (prev remembers whether there is one); one that fails ends the
\* request with those before it started.
ResumeContainers(w) ==
    LET d == job[w].dep IN
    /\ At(w, "resume")
    /\ \/ /\ job[w].alive
          /\ \E started \in SUBSET {d} :
                /\ up' = up \cup started /\ rows' = rows \cup started
                /\ Become(w, [job[w] EXCEPT !.pc = "resumed",
                                            !.prev = IF started = {} THEN 0 ELSE d])
       \/ up' \in {up, up \cup {d}} /\ rows' \in {rows, rows \cup {d}} /\ Return(w)
    /\ UNCHANGED <<app, hold, database, depVars, buildVars, faults, history>>

SetResumed(w) ==
    /\ Alive(w, "resumed")
    /\ SetStatus(job[w].dep, "running")
    /\ Goto(w, "list")
    /\ UNCHANGED <<app, hold, database, nDeps, buildVars, runtimeVars, faults, history>>

List(w) ==
    /\ Alive(w, "list")
    /\ deps' = [deps EXCEPT ![job[w].dep].listed = job[w].prev # 0]
    /\ Goto(w, "toRunning")
    /\ UNCHANGED <<app, hold, database, nDeps, buildVars, runtimeVars, faults, history>>

MoveToRunning(w) ==
    /\ Alive(w, "toRunning")
    /\ app' = IF app = "suspended" THEN "running" ELSE app
    /\ IF app = "suspended" /\ job[w].op = "adminResume" THEN Goto(w, "release") ELSE Return(w)
    /\ UNCHANGED <<hold, database, depVars, buildVars, runtimeVars, faults, history>>

ReleaseHold(w) ==
    /\ Alive(w, "release")
    /\ hold' = FALSE
    /\ Return(w)
    /\ UNCHANGED <<app, database, depVars, buildVars, runtimeVars, faults, history>>

-----------------------------------------------------------------------------
RequestRestart(w) ==
    /\ Free(w, "restart")
    /\ app = "running" /\ LatestIs("running")
    /\ Start(w, "restart", "recycle", nDeps)
    /\ UNCHANGED <<app, hold, database, depVars, buildVars, runtimeVars, faults, history>>

\* Each service with an instance gets a new one (remembered in prev), which
\* the deployment's record doesn't name yet.  An instance that is gone can't
\* be stopped, which ends the request; a new one failing leaves the row
\* naming the one that was stopped.
Recycle(w) ==
    LET d == job[w].dep  recycled == rows \cap {d} IN
    /\ At(w, "recycle")
    /\ \/ /\ job[w].alive /\ recycled \subseteq up
          /\ deps' = [deps EXCEPT ![d].listed = @ /\ recycled = {}]
          /\ Become(w, [job[w] EXCEPT !.pc = "relist",
                                      !.prev = IF recycled = {} THEN 0 ELSE d])
          /\ UNCHANGED up
       \/ /\ up' \in {up, up \ recycled}
          /\ \E all \in {TRUE, recycled = {}} :
                deps' = [deps EXCEPT ![d].listed = @ /\ all]
          /\ Return(w)
    /\ UNCHANGED <<app, hold, database, nDeps, buildVars, rows, faults, history>>

Relist(w) ==
    /\ Alive(w, "relist")
    /\ deps' = [deps EXCEPT ![job[w].dep].listed = job[w].prev # 0]
    /\ Goto(w, "touch")
    /\ UNCHANGED <<app, hold, database, nDeps, buildVars, runtimeVars, faults, history>>

\* SetStatus(running) again, to bump updated_at.
TouchRunning(w) ==
    /\ Alive(w, "touch")
    /\ SetStatus(job[w].dep, "running")
    /\ Return(w)
    /\ UNCHANGED <<app, hold, database, nDeps, buildVars, runtimeVars, faults, history>>

-----------------------------------------------------------------------------
RequestArchive(w) ==
    /\ Free(w, "archive")
    /\ ~hold
    /\ app \in {"running", "suspended"}
    /\ ~LatestInFlight
    /\ Start(w, "archive",
             CASE LatestIs("running") -> "stop"
               [] LatestIs("suspended") -> "archived"
               [] OTHER -> "toArchived", nDeps)
    /\ UNCHANGED <<app, hold, database, depVars, buildVars, runtimeVars, faults, history>>

SetArchived(w) ==
    /\ Alive(w, "archived")
    /\ SetStatus(job[w].dep, "archived")
    /\ Goto(w, "toArchived")
    /\ UNCHANGED <<app, hold, database, nDeps, buildVars, runtimeVars, faults, history>>

MoveToArchived(w) ==
    /\ Alive(w, "toArchived")
    /\ app' = IF app = job[w].seen THEN "archived" ELSE app
    /\ Return(w)
    /\ UNCHANGED <<hold, database, depVars, buildVars, runtimeVars, faults, history>>

-----------------------------------------------------------------------------
\* requireNothingLive
NothingLive ==
    /\ \A d \in Dep : deps[d].status # "running" /\ ~InFlight(d)
    /\ ~BuildInFlight

Deletable ==
    /\ ~hold
    /\ \/ app \in {"archived", "suspended"}
       \/ app \in {"validated", "build", "failed"} /\ NothingLive

StartDelete(w, op) == Start(w, op, IF nDeps > 0 THEN "stop" ELSE "deprovision", nDeps)

RequestDelete(w) ==
    /\ Free(w, "delete")
    /\ Deletable
    /\ StartDelete(w, "delete")
    /\ UNCHANGED <<app, hold, database, depVars, buildVars, runtimeVars, faults, history>>

\* FailedCleanupService.Sweep finds a failed application that never ran (one
\* sweep at a time), tells its owners, and deletes it.
SweepFailed(w) ==
    /\ Free(w, "cleanup")
    /\ \A v \in Workers : job[v].op # "cleanup"
    /\ app = "failed" /\ ~EverRan
    /\ Start(w, "cleanup", "remove", 0)
    /\ UNCHANGED <<app, hold, database, depVars, buildVars, runtimeVars, faults, history>>

RemoveFailed(w) ==
    /\ Alive(w, "remove")
    /\ IF Deletable THEN StartDelete(w, "cleanup") ELSE Return(w)
    /\ UNCHANGED <<app, hold, database, depVars, buildVars, runtimeVars, faults, history>>

Deprovision(w) ==
    /\ Alive(w, "deprovision")
    /\ database' = FALSE
    /\ Goto(w, "toDeleted")
    /\ UNCHANGED <<app, hold, depVars, buildVars, runtimeVars, faults, history>>

MoveToDeleted(w) ==
    /\ Alive(w, "toDeleted")
    /\ app' = IF app = job[w].seen THEN "deleted" ELSE app
    /\ Return(w)
    /\ UNCHANGED <<hold, database, depVars, buildVars, runtimeVars, faults, history>>

LifecycleContextPcs ==
    {"hold", "stop", "suspended", "unlist", "toSuspended", "unhold", "resumed", "list",
     "toRunning", "release", "relist", "touch", "archived", "toArchived", "remove",
     "deprovision", "toDeleted"}

LifecycleRequest(w) ==
    \/ RequestSuspend(w) \/ RequestAdminSuspend(w) \/ RequestResume(w)
    \/ RequestAdminResume(w) \/ RequestRestart(w) \/ RequestArchive(w)
    \/ RequestDelete(w) \/ SweepFailed(w)

LifecycleStep(w) ==
    \/ PlaceHold(w) \/ StopAllContainers(w) \/ SetSuspended(w) \/ Unlist(w)
    \/ MoveToSuspended(w) \/ RemoveHold(w) \/ ResumeContainers(w) \/ SetResumed(w)
    \/ List(w) \/ MoveToRunning(w) \/ ReleaseHold(w) \/ Recycle(w) \/ Relist(w)
    \/ TouchRunning(w) \/ SetArchived(w) \/ MoveToArchived(w) \/ RemoveFailed(w)
    \/ Deprovision(w) \/ MoveToDeleted(w)
=============================================================================
