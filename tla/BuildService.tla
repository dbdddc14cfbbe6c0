---------------------------- MODULE BuildService -----------------------------
(***************************************************************************)
(* BuildService.TriggerBuild (service/build_service.go), one request:      *)
(*   newBuild -> toBuild -> begin -> building -> buildFailed               *)
(***************************************************************************)
EXTENDS PlatformStore

\* TriggerBuild's checks, up to the insert.  A deployment in flight is none
\* of its business.
RequestBuild(w) ==
    /\ Free(w, "build")
    /\ app \in {"validated", "running", "failed", "build"}
    /\ ~BuildInFlight
    /\ nBuilds < MaxBuilds
    /\ Become(w, [Idle EXCEPT !.pc = "newBuild", !.op = "build", !.seen = app])
    /\ UNCHANGED <<app, hold, database, depVars, buildVars, runtimeVars, faults, history>>

CreateBuild(w) ==
    /\ Alive(w, "newBuild")
    /\ IF BuildIndexAllows /\ nBuilds < MaxBuilds THEN
          /\ nBuilds' = nBuilds + 1
          /\ builds' = [builds EXCEPT ![nBuilds + 1] = "queued"]
          /\ Become(w, [job[w] EXCEPT !.build = nBuilds + 1, !.pc = "toBuild"])
       ELSE Return(w) /\ UNCHANGED buildVars
    /\ UNCHANGED <<app, hold, database, depVars, runtimeVars, faults, history>>

\* If the application moved meanwhile the handler returns, its build queued.
MoveToBuild(w) ==
    /\ Alive(w, "toBuild")
    /\ IF app = job[w].seen THEN app' = "build" /\ Goto(w, "begin")
       ELSE Return(w) /\ UNCHANGED app
    /\ UNCHANGED <<hold, database, depVars, buildVars, runtimeVars, faults, history>>

MarkInProgress(w) ==
    /\ Alive(w, "begin")
    /\ builds' = [builds EXCEPT ![job[w].build] = "in_progress"]
    /\ Goto(w, "building")
    /\ UNCHANGED <<app, hold, database, depVars, nBuilds, runtimeVars, faults, history>>

\* Keeping the source, the dependency rules and the engine, then the outcome;
\* a failure is recorded whether or not the caller is still there.
FinishBuild(w) ==
    /\ At(w, "building")
    /\ \/ /\ job[w].alive
          /\ builds' = [builds EXCEPT ![job[w].build] = "succeeded"]
          /\ Return(w)
       \/ /\ builds' = [builds EXCEPT ![job[w].build] = "failed"]
          /\ Goto(w, "buildFailed")
    /\ UNCHANGED <<app, hold, database, depVars, nBuilds, runtimeVars, faults, history>>

RestoreStatus(w) ==
    /\ At(w, "buildFailed")
    /\ app' = IF app # "build" THEN app
              ELSE IF job[w].seen \in {"running", "build"} THEN job[w].seen ELSE "failed"
    /\ Return(w)
    /\ UNCHANGED <<hold, database, depVars, buildVars, runtimeVars, faults, history>>

\* MarkSucceeded is made with the request's context: a caller that went away
\* between the engine's answer and this write leaves the build in progress.
LoseOutcome(w) ==
    /\ At(w, "building") /\ ~job[w].alive
    /\ Return(w)
    /\ UNCHANGED <<app, hold, database, depVars, buildVars, runtimeVars, faults, history>>

BuildContextPcs == {"newBuild", "toBuild", "begin"}

BuildStep(w) ==
    \/ CreateBuild(w) \/ MoveToBuild(w) \/ MarkInProgress(w)
    \/ FinishBuild(w) \/ LoseOutcome(w) \/ RestoreStatus(w)
=============================================================================
