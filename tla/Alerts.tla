--------------------------------- MODULE Alerts ---------------------------------
(***************************************************************************)
(* One alert (alert_service.go over alert_repo.go): the sweep judges the   *)
(* measurements against the row it finds and announces what changed.  A    *)
(* case of Evaluate is up to two writes, and the server may go down        *)
(* between them.                                                           *)
(***************************************************************************)
EXTENDS Integers, Sequences

CONSTANT MaxAlertFaults     \* bound: measurements, writes, notifications that fail; restarts

ASSUME AlertsAssumption == MaxAlertFaults \in Nat

VARIABLES
    level,          \* what the measurements say: 0 fine, 1 warning, 2 critical
    firing,         \* alert_states: the level, and whether a reminder is due
    announced,      \* the level last announced, 0 once it is that it cleared
    told,           \* the level an owner last heard of
    sweep, alertFaults

alertVars == <<level, firing, announced, told, sweep, alertFaults>>
heard == <<announced, told>>

NoAlert == [level |-> 0, due |-> FALSE]
NoEvaluation == [todo |-> <<>>, level |-> 0, kind |-> "fine"]
InSweep(step) == sweep.todo # <<>> /\ Head(sweep.todo) = step
Done == sweep' = [sweep EXCEPT !.todo = Tail(@)]
AlertFails == alertFaults < MaxAlertFaults /\ alertFaults' = alertFaults + 1

Measure ==
    /\ level' \in (0..2) \ {level}
    /\ UNCHANGED <<firing, heard, sweep, alertFaults>>

ReminderDue ==
    /\ firing # NoAlert /\ ~firing.due /\ firing' = [firing EXCEPT !.due = TRUE]
    /\ UNCHANGED <<level, heard, sweep, alertFaults>>

\* Evaluate's cases.
CaseOf(l) ==
    IF l = 0 THEN IF firing = NoAlert THEN "fine" ELSE "resolved"
    ELSE IF firing = NoAlert THEN "fired"
    ELSE IF l > firing.level THEN "escalated"
    ELSE IF firing.due THEN "reminded" ELSE "kept"

\* Bug: the row goes before its owners are told.
Steps_RowFirst(kind) ==
    CASE kind = "fine" -> <<>>
      [] kind = "resolved" -> <<"delete", "announce">>
      [] kind = "kept" -> <<"put">>
      [] OTHER -> <<"put", "announce">>

Steps(kind) ==
    CASE kind = "fine" -> <<>>
      [] kind = "resolved" -> <<"announce", "delete">>
      [] kind = "kept" -> <<"put">>
      [] OTHER -> <<"put", "announce">>

Judge(l) == sweep' = [todo |-> Steps(CaseOf(l)), level |-> l, kind |-> CaseOf(l)]

\* A measurement that fails leaves its key out: nothing to judge any more.
Evaluate ==
    /\ sweep.todo = <<>>
    /\ \/ Judge(level) /\ UNCHANGED alertFaults
       \/ Judge(0) /\ level # 0 /\ AlertFails
    /\ UNCHANGED <<level, firing, heard>>

\* Bug: keeping an alert counts as telling of it.
Due_Never == FALSE

Due == sweep.kind = "kept" /\ firing.due

\* A failed write of a new alert leaves it to the next sweep; of another is
\* ignored.
PutState ==
    /\ InSweep("put")
    /\ \/ /\ firing' = [level |-> sweep.level, due |-> Due]
          /\ Done /\ UNCHANGED alertFaults
       \/ /\ AlertFails /\ UNCHANGED firing
          /\ IF sweep.kind = "fired" THEN sweep' = [sweep EXCEPT !.todo = <<>>] ELSE Done
    /\ UNCHANGED <<level, heard>>

\* A notification that fails is logged, and the case goes on.
Announce ==
    /\ InSweep("announce")
    /\ announced' = IF sweep.kind = "resolved" THEN 0 ELSE sweep.level
    /\ \/ told' = announced' /\ UNCHANGED alertFaults
       \/ UNCHANGED told /\ AlertFails
    /\ Done
    /\ UNCHANGED <<level, firing>>

DeleteState ==
    /\ InSweep("delete")
    /\ \/ firing' = NoAlert /\ UNCHANGED alertFaults
       \/ UNCHANGED firing /\ AlertFails
    /\ Done
    /\ UNCHANGED <<level, heard>>

AlertServerDown ==
    /\ sweep.todo # <<>> /\ AlertFails
    /\ sweep' = NoEvaluation
    /\ UNCHANGED <<level, firing, heard>>

AlertsInit ==
    /\ level = 0 /\ firing = NoAlert /\ announced = 0 /\ told = 0
    /\ sweep = NoEvaluation /\ alertFaults = 0

Sweeping == Evaluate \/ PutState \/ Announce \/ DeleteState
AlertsNext == Measure \/ ReminderDue \/ Sweeping \/ AlertServerDown
AlertsSpec == AlertsInit /\ [][AlertsNext]_alertVars
\* The ticker keeps sweeping, and an hour passes.
AlertsFairness == WF_alertVars(Sweeping) /\ WF_alertVars(ReminderDue)
AlertsFairSpec == AlertsSpec /\ AlertsFairness

(***************************************************************************)
(* Properties                                                              *)
(***************************************************************************)
\* A problem that lasts becomes known at its level, and the end of one is
\* announced: the reminder makes up for a notification that failed, or that a
\* restart swallowed after the row was written, and for an alert that came
\* back between its "resolved" and the delete (alert_service.go:207-247).
\* Nothing makes up for a "resolved" that failed: its row is deleted.
Known == <>[][FALSE]_level => <>[](IF level = 0 THEN announced = 0 ELSE told = level)

\* An alert is announced as new only after the end of the one before it was,
\* whether or not that notification arrived.
FiredAfterResolved ==
    [][sweep.kind = "fired" /\ InSweep("announce") /\ sweep' = [sweep EXCEPT !.todo = Tail(@)]
          => announced = 0]_alertVars
================================================================================
