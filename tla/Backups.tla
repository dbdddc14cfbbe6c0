-------------------------------- MODULE Backups --------------------------------
(***************************************************************************)
(* The backups of one database (backup_service.go): full and differential  *)
(* ones, retention, restores, copies of a dev copy's data, and the purge   *)
(* when the application is deleted.  Backups are numbered in the order     *)
(* they were begun, which is the order of TakenAt.                         *)
(*                                                                         *)
(*   dump -> write -> record [-> older] [-> restore]                       *)
(***************************************************************************)
EXTENDS Integers, FiniteSets

CONSTANTS
    Requests,       \* owners' requests at once
    MaxBackups,     \* bound: backups begun
    MaxDays,        \* bound: days
    FullDays,       \* the days a scheduled backup is a full one
    MaxBkFaults,    \* bound: calls that fail, crashes
    BkOps           \* what owners ask for

ASSUME BkAssumption ==
    /\ {MaxBackups, MaxDays, MaxBkFaults} \subseteq Nat
    /\ FullDays \subseteq 1..MaxDays
    /\ BkOps \subseteq {"full", "diff", "restore", "copy", "purge"}

VARIABLES
    bk,         \* database_backups, and what is still being taken
    file,       \* the backups whose file is on disk
    gone,       \* the database is deprovisioned
    day,
    bkJob, bkFaults

bkVars == <<bk, file, gone, day, bkJob, bkFaults>>

Backup == 1..MaxBackups
BkActors == {"sweep"} \cup Requests
Blank == [st |-> "unused", kind |-> "none", base |-> 0, on |-> 0, daily |-> FALSE]
Free == [pc |-> "idle", id |-> 0, to |-> "idle"]

Is(a, pc) == bkJob[a].pc = pc
Id(a) == bkJob[a].id
Move(a, pc) == bkJob' = [bkJob EXCEPT ![a].pc = pc]
Finished(a) == bkJob' = [bkJob EXCEPT ![a] = Free]
Onward(a) == IF bkJob[a].to = "idle" THEN Finished(a) ELSE Move(a, bkJob[a].to)
Fault == bkFaults < MaxBkFaults /\ bkFaults' = bkFaults + 1

(***************************************************************************)
(* backup_repo.go                                                          *)
(***************************************************************************)
Succeeded == {i \in Backup : bk[i].st = "succeeded"}
Undeleted == {i \in Backup : bk[i].st \in {"succeeded", "failed"}}
Fulls == {i \in Succeeded : bk[i].kind = "full"}
LatestFull == CHOOSE i \in Fulls : \A j \in Fulls : j <= i

\* Bug: the new full is among the ones it replaces.
OlderThan_OrEqual(i) == {j \in Undeleted : j <= i}

OlderThan(i) == {j \in Undeleted : j < i}

\* Bug: an attempt that failed counts like one that succeeded.
DoneToday_Attempted == \E i \in Backup : bk[i].daily /\ bk[i].on = day /\ bk[i].st \notin {"unused", "taking"}

\* LastAttempt: a success of today's comes first; a failure is tried again
\* after RetryAfter.  Deleting a backup forgets how it went.
DoneToday == \E i \in Succeeded : bk[i].daily /\ bk[i].on = day

(***************************************************************************)
(* take                                                                    *)
(***************************************************************************)
\* A differential is against the latest full; without one it is a full.
Take(a, kind, daily, to) ==
    \E i \in Backup :
        /\ bk[i] = Blank /\ \A j \in 1..(i - 1) : bk[j] # Blank
        /\ bk' = [bk EXCEPT ![i] =
             [st |-> "taking", on |-> day, daily |-> daily,
              kind |-> IF Fulls = {} THEN "full" ELSE kind,
              base |-> IF Fulls = {} \/ kind = "full" THEN 0 ELSE LatestFull]]
        /\ bkJob' = [bkJob EXCEPT ![a] = [pc |-> "dump", id |-> i, to |-> to]]

\* Scheduled: each day once, a full on its day of the week.
RunScheduled ==
    /\ Is("sweep", "idle") /\ ~gone /\ ~DoneToday
    /\ Take("sweep", IF day \in FullDays THEN "full" ELSE "diff", TRUE, "idle")
    /\ UNCHANGED <<file, gone, day, bkFaults>>

BackupNow(r) ==
    /\ Is(r, "idle") /\ ~gone
    /\ \E kind \in {"full", "diff"} \cap BkOps : Take(r, kind, FALSE, "idle")
    /\ UNCHANGED <<file, gone, day, bkFaults>>

\* dumpOf needs the file, and a differential its base's.
Readable(i) == i \in file /\ (bk[i].kind = "diff" => bk[i].base \in file)
Restorable(i) == bk[i].st = "succeeded" /\ Readable(i)

\* Restore reads the chosen backup first, then backs up what is there now: a
\* differential, not to retire the week's set.
Restore(r) ==
    /\ "restore" \in BkOps /\ Is(r, "idle") /\ ~gone
    /\ \E i \in Backup : Restorable(i)
    /\ Take(r, "diff", FALSE, "restore")
    /\ UNCHANGED <<file, gone, day, bkFaults>>

\* CopyDatabase: the dev copy's data has been read; production is backed up in
\* full.
CopyDatabase(r) ==
    /\ "copy" \in BkOps /\ Is(r, "idle") /\ ~gone
    /\ Take(r, "full", FALSE, "restore")
    /\ UNCHANGED <<file, gone, day, bkFaults>>

\* A backup that fails is recorded so, without a base or a file.
Failed(a) ==
    /\ bk' = [bk EXCEPT ![Id(a)] = [@ EXCEPT !.st = "failed", !.base = 0]]
    /\ Finished(a)

\* Wakes the database and dumps it; a differential reads its base's file, and
\* it is not there any more when a full has meanwhile retired it.
Dump(a) ==
    /\ Is(a, "dump")
    /\ \/ ~gone /\ (bk[Id(a)].kind = "diff" => Readable(bk[Id(a)].base))
            /\ Move(a, "write") /\ UNCHANGED <<bk, bkFaults>>
       \/ gone /\ Failed(a) /\ UNCHANGED bkFaults
       \/ bk[Id(a)].kind = "diff" /\ ~Readable(bk[Id(a)].base) /\ Failed(a) /\ UNCHANGED bkFaults
       \/ Fault /\ Failed(a)
    /\ UNCHANGED <<file, gone, day>>

WriteFile(a) ==
    /\ Is(a, "write")
    /\ \/ file' = file \cup {Id(a)} /\ Move(a, "record") /\ UNCHANGED <<bk, bkFaults>>
       \/ Fault /\ Failed(a) /\ UNCHANGED file
    /\ UNCHANGED <<gone, day>>

\* A backup that can't be recorded takes its file with it.
Record(a) ==
    /\ Is(a, "record")
    /\ \/ /\ bk' = [bk EXCEPT ![Id(a)].st = "succeeded"]
          /\ IF bk[Id(a)].kind = "full" THEN Move(a, "older") ELSE Onward(a)
          /\ UNCHANGED <<file, bkFaults>>
       \/ /\ Fault
          /\ file' = file \ {Id(a)}
          /\ bk' = [bk EXCEPT ![Id(a)].st = "lost"]
          /\ Finished(a)
    /\ UNCHANGED <<gone, day>>

(***************************************************************************)
(* Retention: dropOlder, and the purge of a deleted application            *)
(***************************************************************************)
\* remove: the file first, then the record; what fails, or a crash leaves
\* behind, is left to the next full.
Remove(old) ==
    \/ /\ file' = file \ old
       /\ bk' = [i \in Backup |-> IF i \in old THEN [bk[i] EXCEPT !.st = "deleted"] ELSE bk[i]]
       /\ UNCHANGED bkFaults
    \/ /\ Fault
       /\ \E rest \in SUBSET old : file' = file \ rest
       /\ UNCHANGED bk

DropOlder(a) ==
    /\ Is(a, "older")
    /\ Remove(OlderThan(Id(a)))
    /\ Onward(a)
    /\ UNCHANGED <<gone, day>>

PurgeApplication(r) ==
    /\ "purge" \in BkOps /\ Is(r, "idle") /\ ~gone
    /\ gone' = TRUE
    /\ Remove(Undeleted)
    /\ UNCHANGED <<day, bkJob>>

\* RestoreDatabase replaces object after object and may fail half way.
RestoreDatabase(a) ==
    /\ Is(a, "restore")
    /\ Finished(a)
    /\ UNCHANGED <<bk, file, gone, day, bkFaults>>

(***************************************************************************)
(* Specification                                                           *)
(***************************************************************************)
NextDay ==
    /\ day < MaxDays /\ day' = day + 1
    /\ UNCHANGED <<bk, file, gone, bkJob, bkFaults>>

\* A crash loses whatever is being taken; its file, if written, stays.
BkCrash ==
    /\ Fault
    /\ bk' = [i \in Backup |-> IF bk[i].st = "taking" THEN [bk[i] EXCEPT !.st = "lost"] ELSE bk[i]]
    /\ bkJob' = [a \in BkActors |-> Free]
    /\ UNCHANGED <<file, gone, day>>

BkInit ==
    /\ bk = [i \in Backup |-> Blank] /\ file = {} /\ gone = FALSE /\ day = 1
    /\ bkFaults = 0
    /\ bkJob = [a \in BkActors |-> Free]

Goes(a) ==
    Dump(a) \/ WriteFile(a) \/ Record(a) \/ DropOlder(a) \/ RestoreDatabase(a)

BkNext ==
    \/ RunScheduled \/ NextDay \/ BkCrash
    \/ \E r \in Requests : BackupNow(r) \/ Restore(r) \/ CopyDatabase(r) \/ PurgeApplication(r)
    \/ \E a \in BkActors : Goes(a)

BkSpec == BkInit /\ [][BkNext]_bkVars

\* The scheduler sweeps for as long as the server runs.
BkFairSpec == BkSpec /\ WF_bkVars(RunScheduled \/ Goes("sweep"))

(***************************************************************************)
(* Properties                                                              *)
(***************************************************************************)
\* "Only after success, so a failed Sunday never leaves the database without
\* a backup" (backup_service.go:333-335): from the first success on there is
\* always one to restore, whoever takes, retires or restores at the same time
\* and wherever it fails.
Ever == \E i \in Backup : bk[i].st \in {"succeeded", "deleted"}
AlwaysOne == Ever /\ ~gone => \E i \in Backup : Restorable(i)

Room == bk[MaxBackups] = Blank
BackedUp == \E i \in Backup : bk[i].on = day /\ bk[i].daily /\ bk[i].st \in {"succeeded", "deleted"}
===============================================================================
