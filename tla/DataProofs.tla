------------------------------ MODULE DataProofs -------------------------------
(***************************************************************************)
(* Theorems about Backups, DevCopies, Databases and BackupDelta, for any   *)
(* requests, dumps and bounds: what retention keeps, when a dev copy's row *)
(* ends, where a database's password is, and what a differential restores. *)
(***************************************************************************)
EXTENDS Backups, DevCopies, Databases, BackupDelta, FiniteSetTheorems, SequenceTheorems, TLAPS

(***************************************************************************)
(* Backups                                                                 *)
(***************************************************************************)
BkStates == {"unused", "taking", "succeeded", "failed", "lost", "deleted"}
BkJobs == [pc : {"idle", "dump", "write", "record", "older", "restore"}, id : Nat, to : {"idle", "restore"}]
Row(b) == b \in [st : BkStates, kind : {"none", "full", "diff"}, base : {b.base}, on : {b.on}, daily : {b.daily}]

BkType ==
    /\ bk = [i \in Backup |-> bk[i]] /\ \A i \in Backup : Row(bk[i])
    /\ bkJob \in [BkActors -> BkJobs]

\* Each backup is taken by one actor, and its file is there when it is
\* recorded.
Taking(j) == j.pc \in {"dump", "write", "record"}
TakingFit(j) ==
    /\ Taking(j) => j.id \in Backup /\ bk[j.id].st = "taking" /\ bk[j.id].kind \in {"full", "diff"}
    /\ j.pc = "record" => j.id \in file
Taken ==
    /\ \A a \in BkActors : TakingFit(bkJob[a])
    /\ \A a, b \in BkActors : Taking(bkJob[a]) /\ Taking(bkJob[b]) /\ Id(a) = Id(b) => a = b

\* A full that succeeded and is on disk, the n-th or a later one.
KeptFrom(n) == \E k \in Fulls : k >= n /\ k \in file

\* Whoever is about to retire what is older than a full leaves that one, or
\* one that has meanwhile retired it.
Retires(j) == j.pc = "older" /\ ~gone => KeptFrom(j.id)
Retiring == \A a \in BkActors : Retires(bkJob[a])

\* A differential is against a full there was.
DiffsFollow == (\E i \in Backup : bk[i].kind = "diff") => Ever
FullKept == Ever /\ ~gone => KeptFrom(1)

BkInv == BkType /\ Taken /\ Retiring /\ DiffsFollow /\ FullKept

LEMMA BkInitial == BkInit => BkInv
<1>. SUFFICES ASSUME BkInit PROVE BkInv
  OBVIOUS
<1>1. /\ Free \in BkJobs /\ Free.pc = "idle" /\ \A a \in BkActors : bkJob[a] = Free
      /\ \A i \in Backup : bk[i] = Blank
  BY DEF BkInit, Free, BkJobs
<1>2. Row(Blank) /\ Blank.st = "unused" /\ Blank.kind = "none"
  BY DEF Blank, Row, BkStates
<1>3. BkType
  BY <1>1, <1>2 DEF BkInit, BkType
<1>4. Taken /\ Retiring
  BY <1>1 DEF Taken, TakingFit, Taking, Retiring, Retires
<1>5. DiffsFollow /\ FullKept
  BY <1>1, <1>2 DEF DiffsFollow, FullKept, Ever
<1>. QED BY <1>3, <1>4, <1>5 DEF BkInv

(***************************************************************************)
(* The kinds of steps                                                      *)
(***************************************************************************)
RowsTyped == bk = [i \in Backup |-> bk[i]] /\ \A i \in Backup : Row(bk[i])

\* An actor goes on: nothing that could be restored is lost by it, and what
\* the others are taking is left alone.
LEMMA BackupMoves ==
    ASSUME BkInv, NEW a \in BkActors, NEW r \in BkJobs, bkJob' = [bkJob EXCEPT ![a] = r],
           RowsTyped', UNCHANGED gone,
           \A k \in Fulls : k \in file => k \in Fulls' /\ k \in file',
           \A b \in BkActors : b # a /\ Taking(bkJob[b]) =>
               /\ bk'[Id(b)] = bk[Id(b)] /\ (Id(b) \in file => Id(b) \in file')
               /\ Taking(r) => r.id # Id(b),
           TakingFit(r)', Retires(r)',
           Ever' => Ever \/ KeptFrom(1)', DiffsFollow'
    PROVE  BkInv'
<1>1. /\ bkJob' \in [BkActors -> BkJobs] /\ bkJob'[a] = r
      /\ \A b \in BkActors : b # a => bkJob'[b] = bkJob[b]
  BY DEF BkInv, BkType
<1>2. BkType'
  BY <1>1 DEF BkType, RowsTyped
<1>3. \A n : KeptFrom(n) => KeptFrom(n)'
  BY DEF KeptFrom
<1>4. \A b \in BkActors : TakingFit(bkJob[b])'
  <2>1. ASSUME NEW b \in BkActors, b # a PROVE TakingFit(bkJob[b])'
    <3>1. bkJob'[b] = bkJob[b] /\ TakingFit(bkJob[b])
      BY <1>1, <2>1 DEF BkInv, Taken
    <3>. QED BY <2>1, <3>1 DEF TakingFit, Taking, Id
  <2>2. TakingFit(bkJob[a])'
    BY <1>1 DEF TakingFit
  <2>. QED BY <2>1, <2>2
<1>5. \A b, c \in BkActors : Taking(bkJob'[b]) /\ Taking(bkJob'[c]) /\ Id(b)' = Id(c)' => b = c
  BY <1>1 DEF BkInv, Taken, Id
<1>6. Taken'
  BY <1>4, <1>5 DEF Taken
<1>7. Retiring'
  <2>1. ASSUME NEW b \in BkActors, b # a PROVE Retires(bkJob[b])'
    <3>1. bkJob'[b] = bkJob[b] /\ Retires(bkJob[b])
      BY <1>1, <2>1 DEF BkInv, Retiring
    <3>. QED BY <1>3, <3>1 DEF Retires
  <2>2. Retires(bkJob[a])'
    BY <1>1 DEF Retires
  <2>. QED BY <2>1, <2>2 DEF Retiring
<1>8. FullKept'
  BY <1>3 DEF BkInv, FullKept
<1>. QED BY <1>2, <1>6, <1>7, <1>8 DEF BkInv

LEMMA FreeFits == Free \in BkJobs /\ Free.pc = "idle" /\ ~Taking(Free) /\ TakingFit(Free)' /\ Retires(Free)'
  BY DEF Free, BkJobs, Taking, TakingFit, Retires

\* One row changes, and it was not one to restore.
LEMMA RowChanges ==
    ASSUME BkInv, NEW i \in Backup, NEW b, Row(b), bk[i].st \notin {"succeeded", "deleted"},
           bk' = [bk EXCEPT ![i] = b]
    PROVE  /\ RowsTyped' /\ bk'[i] = b /\ \A j \in Backup : j # i => bk'[j] = bk[j]
           /\ \A k \in Fulls : k # i /\ k \in Fulls'
           /\ Ever => Ever'
           /\ (b.kind = "diff" => Ever) => DiffsFollow'
           /\ b.st \notin {"succeeded", "deleted"} => (Ever' => Ever)
<1>1. RowsTyped' /\ bk'[i] = b /\ \A j \in Backup : j # i => bk'[j] = bk[j]
  BY DEF BkInv, BkType, RowsTyped, Row
<1>2. \A k \in Fulls : k # i /\ k \in Fulls'
  BY <1>1 DEF Fulls, Succeeded
<1>3. Ever => Ever'
  BY <1>1 DEF Ever
<1>4. (b.kind = "diff" => Ever) => DiffsFollow'
  BY <1>1, <1>3 DEF BkInv, DiffsFollow
<1>5. b.st \notin {"succeeded", "deleted"} => (Ever' => Ever)
  BY <1>1 DEF Ever
<1>. QED BY <1>1, <1>2, <1>3, <1>4, <1>5

LEMMA TakeKeeps ==
    ASSUME BkInv, NEW a \in BkActors, NEW kind \in {"full", "diff"}, NEW daily \in BOOLEAN,
           NEW to \in {"idle", "restore"}, Take(a, kind, daily, to), UNCHANGED <<file, gone>>
    PROVE  BkInv'
<1>1. PICK i \in Backup :
        /\ bk[i] = Blank
        /\ bk' = [bk EXCEPT ![i] =
             [st |-> "taking", on |-> day, daily |-> daily,
              kind |-> IF Fulls = {} THEN "full" ELSE kind,
              base |-> IF Fulls = {} \/ kind = "full" THEN 0 ELSE LatestFull]]
        /\ bkJob' = [bkJob EXCEPT ![a] = [pc |-> "dump", id |-> i, to |-> to]]
  BY DEF Take
<1>2. PICK b : b = [st |-> "taking", on |-> day, daily |-> daily,
                    kind |-> IF Fulls = {} THEN "full" ELSE kind,
                    base |-> IF Fulls = {} \/ kind = "full" THEN 0 ELSE LatestFull]
  OBVIOUS
<1>3. Row(b) /\ b.st = "taking" /\ b.kind \in {"full", "diff"} /\ (b.kind = "diff" => Ever)
  BY <1>2 DEF Row, BkStates, Fulls, Succeeded, Ever
<1>4. bk[i].st = "unused" /\ bk' = [bk EXCEPT ![i] = b]
  BY <1>1, <1>2 DEF Blank
<1>5. /\ RowsTyped' /\ bk'[i] = b /\ \A j \in Backup : j # i => bk'[j] = bk[j]
      /\ \A k \in Fulls : k # i /\ k \in Fulls'
      /\ DiffsFollow' /\ (Ever' => Ever)
  BY <1>3, <1>4, RowChanges
<1>6. PICK r \in BkJobs : r = [pc |-> "dump", id |-> i, to |-> to]
  <2>1. i \in Nat
    BY BkAssumption DEF Backup
  <2>. QED BY <2>1 DEF BkJobs
<1>7. r.pc = "dump" /\ r.id = i /\ bkJob' = [bkJob EXCEPT ![a] = r]
  BY <1>1, <1>6
<1>8. TakingFit(r)' /\ Retires(r)'
  BY <1>3, <1>5, <1>7 DEF TakingFit, Taking, Retires
<1>9. \A c \in BkActors : Taking(bkJob[c]) => Id(c) # i /\ Id(c) \in Backup
  BY <1>4 DEF BkInv, Taken, TakingFit, Id
<1>. QED BY <1>5, <1>7, <1>8, <1>9, BackupMoves

LEMMA BackupBegins ==
    ASSUME BkInv, RunScheduled \/ \E r \in Requests : BackupNow(r) \/ Restore(r) \/ CopyDatabase(r)
    PROVE  BkInv'
<1>1. CASE RunScheduled
  <2>1. "sweep" \in BkActors /\ UNCHANGED <<file, gone>>
        /\ \E kind \in {"full", "diff"} : Take("sweep", kind, TRUE, "idle")
    BY <1>1 DEF BkActors, RunScheduled
  <2>. QED BY <2>1, TakeKeeps
<1>2. ASSUME NEW r \in Requests, BackupNow(r) \/ Restore(r) \/ CopyDatabase(r) PROVE BkInv'
  <2>1. r \in BkActors /\ UNCHANGED <<file, gone>>
        /\ \E kind \in {"full", "diff"}, to \in {"idle", "restore"} : Take(r, kind, FALSE, to)
    BY <1>2 DEF BkActors, BackupNow, Restore, CopyDatabase
  <2>. QED BY <2>1, TakeKeeps
<1>. QED BY <1>1, <1>2

\* Where an actor goes next.
LEMMA ActorGoes ==
    ASSUME BkInv, NEW a \in BkActors
    PROVE  /\ bkJob[a] \in BkJobs /\ TakingFit(bkJob[a]) /\ Retires(bkJob[a])
           /\ \A pc \in {"write", "record", "older", "restore"} : Move(a, pc) =>
                \E r \in BkJobs : bkJob' = [bkJob EXCEPT ![a] = r] /\ r.pc = pc /\ r.id = Id(a)
           /\ Finished(a) => bkJob' = [bkJob EXCEPT ![a] = Free]
           /\ Onward(a) => \E r \in BkJobs : bkJob' = [bkJob EXCEPT ![a] = r] /\ r.pc \in {"idle", "restore"}
<1>1. bkJob[a] \in BkJobs /\ TakingFit(bkJob[a]) /\ Retires(bkJob[a])
  BY DEF BkInv, BkType, Taken, Retiring
<1>2. ASSUME NEW pc \in {"write", "record", "older", "restore"}, Move(a, pc)
      PROVE  \E r \in BkJobs : bkJob' = [bkJob EXCEPT ![a] = r] /\ r.pc = pc /\ r.id = Id(a)
  <2>1. PICK r \in BkJobs : r = [bkJob[a] EXCEPT !.pc = pc]
    BY <1>1 DEF BkJobs
  <2>. QED BY <1>1, <1>2, <2>1 DEF Move, BkJobs, Id, BkInv, BkType
<1>3. Finished(a) => bkJob' = [bkJob EXCEPT ![a] = Free]
  BY DEF Finished
<1>4. Onward(a) => \E r \in BkJobs : bkJob' = [bkJob EXCEPT ![a] = r] /\ r.pc \in {"idle", "restore"}
  BY <1>1, <1>2, <1>3, FreeFits DEF Onward, BkJobs
<1>. QED BY <1>1, <1>2, <1>3, <1>4

LEMMA FailureKeeps ==
    ASSUME BkInv, NEW a \in BkActors, Taking(bkJob[a]), Failed(a), UNCHANGED <<file, gone>>
    PROVE  BkInv'
<1>1. Id(a) \in Backup /\ bk[Id(a)].st = "taking"
  BY ActorGoes DEF TakingFit, Id
<1>2. PICK b : b = [bk[Id(a)] EXCEPT !.st = "failed", !.base = 0]
  OBVIOUS
<1>3. bk' = [bk EXCEPT ![Id(a)] = b] /\ bkJob' = [bkJob EXCEPT ![a] = Free]
  BY <1>2 DEF Failed, Finished
<1>4. Row(bk[Id(a)])
  BY <1>1 DEF BkInv, BkType
<1>5. Row(b) /\ b.st = "failed" /\ b.kind = bk[Id(a)].kind
  BY <1>2, <1>4 DEF Row, BkStates
<1>6. b.kind = "diff" => Ever
  BY <1>1, <1>5 DEF BkInv, DiffsFollow
<1>7. /\ RowsTyped' /\ bk'[Id(a)] = b /\ \A j \in Backup : j # Id(a) => bk'[j] = bk[j]
      /\ \A k \in Fulls : k # Id(a) /\ k \in Fulls'
      /\ DiffsFollow' /\ (Ever' => Ever)
  BY <1>1, <1>3, <1>5, <1>6, RowChanges
<1>8. \A c \in BkActors : c # a /\ Taking(bkJob[c]) => Id(c) # Id(a) /\ Id(c) \in Backup
  BY DEF BkInv, Taken, TakingFit, Id
<1>. QED BY <1>3, <1>7, <1>8, FreeFits, BackupMoves

LEMMA DumpKeeps ==
    ASSUME BkInv, NEW a \in BkActors, Dump(a) \/ WriteFile(a) \/ RestoreDatabase(a)
    PROVE  BkInv'
<1>0. RowsTyped /\ DiffsFollow
  BY DEF BkInv, BkType, RowsTyped
<1>1. ASSUME Failed(a), Dump(a) \/ WriteFile(a), UNCHANGED file PROVE BkInv'
  <2>1. Taking(bkJob[a]) /\ UNCHANGED gone
    BY <1>1 DEF Dump, WriteFile, Taking, Is
  <2>. QED BY <1>1, <2>1, FailureKeeps
<1>2. CASE Dump(a)
  <2>1. CASE Move(a, "write") /\ UNCHANGED bk
    <3>1. PICK r \in BkJobs : bkJob' = [bkJob EXCEPT ![a] = r] /\ r.pc = "write" /\ r.id = Id(a)
      BY <2>1, ActorGoes
    <3>2. UNCHANGED <<bk, file, gone>> /\ Taking(bkJob[a])
      BY <1>2, <2>1 DEF Dump, Taking, Is
    <3>3. TakingFit(bkJob[a])
      BY ActorGoes
    <3>4. RowsTyped' /\ DiffsFollow' /\ Fulls' = Fulls /\ (Ever' => Ever)
      BY <1>0, <3>2 DEF RowsTyped, DiffsFollow, Ever, Fulls, Succeeded
    <3>5. TakingFit(r)' /\ Retires(r)'
      BY <3>1, <3>2, <3>3 DEF TakingFit, Taking, Id, Retires
    <3>6. \A c \in BkActors : c # a /\ Taking(bkJob[c]) => Id(c) # Id(a)
      BY <3>2 DEF BkInv, Taken
    <3>. QED BY <3>1, <3>2, <3>4, <3>5, <3>6, BackupMoves
  <2>. QED BY <1>1, <1>2, <2>1 DEF Dump
<1>3. CASE WriteFile(a)
  <2>1. CASE file' = file \cup {Id(a)} /\ Move(a, "record") /\ UNCHANGED bk
    <3>1. PICK r \in BkJobs : bkJob' = [bkJob EXCEPT ![a] = r] /\ r.pc = "record" /\ r.id = Id(a)
      BY <2>1, ActorGoes
    <3>2. UNCHANGED <<bk, gone>> /\ Taking(bkJob[a])
      BY <1>3, <2>1 DEF WriteFile, Taking, Is
    <3>3. TakingFit(bkJob[a])
      BY ActorGoes
    <3>4. RowsTyped' /\ DiffsFollow' /\ Fulls' = Fulls /\ (Ever' => Ever)
      BY <1>0, <3>2 DEF RowsTyped, DiffsFollow, Ever, Fulls, Succeeded
    <3>5. TakingFit(r)' /\ Retires(r)'
      BY <2>1, <3>1, <3>2, <3>3 DEF TakingFit, Taking, Id, Retires
    <3>6. \A c \in BkActors : c # a /\ Taking(bkJob[c]) => Id(c) # Id(a)
      BY <3>2 DEF BkInv, Taken
    <3>. QED BY <2>1, <3>1, <3>2, <3>4, <3>5, <3>6, BackupMoves
  <2>. QED BY <1>1, <1>3, <2>1 DEF WriteFile
<1>4. CASE RestoreDatabase(a)
  <2>1. UNCHANGED <<bk, file, gone>> /\ bkJob' = [bkJob EXCEPT ![a] = Free]
    BY <1>4 DEF RestoreDatabase, Finished
  <2>2. RowsTyped' /\ DiffsFollow' /\ Fulls' = Fulls /\ (Ever' => Ever)
    BY <1>0, <2>1 DEF RowsTyped, DiffsFollow, Ever, Fulls, Succeeded
  <2>. QED BY <2>1, <2>2, FreeFits, BackupMoves
<1>. QED BY <1>2, <1>3, <1>4

LEMMA RecordKeeps ==
    ASSUME BkInv, NEW a \in BkActors, Record(a)
    PROVE  BkInv'
<1>. DEFINE i == Id(a)
<1>1. i \in Backup /\ bk[i].st = "taking" /\ i \in file /\ i \in Nat /\ i >= 1 /\ Taking(bkJob[a]) /\ UNCHANGED gone
  <2>1. Is(a, "record") /\ UNCHANGED gone
    BY DEF Record
  <2>. QED BY <2>1, ActorGoes, BkAssumption DEF TakingFit, Taking, Is, Id, Backup
<1>2. \A c \in BkActors : c # a /\ Taking(bkJob[c]) => Id(c) # i /\ Id(c) \in Backup
  BY <1>1 DEF BkInv, Taken, TakingFit, Id
<1>3. Row(bk[i]) /\ bk[i].kind \in {"full", "diff"} /\ (bk[i].kind = "diff" => Ever)
  BY <1>1, ActorGoes DEF BkInv, BkType, DiffsFollow, TakingFit, Id
<1>4. ASSUME NEW st \in {"succeeded", "lost"}, bk' = [bk EXCEPT ![i].st = st]
      PROVE  \E b : /\ Row(b) /\ b.st = st /\ b.kind = bk[i].kind /\ bk' = [bk EXCEPT ![i] = b]
                    /\ RowsTyped' /\ bk'[i] = b /\ \A j \in Backup : j # i => bk'[j] = bk[j]
                    /\ \A k \in Fulls : k # i /\ k \in Fulls'
                    /\ DiffsFollow' /\ (st = "lost" => (Ever' => Ever))
  <2>1. PICK b : b = [bk[i] EXCEPT !.st = st]
    OBVIOUS
  <2>2. Row(b) /\ b.st = st /\ b.kind = bk[i].kind
    BY <1>3, <2>1 DEF Row, BkStates
  <2>3. bk' = [bk EXCEPT ![i] = b]
    BY <1>4, <2>1
  <2>. HIDE DEF i
  <2>. QED BY <1>1, <1>3, <2>2, <2>3, RowChanges
<1>5. CASE /\ bk' = [bk EXCEPT ![i].st = "succeeded"]
           /\ IF bk[i].kind = "full" THEN Move(a, "older") ELSE Onward(a)
           /\ UNCHANGED file
  <2>1. PICK b : /\ b.st = "succeeded" /\ b.kind = bk[i].kind
                 /\ RowsTyped' /\ bk'[i] = b /\ \A j \in Backup : j # i => bk'[j] = bk[j]
                 /\ \A k \in Fulls : k # i /\ k \in Fulls'
                 /\ DiffsFollow'
    BY <1>4, <1>5
  <2>2. b.kind = "full" => i \in Fulls'
    BY <1>1, <2>1 DEF Fulls, Succeeded
  <2>3. PICK r \in BkJobs : /\ bkJob' = [bkJob EXCEPT ![a] = r] /\ ~Taking(r)
                            /\ r.pc = "older" => r.id = i /\ b.kind = "full"
    BY <1>5, <2>1, ActorGoes, FreeFits DEF Taking
  <2>4. b.kind = "full" => \E k \in Fulls' : k = i /\ k \in file'
    BY <1>1, <1>5, <2>2
  <2>5. TakingFit(r)' /\ Retires(r)'
    <3>. HIDE DEF i
    <3>1. r.pc = "older" => KeptFrom(r.id)'
      BY <1>1, <2>3, <2>4 DEF KeptFrom
    <3>. QED BY <2>3, <3>1 DEF TakingFit, Taking, Retires
  <2>6. Ever' => Ever \/ KeptFrom(1)'
    <3>1. b.kind = "full" => KeptFrom(1)'
      BY <1>1, <2>4 DEF KeptFrom
    <3>. QED BY <1>3, <2>1, <3>1
  <2>. HIDE DEF i
  <2>. QED BY <1>1, <1>2, <1>5, <2>1, <2>3, <2>5, <2>6, BackupMoves
<1>6. CASE file' = file \ {i} /\ bk' = [bk EXCEPT ![i].st = "lost"] /\ Finished(a)
  <2>1. PICK b : /\ RowsTyped' /\ bk'[i] = b /\ \A j \in Backup : j # i => bk'[j] = bk[j]
                 /\ \A k \in Fulls : k # i /\ k \in Fulls'
                 /\ DiffsFollow' /\ (Ever' => Ever)
    BY <1>4, <1>6
  <2>2. bkJob' = [bkJob EXCEPT ![a] = Free]
    BY <1>6 DEF Finished
  <2>. HIDE DEF i
  <2>. QED BY <1>1, <1>2, <1>6, <2>1, <2>2, FreeFits, BackupMoves
<1>. QED BY <1>5, <1>6 DEF Record

(***************************************************************************)
(* Retention                                                               *)
(***************************************************************************)
\* What a removal does to rows and files, whether it fails or not.
LEMMA RemoveDoes ==
    ASSUME BkInv, NEW old \in SUBSET Undeleted, Remove(old)
    PROVE  /\ RowsTyped'
           /\ \A i \in Backup :
                 /\ bk'[i].kind = bk[i].kind
                 /\ i \notin old => bk'[i] = bk[i]
                 /\ bk[i].st = "taking" => bk'[i] = bk[i]
                 /\ bk'[i].st \in {bk[i].st, "deleted"}
                 /\ i \notin old /\ i \in file => i \in file'
           /\ Ever => Ever'
<1>1. \A i \in old : i \in Backup /\ bk[i].st \in {"succeeded", "failed"}
  BY DEF Undeleted
<1>2. /\ RowsTyped'
      /\ \A i \in Backup :
            /\ bk'[i].kind = bk[i].kind
            /\ i \notin old => bk'[i] = bk[i]
            /\ bk'[i].st \in {bk[i].st, "deleted"}
  <2>1. CASE bk' = [i \in Backup |-> IF i \in old THEN [bk[i] EXCEPT !.st = "deleted"] ELSE bk[i]]
    <3>1. \A i \in Backup :
             /\ Row(bk[i]) /\ Row([bk[i] EXCEPT !.st = "deleted"])
             /\ [bk[i] EXCEPT !.st = "deleted"].kind = bk[i].kind
             /\ [bk[i] EXCEPT !.st = "deleted"].st = "deleted"
      BY DEF BkInv, BkType, Row, BkStates
    <3>. QED BY <2>1, <3>1 DEF RowsTyped
  <2>2. CASE UNCHANGED bk
    BY <2>2 DEF RowsTyped, BkInv, BkType
  <2>. QED BY <2>1, <2>2 DEF Remove
<1>3. \A i \in Backup : i \notin old /\ i \in file => i \in file'
  BY DEF Remove
<1>4. Ever => Ever'
  BY <1>2 DEF Ever
<1>. QED BY <1>1, <1>2, <1>3, <1>4

\* After a removal every request still takes what it took.
LEMMA RemoveKeepsTaken ==
    ASSUME BkInv, NEW old \in SUBSET Undeleted, Remove(old),
           bkJob' \in [BkActors -> BkJobs],
           \A a \in BkActors : bkJob'[a] = bkJob[a] \/ ~Taking(bkJob'[a])
    PROVE  Taken' /\ BkType' /\ DiffsFollow'
<1>1. /\ RowsTyped'
      /\ \A i \in Backup :
            /\ bk'[i].kind = bk[i].kind
            /\ bk[i].st = "taking" => bk'[i] = bk[i]
      /\ Ever => Ever'
      /\ \A i \in Backup : i \notin old /\ i \in file => i \in file'
  BY RemoveDoes
<1>2. \A i \in old : bk[i].st # "taking"
  BY DEF Undeleted
<1>3. \A a \in BkActors : TakingFit(bkJob[a])'
  <2>. SUFFICES ASSUME NEW a \in BkActors PROVE TakingFit(bkJob[a])'
    OBVIOUS
  <2>1. CASE bkJob'[a] = bkJob[a]
    <3>1. TakingFit(bkJob[a])
      BY DEF BkInv, Taken
    <3>. QED BY <1>1, <1>2, <2>1, <3>1 DEF TakingFit, Taking
  <2>2. CASE ~Taking(bkJob'[a])
    BY <2>2 DEF TakingFit, Taking
  <2>. QED BY <2>1, <2>2
<1>4. \A a, b \in BkActors : Taking(bkJob'[a]) /\ Taking(bkJob'[b]) /\ Id(a)' = Id(b)' => a = b
  BY DEF BkInv, Taken, Id
<1>5. DiffsFollow'
  BY <1>1 DEF BkInv, DiffsFollow
<1>. QED BY <1>1, <1>3, <1>4, <1>5 DEF Taken, BkType, RowsTyped

LEMMA DropKeeps ==
    ASSUME BkInv, NEW a \in BkActors, DropOlder(a)
    PROVE  BkInv'
<1>1. /\ OlderThan(Id(a)) \in SUBSET Undeleted /\ Remove(OlderThan(Id(a)))
      /\ UNCHANGED gone /\ bkJob[a].pc = "older"
  BY DEF DropOlder, OlderThan, Is
<1>2. PICK r \in BkJobs : bkJob' = [bkJob EXCEPT ![a] = r] /\ r.pc \in {"idle", "restore"}
  BY ActorGoes DEF DropOlder
<1>3. /\ bkJob' \in [BkActors -> BkJobs] /\ bkJob'[a] = r
      /\ \A b \in BkActors : b # a => bkJob'[b] = bkJob[b]
  BY <1>2 DEF BkInv, BkType
<1>4. Taken' /\ BkType' /\ DiffsFollow'
  <2>1. ~Taking(r)
    BY <1>2 DEF Taking
  <2>. QED BY <1>1, <1>3, <2>1, RemoveKeepsTaken
<1>5. \A i \in Backup : i \notin OlderThan(Id(a)) => bk'[i] = bk[i] /\ (i \in file => i \in file')
  BY <1>1, RemoveDoes
<1>6. \A k \in Fulls : k \in file /\ k >= Id(a) => k \in Fulls' /\ k \in file'
  <2>1. ASSUME NEW k \in Fulls, k >= Id(a) PROVE k \in Backup /\ k \notin OlderThan(Id(a))
    <3>1. k \in Backup /\ k \in Int /\ Id(a) \in Nat
      BY BkAssumption, ActorGoes DEF Fulls, Succeeded, Backup, Id, BkJobs
    <3>. QED BY <2>1, <3>1 DEF OlderThan
  <2>. QED BY <1>5, <2>1 DEF Fulls, Succeeded
<1>7. ~gone => \E k \in Fulls : k \in Nat /\ k >= 1 /\ k >= Id(a) /\ k \in file
  BY <1>1, ActorGoes, BkAssumption DEF Retires, Id, KeptFrom, Fulls, Succeeded, Backup
<1>8. ASSUME NEW b \in BkActors, b # a PROVE Retires(bkJob[b])'
  <2>1. SUFFICES ASSUME bkJob[b].pc = "older", ~gone PROVE KeptFrom(bkJob[b].id)'
    BY <1>1, <1>3, <1>8 DEF Retires
  <2>2. bkJob[b].id \in Nat /\ Id(a) \in Nat /\ bkJob'[b] = bkJob[b]
    BY <1>3, <1>8, ActorGoes DEF BkJobs, Id
  <2>3. PICK k \in Fulls : k >= bkJob[b].id /\ k \in file
    BY <2>1, ActorGoes DEF Retires, KeptFrom
  <2>4. PICK m \in Fulls : m \in Nat /\ m >= Id(a) /\ m \in file
    BY <1>7, <2>1
  <2>5. k \in Nat
    BY BkAssumption DEF Fulls, Succeeded, Backup
  <2>6. CASE k >= Id(a)
    BY <1>6, <2>2, <2>3, <2>6 DEF KeptFrom
  <2>7. CASE k < Id(a)
    <3>1. m >= bkJob[b].id
      BY <2>2, <2>3, <2>4, <2>5, <2>7
    <3>. QED BY <1>6, <2>2, <2>4, <3>1 DEF KeptFrom
  <2>. QED BY <2>2, <2>5, <2>6, <2>7
<1>9. Retires(bkJob[a])'
  BY <1>2, <1>3 DEF Retires
<1>10. FullKept'
  BY <1>1, <1>6, <1>7 DEF FullKept, KeptFrom
<1>. QED BY <1>4, <1>8, <1>9, <1>10 DEF BkInv, Retiring

LEMMA PurgeKeeps ==
    ASSUME BkInv, NEW r \in Requests, PurgeApplication(r)
    PROVE  BkInv'
<1>1. Undeleted \in SUBSET Undeleted /\ Remove(Undeleted) /\ UNCHANGED bkJob /\ gone'
  BY DEF PurgeApplication
<1>2. Taken' /\ BkType' /\ DiffsFollow'
  <2>1. bkJob' \in [BkActors -> BkJobs]
    BY <1>1 DEF BkInv, BkType
  <2>. QED BY <1>1, <2>1, RemoveKeepsTaken
<1>. QED BY <1>1, <1>2 DEF BkInv, Retiring, Retires, FullKept

LEMMA CrashKeeps ==
    ASSUME BkInv, BkCrash
    PROVE  BkInv'
<1>1. /\ bk' = [i \in Backup |-> IF bk[i].st = "taking" THEN [bk[i] EXCEPT !.st = "lost"] ELSE bk[i]]
      /\ bkJob' = [a \in BkActors |-> Free] /\ UNCHANGED <<file, gone>>
  BY DEF BkCrash
<1>2. \A i \in Backup :
         /\ Row(bk'[i]) /\ bk'[i].kind = bk[i].kind
         /\ bk'[i].st = IF bk[i].st = "taking" THEN "lost" ELSE bk[i].st
  BY <1>1 DEF BkInv, BkType, Row, BkStates
<1>3. Fulls' = Fulls /\ (Ever' <=> Ever)
  BY <1>2 DEF Fulls, Succeeded, Ever
<1>4. \A a \in BkActors : bkJob'[a] = Free
  BY <1>1
<1>5. BkType'
  <2>1. bkJob' \in [BkActors -> BkJobs]
    BY <1>1, FreeFits
  <2>. QED BY <1>1, <1>2, <2>1 DEF BkType
<1>6. Taken' /\ Retiring'
  BY <1>4, FreeFits DEF Taken, TakingFit, Taking, Retiring, Retires
<1>7. DiffsFollow' /\ FullKept'
  BY <1>1, <1>2, <1>3 DEF BkInv, DiffsFollow, FullKept, KeptFrom
<1>. QED BY <1>5, <1>6, <1>7 DEF BkInv

LEMMA BkStep ==
    ASSUME BkInv, [BkNext]_bkVars
    PROVE  BkInv'
<1>1. CASE UNCHANGED <<bk, file, gone, bkJob>>
  BY <1>1 DEF BkInv, BkType, Taken, TakingFit, Taking, Id, Retiring, Retires, KeptFrom, Fulls, Succeeded,
              DiffsFollow, Ever, FullKept
<1>2. CASE UNCHANGED bkVars \/ NextDay
  BY <1>1, <1>2 DEF bkVars, NextDay
<1>3. CASE BkNext
  BY <1>2, <1>3, BackupBegins, DumpKeeps, RecordKeeps, DropKeeps, PurgeKeeps, CrashKeeps DEF BkNext, Goes
<1>. QED BY <1>2, <1>3

LEMMA BkInvariant == BkSpec => []BkInv
  BY BkInitial, BkStep, PTL DEF BkSpec

\* From the first backup that succeeded until the application is purged there
\* is one to restore, whoever takes, retires or restores at the same time and
\* wherever it fails.
THEOREM OneAlways == BkSpec => []AlwaysOne
<1>1. BkInv => AlwaysOne
  <2>. SUFFICES ASSUME BkInv, Ever, ~gone PROVE \E i \in Backup : Restorable(i)
    BY DEF AlwaysOne
  <2>1. PICK k \in Fulls : k \in file
    BY DEF BkInv, FullKept, KeptFrom
  <2>. QED BY <2>1 DEF Restorable, Readable, Fulls, Succeeded
<1>. QED BY BkInvariant, <1>1, PTL

(***************************************************************************)
(* Dev copies                                                              *)
(***************************************************************************)
AppStates == {"none", "draft", "validated", "build", "deploying", "running", "failed",
              "suspended", "archived", "deleted"}
Copies == [app : AppStates, row : {"none", "live", "ended"}, serves : BOOLEAN, busy : BOOLEAN,
           late : BOOLEAN, cut : BOOLEAN]
DcPcs == {"idle", "register", "row", "validate", "build", "built", "deploy", "up",
          "archive", "delete", "end"}
DcJobs == [pc : DcPcs, c : 0..MaxCopies, seen : AppStates, to : {"idle", "register"}]

DcType == copy \in [Copy -> Copies] /\ dcJob \in [DcActors -> DcJobs]

\* Deleted and at rest, or brought back by a deployment that was on its way.
Removed(k) == k.late \/ (k.app = "deleted" /\ ~k.busy)
AtWork(j) == j.pc \in {"built", "up"}

\* Who works on a copy works on one there is; while it is built or deployed it
\* says so, and a row is ended only of one that was removed.
DcFit(j) ==
    /\ j.pc \notin {"idle", "register"} => j.c \in Copy
    /\ AtWork(j) => copy[j.c].busy
    /\ j.pc = "built" => copy[j.c].app = "build"
    /\ j.pc = "up" => copy[j.c].app = "deploying"
    /\ j.pc = "end" => Removed(copy[j.c])
DcFits == \A a \in DcActors : DcFit(dcJob[a])

\* One at a time works on a copy.
OneAtWork == \A a, b \in DcActors :
    AtWork(dcJob[a]) /\ AtWork(dcJob[b]) /\ dcJob[a].c = dcJob[b].c => a = b

CopyFit(k) ==
    /\ k.busy => k.app \in {"build", "deploying"}
    /\ k.row = "ended" => Removed(k)
CopiesFit == \A c \in Copy : CopyFit(copy[c])

DcInv == DcType /\ DcFits /\ OneAtWork /\ CopiesFit

LEMMA CopyNumbers == ASSUME NEW c \in Copy PROVE c \in 0..MaxCopies
<1>. MaxCopies \in Nat
  BY DcAssumption
<1>. QED BY DEF Copy

LEMMA NobodyFits == Nobody \in DcJobs /\ Nobody.pc = "idle" /\ ~AtWork(Nobody) /\ DcFit(Nobody) /\ DcFit(Nobody)'
  BY DcAssumption DEF Nobody, DcJobs, DcPcs, AppStates, AtWork, DcFit

LEMMA DcInitial == DcInit => DcInv
<1>. SUFFICES ASSUME DcInit PROVE DcInv
  OBVIOUS
<1>1. Unregistered \in Copies /\ CopyFit(Unregistered)
  BY DEF Unregistered, Copies, AppStates, CopyFit
<1>2. DcType
  BY <1>1, NobodyFits DEF DcInit, DcType
<1>3. DcFits /\ OneAtWork
  BY NobodyFits DEF DcInit, DcFits, OneAtWork
<1>4. CopiesFit
  BY <1>1 DEF DcInit, CopiesFit
<1>. QED BY <1>2, <1>3, <1>4 DEF DcInv

\* A copy changes and an actor goes on: the copy stays removed if it was, and
\* whoever else works on it still does.
LEMMA CopyChanges ==
    ASSUME DcInv, NEW c \in Copy, NEW k \in Copies, copy' = [copy EXCEPT ![c] = k], CopyFit(k),
           Removed(copy[c]) => Removed(k),
           NEW a \in DcActors, NEW r \in DcJobs, dcJob' = [dcJob EXCEPT ![a] = r], DcFit(r)',
           \A b \in DcActors : b # a /\ AtWork(dcJob[b]) =>
               /\ dcJob[b].c = c => k.busy /\ k.app = copy[c].app
               /\ AtWork(r) => r.c # dcJob[b].c
    PROVE  DcInv'
<1>1. /\ dcJob' \in [DcActors -> DcJobs] /\ dcJob'[a] = r
      /\ \A b \in DcActors : b # a => dcJob'[b] = dcJob[b]
  BY DEF DcInv, DcType
<1>2. copy' \in [Copy -> Copies] /\ copy'[c] = k /\ \A e \in Copy : e # c => copy'[e] = copy[e]
  BY DEF DcInv, DcType
<1>3. ASSUME NEW b \in DcActors PROVE DcFit(dcJob[b])'
  <2>1. CASE b = a
    BY <1>1, <2>1 DEF DcFit
  <2>2. CASE b # a
    <3>1. DcFit(dcJob[b]) /\ dcJob'[b] = dcJob[b]
      BY <1>1, <2>2 DEF DcInv, DcFits
    <3>. QED BY <1>2, <2>2, <3>1 DEF DcFit, AtWork
  <2>. QED BY <2>1, <2>2
<1>4. OneAtWork'
  BY <1>1 DEF DcInv, OneAtWork
<1>5. CopiesFit'
  BY <1>2 DEF DcInv, CopiesFit
<1>. QED BY <1>1, <1>2, <1>3, <1>4, <1>5 DEF DcInv, DcType, DcFits

\* An actor goes on, and nobody starts work.
LEMMA ActorMoves ==
    ASSUME DcInv, UNCHANGED copy, NEW a \in DcActors, NEW r \in DcJobs,
           dcJob' = [dcJob EXCEPT ![a] = r], DcFit(r), ~AtWork(r)
    PROVE  DcInv'
<1>1. /\ dcJob' \in [DcActors -> DcJobs] /\ dcJob'[a] = r
      /\ \A b \in DcActors : b # a => dcJob'[b] = dcJob[b]
  BY DEF DcInv, DcType
<1>2. \A b \in DcActors : DcFit(dcJob[b])'
  <2>1. \A b \in DcActors : DcFit(dcJob'[b])
    BY <1>1 DEF DcInv, DcFits
  <2>. QED BY <2>1 DEF DcFit
<1>3. OneAtWork'
  BY <1>1 DEF DcInv, OneAtWork
<1>. QED BY <1>1, <1>2, <1>3 DEF DcInv, DcType, DcFits, CopiesFit

\* What an actor has, and where it can go.
LEMMA AnActor ==
    ASSUME DcInv, NEW a \in DcActors
    PROVE  /\ dcJob[a] \in DcJobs /\ DcFit(dcJob[a])
           /\ dcJob[a].pc \notin {"idle", "register"} => copy[Mine(a)] \in Copies /\ CopyFit(copy[Mine(a)])
           /\ \A pc \in DcPcs : ThenAt(a, pc) =>
                \E r \in DcJobs : /\ dcJob' = [dcJob EXCEPT ![a] = r] /\ r.pc = pc /\ r.c = Mine(a)
           /\ Leaves(a) => dcJob' = [dcJob EXCEPT ![a] = Nobody]
           /\ \A b \in DcActors : b # a /\ AtWork(dcJob[a]) /\ AtWork(dcJob[b]) => dcJob[b].c # Mine(a)
           /\ \A b \in DcActors : AtWork(dcJob[b]) => copy[dcJob[b].c].busy
<1>1. dcJob[a] \in DcJobs /\ DcFit(dcJob[a])
  BY DEF DcInv, DcType, DcFits
<1>2. dcJob[a].pc \notin {"idle", "register"} => copy[Mine(a)] \in Copies /\ CopyFit(copy[Mine(a)])
  BY <1>1 DEF DcFit, DcInv, DcType, CopiesFit, Mine
<1>3. ASSUME NEW pc \in DcPcs, ThenAt(a, pc)
      PROVE  \E r \in DcJobs : /\ dcJob' = [dcJob EXCEPT ![a] = r] /\ r.pc = pc /\ r.c = Mine(a)
  <2>1. PICK r \in DcJobs : r = [dcJob[a] EXCEPT !.pc = pc]
    BY <1>1 DEF DcJobs
  <2>2. dcJob' = [dcJob EXCEPT ![a] = r]
    BY <1>3, <2>1 DEF ThenAt, DcInv, DcType
  <2>. QED BY <1>1, <2>1, <2>2 DEF DcJobs, Mine
<1>4. Leaves(a) => dcJob' = [dcJob EXCEPT ![a] = Nobody]
  BY DEF Leaves
<1>5. \A b \in DcActors : b # a /\ AtWork(dcJob[a]) /\ AtWork(dcJob[b]) => dcJob[b].c # Mine(a)
  BY DEF DcInv, OneAtWork, Mine
<1>6. \A b \in DcActors : AtWork(dcJob[b]) => copy[dcJob[b].c].busy
  BY DEF DcInv, DcFits, DcFit
<1>. QED BY <1>1, <1>2, <1>3, <1>4, <1>5, <1>6

(***************************************************************************)
(* Each action                                                             *)
(***************************************************************************)
LEMMA CallKeeps ==
    ASSUME DcInv, (\E r \in Callers : DeployDev(r) \/ Reset(r)) \/ Sweep
    PROVE  DcInv'
<1>1. PICK a \in DcActors, j \in DcJobs :
         /\ dcJob' = [dcJob EXCEPT ![a] = j] /\ UNCHANGED copy
         /\ j.pc \in {"register", "archive", "validate", "build"}
         /\ j.pc # "register" => j.c \in Copy
  <2>1. ASSUME NEW c \in Copy, NEW pc \in {"archive", "validate", "build"}, NEW to \in {"idle", "register"}
        PROVE  /\ [Nobody EXCEPT !.pc = pc, !.c = c, !.to = to] \in DcJobs
               /\ [Nobody EXCEPT !.pc = pc, !.c = c] \in DcJobs
    <3>1. c \in 0..MaxCopies
      BY CopyNumbers
    <3>. QED BY <3>1 DEF Nobody, DcJobs, DcPcs, AppStates
  <2>2. ASSUME NEW r \in Callers, DeployDev(r), LiveCopies = {} /\ ThenAt(r, "register")
        PROVE  \E j \in DcJobs : dcJob' = [dcJob EXCEPT ![r] = j] /\ j.pc = "register"
    BY <2>2, AnActor DEF DcActors, DcPcs
  <2>3. ASSUME NEW a \in DcActors, NEW c \in LiveCopies, NEW pc \in {"archive", "validate", "build"},
               dcJob' = [dcJob EXCEPT ![a] = [Nobody EXCEPT !.pc = pc, !.c = c]]
        PROVE  \E j \in DcJobs : /\ dcJob' = [dcJob EXCEPT ![a] = j] /\ j.pc = pc /\ j.c \in Copy
    <3>1. [Nobody EXCEPT !.pc = pc, !.c = c] \in DcJobs
      BY <2>1 DEF LiveCopies
    <3>. QED BY <2>3, <3>1 DEF Nobody, LiveCopies
  <2>4. ASSUME NEW a \in DcActors, NEW c \in LiveCopies,
               dcJob' = [dcJob EXCEPT ![a] = [Nobody EXCEPT !.pc = "archive", !.c = c, !.to = "register"]]
        PROVE  \E j \in DcJobs : /\ dcJob' = [dcJob EXCEPT ![a] = j] /\ j.pc = "archive" /\ j.c \in Copy
    <3>1. [Nobody EXCEPT !.pc = "archive", !.c = c, !.to = "register"] \in DcJobs
      BY <2>1 DEF LiveCopies
    <3>. QED BY <2>4, <3>1 DEF Nobody, LiveCopies
  <2>5. ASSUME NEW r \in Callers, DeployDev(r), ~(LiveCopies = {} /\ ThenAt(r, "register"))
        PROVE  \E j \in DcJobs : /\ dcJob' = [dcJob EXCEPT ![r] = j] /\ j.c \in Copy
                                 /\ j.pc \in {"archive", "validate", "build"}
    <3>1. PICK c \in LiveCopies :
            dcJob' = [dcJob EXCEPT ![r] =
                IF copy[c].app \in Over
                THEN [Nobody EXCEPT !.pc = "archive", !.c = c, !.to = "register"]
                ELSE [Nobody EXCEPT !.c = c,
                        !.pc = IF copy[c].app \in {"draft", "validated"} THEN "validate" ELSE "build"]]
      BY <2>5 DEF DeployDev
    <3>2. CASE copy[c].app \in Over
      BY <2>4, <3>1, <3>2 DEF DcActors
    <3>3. ASSUME NEW pc \in {"validate", "build"}
          PROVE  [Nobody EXCEPT !.c = c, !.pc = pc] = [Nobody EXCEPT !.pc = pc, !.c = c]
      BY DEF Nobody
    <3>4. CASE copy[c].app \notin Over
      BY <2>3, <3>1, <3>3, <3>4 DEF DcActors
    <3>. QED BY <3>2, <3>4
  <2>6. ASSUME NEW a \in DcActors, NEW c \in LiveCopies,
               dcJob' = [dcJob EXCEPT ![a] = [Nobody EXCEPT !.pc = "archive", !.c = c]]
        PROVE  \E j \in DcJobs : /\ dcJob' = [dcJob EXCEPT ![a] = j] /\ j.pc = "archive" /\ j.c \in Copy
    BY <2>3, <2>6
  <2>7. UNCHANGED copy
    BY DEF DeployDev, Reset, Sweep
  <2>8. CASE \E r \in Callers : DeployDev(r)
    BY <2>2, <2>5, <2>7, <2>8 DEF DcActors
  <2>9. CASE (\E r \in Callers : Reset(r)) \/ Sweep
    <3>1. PICK a \in DcActors, c \in LiveCopies :
            dcJob' = [dcJob EXCEPT ![a] = [Nobody EXCEPT !.pc = "archive", !.c = c]]
      BY <2>9 DEF Reset, Sweep, Orphaned, DcActors
    <3>. QED BY <2>6, <2>7, <3>1
  <2>. QED BY <2>8, <2>9
<1>2. DcFit(j) /\ ~AtWork(j)
  BY <1>1 DEF DcFit, AtWork
<1>. QED BY <1>1, <1>2, ActorMoves

LEMMA RegisterKeeps ==
    ASSUME DcInv, NEW a \in DcActors, Register(a) \/ CreateRow(a)
    PROVE  DcInv'
<1>. dcJob[a] \in DcJobs /\ DcFit(dcJob[a])
  BY AnActor
<1>1. CASE Register(a)
  <2>1. PICK c \in Copy :
        /\ copy[c] = Unregistered
        /\ copy' = [copy EXCEPT ![c].app = "draft"]
        /\ dcJob' = [dcJob EXCEPT ![a].pc = "row", ![a].c = c]
    BY <1>1 DEF Register
  <2>2. PICK k \in Copies : k = [Unregistered EXCEPT !.app = "draft"]
    BY DEF Unregistered, Copies, AppStates
  <2>3. copy' = [copy EXCEPT ![c] = k] /\ CopyFit(k) /\ ~Removed(copy[c]) /\ ~copy[c].busy
    BY <2>1, <2>2 DEF DcInv, DcType, Unregistered, CopyFit, Removed
  <2>4. PICK r \in DcJobs : r = [dcJob[a] EXCEPT !.pc = "row", !.c = c]
    BY CopyNumbers DEF DcJobs, DcPcs
  <2>5. dcJob' = [dcJob EXCEPT ![a] = r] /\ r.pc = "row" /\ r.c = c
    BY <2>1, <2>4 DEF DcInv, DcType, DcJobs
  <2>6. DcFit(r)' /\ ~AtWork(r)
    BY <2>5 DEF DcFit, AtWork
  <2>7. \A b \in DcActors : AtWork(dcJob[b]) => dcJob[b].c # c
    BY <2>3, AnActor
  <2>8. \A b \in DcActors : b # a /\ AtWork(dcJob[b]) =>
           /\ dcJob[b].c = c => k.busy /\ k.app = copy[c].app
           /\ AtWork(r) => r.c # dcJob[b].c
    BY <2>6, <2>7
  <2>. QED BY <2>3, <2>5, <2>6, <2>8, CopyChanges
<1>2. CASE CreateRow(a)
  <2>0. Mine(a) \in Copy
    BY <1>2, AnActor DEF CreateRow, Doing, DcFit, Mine
  <2>00. PICK c \in Copy : c = Mine(a)
    BY <2>0
  <2>1. copy[c] \in Copies /\ CopyFit(copy[c])
    BY DEF DcInv, DcType, CopiesFit
  <2>2. CASE copy' = [copy EXCEPT ![c].row = "live"] /\ ThenAt(a, "validate")
    <3>1. PICK k \in Copies : k = [copy[c] EXCEPT !.row = "live"]
      BY <2>1 DEF Copies
    <3>2. /\ copy' = [copy EXCEPT ![c] = k] /\ CopyFit(k) /\ k.busy = copy[c].busy /\ k.app = copy[c].app
          /\ (Removed(copy[c]) => Removed(k))
      BY <2>00, <2>1, <2>2, <3>1 DEF DcInv, DcType, Copies, CopyFit, Removed
    <3>3. PICK r \in DcJobs : dcJob' = [dcJob EXCEPT ![a] = r] /\ r.pc = "validate" /\ r.c = c
      BY <2>00, <2>2, AnActor DEF DcPcs
    <3>4. DcFit(r)' /\ ~AtWork(r)
      BY <2>1, <3>3 DEF DcFit, AtWork
    <3>5. \A b \in DcActors : AtWork(dcJob[b]) => copy[dcJob[b].c].busy
      BY AnActor
    <3>6. \A b \in DcActors : b # a /\ AtWork(dcJob[b]) =>
             /\ dcJob[b].c = c => k.busy /\ k.app = copy[c].app
             /\ AtWork(r) => r.c # dcJob[b].c
      BY <3>2, <3>4, <3>5
    <3>7. dcJob' = [dcJob EXCEPT ![a] = r] /\ DcFit(r)'
      BY <3>3, <3>4
    <3>. QED BY <3>2, <3>6, <3>7, CopyChanges
  <2>3. CASE Leaves(a) /\ UNCHANGED copy
    BY <2>3, NobodyFits, ActorMoves DEF Leaves
  <2>. QED BY <1>2, <2>00, <2>2, <2>3 DEF CreateRow
<1>. QED BY <1>1, <1>2

\* An actor's own copy changes under it, with nobody else at work on it, and
\* the actor stops work, or starts it.
LEMMA WorkGoesOn ==
    ASSUME DcInv, NEW a \in DcActors, dcJob[a].pc \notin {"idle", "register"},
           NEW k \in Copies, copy' = [copy EXCEPT ![Mine(a)] = k], CopyFit(k),
           Removed(copy[Mine(a)]) => Removed(k),
           ~copy[Mine(a)].busy \/ AtWork(dcJob[a]),
           NEW r \in DcJobs, dcJob' = [dcJob EXCEPT ![a] = r],
           \/ r = Nobody
           \/ r.c = Mine(a) /\ r.pc \in {"build", "deploy", "delete"}
           \/ r.c = Mine(a) /\ r.pc = "built" /\ k.busy /\ k.app = "build"
           \/ r.c = Mine(a) /\ r.pc = "up" /\ k.busy /\ k.app = "deploying"
           \/ r.c = Mine(a) /\ r.pc = "end" /\ Removed(k)
    PROVE  DcInv'
<1>. DEFINE c == Mine(a)
<1>1. c \in Copy /\ copy'[c] = k
  BY AnActor DEF DcFit, Mine, DcInv, DcType
<1>2. DcFit(r)'
  BY <1>1, NobodyFits DEF DcFit, AtWork
<1>3. \A b \in DcActors : b # a /\ AtWork(dcJob[b]) => dcJob[b].c # c
  BY AnActor
<1>4. \A b \in DcActors : b # a /\ AtWork(dcJob[b]) /\ AtWork(r) => r.c # dcJob[b].c
  BY <1>3, NobodyFits DEF AtWork
<1>5. copy' = [copy EXCEPT ![c] = k] /\ (Removed(copy[c]) => Removed(k))
  OBVIOUS
<1>6. \A b \in DcActors : b # a /\ AtWork(dcJob[b]) =>
         /\ dcJob[b].c = c => k.busy /\ k.app = copy[c].app
         /\ AtWork(r) => r.c # dcJob[b].c
  BY <1>3, <1>4
<1>. HIDE DEF c
<1>. QED BY <1>1, <1>2, <1>5, <1>6, CopyChanges

LEMMA BuildKeeps ==
    ASSUME DcInv, NEW a \in DcActors, ValidateCopy(a) \/ BuildCopy(a) \/ BuildEnds(a)
    PROVE  DcInv'
<1>. DEFINE c == Mine(a)
<1>0. /\ dcJob[a].pc \notin {"idle", "register"} /\ dcJob[a] \in DcJobs /\ DcFit(dcJob[a])
      /\ c \in Copy /\ copy[c] \in Copies /\ CopyFit(copy[c])
  BY AnActor DEF ValidateCopy, BuildCopy, BuildEnds, Doing, DcFit, Mine
<1>1. Leaves(a) /\ UNCHANGED copy => DcInv'
  BY NobodyFits, ActorMoves DEF Leaves
<1>2. CASE ValidateCopy(a)
  <2>1. CASE /\ copy[c].app \in {"draft", "validated"}
             /\ copy' = [copy EXCEPT ![c].app = "validated"]
             /\ ThenAt(a, "build")
    <3>1. PICK k \in Copies : k = [copy[c] EXCEPT !.app = "validated"]
      BY <1>0 DEF Copies, AppStates
    <3>2. copy' = [copy EXCEPT ![c] = k] /\ CopyFit(k) /\ ~copy[c].busy /\ (Removed(copy[c]) => Removed(k))
      BY <1>0, <2>1, <3>1 DEF DcInv, DcType, Copies, CopyFit, Removed
    <3>3. PICK r \in DcJobs : dcJob' = [dcJob EXCEPT ![a] = r] /\ r.pc = "build" /\ r.c = c
      BY <2>1, AnActor DEF DcPcs
    <3>. QED BY <1>0, <3>2, <3>3, WorkGoesOn
  <2>. QED BY <1>1, <1>2, <2>1 DEF ValidateCopy
<1>3. CASE BuildCopy(a)
  <2>1. CASE /\ copy[c].app \in {"validated", "running", "failed", "build"} /\ ~copy[c].busy
             /\ copy' = [copy EXCEPT ![c].app = "build", ![c].busy = TRUE]
             /\ dcJob' = [dcJob EXCEPT ![a].pc = "built", ![a].seen = copy[c].app]
    <3>1. PICK k \in Copies : k = [copy[c] EXCEPT !.app = "build", !.busy = TRUE]
      BY <1>0 DEF Copies, AppStates
    <3>2. /\ copy' = [copy EXCEPT ![c] = k] /\ k.busy /\ k.app = "build" /\ k.late = copy[c].late
          /\ k.row = copy[c].row
      BY <1>0, <2>1, <3>1 DEF DcInv, DcType, Copies
    <3>3. CopyFit(k) /\ (Removed(copy[c]) => Removed(k))
      BY <1>0, <2>1, <3>2 DEF CopyFit, Removed
    <3>4. PICK r \in DcJobs : r = [dcJob[a] EXCEPT !.pc = "built", !.seen = copy[c].app]
      BY <1>0 DEF DcJobs, DcPcs, Copies
    <3>5. dcJob' = [dcJob EXCEPT ![a] = r] /\ r.pc = "built" /\ r.c = c
      BY <1>0, <2>1, <3>4 DEF DcInv, DcType, DcJobs, Mine
    <3>. QED BY <1>0, <2>1, <3>2, <3>3, <3>5, WorkGoesOn
  <2>. QED BY <1>1, <1>3, <2>1 DEF BuildCopy
<1>4. CASE BuildEnds(a)
  <2>1. AtWork(dcJob[a]) /\ copy[c].busy /\ copy[c].app = "build"
    BY <1>0, <1>4 DEF BuildEnds, Doing, AtWork, DcFit, Mine
  <2>2. PICK app \in {"build", "running", "failed"} :
           /\ copy' = [copy EXCEPT ![c].busy = FALSE, ![c].app = app]
           /\ ThenAt(a, "deploy") \/ Leaves(a)
    <3>1. CASE copy' = [copy EXCEPT ![c].busy = FALSE] /\ ThenAt(a, "deploy")
      <4>1. [copy EXCEPT ![c].busy = FALSE] = [copy EXCEPT ![c].busy = FALSE, ![c].app = "build"]
        <5>1. [copy[c] EXCEPT !.busy = FALSE] = [copy[c] EXCEPT !.busy = FALSE, !.app = "build"]
          BY <1>0, <2>1 DEF Copies
        <5>. QED BY <1>0, <5>1 DEF DcInv, DcType
      <4>. QED BY <3>1, <4>1
    <3>. DEFINE back == IF dcJob[a].seen \in {"running", "build"} THEN dcJob[a].seen ELSE "failed"
    <3>2. CASE /\ copy' = [copy EXCEPT ![c].busy = FALSE, ![c].app = IF @ = "build" THEN back ELSE @]
               /\ Leaves(a)
      <4>1. [copy EXCEPT ![c].busy = FALSE, ![c].app = IF @ = "build" THEN back ELSE @]
              = [copy EXCEPT ![c].busy = FALSE, ![c].app = back]
        BY <1>0, <2>1 DEF DcInv, DcType, Copies
      <4>2. back \in {"build", "running", "failed"}
        OBVIOUS
      <4>. QED BY <3>2, <4>1, <4>2
    <3>. QED BY <1>4, <3>1, <3>2 DEF BuildEnds
  <2>3. PICK k \in Copies : k = [copy[c] EXCEPT !.busy = FALSE, !.app = app]
    BY <1>0 DEF Copies, AppStates
  <2>4. copy' = [copy EXCEPT ![c] = k] /\ CopyFit(k) /\ (Removed(copy[c]) => Removed(k))
    <3>1. copy' = [copy EXCEPT ![c] = k] /\ ~k.busy /\ k.late = copy[c].late /\ k.row = copy[c].row
      BY <1>0, <2>2, <2>3 DEF DcInv, DcType, Copies
    <3>. QED BY <1>0, <2>1, <3>1 DEF CopyFit, Removed
  <2>5. PICK r \in DcJobs : /\ dcJob' = [dcJob EXCEPT ![a] = r]
                            /\ r = Nobody \/ (r.pc = "deploy" /\ r.c = c)
    BY <2>2, AnActor, NobodyFits DEF DcPcs
  <2>. QED BY <1>0, <2>1, <2>4, <2>5, WorkGoesOn
<1>. QED BY <1>2, <1>3, <1>4

LEMMA DeployKeepsCopies ==
    ASSUME DcInv, NEW a \in DcActors, DeployCopy(a) \/ DeployEnds(a)
    PROVE  DcInv'
<1>. DEFINE c == Mine(a)
<1>0. /\ dcJob[a].pc \notin {"idle", "register"} /\ dcJob[a] \in DcJobs /\ DcFit(dcJob[a])
      /\ c \in Copy /\ copy[c] \in Copies /\ CopyFit(copy[c])
  BY AnActor DEF DeployCopy, DeployEnds, Doing, DcFit, Mine
<1>1. CASE DeployCopy(a) /\ copy[c].busy
  BY <1>1, NobodyFits, ActorMoves DEF DeployCopy, Leaves
<1>2. CASE DeployCopy(a) /\ ~copy[c].busy
  <2>1. /\ copy' = [copy EXCEPT ![c] = [@ EXCEPT !.app = "deploying", !.busy = TRUE,
                                                 !.late = copy[c].late \/ copy[c].app = "deleted"]]
        /\ ThenAt(a, "up")
    BY <1>2 DEF DeployCopy
  <2>2. PICK k \in Copies : k = [copy[c] EXCEPT !.app = "deploying", !.busy = TRUE,
                                                !.late = copy[c].late \/ copy[c].app = "deleted"]
    BY <1>0 DEF Copies, AppStates
  <2>3. /\ copy' = [copy EXCEPT ![c] = k] /\ k.busy /\ k.app = "deploying" /\ k.row = copy[c].row
        /\ k.late = (copy[c].late \/ copy[c].app = "deleted")
    <3>1. k.busy /\ k.app = "deploying" /\ k.row = copy[c].row
      BY <1>0, <2>2 DEF Copies
    <3>2. k.late = (copy[c].late \/ copy[c].app = "deleted")
      BY <1>0, <2>2 DEF Copies
    <3>3. copy' = [copy EXCEPT ![c] = copy'[c]]
      BY <1>0, <2>1 DEF DcInv, DcType
    <3>4. copy'[c] = k
      BY <1>0, <2>1, <2>2 DEF DcInv, DcType
    <3>. QED BY <3>1, <3>2, <3>3, <3>4
  <2>4. CopyFit(k) /\ (Removed(copy[c]) => Removed(k))
    BY <1>0, <2>3 DEF CopyFit, Removed
  <2>5. PICK r \in DcJobs : dcJob' = [dcJob EXCEPT ![a] = r] /\ r.pc = "up" /\ r.c = c
    BY <2>1, AnActor DEF DcPcs
  <2>. QED BY <1>0, <1>2, <2>3, <2>4, <2>5, WorkGoesOn
<1>3. CASE DeployEnds(a)
  <2>1. AtWork(dcJob[a]) /\ copy[c].busy /\ copy[c].app = "deploying"
    BY <1>0, <1>3 DEF DeployEnds, Doing, AtWork, DcFit, Mine
  <2>2. PICK k \in Copies :
           /\ k \in {[copy[c] EXCEPT !.app = "running", !.busy = FALSE, !.serves = TRUE],
                     [copy[c] EXCEPT !.app = "failed", !.busy = FALSE]}
           /\ copy' = [copy EXCEPT ![c] = k]
    <3>1. /\ [copy[c] EXCEPT !.app = "running", !.busy = FALSE, !.serves = TRUE] \in Copies
          /\ [copy[c] EXCEPT !.app = "failed", !.busy = FALSE] \in Copies
      BY <1>0 DEF Copies, AppStates
    <3>. QED BY <1>3, <3>1 DEF DeployEnds
  <2>3. ~k.busy /\ k.late = copy[c].late /\ k.row = copy[c].row
    BY <1>0, <2>2 DEF Copies
  <2>4. CopyFit(k) /\ (Removed(copy[c]) => Removed(k))
    BY <1>0, <2>1, <2>3 DEF CopyFit, Removed
  <2>5. dcJob' = [dcJob EXCEPT ![a] = Nobody]
    BY <1>3 DEF DeployEnds, Leaves
  <2>. QED BY <1>0, <2>1, <2>2, <2>4, <2>5, NobodyFits, WorkGoesOn
<1>. QED BY <1>1, <1>2, <1>3 DEF DeployCopy

LEMMA TearDownKeeps ==
    ASSUME DcInv, NEW a \in DcActors, TearsDown(a)
    PROVE  DcInv'
<1>. DEFINE c == Mine(a)
<1>0. /\ dcJob[a].pc \notin {"idle", "register"} /\ dcJob[a] \in DcJobs /\ DcFit(dcJob[a])
      /\ c \in Copy /\ copy[c] \in Copies /\ CopyFit(copy[c])
  BY AnActor DEF TearsDown, ArchiveCopy, DeleteCopy, EndRow, Doing, DcFit, Mine
<1>1. Leaves(a) /\ UNCHANGED copy => DcInv'
  BY NobodyFits, ActorMoves DEF Leaves
<1>2. ASSUME NEW app \in {"archived", "deleted"}, ~copy[c].busy,
             NEW k \in Copies, copy' = [copy EXCEPT ![c] = k], k.app = app, ~k.busy,
             k.late = copy[c].late, k.row = copy[c].row,
             app = "archived" => copy[c].app # "deleted",
             ThenAt(a, IF app = "archived" THEN "delete" ELSE "end")
      PROVE  DcInv'
  <2>1. CopyFit(k) /\ (Removed(copy[c]) => Removed(k)) /\ (app = "deleted" => Removed(k))
    BY <1>0, <1>2 DEF CopyFit, Removed
  <2>2. PICK r \in DcJobs : /\ dcJob' = [dcJob EXCEPT ![a] = r] /\ r.c = c
                            /\ r.pc = IF app = "archived" THEN "delete" ELSE "end"
    BY <1>2, AnActor DEF DcPcs
  <2>. QED BY <1>0, <1>2, <2>1, <2>2, WorkGoesOn
<1>3. ASSUME UNCHANGED copy, NEW pc \in {"delete", "end"}, ThenAt(a, pc), pc = "end" => copy[c].app = "deleted"
      PROVE  DcInv'
  <2>1. PICK r \in DcJobs : dcJob' = [dcJob EXCEPT ![a] = r] /\ r.pc = pc /\ r.c = c
    BY <1>3, AnActor DEF DcPcs
  <2>2. copy[c].app = "deleted" => Removed(copy[c])
    BY <1>0 DEF CopyFit, Removed
  <2>3. DcFit(r) /\ ~AtWork(r)
    BY <1>0, <1>3, <2>1, <2>2 DEF DcFit, AtWork
  <2>. QED BY <1>3, <2>1, <2>3, ActorMoves
<1>4. CASE ArchiveCopy(a)
  <2>1. CASE /\ copy[c].app \in {"running", "suspended"} /\ ~copy[c].busy
             /\ copy' = [copy EXCEPT ![c].app = "archived", ![c].serves = FALSE]
             /\ ThenAt(a, "delete")
    <3>1. PICK k \in Copies : k = [copy[c] EXCEPT !.app = "archived", !.serves = FALSE]
      BY <1>0 DEF Copies, AppStates
    <3>2. /\ copy' = [copy EXCEPT ![c] = k] /\ k.app = "archived" /\ ~k.busy
          /\ k.late = copy[c].late /\ k.row = copy[c].row
      BY <1>0, <2>1, <3>1 DEF DcInv, DcType, Copies
    <3>. QED BY <1>2, <2>1, <3>2
  <2>. QED BY <1>1, <1>3, <1>4, <2>1 DEF ArchiveCopy
<1>5. CASE DeleteCopy(a)
  <2>1. CASE Removable(c) /\ copy' = [copy EXCEPT ![c].app = "deleted"] /\ ThenAt(a, "end")
    <3>1. PICK k \in Copies : k = [copy[c] EXCEPT !.app = "deleted"]
      BY <1>0 DEF Copies, AppStates
    <3>2. /\ copy' = [copy EXCEPT ![c] = k] /\ k.app = "deleted" /\ k.busy = copy[c].busy
          /\ k.late = copy[c].late /\ k.row = copy[c].row
      BY <1>0, <2>1, <3>1 DEF DcInv, DcType, Copies
    <3>3. ~copy[c].busy
      BY <1>0, <2>1 DEF Removable, CopyFit
    <3>. QED BY <1>2, <2>1, <3>2, <3>3
  <2>. QED BY <1>1, <1>5, <2>1 DEF DeleteCopy
<1>6. CASE EndRow(a)
  <2>1. copy' = [copy EXCEPT ![c].row = "ended"] /\ Removed(copy[c])
    BY <1>0, <1>6 DEF EndRow, Doing, DcFit, Mine
  <2>2. PICK k \in Copies : k = [copy[c] EXCEPT !.row = "ended"]
    BY <1>0 DEF Copies
  <2>3. /\ copy' = [copy EXCEPT ![c] = k] /\ k.app = copy[c].app /\ k.busy = copy[c].busy /\ k.late = copy[c].late
    BY <1>0, <2>1, <2>2 DEF DcInv, DcType, Copies
  <2>4. CopyFit(k) /\ Removed(k)
    BY <1>0, <2>1, <2>3 DEF CopyFit, Removed
  <2>5. PICK r \in DcJobs : dcJob' = [dcJob EXCEPT ![a] = r] /\ r.pc \in {"idle", "register"}
    BY <1>6, AnActor, NobodyFits DEF EndRow, DcPcs
  <2>6. DcFit(r)' /\ ~AtWork(r)
    BY <2>5 DEF DcFit, AtWork
  <2>7. \A b \in DcActors : AtWork(dcJob[b]) => copy[dcJob[b].c].busy
    BY AnActor
  <2>8. \A b \in DcActors : b # a /\ AtWork(dcJob[b]) =>
           /\ dcJob[b].c = c => k.busy /\ k.app = copy[c].app
           /\ AtWork(r) => r.c # dcJob[b].c
    BY <2>3, <2>6, <2>7
  <2>. HIDE DEF c
  <2>. QED BY <1>0, <2>3, <2>4, <2>5, <2>6, <2>8, CopyChanges
<1>. QED BY <1>4, <1>5, <1>6 DEF TearsDown

LEMMA ItselfKeeps ==
    ASSUME DcInv, NEW c \in Copy, CopyItself(c)
    PROVE  DcInv'
<1>1. copy[c] \in Copies /\ CopyFit(copy[c]) /\ UNCHANGED dcJob
  BY DEF CopyItself, DcInv, DcType, CopiesFit
<1>2. PICK k \in Copies : /\ copy' = [copy EXCEPT ![c] = k] /\ k.busy = copy[c].busy /\ ~k.busy
                          /\ k.late = copy[c].late /\ k.row = copy[c].row
                          /\ k.app = "deleted" \/ copy[c].app # "deleted"
  <2>1. ~copy[c].busy
    BY <1>1 DEF CopyItself, CopyFit, Removable
  <2>2. \A app \in AppStates, serves \in BOOLEAN :
           /\ [copy[c] EXCEPT !.app = app, !.serves = serves] \in Copies
           /\ [copy[c] EXCEPT !.app = app] \in Copies
    BY <1>1 DEF Copies
  <2>3. /\ copy[c].app # "deleted"
        /\ \E app \in AppStates, serves \in BOOLEAN :
              copy' \in {[copy EXCEPT ![c].app = app, ![c].serves = serves], [copy EXCEPT ![c].app = app]}
    BY DEF CopyItself, Removable, AppStates
  <2>4. PICK app \in AppStates, serves \in BOOLEAN :
           copy' \in {[copy EXCEPT ![c].app = app, ![c].serves = serves], [copy EXCEPT ![c].app = app]}
    BY <2>3
  <2>5. PICK k \in Copies : /\ copy' = [copy EXCEPT ![c] = k]
                            /\ k \in {[copy[c] EXCEPT !.app = app, !.serves = serves], [copy[c] EXCEPT !.app = app]}
    BY <1>1, <2>2, <2>4 DEF DcInv, DcType
  <2>. QED BY <1>1, <2>1, <2>3, <2>5 DEF Copies
<1>3. CopyFit(k) /\ (Removed(copy[c]) => Removed(k))
  BY <1>1, <1>2 DEF CopyFit, Removed
<1>4. Sweeper \in DcActors
  BY DEF DcActors
<1>5. PICK r \in DcJobs : r = dcJob[Sweeper] /\ DcFit(r)
  BY <1>4, AnActor
<1>6. dcJob' = [dcJob EXCEPT ![Sweeper] = r]
  BY <1>1, <1>5 DEF DcInv, DcType
<1>7. \A b \in DcActors : AtWork(dcJob[b]) => dcJob[b].c # c
  BY <1>2, AnActor
<1>8. DcFit(r)'
  <2>1. copy'[c] = k /\ \A e \in Copy : e # c => copy'[e] = copy[e]
    BY <1>2 DEF DcInv, DcType
  <2>. QED BY <1>3, <1>4, <1>5, <1>7, <2>1 DEF DcFit, AtWork
<1>9. \A b \in DcActors : b # Sweeper /\ AtWork(dcJob[b]) /\ AtWork(r) => r.c # dcJob[b].c
  BY <1>4, <1>5, AnActor DEF Mine
<1>. QED BY <1>2, <1>3, <1>4, <1>6, <1>7, <1>8, <1>9, CopyChanges

LEMMA DcCrashKeeps ==
    ASSUME DcInv, DcCrash
    PROVE  DcInv'
<1>1. dcJob' = [a \in DcActors |-> Nobody]
  BY DEF DcCrash
<1>2. dcJob' \in [DcActors -> DcJobs] /\ \A a \in DcActors : dcJob'[a] = Nobody
  BY <1>1, NobodyFits
<1>3. DcFits' /\ OneAtWork'
  BY <1>2, NobodyFits DEF DcFits, DcFit, OneAtWork
<1>4. ASSUME NEW c \in Copy
      PROVE  LET k == [copy[c] EXCEPT !.cut = @ \/ copy[c].busy] IN k \in Copies /\ CopyFit(k)
  <2>1. copy[c] \in Copies /\ CopyFit(copy[c])
    BY <1>4 DEF DcInv, DcType, CopiesFit
  <2>2. (copy[c].cut \/ copy[c].busy) \in BOOLEAN
    OBVIOUS
  <2>3. PICK x \in BOOLEAN : x = (copy[c].cut \/ copy[c].busy)
    BY <2>2
  <2>4. [copy[c] EXCEPT !.cut = x] \in Copies /\ CopyFit([copy[c] EXCEPT !.cut = x])
    BY <2>1 DEF Copies, CopyFit, Removed
  <2>. QED BY <2>3, <2>4
<1>5. copy' \in [Copy -> Copies] /\ CopiesFit'
  <2>1. copy' = [c \in Copy |-> [copy[c] EXCEPT !.cut = @ \/ copy[c].busy]]
    BY DEF DcCrash
  <2>. QED BY <1>4, <2>1 DEF CopiesFit
<1>. QED BY <1>2, <1>3, <1>5 DEF DcInv, DcType

LEMMA DcStep ==
    ASSUME DcInv, [DcNext]_dcVars
    PROVE  DcInv'
<1>1. CASE UNCHANGED <<copy, dcJob>>
  BY <1>1 DEF DcInv, DcType, DcFits, DcFit, OneAtWork, CopiesFit
<1>2. CASE DcNext
  <2>1. ASSUME NEW r \in Callers, Deploys(r) PROVE DcInv'
    BY <2>1, RegisterKeeps, BuildKeeps, DeployKeepsCopies DEF Deploys, DcActors
  <2>2. CASE DeployProd \/ GoLive \/ ProdFails \/ Used \/ ParentMoves \/ Held
    BY <1>1, <2>2 DEF DeployProd, GoLive, ProdFails, Used, ParentMoves, Held
  <2>. QED BY <1>2, <2>1, <2>2, CallKeeps, TearDownKeeps, ItselfKeeps, DcCrashKeeps DEF DcNext
<1>. QED BY <1>1, <1>2 DEF dcVars

LEMMA DcInvariant == DcSpec => []DcInv
  BY DcInitial, DcStep, PTL DEF DcSpec

\* A dev copy's row ends only once its application is deleted and at rest,
\* whatever else is done to the copy meanwhile.
THEOREM EndedAlwaysDeleted == DcSpec => []EndedIsDeleted
<1>1. DcInv => EndedIsDeleted
  BY DEF DcInv, CopiesFit, CopyFit, Removed, EndedIsDeleted
<1>. QED BY DcInvariant, <1>1, PTL

(***************************************************************************)
(* Databases                                                               *)
(***************************************************************************)
Passwords == 0..MaxPasswords
Boxes == [st : {"none", "up", "stopped"}, pw : Passwords]
DbPcs == {"idle", "look", "start", "ready", "record", "wake", "awake", "read", "run", "set",
          "store", "revert", "lock", "stop", "restart", "database", "mark", "files", "secrets",
          "status", "upsert"}
DbJobs == [pc : DbPcs, old : Passwords, new : Passwords]

DbType ==
    /\ box \in Boxes /\ (box.st = "none" => box = NoBox)
    /\ plain \in Passwords /\ sealed \in Passwords /\ used \in Passwords
    /\ live \in BOOLEAN /\ booted \in BOOLEAN
    /\ dbJob \in [DbActors -> DbJobs]

Provisioning == dbJob["deploy"].pc \in {"start", "ready", "record"}

\* The password a container is started with is the one that is stored.
StartsAsStored ==
    dbJob["deploy"].pc = "start" /\ loose = {} /\ box = NoBox =>
        sealed = dbJob["deploy"].new /\ sealed # 0

\* PasswordKept, of a database that is not yet recorded as well.
KeptFromStart ==
    live \/ dbJob["deploy"].pc \in {"ready", "record"} =>
        (box.st # "none" /\ ~Rotating /\ loose = {} => Agree)

\* A deployment that provisions finds no database, and no deletion under way;
\* a deletion takes the secrets once the database is marked.
ProvisionsAlone ==
    /\ Provisioning => ~live
    /\ dbJob["delete"].pc # "idle" => dbJob["deploy"].pc = "idle"
    /\ dbJob["delete"].pc \in {"files", "secrets", "status"} => ~live

\* A rotation knows the password it found, and the one it set.
RotationsFit == \A r \in Rotators :
    /\ dbJob[r].pc \in {"set", "store", "revert"} => dbJob[r].old # 0
    /\ dbJob[r].pc \in {"store", "revert"} => dbJob[r].new # 0

\* A plaintext password is that of a database nothing has touched: the server
\* serves once it is sealed and cleared.
PlainUntilBooted ==
    /\ plain # 0 => live /\ ~booted /\ box.pw = plain
    /\ ~booted => dbJob = [a \in DbActors |-> Resting]

DbInv == DbType /\ StartsAsStored /\ KeptFromStart /\ ProvisionsAlone /\ RotationsFit /\ PlainUntilBooted

LEMMA DbNumbers ==
    /\ MaxPasswords \in Nat \ {0} /\ Passwords \subseteq Nat /\ 0 \in Passwords /\ 1 \in Passwords
    /\ "deploy" \in DbActors /\ "delete" \in DbActors /\ Rotators \subseteq DbActors
    /\ "deploy" \notin Rotators /\ "delete" \notin Rotators
    /\ Resting \in DbJobs /\ NoBox \in Boxes
<1>1. MaxPasswords \in Nat \ {0}
  BY DbAssumption
<1>2. Passwords \subseteq Nat /\ 0 \in Passwords /\ 1 \in Passwords
  BY <1>1 DEF Passwords
<1>3. Resting \in DbJobs /\ NoBox \in Boxes
  BY <1>2 DEF Resting, NoBox, DbJobs, DbPcs, Boxes
<1>4. /\ "deploy" \in DbActors /\ "delete" \in DbActors /\ Rotators \subseteq DbActors
      /\ "deploy" \notin Rotators /\ "delete" \notin Rotators
  BY DbAssumption DEF DbActors, Starters
<1>. QED BY <1>1, <1>2, <1>3, <1>4

LEMMA DbInitial == DbInit => DbInv
<1>. SUFFICES ASSUME DbInit PROVE DbInv
  OBVIOUS
<1>1. \A a \in DbActors : dbJob[a].pc = "idle"
  BY DEF DbInit, Resting
<1>2. DbType
  BY DbNumbers DEF DbInit, DbType, Boxes, NoBox
<1>3. StartsAsStored /\ ProvisionsAlone /\ RotationsFit
  BY <1>1, DbNumbers DEF StartsAsStored, ProvisionsAlone, Provisioning, RotationsFit
<1>4. KeptFromStart
  BY <1>1, DbNumbers DEF DbInit, KeptFromStart, Agree, NoBox
<1>5. PlainUntilBooted
  BY DEF DbInit, PlainUntilBooted
<1>. QED BY <1>2, <1>3, <1>4, <1>5 DEF DbInv

(***************************************************************************)
(* Kinds of steps                                                          *)
(***************************************************************************)
\* What each part of the invariant reads.
LEMMA DbUntouched ==
    ASSUME DbInv, UNCHANGED <<box, live, plain, sealed, booted, dbJob, used, loose>>
    PROVE  DbInv'
  BY DEF DbInv, DbType, StartsAsStored, KeptFromStart, Rotating, Agree, ProvisionsAlone, Provisioning,
         RotationsFit, PlainUntilBooted

LEMMA DbJobMoves ==
    ASSUME DbInv, NEW a \in DbActors
    PROVE  /\ dbJob[a] \in DbJobs
           /\ \A pc \in DbPcs : Then(a, pc) =>
                \E k \in DbJobs : /\ dbJob' = [dbJob EXCEPT ![a] = k] /\ k.pc = pc
                                  /\ k.old = dbJob[a].old /\ k.new = dbJob[a].new
           /\ Ends(a) => dbJob' = [dbJob EXCEPT ![a] = Resting]
           /\ \A k \in DbJobs : dbJob' = [dbJob EXCEPT ![a] = k] =>
                /\ dbJob' \in [DbActors -> DbJobs] /\ dbJob'[a] = k
                /\ \A b \in DbActors : b # a => dbJob'[b] = dbJob[b]
<1>1. dbJob[a] \in DbJobs
  BY DEF DbInv, DbType
<1>2. ASSUME NEW pc \in DbPcs, Then(a, pc)
      PROVE  \E k \in DbJobs : /\ dbJob' = [dbJob EXCEPT ![a] = k] /\ k.pc = pc
                               /\ k.old = dbJob[a].old /\ k.new = dbJob[a].new
  <2>1. PICK k \in DbJobs : k = [dbJob[a] EXCEPT !.pc = pc]
    BY <1>1 DEF DbJobs
  <2>2. dbJob' = [dbJob EXCEPT ![a] = k]
    BY <1>2, <2>1 DEF Then, DbInv, DbType
  <2>. QED BY <1>1, <2>1, <2>2 DEF DbJobs
<1>3. \A k \in DbJobs : dbJob' = [dbJob EXCEPT ![a] = k] =>
         /\ dbJob' \in [DbActors -> DbJobs] /\ dbJob'[a] = k
         /\ \A b \in DbActors : b # a => dbJob'[b] = dbJob[b]
  BY DEF DbInv, DbType
<1>. QED BY <1>1, <1>2, <1>3 DEF Ends

\* An actor goes on, and neither the password nor the record changes.
LEMMA DbGoesOn ==
    ASSUME DbInv, booted, UNCHANGED <<live, plain, sealed, booted, loose>>,
           used' \in Passwords, box' \in Boxes, box'.pw = box.pw, box'.st = "none" <=> box.st = "none",
           NEW a \in DbActors, NEW k \in DbJobs, dbJob' = [dbJob EXCEPT ![a] = k],
           a \in Rotators => /\ dbJob[a].pc \notin {"store", "revert"} /\ k.pc \notin {"store", "revert"}
                             /\ k.pc = "set" => k.old # 0,
           a = "deploy" => /\ k.pc = "record" => dbJob[a].pc = "ready"
                           /\ k.pc \notin {"start", "ready"}
                           /\ k.pc # "idle" => dbJob["delete"].pc = "idle",
           a = "delete" => /\ k.pc # "idle" => dbJob["deploy"].pc = "idle"
                           /\ k.pc \in {"files", "secrets", "status"} => ~live
    PROVE  DbInv'
<1>1. /\ dbJob' \in [DbActors -> DbJobs] /\ dbJob'[a] = k
      /\ \A b \in DbActors : b # a => dbJob'[b] = dbJob[b]
  BY DbJobMoves
<1>. USE DbNumbers DEF DbInv
<1>2. DbType'
  BY <1>1 DEF DbType, Boxes, NoBox
<1>3. StartsAsStored'
  <2>1. dbJob'["deploy"].pc = "start" => dbJob'["deploy"] = dbJob["deploy"]
    BY <1>1
  <2>2. box' = NoBox => box = NoBox
    BY DEF DbType, NoBox, Boxes
  <2>. QED BY <2>1, <2>2 DEF StartsAsStored
<1>4. KeptFromStart'
  <2>1. Rotating' <=> Rotating
    BY <1>1 DEF Rotating
  <2>2. dbJob'["deploy"].pc \in {"ready", "record"} => dbJob["deploy"].pc \in {"ready", "record"}
    BY <1>1
  <2>3. Agree' <=> Agree
    BY DEF Agree
  <2>. QED BY <2>1, <2>2, <2>3 DEF KeptFromStart
<1>5. ProvisionsAlone'
  <2>1. dbJob'["deploy"].pc \in {"start", "ready", "record"} =>
           dbJob["deploy"].pc \in {"start", "ready", "record"}
    BY <1>1
  <2>2. a # "delete" => dbJob'["delete"] = dbJob["delete"]
    BY <1>1
  <2>3. a # "deploy" => dbJob'["deploy"] = dbJob["deploy"]
    BY <1>1
  <2>. QED BY <1>1, <2>1, <2>2, <2>3 DEF ProvisionsAlone, Provisioning
<1>6. RotationsFit'
  BY <1>1 DEF RotationsFit
<1>7. PlainUntilBooted'
  BY DEF PlainUntilBooted
<1>. QED BY <1>2, <1>3, <1>4, <1>5, <1>6, <1>7

\* An actor goes to its next step, or ends, and the rest is as DbGoesOn has it.
LEMMA DbGoesTo ==
    ASSUME DbInv, booted, UNCHANGED <<live, plain, sealed, booted, loose, used>>,
           box' \in Boxes, box'.pw = box.pw, box'.st = "none" <=> box.st = "none",
           NEW a \in DbActors, NEW pc \in DbPcs, Then(a, pc) \/ (Ends(a) /\ pc = "idle"),
           pc \notin {"start", "ready", "store", "revert", "set"},
           dbJob[a].pc \notin {"store", "revert"},
           a = "deploy" => /\ pc = "record" => dbJob[a].pc = "ready"
                           /\ pc # "idle" => dbJob["delete"].pc = "idle",
           a = "delete" => /\ pc # "idle" => dbJob["deploy"].pc = "idle"
                           /\ pc \in {"files", "secrets", "status"} => ~live
    PROVE  DbInv'
<1>1. PICK k \in DbJobs : dbJob' = [dbJob EXCEPT ![a] = k] /\ k.pc = pc
  <2>1. CASE Then(a, pc)
    BY <2>1, DbJobMoves
  <2>2. CASE Ends(a) /\ pc = "idle"
    BY <2>2, DbNumbers DEF Ends, Resting
  <2>. QED BY <2>1, <2>2
<1>2. used' \in Passwords
  BY DEF DbInv, DbType
<1>. QED BY <1>1, <1>2, DbGoesOn

LEMMA DbBegins ==
    ASSUME DbInv, \/ SetBegins \/ SetUpserts \/ DeleteSecret \/ Deploy \/ Cold \/ Stop \/ IdleForLong
                  \/ DeleteBegins \/ \E r \in Rotators : Rotate(r)
    PROVE  DbInv'
<1>. USE DEF rest, rows, store, asleepness, DbDoing
<1>1. CASE DeleteSecret \/ Stop \/ IdleForLong
  BY <1>1, DbUntouched DEF DeleteSecret, Stop, IdleForLong
<1>2. PICK a \in DbActors, pc \in {"look", "wake", "database", "upsert", "idle"} :
        \/ DeleteSecret \/ Stop \/ IdleForLong
        \/ /\ booted /\ UNCHANGED <<live, plain, sealed, booted, loose, used, box>>
           /\ Then(a, pc) \/ (Ends(a) /\ pc = "idle")
           /\ dbJob[a].pc \in {"idle", "upsert"}
           /\ a = "deploy" => dbJob["delete"].pc = "idle"
           /\ a = "delete" => dbJob["deploy"].pc = "idle"
  <2>1. {"deploy", "cold", "sweep", "tune", "delete", "setter"} \subseteq DbActors /\ Rotators \subseteq DbActors
        /\ "deploy" \notin Rotators /\ "delete" \notin Rotators
    BY DbAssumption DEF DbActors, Starters
  <2>2. CASE SetBegins
    BY <2>1, <2>2 DEF SetBegins
  <2>3. CASE SetUpserts
    BY <2>1, <2>3 DEF SetUpserts
  <2>4. CASE Deploy
    BY <2>1, <2>4 DEF Deploy, Begin
  <2>5. CASE Cold
    BY <2>1, <2>5 DEF Cold, Begin
  <2>6. CASE DeleteBegins
    BY <2>1, <2>6 DEF DeleteBegins, Begin
  <2>7. ASSUME NEW r \in Rotators, Rotate(r)
        PROVE  /\ booted /\ UNCHANGED <<live, plain, sealed, booted, loose, used, box>>
               /\ Then(r, "wake") /\ dbJob[r].pc = "idle"
    BY <2>7 DEF Rotate, Begin
  <2>. QED BY <2>1, <2>2, <2>3, <2>4, <2>5, <2>6, <2>7
<1>3. CASE /\ booted /\ UNCHANGED <<live, plain, sealed, booted, loose, used, box>>
           /\ Then(a, pc) \/ (Ends(a) /\ pc = "idle")
           /\ dbJob[a].pc \in {"idle", "upsert"}
           /\ a = "deploy" => dbJob["delete"].pc = "idle"
           /\ a = "delete" => dbJob["deploy"].pc = "idle"
  <2>1. pc \in DbPcs /\ box' \in Boxes /\ box'.pw = box.pw /\ (box'.st = "none" <=> box.st = "none")
    BY <1>3 DEF DbPcs, DbInv, DbType
  <2>. QED BY <1>3, <2>1, DbGoesTo
<1>. QED BY <1>1, <1>2, <1>3

LEMMA WakeKeeps ==
    ASSUME DbInv, NEW a \in Starters, WakeLock(a) \/ WakeDatabase(a) \/ Run(a) \/ ReadPassword(a)
    PROVE  DbInv'
<1>. USE DEF rest, rows, store, asleepness, DbDoing
<1>0. a \in DbActors /\ a # "delete" /\ {"awake", "idle", "read", "run"} \subseteq DbPcs
      /\ box \in Boxes /\ (box.st = "none" => box = NoBox) /\ sealed \in Passwords
  BY DbAssumption DEF DbActors, Starters, DbPcs, DbInv, DbType
<1>1. dbJob["deploy"].pc # "idle" => dbJob["delete"].pc = "idle"
  BY DEF DbInv, ProvisionsAlone
<1>2. CASE WakeLock(a) \/ Run(a)
  <2>1. PICK pc \in {"awake", "idle"} :
          /\ booted /\ UNCHANGED <<live, plain, sealed, booted, loose, used, box>>
          /\ Then(a, pc) \/ (Ends(a) /\ pc = "idle")
          /\ dbJob[a].pc \in {"wake", "run"}
    BY <1>2 DEF WakeLock, Run, CallFails
  <2>. QED BY <1>0, <1>1, <2>1, DbGoesTo
<1>3. CASE WakeDatabase(a)
  <2>1. PICK pc \in {"read", "idle"} :
          /\ booted /\ UNCHANGED <<live, plain, sealed, booted, loose, used>>
          /\ box' = box \/ (box.st = "stopped" /\ box' = Started)
          /\ Then(a, pc) \/ (Ends(a) /\ pc = "idle")
          /\ dbJob[a].pc = "awake"
    BY <1>3 DEF WakeDatabase, CallFails, Startable
  <2>2. box' \in Boxes /\ box'.pw = box.pw /\ (box'.st = "none" <=> box.st = "none")
    BY <1>0, <2>1 DEF Started, Boxes
  <2>. QED BY <1>0, <1>1, <2>1, <2>2, DbGoesTo
<1>4. CASE ReadPassword(a) /\ ~(live /\ Stored)
  BY <1>0, <1>1, <1>4, DbGoesTo DEF ReadPassword
<1>5. CASE ReadPassword(a) /\ live /\ Stored
  <2>0. dbJob[a] \in DbJobs
    BY <1>0, DbJobMoves
  <2>1. PICK k \in DbJobs :
          k = [dbJob[a] EXCEPT !.pc = IF a \in Rotators /\ dbJob[a].new = 0 THEN "set" ELSE "run",
                               !.old = sealed]
    BY <1>0, <2>0 DEF DbJobs, DbPcs
  <2>2. dbJob' = [dbJob EXCEPT ![a] = k]
    BY <1>0, <1>5, <2>1 DEF ReadPassword, ManagedValue, DbInv, DbType
  <2>3. k.pc \in {"set", "run"} /\ k.old # 0 /\ (k.pc = "set" => a \in Rotators)
    BY <1>5, <2>0, <2>1 DEF Stored, ManagedValue, DbJobs
  <2>4. /\ booted /\ UNCHANGED <<live, plain, sealed, booted, loose, used, box>>
        /\ dbJob[a].pc = "read" /\ used' \in Passwords
    BY <1>5 DEF ReadPassword, DbInv, DbType
  <2>. QED BY <1>0, <1>1, <2>1, <2>2, <2>3, <2>4, DbGoesOn
<1>. QED BY <1>2, <1>3, <1>4, <1>5

LEMMA SleepKeeps ==
    ASSUME DbInv, SleepLook \/ SleepLock \/ SleepDatabase \/ TuneAll \/ TuneDatabase
    PROVE  DbInv'
<1>. USE DEF rest, rows, store, asleepness, DbDoing
<1>0. {"sweep", "tune"} \subseteq DbActors /\ {"lock", "stop", "idle", "restart"} \subseteq DbPcs
      /\ box \in Boxes /\ (box.st = "none" => box = NoBox)
  BY DEF DbActors, DbPcs, DbInv, DbType
<1>1. CASE UNCHANGED <<box, live, plain, sealed, booted, dbJob, used, loose>>
  BY <1>1, DbUntouched
<1>2. CASE ~UNCHANGED <<box, live, plain, sealed, booted, dbJob, used, loose>>
  <2>1. PICK a \in {"sweep", "tune"}, pc \in {"lock", "stop", "idle", "restart"} :
          /\ booted /\ UNCHANGED <<live, plain, sealed, booted, loose, used>>
          /\ \/ box' = box
             \/ box.st = "up" /\ box' = [box EXCEPT !.st = "stopped"]
             \/ box # NoBox /\ box' = Started
          /\ Then(a, pc) \/ (Ends(a) /\ pc = "idle")
          /\ dbJob[a].pc \in {"idle", "lock", "stop", "restart"}
    <3>1. CASE SleepLook
      BY <1>2, <3>1 DEF SleepLook
    <3>2. CASE SleepLock
      BY <1>2, <3>2 DEF SleepLock
    <3>3. CASE SleepDatabase
      BY <1>2, <3>3 DEF SleepDatabase, CallFails
    <3>4. CASE TuneAll
      BY <1>2, <3>4 DEF TuneAll
    <3>5. CASE TuneDatabase
      BY <1>2, <3>5 DEF TuneDatabase, CallFails
    <3>. QED BY <3>1, <3>2, <3>3, <3>4, <3>5
  <2>2. box' \in Boxes /\ box'.pw = box.pw /\ (box'.st = "none" <=> box.st = "none")
    BY <1>0, <2>1 DEF Started, Boxes
  <2>. QED BY <1>0, <2>1, <2>2, DbGoesTo
<1>. QED BY <1>1, <1>2

\* While a deployment provisions there is no database that is recorded.
LEMMA ProvisionKeeps ==
    ASSUME DbInv, Provision \/ StartDatabase \/ DatabaseReady \/ RecordDatabase
    PROVE  DbInv'
<1>. USE DEF rest, rows, store, asleepness, DbDoing
<1>0. /\ "deploy" \in DbActors /\ "deploy" \notin Rotators /\ "delete" \in DbActors
      /\ {"wake", "start", "ready", "record", "idle"} \subseteq DbPcs
      /\ box \in Boxes /\ (box.st = "none" => box = NoBox) /\ sealed \in Passwords
      /\ dbJob["deploy"] \in DbJobs /\ used \in Passwords
  BY DbNumbers DEF DbPcs, DbInv, DbType
<1>1. dbJob["deploy"].pc # "idle" => dbJob["delete"].pc = "idle"
  BY DEF DbInv, ProvisionsAlone
<1>2. CASE Provision /\ live
  <2>1. booted /\ UNCHANGED <<live, plain, sealed, booted, loose, used, box>> /\ dbJob["deploy"].pc = "look"
        /\ Then("deploy", "wake")
    BY <1>2 DEF Provision
  <2>. QED BY <1>0, <1>1, <2>1, DbGoesTo
<1>3. ASSUME NEW k \in DbJobs, dbJob' = [dbJob EXCEPT !["deploy"] = k],
             booted, UNCHANGED <<plain, booted>>, loose \subseteq loose',
             box' \in Boxes, box'.st = "none" => box' = NoBox, sealed' \in Passwords, used' \in Passwords,
             live' \in BOOLEAN, ~live, live' => dbJob["deploy"].pc = "record" /\ k.pc = "wake" /\ UNCHANGED <<box, sealed>>,
             k.pc \in {"start", "ready", "idle", "wake"},
             dbJob["delete"].pc = "idle",
             k.pc = "start" => sealed' = k.new /\ sealed' # 0,
             k.pc = "ready" => /\ loose = {} /\ box = NoBox => sealed' = box'.pw /\ sealed' # 0
                               /\ loose' = loose /\ box = NoBox
      PROVE  DbInv'
  <2>1. /\ dbJob' \in [DbActors -> DbJobs] /\ dbJob'["deploy"] = k
        /\ \A b \in DbActors : b # "deploy" => dbJob'[b] = dbJob[b]
    BY <1>0, <1>3, DbJobMoves
  <2>2. DbType'
    BY <1>3, <2>1 DEF DbInv, DbType
  <2>3. StartsAsStored'
    BY <1>3, <2>1 DEF StartsAsStored
  <2>4. KeptFromStart'
    <3>1. Rotating' <=> Rotating
      BY <1>0, <2>1, DbNumbers DEF Rotating
    <3>2. CASE k.pc = "ready"
      BY <1>3, <2>1, <3>2 DEF KeptFromStart, Agree
    <3>3. CASE live'
      <4>1. box.st # "none" /\ ~Rotating /\ loose = {} => Agree
        BY <1>3, <3>3 DEF DbInv, KeptFromStart
      <4>. QED BY <1>3, <3>1, <3>3, <4>1 DEF KeptFromStart, Agree
    <3>4. CASE k.pc # "ready" /\ ~live'
      BY <1>3, <2>1, <3>4 DEF KeptFromStart
    <3>. QED BY <3>2, <3>3, <3>4
  <2>5. ProvisionsAlone'
    BY <1>0, <1>3, <2>1 DEF ProvisionsAlone, Provisioning, DbInv
  <2>6. RotationsFit'
    BY <1>0, <2>1, DbNumbers DEF RotationsFit, DbInv
  <2>7. PlainUntilBooted'
    BY <1>3 DEF PlainUntilBooted, DbInv
  <2>. QED BY <2>2, <2>3, <2>4, <2>5, <2>6, <2>7 DEF DbInv
<1>4. CASE Provision /\ ~live
  <2>1. used' = used + 1 /\ used' \in Passwords /\ used' # 0
    <3>1. used < MaxPasswords /\ used' = used + 1
      BY <1>4 DEF Provision
    <3>. QED BY <1>0, <3>1, DbNumbers DEF Passwords
  <2>2. PICK k \in DbJobs : k = [dbJob["deploy"] EXCEPT !.pc = "start", !.new = used']
    BY <1>0, <2>1 DEF DbJobs
  <2>3. k.pc = "start" /\ k.new = used' /\ dbJob' = [dbJob EXCEPT !["deploy"] = k]
    BY <1>0, <1>4, <2>2 DEF Provision, DbInv, DbType, DbJobs
  <2>4. booted /\ UNCHANGED <<box, live, plain, booted, loose>> /\ sealed' = used' /\ dbJob["deploy"].pc = "look"
    BY <1>4 DEF Provision, PutManaged
  <2>5. live' \in BOOLEAN
    BY <2>4 DEF DbInv, DbType
  <2>. QED BY <1>0, <1>1, <1>3, <1>4, <2>1, <2>3, <2>4, <2>5
<1>5. ~live \/ dbJob["deploy"].pc = "look"
  <2>1. dbJob["deploy"].pc \in {"look", "start", "ready", "record"}
    BY DEF Provision, StartDatabase, DatabaseReady, RecordDatabase
  <2>. QED BY <2>1 DEF DbInv, ProvisionsAlone, Provisioning
<1>6. CASE StartDatabase
  <2>1. ~live /\ booted /\ dbJob["deploy"].pc = "start" /\ UNCHANGED <<live, plain, sealed, booted, loose, used>>
    BY <1>5, <1>6 DEF StartDatabase, CallFails
  <2>2. sealed' \in Passwords /\ used' \in Passwords /\ live' \in BOOLEAN
    BY <2>1 DEF DbInv, DbType
  <2>3. CASE box = NoBox /\ box' = [st |-> "up", pw |-> dbJob["deploy"].new] /\ Then("deploy", "ready")
    <3>1. PICK k \in DbJobs : dbJob' = [dbJob EXCEPT !["deploy"] = k] /\ k.pc = "ready"
      BY <1>0, <2>3, DbJobMoves
    <3>2. box' \in Boxes /\ box'.st # "none" /\ box'.pw = dbJob["deploy"].new
      BY <1>0, <2>3 DEF Boxes, DbJobs
    <3>3. loose = {} => sealed = dbJob["deploy"].new /\ sealed # 0
      BY <2>1, <2>3 DEF DbInv, StartsAsStored
    <3>. QED BY <1>1, <1>3, <2>1, <2>2, <2>3, <3>1, <3>2, <3>3
  <2>4. CASE Ends("deploy") /\ box' \in {box, NoBox} \cup [st : {"stopped", "up"}, pw : {dbJob["deploy"].new}]
    <3>1. box' \in Boxes /\ (box'.st = "none" => box' = NoBox)
      BY <1>0, <2>4, DbNumbers DEF Boxes, DbJobs
    <3>2. dbJob' = [dbJob EXCEPT !["deploy"] = Resting] /\ Resting.pc = "idle" /\ Resting \in DbJobs
      BY <2>4, DbNumbers DEF Ends, Resting
    <3>. QED BY <1>1, <1>3, <2>1, <2>2, <3>1, <3>2
  <2>. QED BY <1>6, <2>3, <2>4 DEF StartDatabase, CallFails
<1>7. CASE DatabaseReady
  <2>1. ~live /\ booted /\ dbJob["deploy"].pc = "ready" /\ UNCHANGED <<live, plain, sealed, booted, loose, used>>
    BY <1>5, <1>7 DEF DatabaseReady, CallFails
  <2>2. CASE Then("deploy", "record") /\ UNCHANGED box
    BY <1>0, <1>1, <2>1, <2>2, DbGoesTo
  <2>3. CASE Ends("deploy") /\ box' \in {box, NoBox}
    <3>1. box' \in Boxes /\ (box'.st = "none" => box' = NoBox)
      BY <1>0, <2>3, DbNumbers
    <3>2. dbJob' = [dbJob EXCEPT !["deploy"] = Resting] /\ Resting.pc = "idle" /\ Resting \in DbJobs
      BY <2>3, DbNumbers DEF Ends, Resting
    <3>3. sealed' \in Passwords /\ used' \in Passwords /\ live' \in BOOLEAN
      BY <2>1 DEF DbInv, DbType
    <3>. QED BY <1>1, <1>3, <2>1, <3>1, <3>2, <3>3
  <2>. QED BY <1>7, <2>2, <2>3 DEF DatabaseReady
<1>8. CASE RecordDatabase
  <2>1. ~live /\ booted /\ dbJob["deploy"].pc = "record" /\ UNCHANGED <<box, plain, sealed, booted, loose, used>>
    BY <1>5, <1>8 DEF RecordDatabase, CallFails
  <2>2. PICK k \in DbJobs : /\ dbJob' = [dbJob EXCEPT !["deploy"] = k] /\ k.pc \in {"wake", "idle"}
                            /\ live' \in BOOLEAN /\ (live' => k.pc = "wake")
    <3>1. CASE live' = TRUE /\ Then("deploy", "wake")
      BY <1>0, <3>1, DbJobMoves
    <3>2. CASE Ends("deploy") /\ UNCHANGED live
      <4>1. dbJob' = [dbJob EXCEPT !["deploy"] = Resting] /\ Resting.pc = "idle" /\ Resting \in DbJobs
        BY <3>2, DbNumbers DEF Ends, Resting
      <4>2. live \in BOOLEAN
        BY DEF DbInv, DbType
      <4>. QED BY <2>1, <3>2, <4>1, <4>2
    <3>. QED BY <1>8, <3>1, <3>2 DEF RecordDatabase
  <2>3. box' \in Boxes /\ (box'.st = "none" => box' = NoBox) /\ sealed' \in Passwords /\ used' \in Passwords
    BY <2>1 DEF DbInv, DbType
  <2>. QED BY <1>1, <1>3, <2>1, <2>2, <2>3
<1>. QED BY <1>2, <1>4, <1>6, <1>7, <1>8

\* A rotation leaves the database with the password the store has, or is
\* known to have left them apart.
LEMMA RotationKeeps ==
    ASSUME DbInv, NEW r \in Rotators, SetPassword(r) \/ StorePassword(r) \/ RevertPassword(r)
    PROVE  DbInv'
<1>. USE DEF rest, rows, store, asleepness, DbDoing
<1>0. /\ r \in DbActors /\ r \notin {"deploy", "delete"} /\ {"wake", "store", "revert", "idle"} \subseteq DbPcs
      /\ box \in Boxes /\ (box.st = "none" => box = NoBox) /\ sealed \in Passwords
      /\ dbJob[r] \in DbJobs /\ used \in Passwords /\ "deploy" \in DbActors /\ "delete" \in DbActors
  BY DbNumbers, DbJobMoves DEF DbPcs, DbInv, DbType
<1>1. /\ dbJob[r].pc \in {"set", "store", "revert"} => dbJob[r].old # 0
      /\ dbJob[r].pc \in {"store", "revert"} => dbJob[r].new # 0
  BY DEF DbInv, RotationsFit
<1>2. ASSUME NEW k \in DbJobs, dbJob' = [dbJob EXCEPT ![r] = k],
             booted, UNCHANGED <<live, plain, booted>>, loose \subseteq loose',
             box' \in Boxes, box'.st = "none" <=> box.st = "none", sealed' \in Passwords, used' \in Passwords,
             k.pc \in {"wake", "idle", "store", "revert"},
             k.pc \in {"store", "revert"} => k.old # 0 /\ k.new # 0,
             loose' = {} => \/ k.pc \in {"store", "revert"} /\ UNCHANGED sealed
                            \/ box'.pw = sealed' /\ sealed' # 0 /\ box.st # "none"
      PROVE  DbInv'
  <2>1. /\ dbJob' \in [DbActors -> DbJobs] /\ dbJob'[r] = k
        /\ \A b \in DbActors : b # r => dbJob'[b] = dbJob[b]
    BY <1>0, <1>2, DbJobMoves
  <2>2. dbJob'["deploy"] = dbJob["deploy"] /\ dbJob'["delete"] = dbJob["delete"]
    BY <1>0, <2>1
  <2>3. DbType'
    <3>1. plain' \in Passwords /\ live' \in BOOLEAN /\ booted' \in BOOLEAN
      BY <1>2 DEF DbInv, DbType
    <3>2. box'.st = "none" => box' = NoBox
      <4>1. CASE box.st # "none"
        BY <1>2, <4>1
      <4>2. CASE UNCHANGED box
        BY <1>0, <4>2
      <4>3. box.st = "none" => UNCHANGED box
        BY <1>0 DEF SetPassword, StorePassword, RevertPassword, Accepts, DatabaseRunning
      <4>. QED BY <4>1, <4>2, <4>3
    <3>. QED BY <1>2, <2>1, <3>1, <3>2 DEF DbType
  <2>4. StartsAsStored'
    <3>1. box' = NoBox => box.st = "none"
      BY <1>2 DEF NoBox
    <3>2. box.st = "none" => box = NoBox
      BY <1>0
    <3>. QED BY <1>2, <2>2, <3>1, <3>2 DEF DbInv, StartsAsStored
  <2>5. KeptFromStart'
    <3>1. k.pc \in {"store", "revert"} => Rotating'
      BY <2>1 DEF Rotating
    <3>. QED BY <1>2, <2>2, <3>1 DEF KeptFromStart, Agree
  <2>6. ProvisionsAlone'
    BY <1>2, <2>2 DEF ProvisionsAlone, Provisioning, DbInv
  <2>7. RotationsFit'
    BY <1>2, <2>1, DbNumbers DEF RotationsFit, DbInv
  <2>8. PlainUntilBooted'
    BY <1>2 DEF PlainUntilBooted, DbInv
  <2>. QED BY <2>3, <2>4, <2>5, <2>6, <2>7, <2>8 DEF DbInv
<1>3. CASE SetPassword(r)
  <2>1. booted /\ UNCHANGED <<live, plain, sealed, booted, loose>> /\ dbJob[r].pc = "set" /\ used < MaxPasswords
    BY <1>3 DEF SetPassword
  <2>2. CASE Ends(r) /\ UNCHANGED <<box, used>>
    BY <1>0, <2>1, <2>2, DbGoesTo
  <2>3. CASE /\ Accepts(dbJob[r].old) /\ used' = used + 1
             /\ box' = [box EXCEPT !.pw = used']
             /\ dbJob' = [dbJob EXCEPT ![r].pc = "store", ![r].new = used']
    <3>1. used' \in Passwords /\ used' # 0
      BY <1>0, <2>1, <2>3, DbNumbers DEF Passwords
    <3>2. PICK k \in DbJobs : k = [dbJob[r] EXCEPT !.pc = "store", !.new = used']
      BY <1>0, <3>1 DEF DbJobs
    <3>3. k.pc = "store" /\ k.new # 0 /\ k.old # 0 /\ dbJob' = [dbJob EXCEPT ![r] = k]
      BY <1>0, <1>1, <2>1, <2>3, <3>1, <3>2 DEF DbInv, DbType, DbJobs
    <3>4. box' \in Boxes /\ box'.st = box.st
      BY <1>0, <2>3, <3>1 DEF Boxes
    <3>. QED BY <1>0, <1>2, <2>1, <3>1, <3>3, <3>4
  <2>. QED BY <1>3, <2>2, <2>3 DEF SetPassword
<1>4. CASE StorePassword(r)
  <2>1. booted /\ UNCHANGED <<box, live, plain, booted, used>> /\ dbJob[r].pc = "store"
    BY <1>4 DEF StorePassword, CallFails
  <2>2. CASE CallFails /\ Then(r, "revert") /\ UNCHANGED sealed
    <3>1. PICK k \in DbJobs : /\ dbJob' = [dbJob EXCEPT ![r] = k] /\ k.pc = "revert"
                              /\ k.old = dbJob[r].old /\ k.new = dbJob[r].new
      BY <1>0, <2>2, DbJobMoves
    <3>. QED BY <1>0, <1>1, <1>2, <2>1, <2>2, <3>1 DEF CallFails
  <2>3. CASE /\ PutManaged(dbJob[r].new)
             /\ IF env = 0 THEN Ends(r) ELSE Then(r, "wake")
             /\ loose' = loose \cup Overtaken(r, TRUE)
    <3>1. PICK k \in DbJobs : dbJob' = [dbJob EXCEPT ![r] = k] /\ k.pc \in {"wake", "idle"}
      <4>1. CASE Ends(r)
        <5>1. dbJob' = [dbJob EXCEPT ![r] = Resting] /\ Resting.pc = "idle" /\ Resting \in DbJobs
          BY <4>1, DbNumbers DEF Ends, Resting
        <5>. QED BY <5>1
      <4>2. CASE Then(r, "wake")
        BY <1>0, <4>2, DbJobMoves
      <4>. QED BY <2>3, <4>1, <4>2
    <3>2. sealed' = dbJob[r].new /\ sealed' # 0 /\ sealed' \in Passwords
      BY <1>0, <1>1, <2>1, <2>3 DEF PutManaged, DbJobs
    <3>3. loose \subseteq loose' /\ (loose' = {} => box.pw = dbJob[r].new)
      BY <2>3 DEF Overtaken
    <3>4. box.pw = dbJob[r].new => box.st # "none"
      BY <1>0, <1>1, <2>1 DEF NoBox
    <3>. QED BY <1>0, <1>2, <2>1, <3>1, <3>2, <3>3, <3>4
  <2>. QED BY <1>4, <2>2, <2>3 DEF StorePassword
<1>5. CASE RevertPassword(r)
  <2>1. booted /\ UNCHANGED <<live, plain, sealed, booted, used>> /\ dbJob[r].pc = "revert" /\ Ends(r)
    BY <1>5 DEF RevertPassword
  <2>2. dbJob' = [dbJob EXCEPT ![r] = Resting] /\ Resting.pc = "idle" /\ Resting \in DbJobs
    BY <2>1, DbNumbers DEF Ends, Resting
  <2>3. /\ loose \subseteq loose' /\ box' \in Boxes /\ (box'.st = "none" <=> box.st = "none")
        /\ loose' = {} => box'.pw = sealed /\ sealed # 0 /\ box.st # "none"
    <3>1. CASE /\ Accepts(dbJob[r].new) /\ box' = [box EXCEPT !.pw = dbJob[r].old]
               /\ loose' = loose \cup Overtaken(r, sealed = dbJob[r].old)
      <4>1. box' \in Boxes /\ box'.st = box.st /\ box'.pw = dbJob[r].old /\ box.st = "up"
        BY <1>0, <3>1 DEF Boxes, DbJobs, Accepts, DatabaseRunning
      <4>2. loose' = {} => sealed = dbJob[r].old
        BY <3>1 DEF Overtaken
      <4>. QED BY <1>1, <2>1, <3>1, <4>1, <4>2
    <3>2. CASE UNCHANGED box /\ loose' = loose \cup {"unreverted"}
      BY <1>0, <3>2
    <3>. QED BY <1>5, <3>1, <3>2 DEF RevertPassword
  <2>. QED BY <1>0, <1>2, <2>1, <2>2, <2>3
<1>. QED BY <1>3, <1>4, <1>5

\* A deletion takes the password once the database is no longer recorded.
LEMMA DeletionKeeps ==
    ASSUME DbInv, TearDown \/ MarkDeprovisioned \/ PurgeFiles \/ DeleteSecrets \/ SetDeleted
    PROVE  DbInv'
<1>. USE DEF rest, rows, store, asleepness, DbDoing
<1>0. /\ "delete" \in DbActors /\ "delete" \notin Rotators /\ "deploy" \in DbActors
      /\ {"mark", "files", "secrets", "status", "idle"} \subseteq DbPcs
      /\ box \in Boxes /\ (box.st = "none" => box = NoBox) /\ sealed \in Passwords /\ used \in Passwords
  BY DbNumbers DEF DbPcs, DbInv, DbType
<1>1. dbJob["delete"].pc # "idle"
  BY DEF TearDown, MarkDeprovisioned, PurgeFiles, DeleteSecrets, SetDeleted
<1>2. dbJob["deploy"].pc = "idle" /\ (dbJob["delete"].pc \in {"files", "secrets", "status"} => ~live)
  BY <1>1 DEF DbInv, ProvisionsAlone
<1>3. ASSUME NEW pc \in {"mark", "files", "secrets", "status", "idle"}, Then("delete", pc) \/ (Ends("delete") /\ pc = "idle"),
             booted, UNCHANGED <<booted, loose, used>>,
             box' \in {box, NoBox}, live' \in {live, FALSE},
             live' => UNCHANGED <<sealed, plain>>, plain' \in {plain, 0}, sealed' \in {sealed, 0},
             pc \in {"files", "secrets", "status"} => ~live'
      PROVE  DbInv'
  <2>1. PICK k \in DbJobs : dbJob' = [dbJob EXCEPT !["delete"] = k] /\ k.pc = pc
    <3>1. CASE Then("delete", pc)
      BY <1>0, <3>1, DbJobMoves
    <3>2. CASE Ends("delete") /\ pc = "idle"
      <4>1. dbJob' = [dbJob EXCEPT !["delete"] = Resting] /\ Resting.pc = "idle" /\ Resting \in DbJobs
        BY <3>2, DbNumbers DEF Ends, Resting
      <4>. QED BY <3>2, <4>1
    <3>. QED BY <1>3, <3>1, <3>2
  <2>2. /\ dbJob' \in [DbActors -> DbJobs] /\ dbJob'["delete"] = k
        /\ \A b \in DbActors : b # "delete" => dbJob'[b] = dbJob[b]
    BY <1>0, <2>1, DbJobMoves
  <2>3. dbJob'["deploy"].pc = "idle"
    BY <1>0, <1>2, <2>2
  <2>4. DbType'
    BY <1>0, <1>3, <2>2, DbNumbers DEF DbInv, DbType
  <2>5. StartsAsStored'
    BY <2>3 DEF StartsAsStored
  <2>6. KeptFromStart'
    <3>1. Rotating' <=> Rotating
      BY <1>0, <2>2, DbNumbers DEF Rotating
    <3>2. box'.st # "none" => UNCHANGED box
      BY <1>3 DEF NoBox
    <3>. QED BY <1>3, <2>3, <3>1, <3>2 DEF DbInv, KeptFromStart, Agree
  <2>7. ProvisionsAlone'
    BY <1>3, <2>1, <2>2, <2>3 DEF ProvisionsAlone, Provisioning, DbInv
  <2>8. RotationsFit'
    BY <1>0, <2>2, DbNumbers DEF RotationsFit, DbInv
  <2>9. PlainUntilBooted'
    BY <1>3 DEF PlainUntilBooted, DbInv
  <2>. QED BY <2>4, <2>5, <2>6, <2>7, <2>8, <2>9 DEF DbInv
<1>4. CASE TearDown
  BY <1>2, <1>3, <1>4 DEF TearDown, CallFails
<1>5. CASE MarkDeprovisioned
  BY <1>2, <1>3, <1>5 DEF MarkDeprovisioned, CallFails
<1>6. CASE PurgeFiles
  BY <1>2, <1>3, <1>6 DEF PurgeFiles, CallFails
<1>7. CASE DeleteSecrets
  BY <1>2, <1>3, <1>7 DEF DeleteSecrets, CallFails
<1>8. CASE SetDeleted
  BY <1>2, <1>3, <1>8 DEF SetDeleted, CallFails
<1>. QED BY <1>4, <1>5, <1>6, <1>7, <1>8

\* The server stops, and starts with the migration.
LEMMA BootKeeps ==
    ASSUME DbInv, MigrateSeal \/ MigrateClear \/ Boot \/ Crash
    PROVE  DbInv'
<1>. USE DEF rest, rows, store, asleepness
<1>1. \A a \in DbActors : [b \in DbActors |-> Resting][a].pc = "idle"
  BY DEF Resting
<1>2. CASE MigrateSeal \/ MigrateClear \/ Boot
  <2>1. /\ \A a \in DbActors : dbJob[a].pc = "idle"
        /\ UNCHANGED <<box, live, dbJob, used, loose>> /\ ~booted
    BY <1>1, <1>2 DEF MigrateSeal, MigrateClear, Boot, DbInv, PlainUntilBooted
  <2>2. \A a \in DbActors : dbJob'[a].pc = "idle"
    BY <2>1
  <2>3. DbType' /\ PlainUntilBooted'
    <3>1. /\ plain' \in {plain, 0} /\ sealed' \in {sealed, plain} /\ booted' \in BOOLEAN
          /\ plain' # 0 => ~booted'
      <4>1. CASE MigrateSeal \/ MigrateClear
        BY <2>1, <4>1 DEF MigrateSeal, MigrateClear, PutManaged, DbInv, DbType
      <4>2. CASE Boot
        BY <2>1, <4>2 DEF Boot, DbInv, PlainUntilBooted
      <4>. QED BY <1>2, <4>1, <4>2
    <3>2. DbType'
      BY <2>1, <3>1, DbNumbers DEF DbInv, DbType
    <3>3. plain # 0 => live /\ box.pw = plain
      BY DEF DbInv, PlainUntilBooted
    <3>4. dbJob = [a \in DbActors |-> Resting]
      BY <2>1 DEF DbInv, PlainUntilBooted
    <3>. QED BY <2>1, <3>1, <3>2, <3>3, <3>4 DEF PlainUntilBooted
  <2>4. StartsAsStored' /\ ProvisionsAlone' /\ RotationsFit'
    BY <2>2, DbNumbers DEF StartsAsStored, ProvisionsAlone, Provisioning, RotationsFit
  <2>5. KeptFromStart'
    <3>1. ~Rotating
      BY <2>1, DbNumbers DEF Rotating
    <3>. QED BY <1>2, <2>1, <2>2, <3>1, DbNumbers
             DEF MigrateSeal, MigrateClear, Boot, PutManaged, DbInv, PlainUntilBooted, KeptFromStart, Agree
  <2>. QED BY <2>3, <2>4, <2>5 DEF DbInv
<1>3. CASE Crash
  <2>1. /\ UNCHANGED <<box, live, plain, sealed, used>> /\ ~booted' /\ dbJob' = [a \in DbActors |-> Resting]
        /\ loose \subseteq loose' /\ (Rotating => loose' # {})
    BY <1>3 DEF Crash, Rotating
  <2>2. \A a \in DbActors : dbJob'[a].pc = "idle"
    BY <1>1, <2>1
  <2>3. DbType'
    <3>1. dbJob' \in [DbActors -> DbJobs] /\ booted' \in BOOLEAN
      BY <1>3, <2>1, DbNumbers DEF Crash
    <3>. QED BY <2>1, <3>1 DEF DbInv, DbType
  <2>4. StartsAsStored' /\ ProvisionsAlone' /\ RotationsFit'
    BY <2>2, DbNumbers DEF StartsAsStored, ProvisionsAlone, Provisioning, RotationsFit
  <2>5. KeptFromStart' /\ PlainUntilBooted'
    BY <2>1, <2>2, DbNumbers DEF DbInv, PlainUntilBooted, KeptFromStart, Agree
  <2>. QED BY <2>3, <2>4, <2>5 DEF DbInv
<1>. QED BY <1>2, <1>3 DEF Crash

LEMMA DbInvariant == DbSpec => []DbInv
<1>1. ASSUME DbInv, [DbNext]_dbVars PROVE DbInv'
  <2>1. CASE UNCHANGED dbVars
    BY <1>1, <2>1, DbUntouched DEF dbVars
  <2>2. CASE DbNext
    BY <1>1, <2>2, DbBegins, WakeKeeps, SleepKeeps, ProvisionKeeps, RotationKeeps, DeletionKeeps, BootKeeps DEF DbNext
  <2>. QED BY <1>1, <2>1, <2>2
<1>. QED BY <1>1, DbInitial, PTL DEF DbSpec

\* A live database's password is the one in the secret store, or still in the
\* plaintext column, whatever failed and wherever the server stopped, unless a
\* rotation was cut, could not be put back or was overtaken.
THEOREM PasswordAlwaysKept == DbSpec => []PasswordKept
<1>1. DbInv => PasswordKept
  BY DEF DbInv, KeptFromStart, PasswordKept
<1>. QED BY <1>1, DbInvariant, PTL

(***************************************************************************)
(* Least and greatest elements: the rank of an element, how many are       *)
(* smaller, is an injection into 0..(size - 1) and so onto it.             *)
(***************************************************************************)

\* A finite set of naturals has a least element.
LEMMA LeastOf ==
    ASSUME NEW S, S \subseteq Nat, IsFiniteSet(S), S # {}
    PROVE  \E x \in S : \A y \in S : x <= y
<1> DEFINE Under(x) == {y \in S : y < x}
           rank == [x \in S |-> Cardinality(Under(x))]
           size == Cardinality(S)
<1>1. size \in Nat /\ size # 0
  BY FS_CardinalityType, FS_EmptySet
<1>2. ASSUME NEW x \in S PROVE IsFiniteSet(Under(x)) /\ Cardinality(Under(x)) \in 0..(size - 1)
  <2>1. IsFiniteSet(S \ {x}) /\ Cardinality(S \ {x}) = size - 1
    BY FS_RemoveElement
  <2>2. Under(x) \in SUBSET (S \ {x})
    BY <1>2
  <2>3. IsFiniteSet(Under(x)) /\ Cardinality(Under(x)) <= Cardinality(S \ {x})
    BY <2>1, <2>2, FS_Subset
  <2>4. Cardinality(Under(x)) \in Nat
    BY <2>3, FS_CardinalityType
  <2> HIDE DEF Under, size
  <2> QED BY <1>1, <2>1, <2>3, <2>4
<1>3. ASSUME NEW x \in S, NEW y \in S, x < y PROVE rank[x] < rank[y]
  <2>1. IsFiniteSet(Under(x) \cup {x}) /\ Cardinality(Under(x) \cup {x}) = Cardinality(Under(x)) + 1
    <3>1. x \notin Under(x)
      OBVIOUS
    <3> HIDE DEF Under
    <3> QED BY <1>2, <3>1, FS_AddElement
  <2>2. Under(x) \cup {x} \in SUBSET Under(y)
    <3>1. x \in Under(y)
      BY <1>3
    <3>2. \A z \in Under(x) : z \in Under(y)
      <4> TAKE z \in Under(x)
      <4>1. z \in Nat /\ x \in Nat /\ y \in Nat /\ z \in S /\ z < x
        OBVIOUS
      <4> QED BY <1>3, <4>1
    <3> HIDE DEF Under
    <3> QED BY <3>1, <3>2
  <2>3. Cardinality(Under(x) \cup {x}) <= Cardinality(Under(y))
    BY <1>2, <2>2, FS_Subset
  <2>4. Cardinality(Under(x)) \in Int /\ Cardinality(Under(y)) \in Int
    BY <1>2
  <2>5. rank[x] = Cardinality(Under(x)) /\ rank[y] = Cardinality(Under(y))
    OBVIOUS
  <2> HIDE DEF Under, rank
  <2> QED BY <2>1, <2>3, <2>4, <2>5
<1>4. rank \in Injection(S, 0..(size - 1))
  <2>1. rank \in [S -> 0..(size - 1)]
    BY <1>2
  <2>2. ASSUME NEW x \in S, NEW y \in S, x # y PROVE rank[x] # rank[y]
    <3>1. x < y \/ y < x
      BY <2>2
    <3>2. rank[x] \in Int /\ rank[y] \in Int
      BY <2>1
    <3> HIDE DEF rank
    <3> QED BY <1>3, <3>1, <3>2
  <2> HIDE DEF rank, size
  <2> QED BY <2>1, <2>2 DEF Injection, IsInjective
<1>5. IsFiniteSet(0..(size - 1)) /\ Cardinality(0..(size - 1)) = size
  <2> HIDE DEF size
  <2> QED BY <1>1, FS_Interval
<1>6. rank \in Surjection(S, 0..(size - 1))
  <2> HIDE DEF rank
  <2> QED BY <1>4, <1>5, FS_Injection
<1>7. PICK x \in S : rank[x] = 0
  <2> HIDE DEF rank, size
  <2> QED BY <1>1, <1>6 DEF Surjection
<1>8. Under(x) = {}
  BY <1>2, <1>7, FS_EmptySet
<1> QED BY <1>8

\* So does a set of naturals up to n have a greatest.
LEMMA GreatestOf ==
    ASSUME NEW S, NEW n \in Nat, S \subseteq 0..n, S # {}
    PROVE  \E x \in S : \A y \in S : y <= x
<1> DEFINE T == {n - x : x \in S}
<1>1. \A y \in T : y \in 0..n
  OBVIOUS
<1>2. IsFiniteSet(T) /\ T \subseteq Nat /\ T # {}
  <2>1. T # {}
    OBVIOUS
  <2> HIDE DEF T
  <2>2. T \in SUBSET (0..n) /\ T \subseteq Nat
    BY <1>1
  <2>3. IsFiniteSet(0..n)
    BY FS_Interval
  <2> QED BY <2>1, <2>2, <2>3, FS_Subset
<1>3. PICK z \in T : \A y \in T : z <= y
  <2> HIDE DEF T
  <2> QED BY <1>2, LeastOf
<1>4. PICK x \in S : z = n - x
  BY <1>3
<1>5. ASSUME NEW y \in S PROVE y <= x
  <2>1. n - y \in T
    OBVIOUS
  <2>2. n - x <= n - y
    BY <1>3, <1>4, <2>1
  <2>3. x \in Int /\ y \in Int
    OBVIOUS
  <2> QED BY <2>2, <2>3
<1> QED BY <1>5

(***************************************************************************)
(* Differential backups                                                    *)
(***************************************************************************)
Line == Lines \cup Tails
Instructions == [op : {"C", "L"}, first : Nat, count : Nat, lines : Seq(Line)]

\* Only the last line of a dump can be Nothing.
IsDump(s) == s \in Seq(Line) /\ \A k \in 1..(Len(s) - 1) : s[k] # Nothing

DeltaType ==
    /\ IsDump(base) /\ IsDump(target)
    /\ written \in 0..Len(target) /\ next \in Nat \ {0}
    /\ delta \in Seq(Instructions) /\ applied \in 0..Len(delta)

\* What Apply makes of an instruction.
Made(d) == IF d.op = "C" THEN SubSeq(base, d.first, d.first + d.count - 1) ELSE d.lines

\* The instructions ds make the first to the pos[Len(ds)]-th line of the
\* target, the i-th of them those after pos[i - 1] up to pos[i].
Covers(pos, ds) ==
    /\ pos \in [0..Len(ds) -> 0..Len(target)] /\ pos[0] = 0
    /\ \A i \in 1..Len(ds) :
        /\ pos[i - 1] < pos[i] /\ ~Refused(ds[i])
        /\ Made(ds[i]) = SubSeq(target, pos[i - 1] + 1, pos[i])

\* All of it, but for a last line that is Nothing.
Complete(n) == \/ n = Len(target)
               \/ n = Len(target) - 1 /\ n \in Nat /\ target[Len(target)] = Nothing

Diffing(pos) ==
    /\ applied = 0 /\ out = <<>>
    /\ pos[Len(delta)] <= written
    /\ literal = SubSeq(target, pos[Len(delta)] + 1, written)
Applying(pos) ==
    /\ Complete(pos[Len(delta)])
    /\ out = Bytes(SubSeq(target, 1, pos[applied]))

DeltaInv ==
    /\ DeltaType
    /\ phase \in {"diff", "apply", "done"}
    /\ phase = "done" => applied = Len(delta)
    /\ \E pos \in [0..Len(delta) -> 0..Len(target)] :
        /\ Covers(pos, delta)
        /\ IF phase = "diff" THEN Diffing(pos) ELSE Applying(pos)

(***************************************************************************)
(* Sequences of lines                                                      *)
(***************************************************************************)

\* What splitLines makes of a dump ends in Nothing or has none.
LEMMA DumpLines ==
    ASSUME NEW s \in SplitLines
    PROVE  IsDump(s)
<1>1. CASE s = <<>>
  BY <1>1 DEF IsDump
<1>2. ASSUME NEW n \in 1..MaxLines, NEW h \in [1..n -> Lines], NEW e \in Tails, s = Append(h, e)
      PROVE  IsDump(s)
  <2>0. n \in Nat
    BY DeltaAssumption
  <2>1. h \in Seq(Line) /\ Len(h) = n
    BY <2>0 DEF Line
  <2>2. e \in Line
    BY DEF Line
  <2>3. s \in Seq(Line) /\ Len(s) = n + 1 /\ \A k \in 1..n : s[k] = h[k]
    BY <1>2, <2>1, <2>2, AppendProperties
  <2>4. \A k \in 1..n : h[k] # Nothing
    BY DeltaAssumption
  <2> QED BY <2>0, <2>3, <2>4 DEF IsDump
<1>3. ASSUME NEW e \in Tails, s = <<e>> PROVE IsDump(s)
  BY <1>3 DEF IsDump, Line
<1> QED BY <1>1, <1>2, <1>3 DEF SplitLines

\* A piece of a dump.
LEMMA Piece ==
    ASSUME NEW s, IsDump(s), NEW m \in 1..(Len(s) + 1), NEW n \in 0..Len(s)
    PROVE  /\ SubSeq(s, m, n) \in Seq(Line)
           /\ Len(SubSeq(s, m, n)) = IF m <= n THEN n - m + 1 ELSE 0
           /\ \A i \in 1..(n - m + 1) : SubSeq(s, m, n)[i] = s[m + i - 1]
<1>1. s \in Seq(Line) /\ Len(s) \in Nat
  BY DEF IsDump
<1>2. \A i \in m..n : s[i] \in Line
  BY <1>1, ElementOfSeq
<1> QED BY <1>1, <1>2, SubSeqProperties

\* A piece without its last line.
LEMMA ShorterPiece ==
    ASSUME NEW s, IsDump(s), NEW m \in 1..Len(s), NEW n \in m..Len(s)
    PROVE  SubSeq(SubSeq(s, m, n), 1, n - m) = SubSeq(s, m, n - 1)
<1> DEFINE p == SubSeq(s, m, n)
<1>1. s \in Seq(Line) /\ Len(s) \in Nat
  BY DEF IsDump
<1>2. p \in Seq(Line) /\ Len(p) = n - m + 1 /\ \A i \in 1..(n - m + 1) : p[i] = s[m + i - 1]
  BY <1>1, Piece
<1>3. \A i \in 1..(n - m) : p[i] \in Line
  <2> HIDE DEF p
  <2> QED BY <1>1, <1>2, ElementOfSeq
<1>4. /\ SubSeq(p, 1, n - m) \in Seq(Line) /\ Len(SubSeq(p, 1, n - m)) = n - m
      /\ \A i \in 1..(n - m) : SubSeq(p, 1, n - m)[i] = p[i]
  <2> HIDE DEF p
  <2>1. 1 \in Int /\ n - m \in Int /\ n - m >= 0
    BY <1>1
  <2> QED BY <1>3, <2>1, SubSeqProperties
<1>5. /\ SubSeq(s, m, n - 1) \in Seq(Line) /\ Len(SubSeq(s, m, n - 1)) = n - m
      /\ \A i \in 1..(n - m) : SubSeq(s, m, n - 1)[i] = s[m + i - 1]
  BY <1>1, Piece
<1>6. \A i \in 1..(n - m) : SubSeq(p, 1, n - m)[i] = SubSeq(s, m, n - 1)[i]
  <2> HIDE DEF p
  <2> QED BY <1>1, <1>2, <1>4, <1>5
<1> HIDE DEF p
<1>7. SubSeq(p, 1, n - m) = SubSeq(s, m, n - 1)
  BY <1>4, <1>5, <1>6, SeqEqual
<1> QED BY <1>7 DEF p

\* The bytes of two adjacent pieces are those of the whole.
LEMMA BytesOfPieces ==
    ASSUME NEW s, IsDump(s), NEW a \in 0..Len(s), NEW b \in 0..Len(s), a < b
    PROVE  Bytes(SubSeq(s, 1, b)) = Bytes(SubSeq(s, 1, a)) \o Bytes(SubSeq(s, a + 1, b))
<1>1. s \in Seq(Line) /\ Len(s) \in Nat /\ \A k \in 1..(Len(s) - 1) : s[k] # Nothing
  BY DEF IsDump
<1>2. Bytes(SubSeq(s, 1, a)) = SubSeq(s, 1, a)
  <2>1. CASE a = 0
    BY <1>1, <2>1, Piece DEF Bytes
  <2>2. CASE a > 0
    <3>1. SubSeq(s, 1, a)[a] = s[a] /\ Len(SubSeq(s, 1, a)) = a
      BY <1>1, <2>2, Piece
    <3> QED BY <1>1, <2>2, <3>1 DEF Bytes
  <2> QED BY <1>1, <2>1, <2>2
<1> DEFINE p == SubSeq(s, a + 1, b)
           w == SubSeq(s, 1, b)
<1>3. /\ p \in Seq(Line) /\ Len(p) = b - a /\ p[b - a] = s[b]
      /\ w \in Seq(Line) /\ Len(w) = b /\ w[b] = s[b]
  BY <1>1, Piece
<1>4. CASE s[b] # Nothing
  <2>1. Bytes(p) = p /\ Bytes(w) = w
    <3> HIDE DEF p, w
    <3> QED BY <1>1, <1>3, <1>4 DEF Bytes
  <2>2. w = SubSeq(s, 1, a) \o p
    BY <1>1, ConcatAdjacentSubSeq
  <2> QED BY <1>2, <2>1, <2>2
<1>5. CASE s[b] = Nothing
  <2>1. Bytes(p) = SubSeq(p, 1, b - a - 1) /\ Bytes(w) = SubSeq(w, 1, b - 1)
    <3> HIDE DEF p, w
    <3> QED BY <1>1, <1>3, <1>5 DEF Bytes
  <2>2. SubSeq(p, 1, b - a - 1) = SubSeq(s, a + 1, b - 1)
    BY <1>1, <1>3, Piece, ShorterPiece
  <2>3. SubSeq(w, 1, b - 1) = SubSeq(s, 1, b - 1)
    BY <1>1, <1>3, Piece, ShorterPiece
  <2>4. SubSeq(s, 1, b - 1) = SubSeq(s, 1, a) \o SubSeq(s, a + 1, b - 1)
    BY <1>1, ConcatAdjacentSubSeq
  <2> QED BY <1>2, <2>1, <2>2, <2>3, <2>4
<1> QED BY <1>4, <1>5

(***************************************************************************)
(* Diff                                                                    *)
(***************************************************************************)
\* A line found in the base is alike for some lines from there on, and what
\* Extent counts is all of them.
LEMMA ExtentIs ==
    ASSUME IsDump(base), IsDump(target), written \in 0..Len(target),
           NEW i \in 1..Len(base), Alike(i, 1)
    PROVE  Extent(i) \in 1..Len(base) /\ Alike(i, Extent(i))
<1>1. Len(base) \in Nat /\ Len(target) \in Nat
  BY DEF IsDump
<1> DEFINE Unlike == {n \in 0..(Len(base) + 1) : ~Alike(i, n)}
<1>2. Len(base) + 1 \in Unlike
  BY <1>1 DEF Alike
<1>3. PICK m \in Unlike : \A n \in Unlike : m <= n
  <2>1. IsFiniteSet(0..(Len(base) + 1))
    BY <1>1, FS_Interval
  <2>2. Unlike \subseteq 0..(Len(base) + 1)
    OBVIOUS
  <2>3. Unlike \subseteq Nat
    OBVIOUS
  <2> HIDE DEF Unlike
  <2>4. IsFiniteSet(Unlike)
    BY <2>1, <2>2, FS_Subset
  <2> QED BY <1>2, <2>3, <2>4, LeastOf
<1>4. m # 0 /\ m # 1
  BY <1>1 DEF Alike
<1>5. m - 1 \in 0..Len(base) /\ m - 1 \notin Unlike
  BY <1>1, <1>3, <1>4
<1>6. m - 1 \in 0..Len(base) /\ Alike(i, m - 1) /\ ~Alike(i, (m - 1) + 1)
  BY <1>1, <1>3, <1>5
<1> HIDE DEF Unlike
<1>7. Extent(i) \in 0..Len(base) /\ Alike(i, Extent(i)) /\ ~Alike(i, Extent(i) + 1)
  BY <1>6 DEF Extent
<1>8. Extent(i) # 0
  BY <1>7
<1> QED BY <1>1, <1>7, <1>8

\* The copy WriteCopy writes is of lines of the base that are the next ones
\* of the target.
LEMMA BestIs ==
    ASSUME IsDump(base), IsDump(target), written \in 0..Len(target), written < Len(target),
           next \in Nat \ {0}, Tried # {}
    PROVE  Best \in 1..Len(base) /\ Extent(Best) \in 1..Len(base) /\ Alike(Best, Extent(Best))
<1>1. /\ Len(base) \in Nat /\ Len(target) \in Nat
      /\ DOMAIN base = 1..Len(base)
  BY DEF IsDump
<1>2. ASSUME NEW i \in Tried PROVE i \in 1..Len(base) /\ Alike(i, 1)
  BY <1>1, <1>2 DEF Tried, Index, Alike
<1>3. ASSUME NEW i \in Tried PROVE Extent(i) \in 1..Len(base) /\ Alike(i, Extent(i))
  BY <1>2, <1>3, ExtentIs
<1>4. PICK i \in Tried : \A k \in Tried : Extent(k) <= Extent(i)
  <2> DEFINE Extents == {Extent(k) : k \in Tried}
  <2>1. Extents \subseteq 0..Len(base)
    BY <1>1, <1>3
  <2>2. Extents # {}
    OBVIOUS
  <2>3. PICK e \in Extents : \A f \in Extents : f <= e
    <3> HIDE DEF Extents
    <3> QED BY <1>1, <2>1, <2>2, GreatestOf
  <2> QED BY <2>3
<1>5. i \in Longest /\ Longest \subseteq Tried
  BY <1>4 DEF Longest
<1>6. Best \in Longest
  <2>1. PICK k \in Longest : \A l \in Longest : k <= l
    <3>1. Longest \subseteq 1..Len(base)
      BY <1>2, <1>5
    <3>2. IsFiniteSet(1..Len(base))
      BY <1>1, FS_Interval
    <3>3. IsFiniteSet(Longest)
      BY <3>1, <3>2, FS_Subset
    <3>4. Longest \subseteq Nat
      BY <3>1
    <3> QED BY <1>5, <3>3, <3>4, LeastOf
  <2> QED BY <2>1 DEF Best
<1> QED BY <1>2, <1>3, <1>5, <1>6

\* One instruction more.
LEMMA OneMore ==
    ASSUME IsDump(target), NEW ds \in Seq(Instructions), NEW pos, Covers(pos, ds),
           NEW d \in Instructions, ~Refused(d),
           NEW n \in 0..Len(target), pos[Len(ds)] < n,
           Made(d) = SubSeq(target, pos[Len(ds)] + 1, n)
    PROVE  \E q : Covers(q, Append(ds, d)) /\ q[Len(Append(ds, d))] = n
<1> DEFINE l == Len(ds)
           as == Append(ds, d)
           q == [k \in 0..(l + 1) |-> IF k <= l THEN pos[k] ELSE n]
<1>1. l \in Nat /\ Len(target) \in Nat
  BY DEF IsDump
<1>2. Len(as) = l + 1 /\ as[l + 1] = d /\ \A i \in 1..l : as[i] = ds[i]
  BY AppendProperties
<1>3. q \in [0..(l + 1) -> 0..Len(target)] /\ q[0] = 0 /\ q[l + 1] = n /\ q[l] = pos[l]
  BY <1>1 DEF Covers
<1>4. ASSUME NEW i \in 1..(l + 1)
      PROVE  /\ q[i - 1] < q[i] /\ ~Refused(as[i])
             /\ Made(as[i]) = SubSeq(target, q[i - 1] + 1, q[i])
  <2>1. CASE i = l + 1
    <3>1. q[i] = n /\ q[i - 1] = pos[l] /\ as[i] = d
      BY <1>1, <1>2, <1>3, <2>1
    <3> HIDE DEF q, as
    <3> QED BY <3>1
  <2>2. CASE i \in 1..l
    <3>1. q[i] = pos[i] /\ q[i - 1] = pos[i - 1] /\ as[i] = ds[i]
      BY <1>1, <1>2, <2>2
    <3> HIDE DEF q, as
    <3> QED BY <2>2, <3>1 DEF Covers
  <2>3. i = l + 1 \/ i \in 1..l
    BY <1>1
  <2> HIDE DEF q, as, l
  <2> QED BY <2>1, <2>2, <2>3
<1> HIDE DEF q, as
<1>5. Covers(q, as) /\ q[Len(as)] = n
  BY <1>2, <1>3, <1>4 DEF Covers
<1> QED BY <1>5 DEF as

\* Of the lines waiting only a last one that is Nothing has no bytes.
LEMMA Waiting ==
    ASSUME NEW s, IsDump(s), NEW p \in 0..Len(s), NEW w \in 0..Len(s), p <= w
    PROVE  /\ SubSeq(s, p + 1, w) \in Seq(Line)
           /\ Bytes(SubSeq(s, p + 1, w)) = <<>> =>
                \/ w = p
                \/ w = Len(s) /\ p = Len(s) - 1 /\ s[Len(s)] = Nothing
           /\ Bytes(SubSeq(s, p + 1, w)) # <<>> => p < w
<1> DEFINE l == SubSeq(s, p + 1, w)
<1>1. Len(s) \in Nat /\ \A k \in 1..(Len(s) - 1) : s[k] # Nothing
  BY DEF IsDump
<1>2. /\ l \in Seq(Line) /\ Len(l) = w - p
      /\ w > p => l[w - p] = s[w]
  <2>1. p + 1 \in 1..(Len(s) + 1)
    BY <1>1
  <2>2. /\ l \in Seq(Line)
        /\ Len(l) = IF p + 1 <= w THEN w - (p + 1) + 1 ELSE 0
        /\ \A i \in 1..(w - (p + 1) + 1) : l[i] = s[(p + 1) + i - 1]
    BY <2>1, Piece
  <2> HIDE DEF l
  <2>3. CASE w = p
    BY <1>1, <2>2, <2>3
  <2>4. CASE w > p
    <3>1. w - p \in 1..(w - (p + 1) + 1) /\ (p + 1) + (w - p) - 1 = w
      BY <1>1, <2>4
    <3> QED BY <1>1, <2>2, <2>4, <3>1
  <2> QED BY <1>1, <2>3, <2>4
<1> HIDE DEF l
<1>3. Bytes(l) # <<>> => p < w
  BY <1>1, <1>2 DEF Bytes
<1>4. ASSUME Bytes(l) = <<>>, w > p PROVE w = Len(s) /\ p = Len(s) - 1 /\ s[Len(s)] = Nothing
  <2>1. l # <<>> /\ l[Len(l)] = Nothing
    BY <1>1, <1>2, <1>4 DEF Bytes
  <2>2. w = Len(s) /\ s[w] = Nothing
    BY <1>1, <1>2, <1>4, <2>1
  <2>3. SubSeq(l, 1, Len(l) - 1) = <<>>
    BY <1>4, <2>1 DEF Bytes
  <2>4. \A k \in 1..(Len(l) - 1) : l[k] \in Line
    BY <1>1, <1>2, ElementOfSeq
  <2>5. Len(SubSeq(l, 1, Len(l) - 1)) = Len(l) - 1
    <3>1. 1 \in Int /\ Len(l) - 1 \in Nat
      BY <1>1, <1>2, <1>4
    <3>2. Len(SubSeq(l, 1, Len(l) - 1)) = IF 1 <= Len(l) - 1 THEN (Len(l) - 1) - 1 + 1 ELSE 0
      BY <2>4, <3>1, SubSeqProperties
    <3>3. (IF 1 <= Len(l) - 1 THEN (Len(l) - 1) - 1 + 1 ELSE 0) = Len(l) - 1
      BY <3>1
    <3> QED BY <3>2, <3>3
  <2>6. Len(l) - 1 = 0
    <3>1. Len(<<>>) = 0
      OBVIOUS
    <3> QED BY <2>3, <2>5, <3>1
  <2>7. w - p = 1
    BY <1>1, <1>2, <2>6
  <2>8. p = Len(s) - 1
    BY <1>1, <2>2, <2>7
  <2> QED BY <2>2, <2>8
<1>5. Bytes(l) = <<>> => w = p \/ (w = Len(s) /\ p = Len(s) - 1 /\ s[Len(s)] = Nothing)
  BY <1>1, <1>4
<1> QED BY <1>2, <1>3, <1>5 DEF l

\* Flushing covers the lines that were waiting; only a last line that is
\* Nothing is not worth an instruction.
LEMMA FlushCovers ==
    ASSUME IsDump(target), delta \in Seq(Instructions), written \in 0..Len(target),
           NEW pos, Covers(pos, delta), pos[Len(delta)] <= written,
           literal = SubSeq(target, pos[Len(delta)] + 1, written)
    PROVE  /\ Flushed \in Seq(Instructions)
           /\ \E q : /\ Covers(q, Flushed)
                    /\ \/ q[Len(Flushed)] = written
                       \/ /\ written = Len(target) /\ q[Len(Flushed)] = Len(target) - 1
                          /\ target[Len(target)] = Nothing
<1>1. pos[Len(delta)] \in 0..Len(target)
  BY DEF IsDump, Covers
<1>2. /\ literal \in Seq(Line)
      /\ Bytes(literal) = <<>> =>
            \/ written = pos[Len(delta)]
            \/ /\ written = Len(target) /\ pos[Len(delta)] = Len(target) - 1
               /\ target[Len(target)] = Nothing
      /\ Bytes(literal) # <<>> => pos[Len(delta)] < written
  BY <1>1, Waiting
<1>3. CASE Bytes(literal) = <<>>
  <2>1. Flushed = delta
    BY <1>3 DEF Flushed
  <2> QED BY <1>2, <1>3, <2>1
<1>4. CASE Bytes(literal) # <<>>
  <2> DEFINE d == Literally(literal)
  <2>1. Flushed = Append(delta, d)
    BY <1>4 DEF Flushed
  <2>2. d \in Instructions /\ ~Refused(d) /\ Made(d) = literal
    BY <1>2, <1>4 DEF Literally, Instructions, Refused, Made
  <2> HIDE DEF d
  <2>3. \E q : Covers(q, Append(delta, d)) /\ q[Len(Append(delta, d))] = written
    <3>1. Made(d) = SubSeq(target, pos[Len(delta)] + 1, written)
      BY <2>2
    <3>2. d \in Instructions /\ ~Refused(d)
      BY <2>2
    <3>3. pos[Len(delta)] < written
      BY <1>2, <1>4
    <3> HIDE DEF d
    <3> QED BY <3>1, <3>2, <3>3, OneMore
  <2>4. Flushed \in Seq(Instructions)
    BY <2>1, <2>2
  <2> QED BY <2>1, <2>3, <2>4
<1> QED BY <1>3, <1>4

(***************************************************************************)
(* The invariant                                                           *)
(***************************************************************************)
LEMMA DeltaInitSound == DeltaInit => DeltaInv
<1> SUFFICES ASSUME DeltaInit PROVE DeltaInv
  OBVIOUS
<1>1. DeltaType
  BY DumpLines DEF DeltaInit, DeltaType, IsDump
<1>2. Len(target) \in Nat /\ delta = <<>> /\ Len(delta) = 0
  BY <1>1 DEF DeltaInit, DeltaType, IsDump
<1> DEFINE pos == [k \in {0} |-> 0]
<1>3. Covers(pos, delta)
  BY <1>2 DEF Covers
<1>4. Diffing(pos)
  BY <1>2 DEF Diffing, DeltaInit
<1> HIDE DEF pos
<1> QED BY <1>1, <1>3, <1>4 DEF DeltaInv, DeltaInit, Covers

\* What covers stays what it covers while the dumps do.
LEMMA CoversStill ==
    ASSUME base' = base, target' = target, NEW pos, NEW ds
    PROVE  /\ Covers(pos, ds) => Covers(pos, ds)'
           /\ Complete(pos[Len(ds)]) => Complete(pos[Len(ds)])'
BY DEF Covers, Complete, Made, Refused, Bytes

LEMMA WriteLiteralSound ==
    ASSUME DeltaInv, WriteLiteral
    PROVE  DeltaInv'
<1>1. PICK pos : Covers(pos, delta) /\ Diffing(pos)
  BY DEF DeltaInv, WriteLiteral
<1>2. DeltaType /\ phase = "diff"
  BY DEF DeltaInv, WriteLiteral
<1>3. Len(target) \in Nat /\ target \in Seq(Line) /\ pos[Len(delta)] \in 0..Len(target)
  <2>1. Len(delta) \in 0..Len(delta)
    BY <1>2 DEF DeltaType
  <2>2. pos \in [0..Len(delta) -> 0..Len(target)]
    BY <1>1 DEF Covers
  <2>3. Len(target) \in Nat /\ target \in Seq(Line)
    BY <1>2 DEF DeltaType, IsDump
  <2> QED BY <2>1, <2>2, <2>3
<1>4. written + 1 \in 0..Len(target) /\ written \in Nat
  BY <1>2, <1>3 DEF DeltaType, WriteLiteral
<1>5. DeltaType'
  BY <1>2, <1>4 DEF DeltaType, WriteLiteral
<1>6. literal' = SubSeq(target, pos[Len(delta)] + 1, written + 1)
  <2> DEFINE p == pos[Len(delta)]
  <2>1. literal = SubSeq(target, p + 1, written) /\ p <= written /\ p \in Nat
    BY <1>1, <1>3 DEF Diffing
  <2>2. literal' = Append(literal, target[written + 1])
    BY DEF WriteLiteral
  <2> HIDE DEF p
  <2>3. literal \in Seq(Line)
    BY <1>2, <1>3, <1>4, <2>1, Piece DEF DeltaType
  <2>4. target[written + 1] \in Line
    BY <1>3, <1>4, ElementOfSeq
  <2>5. literal' = literal \o <<target[written + 1]>>
    BY <2>2, <2>3, <2>4, AppendIsConcat
  <2>6. SubSeq(target, p + 1, written + 1) = SubSeq(target, p + 1, written) \o <<target[written + 1]>>
    <3>1. p + 1 \in 1..Len(target) /\ written + 1 \in (p + 1)..Len(target) /\ (written + 1) - 1 = written
      BY <1>3, <1>4, <2>1
    <3>2. SubSeq(target, p + 1, written + 1) = SubSeq(target, p + 1, (written + 1) - 1) \o <<target[written + 1]>>
      BY <1>3, <3>1, SubSeqRecursiveSecond
    <3> QED BY <3>1, <3>2
  <2> QED BY <2>1, <2>5, <2>6 DEF p
<1>7. Covers(pos, delta)'
  BY <1>1, CoversStill DEF WriteLiteral
<1>8. Diffing(pos)'
  <2>1. UNCHANGED <<target, delta, applied, out>> /\ written' = written + 1
    BY DEF WriteLiteral
  <2>2. applied = 0 /\ out = <<>> /\ pos[Len(delta)] <= written
    BY <1>1 DEF Diffing
  <2>3. pos[Len(delta)] <= written + 1
    BY <1>3, <1>4, <2>2
  <2>4. literal' = SubSeq(target', pos[Len(delta')] + 1, written')
    BY <1>6, <2>1
  <2> QED BY <2>1, <2>2, <2>3, <2>4 DEF Diffing
<1>9. phase' = "diff"
  BY <1>2 DEF WriteLiteral
<1> QED BY <1>5, <1>7, <1>8, <1>9 DEF DeltaInv

LEMMA WriteCopySound ==
    ASSUME DeltaInv, WriteCopy
    PROVE  DeltaInv'
<1>1. PICK pos : Covers(pos, delta) /\ Diffing(pos)
  BY DEF DeltaInv, WriteCopy
<1>2. DeltaType /\ phase = "diff" /\ written < Len(target) /\ Tried # {}
  BY DEF DeltaInv, WriteCopy
<1>3. /\ Len(target) \in Nat /\ Len(base) \in Nat /\ written \in Nat
      /\ target \in Seq(Line) /\ base \in Seq(Line)
  BY <1>2 DEF DeltaType, IsDump
<1> DEFINE n == Extent(Best)
           d == Copying(Best, n)
<1>4. Best \in 1..Len(base) /\ n \in 1..Len(base) /\ Alike(Best, n)
  BY <1>2, BestIs DEF DeltaType
<1>5. /\ delta' = Append(Flushed, d) /\ literal' = <<>> /\ written' = written + n
      /\ next' = Best + n /\ UNCHANGED <<base, target, applied, out, phase>>
  BY DEF WriteCopy
<1>6. PICK q : Covers(q, Flushed) /\ q[Len(Flushed)] = written
  <2>1. \E q : /\ Covers(q, Flushed)
              /\ \/ q[Len(Flushed)] = written
                 \/ /\ written = Len(target) /\ q[Len(Flushed)] = Len(target) - 1
                    /\ target[Len(target)] = Nothing
    BY <1>1, <1>2, FlushCovers DEF DeltaType, Diffing
  <2>2. written # Len(target)
    BY <1>2, <1>3
  <2> QED BY <2>1, <2>2
<1>7. Flushed \in Seq(Instructions)
  BY <1>1, <1>2, FlushCovers DEF DeltaType, Diffing
<1> HIDE DEF n
<1>8. /\ Best + n <= Len(base) + 1 /\ written + n <= Len(target)
      /\ \A k \in 0..(n - 1) : base[Best + k] = target[written + 1 + k]
  BY <1>4 DEF Alike
<1>9. d \in Instructions /\ ~Refused(d)
  BY <1>3, <1>4, <1>8 DEF Copying, Instructions, Refused
<1>10. Made(d) = SubSeq(target, written + 1, written + n)
  <2> DEFINE c == SubSeq(base, Best, Best + n - 1)
             t == SubSeq(target, written + 1, written + n)
  <2>1. Made(d) = c
    BY DEF Made, Copying
  <2>2. /\ c \in Seq(Line) /\ Len(c) = n
        /\ \A i \in 1..n : c[i] = base[Best + i - 1]
    <3>1. Best \in 1..(Len(base) + 1) /\ Best + n - 1 \in 0..Len(base) /\ Best <= Best + n - 1
      BY <1>3, <1>4, <1>8
    <3>2. /\ c \in Seq(Line)
          /\ Len(c) = IF Best <= Best + n - 1 THEN (Best + n - 1) - Best + 1 ELSE 0
          /\ \A i \in 1..((Best + n - 1) - Best + 1) : c[i] = base[Best + i - 1]
      BY <1>2, <3>1, Piece DEF DeltaType
    <3>3. (Best + n - 1) - Best + 1 = n
      BY <1>4
    <3> HIDE DEF c
    <3> QED BY <3>1, <3>2, <3>3
  <2>3. /\ t \in Seq(Line) /\ Len(t) = n
        /\ \A i \in 1..n : t[i] = target[written + i]
    <3>1. /\ written + 1 \in 1..(Len(target) + 1) /\ written + n \in 0..Len(target)
          /\ written + 1 <= written + n
      BY <1>3, <1>4, <1>8
    <3>2. /\ t \in Seq(Line)
          /\ Len(t) = IF written + 1 <= written + n THEN (written + n) - (written + 1) + 1 ELSE 0
          /\ \A i \in 1..((written + n) - (written + 1) + 1) : t[i] = target[(written + 1) + i - 1]
      BY <1>2, <3>1, Piece DEF DeltaType
    <3>3. /\ (written + n) - (written + 1) + 1 = n
          /\ \A i \in 1..n : (written + 1) + i - 1 = written + i
      BY <1>3, <1>4
    <3> HIDE DEF t
    <3> QED BY <3>1, <3>2, <3>3
  <2> HIDE DEF c, t
  <2>4. ASSUME NEW i \in 1..n PROVE c[i] = t[i]
    <3>1. /\ i - 1 \in 0..(n - 1) /\ Best + (i - 1) = Best + i - 1
          /\ written + 1 + (i - 1) = written + i
      BY <1>3, <1>4
    <3> QED BY <1>8, <2>2, <2>3, <3>1
  <2>5. c = t
    BY <2>2, <2>3, <2>4, SeqEqual
  <2> QED BY <2>1, <2>5 DEF t
<1>11. written + n \in 0..Len(target) /\ written < written + n
  BY <1>3, <1>4, <1>8
<1>12. PICK r : Covers(r, Append(Flushed, d)) /\ r[Len(Append(Flushed, d))] = written + n
  <2> HIDE DEF d
  <2> QED BY <1>2, <1>6, <1>7, <1>9, <1>10, <1>11, OneMore DEF DeltaType
<1> HIDE DEF d
<1>13. Covers(r, delta)' /\ r[Len(delta')] = written'
  <2>1. Covers(r, delta')
    BY <1>5, <1>12
  <2>2. base' = base /\ target' = target
    BY <1>5
  <2> QED BY <1>5, <1>12, <2>1, <2>2 DEF Covers, Made, Refused, Bytes
<1>14. DeltaType'
  <2>1. delta' \in Seq(Instructions) /\ Len(delta') \in Nat
    BY <1>5, <1>7, <1>9
  <2>2. applied = 0
    BY <1>1 DEF Diffing
  <2>3. Best + n \in Nat \ {0}
    BY <1>3, <1>4
  <2> QED BY <1>2, <1>5, <1>11, <2>1, <2>2, <2>3 DEF DeltaType, IsDump
<1>15. Diffing(r)'
  <2>1. SubSeq(target, written' + 1, written') = <<>>
    BY <1>5, <1>11, SubSeqEmpty
  <2> QED BY <1>1, <1>5, <1>11, <1>13, <2>1 DEF Diffing
<1>16. phase' = "diff"
  BY <1>2, <1>5
<1> QED BY <1>13, <1>14, <1>15, <1>16 DEF DeltaInv, Covers

LEMMA DiffEndsSound ==
    ASSUME DeltaInv, DiffEnds
    PROVE  DeltaInv'
<1>1. PICK pos : Covers(pos, delta) /\ Diffing(pos)
  BY DEF DeltaInv, DiffEnds
<1>2. DeltaType /\ written = Len(target)
  BY DEF DeltaInv, DiffEnds
<1>3. delta' = Flushed /\ phase' = "apply" /\ UNCHANGED <<base, target, written, next, applied, out>>
  BY DEF DiffEnds
<1>4. /\ Flushed \in Seq(Instructions)
      /\ \E q : Covers(q, Flushed) /\ Complete(q[Len(Flushed)])
  <2>1. /\ Flushed \in Seq(Instructions)
        /\ \E q : /\ Covers(q, Flushed)
                 /\ \/ q[Len(Flushed)] = written
                    \/ /\ written = Len(target) /\ q[Len(Flushed)] = Len(target) - 1
                       /\ target[Len(target)] = Nothing
    BY <1>1, <1>2, FlushCovers DEF DeltaType, Diffing
  <2>2. ASSUME NEW q, Covers(q, Flushed) PROVE q[Len(Flushed)] \in Nat
    <3>1. Len(Flushed) \in 0..Len(Flushed)
      BY <2>1
    <3>2. q \in [0..Len(Flushed) -> 0..Len(target)]
      BY <2>2 DEF Covers
    <3>3. q[Len(Flushed)] \in 0..Len(target) /\ Len(target) \in Nat
      BY <1>2, <3>1, <3>2 DEF DeltaType, IsDump
    <3> QED BY <3>3
  <2> QED BY <1>2, <2>1, <2>2 DEF Complete
<1>5. PICK q : Covers(q, Flushed) /\ Complete(q[Len(Flushed)])
  BY <1>4
<1>6. Covers(q, delta)'
  BY <1>3, <1>5 DEF Covers, Made, Refused, Bytes
<1>7. applied = 0 /\ out = <<>> /\ q[0] = 0
  BY <1>1, <1>5 DEF Diffing, Covers
<1>8. Applying(q)'
  <2>1. Complete(q[Len(delta)])'
    BY <1>3, <1>5 DEF Complete
  <2>2. SubSeq(target, 1, 0) = <<>>
    BY SubSeqEmpty
  <2>3. Bytes(<<>>) = <<>>
    BY DEF Bytes
  <2>4. out' = Bytes(SubSeq(target', 1, q[applied']))
    BY <1>3, <1>7, <2>2, <2>3
  <2> QED BY <2>1, <2>4 DEF Applying, Bytes
<1>9. DeltaType'
  BY <1>2, <1>3, <1>4, <1>7 DEF DeltaType, IsDump
<1> QED BY <1>3, <1>6, <1>8, <1>9 DEF DeltaInv, Covers

LEMMA ApplyNextSound ==
    ASSUME DeltaInv, ApplyNext
    PROVE  DeltaInv'
<1>1. PICK pos : Covers(pos, delta) /\ Applying(pos)
  BY DEF DeltaInv, ApplyNext
<1>2. DeltaType /\ phase = "apply" /\ applied < Len(delta)
  BY DEF DeltaInv, ApplyNext
<1>3. applied \in Nat /\ Len(delta) \in Nat /\ applied + 1 \in 1..Len(delta) /\ (applied + 1) - 1 = applied
  BY <1>2 DEF DeltaType
<1> DEFINE d == delta[applied + 1]
<1>4. /\ pos[applied] < pos[applied + 1] /\ ~Refused(d)
      /\ Made(d) = SubSeq(target, pos[applied] + 1, pos[applied + 1])
      /\ pos[applied] \in 0..Len(target) /\ pos[applied + 1] \in 0..Len(target)
  BY <1>1, <1>3 DEF Covers
<1>5. out' = out \o Bytes(Made(d)) /\ applied' = applied + 1 /\ UNCHANGED phase
  BY <1>4 DEF ApplyNext, Made
<1>6. UNCHANGED <<base, target, written, next, literal, delta>>
  BY DEF ApplyNext
<1> HIDE DEF d
<1>7. out' = Bytes(SubSeq(target, 1, pos[applied + 1]))
  <2>1. out = Bytes(SubSeq(target, 1, pos[applied]))
    BY <1>1 DEF Applying
  <2> QED BY <1>2, <1>4, <1>5, <2>1, BytesOfPieces DEF DeltaType
<1>8. Covers(pos, delta)'
  BY <1>1, <1>6, CoversStill
<1>9. Applying(pos)'
  BY <1>1, <1>5, <1>6, <1>7 DEF Applying, Complete, Bytes
<1>10. DeltaType'
  BY <1>2, <1>3, <1>5, <1>6 DEF DeltaType, IsDump
<1> QED BY <1>2, <1>5, <1>8, <1>9, <1>10 DEF DeltaInv, Covers

LEMMA ApplyEndsSound ==
    ASSUME DeltaInv, ApplyEnds
    PROVE  DeltaInv'
<1>1. PICK pos : Covers(pos, delta) /\ Applying(pos)
  BY DEF DeltaInv, ApplyEnds
<1>2. UNCHANGED <<base, target, written, next, literal, delta, applied, out>> /\ phase' = "done" /\ applied = Len(delta)
  BY DEF ApplyEnds
<1>3. Covers(pos, delta)'
  BY <1>1, <1>2, CoversStill
<1>4. Applying(pos)'
  BY <1>1, <1>2 DEF Applying, Complete, Bytes
<1>5. DeltaType'
  BY <1>2 DEF DeltaInv, DeltaType, IsDump
<1> QED BY <1>2, <1>3, <1>4, <1>5 DEF DeltaInv, Covers

LEMMA DeltaStepSound == DeltaInv /\ [DeltaNext]_deltaVars => DeltaInv'
<1> SUFFICES ASSUME DeltaInv, [DeltaNext]_deltaVars PROVE DeltaInv'
  OBVIOUS
<1>1. CASE WriteLiteral
  BY <1>1, WriteLiteralSound
<1>2. CASE WriteCopy
  BY <1>2, WriteCopySound
<1>3. CASE DiffEnds
  BY <1>3, DiffEndsSound
<1>4. CASE ApplyNext
  BY <1>4, ApplyNextSound
<1>5. CASE ApplyEnds
  BY <1>5, ApplyEndsSound
<1>6. CASE UNCHANGED deltaVars
  BY <1>6 DEF deltaVars, DeltaInv, DeltaType, IsDump, Covers, Made, Refused, Diffing, Applying, Complete, Bytes
<1> QED BY <1>1, <1>2, <1>3, <1>4, <1>5, <1>6 DEF DeltaNext

\* The instructions having been carried out, what they made is all the
\* target's lines, or all but a last one that is Nothing: the same bytes.
LEMMA AllIsMade == DeltaInv => DeltaRestores
<1> SUFFICES ASSUME DeltaInv, phase = "done" PROVE out = Bytes(target)
  BY DEF DeltaInv, DeltaRestores
<1>1. PICK pos : Covers(pos, delta) /\ Applying(pos)
  BY DEF DeltaInv
<1>2. applied = Len(delta) /\ IsDump(target)
  BY DEF DeltaInv, DeltaType
<1>3. /\ Complete(pos[applied]) /\ out = Bytes(SubSeq(target, 1, pos[applied]))
  BY <1>1, <1>2 DEF Applying
<1>4. target \in Seq(Line) /\ Len(target) \in Nat /\ \A k \in 1..(Len(target) - 1) : target[k] # Nothing
  BY <1>2 DEF IsDump
<1>5. CASE pos[applied] = Len(target)
  BY <1>3, <1>4, <1>5, SubSeqFull
<1>6. CASE /\ pos[applied] = Len(target) - 1 /\ pos[applied] \in Nat /\ target[Len(target)] = Nothing
  <2> DEFINE k == Len(target) - 1
             s == SubSeq(target, 1, k)
  <2>1. k \in 0..Len(target) /\ 1 \in 1..(Len(target) + 1)
    BY <1>4, <1>6
  <2>2. Len(s) = k /\ s \in Seq(Line) /\ (k > 0 => s[k] # Nothing)
    <3> HIDE DEF k
    <3>1. /\ s \in Seq(Line) /\ Len(s) = IF 1 <= k THEN k - 1 + 1 ELSE 0
          /\ \A i \in 1..(k - 1 + 1) : s[i] = target[1 + i - 1]
      BY <1>2, <2>1, Piece
    <3> HIDE DEF s
    <3>2. k > 0 => s[k] = target[k]
      BY <1>4, <2>1, <3>1
    <3>3. k > 0 => target[k] # Nothing
      BY <1>4, <2>1 DEF k
    <3> QED BY <1>4, <2>1, <3>1, <3>2, <3>3
  <2>3. Bytes(s) = s
    <3> HIDE DEF s, k
    <3> QED BY <1>4, <2>1, <2>2 DEF Bytes
  <2>4. target # <<>>
    BY <1>4, <1>6
  <2>5. Bytes(target) = s
    BY <1>6, <2>4 DEF Bytes
  <2> QED BY <1>3, <1>6, <2>3, <2>5
<1> QED BY <1>3, <1>5, <1>6 DEF Complete

\* A differential restores to exactly the dump it was made of, with no final
\* newline too many or too few, whatever the full backup it is against, and no
\* instruction Diff writes is one Apply refuses.
THEOREM AlwaysRestoresTheDump == DeltaSpec => []DeltaRestores
<1>1. DeltaInit => DeltaInv
  BY DeltaInitSound
<1>2. DeltaInv /\ [DeltaNext]_deltaVars => DeltaInv'
  BY DeltaStepSound
<1>3. DeltaInv => DeltaRestores
  BY AllIsMade
<1> QED BY <1>1, <1>2, <1>3, PTL DEF DeltaSpec
================================================================================
