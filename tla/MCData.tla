--------------------------------- MODULE MCData ---------------------------------
(***************************************************************************)
(* For TLC: an application's data (its database and password, its backups  *)
(* and the delta one is kept as, its dev copy).  The parts share no state; *)
(* as in MCPeople a behaviour is one of a part, the others at rest.        *)
(***************************************************************************)
EXTENDS Databases, Backups, DevCopies, BackupDelta

VARIABLE part

mcVars == <<part, dbVars, bkVars, dcVars, deltaVars>>

DatabasePart(A) == part = "database" /\ A /\ UNCHANGED <<part, bkVars, dcVars, deltaVars>>
BackupsPart(A) == part = "backups" /\ A /\ UNCHANGED <<part, dbVars, dcVars, deltaVars>>
CopiesPart(A) == part = "copies" /\ A /\ UNCHANGED <<part, dbVars, bkVars, deltaVars>>
DeltaPart(A) == part = "delta" /\ A /\ UNCHANGED <<part, dbVars, bkVars, dcVars>>

MCInit ==
    /\ part \in {"database", "backups", "copies", "delta"}
    /\ DbInit /\ BkInit /\ DcInit /\ DeltaInit
    /\ part # "database" => ~live
    /\ part # "delta" => base = <<>> /\ target = <<>>

MCNext == DatabasePart(DbNext) \/ BackupsPart(BkNext) \/ CopiesPart(DcNext) \/ DeltaPart(DeltaNext)

\* Each part's own fairness.
MCSpec ==
    /\ MCInit /\ [][MCNext]_mcVars
    /\ WF_mcVars(\/ DatabasePart(Sweeps) \/ BackupsPart(RunScheduled \/ Goes("sweep"))
                 \/ CopiesPart(Sweep \/ TearsDown(Sweeper)))
    /\ WF_mcVars(DatabasePart(IdleForLong)) /\ WF_mcVars(DatabasePart(Waking))
    /\ WF_mcVars(DatabasePart(MigrateSeal \/ MigrateClear \/ Boot))
    /\ \A r \in Callers : WF_mcVars(CopiesPart(Deploys(r) \/ TearsDown(r)))

\* A scheduled backup that failed is tried again the same day
\* (backup_service.go:65-67), and so every day ends with one.
DailyBackup == []<>(part = "backups" => BackedUp \/ gone \/ ~Room)
================================================================================
