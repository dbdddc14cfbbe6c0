------------------------------- MODULE Databases -------------------------------
(***************************************************************************)
(* One application's database and secrets: provisioning, wiring, sleeping  *)
(* and waking, password rotation, and the teardown a deletion does         *)
(* (database_service.go, database_sleep.go, rotation_service.go,           *)
(* secret_service.go, application_resources.go).                           *)
(*                                                                         *)
(*   deploy:  look -> start -> ready -> record -> wake ...                 *)
(*   a start: wake -> awake -> read -> run                                 *)
(*   rotator: wake -> awake -> read -> set -> store [-> revert] -> restart *)
(*            and then a start                                             *)
(*   sweep:   look -> lock -> stop                                         *)
(*   tune:    look -> restart, once, of a MySQL from before its tuning     *)
(*   delete:  database -> mark -> files -> secrets -> done                 *)
(*                                                                         *)
(* A password is a number; 0 is none.                                      *)
(***************************************************************************)
EXTENDS Integers, FiniteSets

CONSTANTS
    Rotators,       \* requests that rotate the password
    MaxPasswords,   \* bound: passwords ever generated
    MaxDbFaults,    \* bound: calls that fail, crashes
    MySQL           \* the engine signs in with the current password to change it

ASSUME DbAssumption ==
    /\ {MaxPasswords, MaxDbFaults} \subseteq Nat
    /\ MySQL \in BOOLEAN
    /\ MaxPasswords > 0
    /\ Rotators \cap {"deploy", "cold", "sweep", "tune", "delete", "setter"} = {}

VARIABLES
    box,        \* the database's container and the password it accepts
    net,        \* its private network exists
    live,       \* a row of provisioned_databases is live
    plain,      \* that row's plaintext password, from before the secret store
    sealed,     \* DATABASE_PASSWORD in the secret store
    ownSecret,  \* an owner's secret is in the store
    files,      \* backups and kept sources
    deleted,    \* the application is Deleted
    env,        \* the password its running container was started with
    idle,       \* databaseSleep.idleSince
    lock,       \* databaseSleep.waking
    dbJob,      \* what each request and sweep is doing
    booted,     \* the startup migration has finished
    tuned,      \* its container has the platform's MySQL configuration
    used,       \* passwords generated so far
    dbFaults,
    loose       \* how a rotation left database and store apart, if one did

store == <<sealed, ownSecret>>
asleepness == <<idle, lock>>
rows == <<live, plain>>
rest == <<booted, tuned, used, dbFaults, loose>>
dbVars == <<box, net, live, plain, sealed, ownSecret, files, deleted, env, idle, lock,
            dbJob, booted, tuned, used, dbFaults, loose>>

Starters == {"deploy", "cold"} \cup Rotators
DbActors == Starters \cup {"sweep", "tune", "delete", "setter"}
Resting == [pc |-> "idle", old |-> 0, new |-> 0]
NoBox == [st |-> "none", pw |-> 0]

DbDoing(a, pc) == booted /\ dbJob[a].pc = pc
Then(a, pc) == dbJob' = [dbJob EXCEPT ![a].pc = pc]
Ends(a) == dbJob' = [dbJob EXCEPT ![a] = Resting]

\* A call fails, one of the bounded faults.
CallFails == dbFaults < MaxDbFaults /\ dbFaults' = dbFaults + 1 /\ UNCHANGED <<booted, tuned, used, loose>>

(***************************************************************************)
(* The secret store (secret_service.go, secret_repo.go)                    *)
(***************************************************************************)
PutManaged(p) == sealed' = p
ManagedValue == sealed
Stored == ManagedValue # 0

\* Set reads the application before it writes; reserved names are refused, so
\* it never meets a value the platform keeps.
SetBegins ==
    /\ DbDoing("setter", "idle") /\ ~ownSecret /\ ~deleted
    /\ Then("setter", "upsert")
    /\ UNCHANGED <<box, net, rows, store, files, deleted, env, asleepness, rest>>

SetUpserts ==
    /\ DbDoing("setter", "upsert")
    /\ ownSecret' = TRUE
    /\ Ends("setter")
    /\ UNCHANGED <<box, net, rows, sealed, files, deleted, env, asleepness, rest>>

\* Delete of one secret: only an owner's.
DeleteSecret ==
    /\ DbDoing("setter", "idle") /\ ownSecret
    /\ ownSecret' = FALSE
    /\ UNCHANGED <<box, net, rows, sealed, files, deleted, env, asleepness, dbJob, rest>>

(***************************************************************************)
(* EnsureProvisioned                                                       *)
(***************************************************************************)
CreateNetwork == net' = TRUE
RemoveNetwork == net' = FALSE

\* Network first, then the password is stored before the database starts.
Provision ==
    /\ DbDoing("deploy", "look")
    /\ IF live
       THEN Then("deploy", "wake") /\ UNCHANGED <<net, store, rest>>
       ELSE /\ used < MaxPasswords /\ used' = used + 1
            /\ CreateNetwork
            /\ PutManaged(used') /\ UNCHANGED ownSecret
            /\ dbJob' = [dbJob EXCEPT !["deploy"].pc = "start", !["deploy"].new = used']
            /\ UNCHANGED <<booted, tuned, dbFaults, loose>>
    /\ UNCHANGED <<box, rows, files, deleted, env, asleepness>>

\* StartDatabase.  The name is the application's own: a container that was
\* created but could not be started, or looked at once it was, keeps it, and so
\* every later try fails.
StartDatabase ==
    /\ DbDoing("deploy", "start")
    /\ \/ /\ box = NoBox
          /\ box' = [st |-> "up", pw |-> dbJob["deploy"].new]
          /\ Then("deploy", "ready")
          /\ tuned' = TRUE /\ UNCHANGED <<booted, used, dbFaults, loose>>
       \/ /\ box = NoBox /\ CallFails
          /\ box' \in {NoBox} \cup [st : {"stopped", "up"}, pw : {dbJob["deploy"].new}]
          /\ Ends("deploy")
       \/ /\ box # NoBox /\ Ends("deploy") /\ UNCHANGED <<box, rest>>
    /\ UNCHANGED <<net, rows, store, files, deleted, env, asleepness>>

\* WaitDatabaseReady: one that never answers is removed, and its network, as
\* far as that succeeds.
DatabaseReady ==
    /\ DbDoing("deploy", "ready")
    /\ \/ Then("deploy", "record") /\ UNCHANGED <<box, net, rest>>
       \/ /\ CallFails /\ Ends("deploy")
          /\ \/ box' = NoBox /\ net' \in {net, FALSE}
             \/ UNCHANGED <<box, net>>
    /\ UNCHANGED <<rows, store, files, deleted, env, asleepness>>

RecordDatabase ==
    /\ DbDoing("deploy", "record")
    /\ \/ live' = TRUE /\ Then("deploy", "wake") /\ UNCHANGED rest
       \/ CallFails /\ Ends("deploy") /\ UNCHANGED live
    /\ UNCHANGED <<box, net, plain, store, files, deleted, env, asleepness>>

(***************************************************************************)
(* What Docker says (runtimeengine/dbsleep.go)                             *)
(***************************************************************************)
DatabaseRunning == box.st = "up"
RunningServices == IF env = 0 THEN {} ELSE {"service"}
UsingDatabase == RunningServices # {}

(***************************************************************************)
(* Wake and WiringFor: what every container start, and a rotation, does    *)
(***************************************************************************)
Begin(a, pc) ==
    /\ DbDoing(a, "idle")
    /\ Then(a, pc)
    /\ UNCHANGED <<box, net, rows, store, files, deleted, env, asleepness, rest>>

\* Lifecycle statuses keep starts away from an application being deleted.
Deploy == DbDoing("delete", "idle") /\ ~deleted /\ Begin("deploy", "look")
Cold == env = 0 /\ live /\ DbDoing("delete", "idle") /\ ~deleted /\ Begin("cold", "wake")
Rotate(r) == live /\ Begin(r, "wake")

WakeLock(a) ==
    /\ DbDoing(a, "wake")
    /\ IF live
       THEN lock = "free" /\ lock' = a /\ idle' = "no" /\ Then(a, "awake")
       ELSE Ends(a) /\ UNCHANGED asleepness
    /\ UNCHANGED <<box, net, rows, store, files, deleted, env, rest>>

\* A database that is up is left; one asleep is started once the password has
\* been read, which MySQL's readiness check signs in with.  One that does not
\* answer stays started.
Startable == box.st = "stopped" /\ Stored
Started == [box EXCEPT !.st = "up"]

WakeDatabase(a) ==
    /\ DbDoing(a, "awake")
    /\ lock' = "free"
    /\ \/ DatabaseRunning /\ Then(a, "read") /\ UNCHANGED <<box, rest>>
       \/ /\ Startable /\ box' = Started
          /\ IF MySQL => sealed = box.pw THEN Then(a, "read") ELSE Ends(a)
          /\ UNCHANGED rest
       \/ Startable /\ CallFails /\ Ends(a) /\ box' \in {box, Started}
       \/ ~DatabaseRunning /\ ~Startable /\ Ends(a) /\ UNCHANGED <<box, rest>>
    /\ UNCHANGED <<net, rows, store, files, deleted, env, idle>>

\* ManagedValue; a start fails closed without it.
ReadPassword(a) ==
    /\ DbDoing(a, "read")
    /\ IF live /\ Stored
       THEN dbJob' = [dbJob EXCEPT ![a].pc = IF a \in Rotators /\ dbJob[a].new = 0 THEN "set" ELSE "run",
                                   ![a].old = ManagedValue]
       ELSE Ends(a)
    /\ UNCHANGED <<box, net, rows, store, files, deleted, env, asleepness, rest>>

Run(a) ==
    /\ DbDoing(a, "run")
    /\ Ends(a)
    /\ \/ env' = dbJob[a].old /\ UNCHANGED rest
       \/ CallFails /\ env' = IF a \in Rotators THEN 0 ELSE env
    /\ UNCHANGED <<box, net, rows, store, files, deleted, asleepness>>

\* The application scales to zero or is suspended.
Stop ==
    /\ booted /\ env # 0
    /\ env' = 0
    /\ UNCHANGED <<box, net, rows, store, files, deleted, asleepness, dbJob, rest>>

(***************************************************************************)
(* RotatePassword and the restart that follows it                          *)
(***************************************************************************)
\* SetDatabasePassword runs inside the container.
Accepts(current) == DatabaseRunning /\ (MySQL => current = box.pw)

SetPassword(r) ==
    /\ DbDoing(r, "set")
    /\ used < MaxPasswords
    /\ \/ /\ Accepts(dbJob[r].old)
          /\ used' = used + 1
          /\ box' = [box EXCEPT !.pw = used']
          /\ dbJob' = [dbJob EXCEPT ![r].pc = "store", ![r].new = used']
          /\ UNCHANGED <<booted, tuned, dbFaults, loose>>
       \/ Ends(r) /\ UNCHANGED <<box, rest>>
    /\ UNCHANGED <<net, rows, store, files, deleted, env, asleepness>>

\* Nobody keeps two rotations, or a rotation and a deletion, apart.
Overtaken(r, then) == IF box.pw = dbJob[r].new /\ then THEN {} ELSE {"overtaken"}

\* Stored second.  With nothing running the rotation is over; otherwise the
\* restart wires the containers again.
StorePassword(r) ==
    /\ DbDoing(r, "store")
    /\ \/ /\ PutManaged(dbJob[r].new)
          /\ IF env = 0 THEN Ends(r) ELSE Then(r, "wake")
          /\ loose' = loose \cup Overtaken(r, TRUE)
          /\ UNCHANGED <<booted, tuned, used, dbFaults>>
       \/ CallFails /\ Then(r, "revert") /\ UNCHANGED sealed
    /\ UNCHANGED <<box, net, rows, ownSecret, files, deleted, env, asleepness>>

\* Bug: the password that could not be stored is left on the database.
RevertPassword_Never(r) ==
    /\ DbDoing(r, "revert")
    /\ Ends(r)
    /\ UNCHANGED <<box, net, rows, store, files, deleted, env, asleepness, rest>>

\* When putting the database back fails as well, the error says so.
RevertPassword(r) ==
    /\ DbDoing(r, "revert")
    /\ Ends(r)
    /\ \/ /\ Accepts(dbJob[r].new)
          /\ box' = [box EXCEPT !.pw = dbJob[r].old]
          /\ loose' = loose \cup Overtaken(r, sealed = dbJob[r].old)
          /\ UNCHANGED <<booted, tuned, used, dbFaults>>
       \/ /\ dbFaults < MaxDbFaults \/ ~Accepts(dbJob[r].new)
          /\ dbFaults' = IF dbFaults < MaxDbFaults THEN dbFaults + 1 ELSE dbFaults
          /\ loose' = loose \cup {"unreverted"}
          /\ UNCHANGED <<box, booted, tuned, used>>
    /\ UNCHANGED <<net, rows, store, files, deleted, env, asleepness>>

(***************************************************************************)
(* SleepIdle (database_sleep.go)                                           *)
(***************************************************************************)
\* usingDatabase, and since when it has not been.
SleepLook ==
    /\ DbDoing("sweep", "idle") /\ live
    /\ idle' = IF UsingDatabase THEN "no" ELSE IF idle = "no" THEN "since" ELSE idle
    /\ IF ~UsingDatabase /\ idle = "due" THEN Then("sweep", "lock") ELSE UNCHANGED dbJob
    /\ UNCHANGED <<box, net, rows, store, files, deleted, env, lock, rest>>

\* Bug: a database found in use is left without unlocking.
SleepLock_Leaks ==
    /\ DbDoing("sweep", "lock") /\ lock = "free" /\ lock' = "sweep"
    /\ IF DatabaseRunning /\ ~UsingDatabase THEN Then("sweep", "stop") ELSE Ends("sweep")
    /\ UNCHANGED <<box, net, rows, store, files, deleted, env, idle, rest>>

\* Under the lock it looks again.
SleepLock ==
    /\ DbDoing("sweep", "lock") /\ lock = "free"
    /\ IF DatabaseRunning /\ ~UsingDatabase
       THEN Then("sweep", "stop") /\ lock' = "sweep"
       ELSE Ends("sweep") /\ UNCHANGED lock
    /\ UNCHANGED <<box, net, rows, store, files, deleted, env, idle, rest>>

SleepDatabase ==
    /\ DbDoing("sweep", "stop")
    /\ \/ box' = (IF box.st = "up" THEN [box EXCEPT !.st = "stopped"] ELSE box) /\ UNCHANGED rest
       \/ CallFails /\ UNCHANGED box
    /\ lock' = "free"
    /\ Ends("sweep")
    /\ UNCHANGED <<net, rows, store, files, deleted, env, idle>>

\* TuneAll, from a goroutine of main and without the lock: a database it saw
\* running is restarted, which starts one that has been put to sleep since.
TuneAll ==
    /\ DbDoing("tune", "idle") /\ live /\ MySQL /\ ~tuned
    /\ tuned' = TRUE
    /\ IF DatabaseRunning THEN Then("tune", "restart") ELSE UNCHANGED dbJob
    /\ UNCHANGED <<box, net, rows, store, files, deleted, env, asleepness, booted, used, dbFaults, loose>>

TuneDatabase ==
    /\ DbDoing("tune", "restart")
    /\ \/ box # NoBox /\ box' = Started /\ UNCHANGED rest
       \/ box = NoBox /\ UNCHANGED <<box, rest>>
       \/ CallFails /\ UNCHANGED box
    /\ Ends("tune")
    /\ UNCHANGED <<net, rows, store, files, deleted, env, asleepness>>

\* The idle timeout is minutes: longer than a start takes once it has woken
\* the database.
IdleForLong ==
    /\ idle = "since" /\ idle' = "due"
    /\ \A a \in Starters : dbJob[a].pc \in {"idle", "look", "wake"}
    /\ UNCHANGED <<box, net, rows, store, files, deleted, env, lock, dbJob, rest>>

(***************************************************************************)
(* Deprovision (application_resources.go), as LifecycleService.Delete      *)
(* calls it; a step that fails leaves the rest to the next attempt         *)
(***************************************************************************)
DeleteBegins ==
    /\ env = 0 /\ ~deleted
    /\ \A a \in {"deploy", "cold"} : DbDoing(a, "idle")
    /\ Begin("delete", "database")

\* Stopping the container and removing its network are best effort.
TearDown ==
    /\ DbDoing("delete", "database")
    /\ IF live
       THEN /\ \/ box' = NoBox /\ RemoveNetwork /\ UNCHANGED rest
               \/ CallFails /\ UNCHANGED <<box, net>>
            /\ Then("delete", "mark")
       ELSE Then("delete", "files") /\ UNCHANGED <<box, net, rest>>
    /\ UNCHANGED <<rows, store, files, deleted, env, asleepness>>

MarkDeprovisioned ==
    /\ DbDoing("delete", "mark")
    /\ \/ live' = FALSE /\ plain' = 0 /\ Then("delete", "files") /\ UNCHANGED rest
       \/ CallFails /\ Ends("delete") /\ UNCHANGED rows
    /\ UNCHANGED <<box, net, store, files, deleted, env, asleepness>>

PurgeFiles ==
    /\ DbDoing("delete", "files")
    /\ \/ files' = FALSE /\ Then("delete", "secrets") /\ UNCHANGED rest
       \/ CallFails /\ Ends("delete") /\ UNCHANGED files
    /\ UNCHANGED <<box, net, rows, store, deleted, env, asleepness>>

DeleteSecrets ==
    /\ DbDoing("delete", "secrets")
    /\ \/ sealed' = 0 /\ ownSecret' = FALSE /\ Then("delete", "status") /\ UNCHANGED rest
       \/ CallFails /\ Ends("delete") /\ UNCHANGED store
    /\ UNCHANGED <<box, net, rows, files, deleted, env, asleepness>>

SetDeleted ==
    /\ DbDoing("delete", "status")
    /\ \/ deleted' = TRUE /\ UNCHANGED rest
       \/ CallFails /\ UNCHANGED deleted
    /\ Ends("delete")
    /\ UNCHANGED <<box, net, rows, store, files, env, asleepness>>

(***************************************************************************)
(* The server: a crash, and the migration its start begins with            *)
(***************************************************************************)
\* MigrateLegacyPlaintextPasswords: sealed first, and only then cleared.
MigrateSeal ==
    /\ ~booted /\ live /\ plain # 0 /\ sealed # plain
    /\ PutManaged(plain) /\ UNCHANGED ownSecret
    /\ UNCHANGED <<box, net, rows, files, deleted, env, asleepness, dbJob, rest>>

MigrateClear ==
    /\ ~booted /\ live /\ plain # 0 /\ sealed = plain
    /\ plain' = 0
    /\ UNCHANGED <<box, net, live, store, files, deleted, env, asleepness, dbJob, rest>>

\* The server serves only once there is nothing left to migrate.
Boot ==
    /\ ~booted /\ (live => plain = 0)
    /\ booted' = TRUE
    /\ UNCHANGED <<box, net, rows, store, files, deleted, env, asleepness, dbJob, tuned, used, dbFaults, loose>>

\* A rotation cut between the database and the store leaves them apart.
Crash ==
    /\ dbFaults < MaxDbFaults /\ dbFaults' = dbFaults + 1
    /\ booted' = FALSE
    /\ loose' = loose \cup IF \E r \in Rotators : dbJob[r].pc \in {"store", "revert"}
                           THEN {"cut"} ELSE {}
    /\ dbJob' = [a \in DbActors |-> Resting]
    /\ idle' = "no" /\ lock' = "free"
    /\ UNCHANGED <<box, net, rows, store, files, deleted, env, tuned, used>>

(***************************************************************************)
(* Specification                                                           *)
(***************************************************************************)
\* No database yet, or one provisioned before the secret store existed.
DbInit ==
    /\ live \in BOOLEAN
    /\ net = live /\ env = 0
    /\ plain = IF live THEN 1 ELSE 0
    /\ used = plain /\ tuned = ~live
    /\ box = IF live THEN [st |-> "up", pw |-> 1] ELSE NoBox
    /\ sealed = 0 /\ ownSecret = FALSE /\ files = TRUE /\ deleted = FALSE
    /\ idle = "no" /\ lock = "free"
    /\ dbJob = [a \in DbActors |-> Resting]
    /\ booted = FALSE /\ dbFaults = 0 /\ loose = {}

Waking == \E a \in Starters : WakeLock(a) \/ WakeDatabase(a)

DbNext ==
    \/ SetBegins \/ SetUpserts \/ DeleteSecret
    \/ Deploy \/ Provision \/ StartDatabase \/ DatabaseReady \/ RecordDatabase
    \/ Cold \/ Stop
    \/ \E a \in Starters : WakeLock(a) \/ WakeDatabase(a) \/ ReadPassword(a) \/ Run(a)
    \/ \E r \in Rotators : Rotate(r) \/ SetPassword(r) \/ StorePassword(r) \/ RevertPassword(r)
    \/ SleepLook \/ SleepLock \/ SleepDatabase \/ IdleForLong
    \/ TuneAll \/ TuneDatabase
    \/ DeleteBegins \/ TearDown \/ MarkDeprovisioned \/ PurgeFiles \/ DeleteSecrets \/ SetDeleted
    \/ MigrateSeal \/ MigrateClear \/ Boot \/ Crash

DbSpec == DbInit /\ [][DbNext]_dbVars

\* The sweep runs on a ticker and time passes; a start or a wake that began
\* goes on.
Sweeps == SleepLook \/ SleepLock \/ SleepDatabase
DbFairSpec ==
    /\ DbSpec
    /\ WF_dbVars(Sweeps) /\ WF_dbVars(IdleForLong) /\ WF_dbVars(Waking)
    /\ WF_dbVars(MigrateSeal \/ MigrateClear \/ Boot)

(***************************************************************************)
(* Properties                                                              *)
(***************************************************************************)
Rotating == \E r \in Rotators : dbJob[r].pc \in {"store", "revert"}
Agree == box.pw \in {sealed, plain} \ {0}

\* Provisioned, migrated, put back after a failed rotation or half torn down,
\* whatever failed and wherever the server stopped: a live database's password
\* is in the secret store, or still in the plaintext column
\* (database_service.go:134-137, 328-330), unless a rotation was cut, could
\* not be put back or was overtaken.
PasswordKept == live /\ box.st # "none" /\ ~Rotating /\ loose = {} => Agree

\* A database nothing uses is asleep again and again: no wake, failed start or
\* restart of the server leaves it running for good (database_sleep.go:17-20).
Unused == live /\ env = 0 /\ \A a \in Starters : dbJob[a].pc = "idle"
IdleSleeps == <>[]Unused => []<>(box.st # "up")

\* The sweep checks again under the lock, for "a start may have just begun"
\* (database_sleep.go:188), so as to "never sleep under a live service" (:90).
AwakeUnderService == env # 0 /\ live /\ lock = "free" => box.st = "up"
===============================================================================
