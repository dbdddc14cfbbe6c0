---------------------------- MODULE RuntimeProofs ----------------------------
(***************************************************************************)
(* The theorem about ServiceRuntime: for any services, containers and      *)
(* bounds, and whatever its actors interleave, no running container of a   *)
(* live deployment is lost but to a failure named.                         *)
(***************************************************************************)
EXTENDS ServiceRuntime, FiniteSetTheorems, TLAPS

(***************************************************************************)
(* The inductive invariant                                                 *)
(***************************************************************************)
States == {"unused", "up", "hung", "exited", "gone"}
Steps == {"idle", "start", "check", "record", "stop", "clear", "probe", "claim", "adopt",
          "restart", "relist", "delete"}
Container == [st : States, svc : Services \cup {"none"}, port : Nat, again : BOOLEAN]
Work == [pc : Steps, svc : Services \cup {"none"}, old : Ids \cup {None}, new : Ids \cup {None},
         todo : SUBSET (Services \X Ids), done : SUBSET Ids]

RtType ==
    /\ ctr \in [Ids -> Container] /\ row \in [Services -> Ids \cup {None}]
    /\ deleted \in BOOLEAN /\ listed \in SUBSET Ids
    /\ job \in [Jobs -> Work]
    /\ failures \in [Services -> Nat] /\ recent \in [Services -> Nat]
    /\ loose \in SUBSET Ids /\ mishaps \in Nat /\ restarts \in Nat

\* Who works on a service, and with which container.
Busy == {"start", "check", "record", "stop", "claim", "adopt"}
Working ==
    /\ \A j \in Replacers : job[j].pc \in Busy => job[j].svc \in Services
    /\ \A j \in Replacers : job[j].pc \in {"check", "record"} => job[j].new \in Ids
    /\ job["monitor"].pc \in {"claim", "stop"} => job["monitor"].old \in Ids
    /\ At("sweep", "clear") => job["sweep"].svc \in Services

Used(c) == c \in Ids /\ ctr[c].st # "unused"

\* What is named is a container that was created, and of the service named.
Named ==
    /\ \A c \in Ids : Running(c) => ctr[c].svc \in Services
    /\ \A s \in Services : row[s] # None => Used(row[s]) /\ ctr[row[s]].svc = s
    /\ \A j \in Jobs : \A x \in job[j].todo : Used(x[2])
    /\ \A j \in Jobs : /\ job[j].old # None => Used(job[j].old)
                       /\ job[j].new # None => Used(job[j].new)

\* A replacement that is not recorded yet.
Started(j) == job[j].pc \in {"check", "record"}
Original(c) == c \in Ids /\ Running(c) /\ ~ctr[c].again

\* Nobody else knows of it.
Private ==
    \A j \in Replacers : Started(j) =>
        LET c == job[j].new
        IN  /\ Used(c) /\ ctr[c].again /\ ctr[c].svc = job[j].svc
            /\ \A s \in Services : row[s] # c
            /\ \A k \in Jobs : job[k].old # c /\ \A x \in job[k].todo : x[2] # c
            /\ \A k \in Replacers : Started(k) /\ k # j => job[k].new # c

\* Docker's names: one replacement of a service runs.
OneName ==
    \A c, d \in Ids :
        Running(c) /\ ctr[c].again /\ Running(d) /\ ctr[d].again /\ ctr[c].svc = ctr[d].svc => c = d

\* A replacement is only under way once the deployment's own container is out
\* of the record or stopped, and it never comes back.
OutOfRecord(j, pc) == pc \in {"start", "check", "record"} \/ (j = "monitor" /\ pc = "stop")

Replacing ==
    /\ \A j \in Replacers : OutOfRecord(j, job[j].pc) => ~Original(row[job[j].svc])
    /\ \A x \in job["owner"].todo : Original(row[x[1]]) => row[x[1]] = x[2]

StoppedFirst == At("sweep", "clear") => \A c \in Ids : c = job["sweep"].old => ~Running(c)

\* The running containers, one by one.
Known ==
    \A c \in Ids : Running(c) =>
        \/ row[ctr[c].svc] = c
        \/ \E j \in Replacers : Started(j) /\ job[j].new = c
        \/ At("monitor", "stop") /\ job["monitor"].old = c
        \/ c \in loose

Intact == ~deleted /\ ~At("owner", "delete") /\ restarts = 0

Sound == Named /\ Private /\ OneName /\ Replacing /\ StoppedFirst /\ Known
RtInv == RtType /\ Working /\ (Intact => Sound)

(***************************************************************************)
(* Types                                                                   *)
(***************************************************************************)
LEMMA WhoIsWho ==
    /\ "sweep" \in Jobs /\ "monitor" \in Jobs /\ "owner" \in Jobs /\ Replacers \subseteq Jobs
    /\ "monitor" \in Replacers /\ "owner" \in Replacers /\ "sweep" \notin Replacers
    /\ Services \subseteq Replacers
    /\ \A s \in Services : s # "sweep" /\ s # "monitor" /\ s # "owner"
    /\ Ids \subseteq Nat /\ None \notin Ids
  BY RuntimeAssumption DEF Jobs, Replacers, Ids, None

LEMMA QuietFits == Quiet \in Work
  BY DEF Quiet, Work, Steps

\* A job put in the place of another.
LEMMA PutJob ==
    ASSUME RtType, NEW j \in Jobs, NEW w, job' = [job EXCEPT ![j] = w]
    PROVE  /\ w \in Work => job' \in [Jobs -> Work]
           /\ job'[j] = w /\ \A k \in Jobs : k # j => job'[k] = job[k]
  BY DEF RtType

LEMMA RemovedFits ==
    ASSUME RtType, NEW c \in Ids
    PROVE  /\ Removed(c) \in [Ids -> Container]
           /\ Removed(c)[c].st = "gone" /\ Removed(c)[c].svc = ctr[c].svc /\ Removed(c)[c].again = ctr[c].again
           /\ \A d \in Ids : d # c => Removed(c)[d] = ctr[d]
  BY DEF RtType, Removed, Container, States

LEMMA LeftoverFits ==
    ASSUME RtType, NEW s
    PROVE  /\ RemoveLeftover(s) \in [Ids -> Container]
           /\ \A d \in Ids : \/ RemoveLeftover(s)[d] = ctr[d]
                             \/ /\ ctr[d].st = "exited" /\ RemoveLeftover(s)[d].st = "gone"
                                /\ RemoveLeftover(s)[d].svc = ctr[d].svc
                                /\ RemoveLeftover(s)[d].again = ctr[d].again
<1>. DEFINE m(d) == IF ctr[d].svc = s /\ ctr[d].again /\ ctr[d].st = "exited"
                    THEN [ctr[d] EXCEPT !.st = "gone"] ELSE ctr[d]
<1>1. RemoveLeftover(s) = [d \in Ids |-> m(d)]
  BY DEF RemoveLeftover
<1>2. ASSUME NEW d \in Ids
      PROVE  /\ m(d) \in Container
             /\ \/ m(d) = ctr[d]
                \/ /\ ctr[d].st = "exited" /\ m(d).st = "gone"
                   /\ m(d).svc = ctr[d].svc /\ m(d).again = ctr[d].again
  BY DEF RtType, Container, States
<1>. HIDE DEF m
<1>. QED BY <1>1, <1>2

LEMMA StartFits ==
    ASSUME RtType, NEW s \in Services, NEW c \in Ids, NEW p, StartContainer(s, c, p)
    PROVE  /\ ctr' \in [Ids -> Container] /\ ctr[c].st = "unused"
           /\ ctr'[c].st = "up" /\ ctr'[c].svc = s /\ ctr'[c].again = TRUE
           /\ \A d \in Ids : d # c => ctr'[d] = RemoveLeftover(s)[d]
<1>1. p \in Nat
  BY WhoIsWho DEF StartContainer, FreePorts
<1>2. PICK m : m = RemoveLeftover(s)
  OBVIOUS
<1>3. PICK n : n = [st |-> "up", svc |-> s, port |-> p, again |-> TRUE]
  OBVIOUS
<1>4. n \in Container /\ n.st = "up" /\ n.svc = s /\ n.again = TRUE
  BY <1>1, <1>3 DEF Container, States
<1>5. ctr' = [m EXCEPT ![c] = n] /\ m \in [Ids -> Container]
  BY <1>2, <1>3, LeftoverFits DEF StartContainer
<1>6. ctr[c].st = "unused"
  BY DEF StartContainer, Unused
<1>. QED BY <1>2, <1>4, <1>5, <1>6

\* What an actor goes on to.
LEMMA StepFits ==
    ASSUME RtType, NEW j \in Jobs, NEW pc \in Steps, Goto(j, pc)
    PROVE  \E w \in Work : /\ job' = [job EXCEPT ![j] = w]
                           /\ w.pc = pc /\ w.svc = job[j].svc /\ w.todo = job[j].todo
                           /\ w.old = job[j].old /\ w.new = job[j].new
<1>1. PICK w : w = [job[j] EXCEPT !.pc = pc]
  OBVIOUS
<1>2. job' = [job EXCEPT ![j] = w] /\ job[j] \in Work
  BY <1>1 DEF Goto, RtType
<1>3. w \in Work /\ w.pc = pc /\ w.svc = job[j].svc /\ w.todo = job[j].todo
      /\ w.old = job[j].old /\ w.new = job[j].new
  BY <1>1, <1>2 DEF Work
<1>. QED BY <1>2, <1>3

LEMMA TodoFits ==
    ASSUME RtType
    PROVE  ListAllActive \in SUBSET (Services \X Ids) /\ ListEligibleActive \subseteq ListAllActive
  BY DEF RtType, ListAllActive, ListEligibleActive

\* A replacement that ends: the monitor goes on with its list.
LEMMA NextFits ==
    ASSUME RtType, NEW j \in Replacers, NextService(j)
    PROVE  \E w \in Work : /\ job' = [job EXCEPT ![j] = w]
                           /\ w.pc \in {"idle", "probe"} /\ w.old = None /\ w.new = None
                           /\ w.todo \subseteq job[j].todo
<1>1. j \in Jobs /\ job[j] \in Work
  BY WhoIsWho DEF RtType
<1>2. CASE j = "monitor"
  <2>1. PICK w : w = [Quiet EXCEPT !.pc = "probe", !.todo = job[j].todo]
    OBVIOUS
  <2>2. job' = [job EXCEPT ![j] = w]
    BY <1>2, <2>1 DEF NextService
  <2>3. w \in Work /\ w.pc = "probe" /\ w.old = None /\ w.new = None /\ w.todo = job[j].todo
    BY <1>1, <2>1 DEF Quiet, Work, Steps
  <2>. QED BY <2>2, <2>3
<1>3. CASE j # "monitor"
  <2>1. job' = [job EXCEPT ![j] = Quiet]
    BY <1>3 DEF NextService
  <2>2. Quiet \in Work /\ Quiet.pc = "idle" /\ Quiet.old = None /\ Quiet.new = None /\ Quiet.todo = {}
    BY QuietFits DEF Quiet
  <2>. QED BY <2>1, <2>2
<1>. QED BY <1>2, <1>3

(***************************************************************************)
(* The steps of one actor                                                  *)
(***************************************************************************)
\* The rest of what an actor's step may touch has its type.
Tidy ==
    /\ ctr' \in [Ids -> Container] /\ row' \in [Services -> Ids \cup {None}]
    /\ deleted' \in BOOLEAN /\ listed' \in SUBSET Ids
    /\ failures' \in [Services -> Nat] /\ recent' \in [Services -> Nat]
    /\ loose' \in SUBSET Ids /\ mishaps' \in Nat /\ restarts' \in Nat

\* It goes on to w.
Moves(j, w) ==
    /\ w \in Work /\ job' = [job EXCEPT ![j] = w]
    /\ j \in Replacers /\ w.pc \in Busy => w.svc \in Services
    /\ j \in Replacers /\ w.pc \in {"check", "record"} => w.new \in Ids
    /\ j = "monitor" /\ w.pc \in {"claim", "stop"} => w.old \in Ids
    /\ j = "sweep" /\ w.pc = "clear" => w.svc \in Services

LEMMA MoveTypes ==
    ASSUME RtType, Working, NEW j \in Jobs, NEW w, Moves(j, w), Tidy
    PROVE  RtType' /\ Working' /\ job'[j] = w /\ \A k \in Jobs : k # j => job'[k] = job[k]
<1>1. job' \in [Jobs -> Work] /\ job'[j] = w /\ \A k \in Jobs : k # j => job'[k] = job[k]
  BY PutJob DEF Moves
<1>2. RtType'
  BY <1>1 DEF RtType, Tidy
<1>. QED BY <1>1, <1>2, WhoIsWho DEF Moves, Working, At

\* It starts nothing: what it stops or takes out of the record nobody else
\* counts on, and what it names it has named or read from the record.
StillRuns(c) == ctr'[c].st \in {"up", "hung"}

EasesCtr ==
    /\ \A c \in Ids : /\ StillRuns(c) => Running(c)
                      /\ ctr'[c].svc = ctr[c].svc /\ ctr'[c].again = ctr[c].again
                      /\ ctr[c].st # "unused" => ctr'[c].st # "unused"
    /\ loose \subseteq loose'

\* It runs no more, or nobody could help it.
Over(c) == ~StillRuns(c) \/ c \in loose'

EasesRow(j, w) ==
    \A s \in Services :
        \/ row'[s] = row[s]
        \/ /\ row'[s] = None
           /\ ~StillRuns(row[s]) \/ (j = "monitor" /\ w.pc = "stop" /\ w.old = row[s])

EasesJob(j, w) ==
    /\ w.old = None \/ w.old = job[j].old \/ \E x \in job[j].todo : w.old = x[2]
    /\ w.new = None \/ w.new = job[j].new
    /\ \A x \in w.todo : x \in job[j].todo \/ x \in ListAllActive
    /\ j \in Replacers /\ w.pc \in {"check", "record"} => Started(j) /\ w.new = job[j].new /\ w.svc = job[j].svc
    /\ Started(j) /\ j \in Replacers => w.pc \in {"check", "record"} \/ row'[job[j].svc] = job[j].new \/ Over(job[j].new)
    /\ j \in Replacers /\ OutOfRecord(j, w.pc) => ~Original(row[w.svc])'
    /\ j = "sweep" /\ w.pc = "clear" => w.old \notin Ids \/ ~StillRuns(w.old)
    /\ j = "monitor" /\ At(j, "stop") => Over(job[j].old)

Eases(j, w) == EasesCtr /\ EasesRow(j, w) /\ EasesJob(j, w)

LEMMA EaseNamed ==
    ASSUME RtType, Named, NEW j \in Jobs, NEW w, Moves(j, w), Tidy, Eases(j, w) PROVE Named'
<1>1. RtType' /\ job'[j] = w /\ \A k \in Jobs : k # j => job'[k] = job[k]
  BY PutJob DEF Moves, RtType, Tidy
<1>2. \A c : Used(c) => Used(c)'
  BY DEF Used, Eases, EasesCtr
<1>3. ASSUME NEW s \in Services, NEW c, c = row'[s], c # None PROVE Used(c)' /\ ctr'[c].svc = s
  <2>1. Used(c) /\ ctr[c].svc = s
    BY <1>3 DEF Named, Eases, EasesRow
  <2>. QED BY <1>2, <2>1 DEF Eases, EasesCtr, Used
<1>4. \A x \in ListAllActive : Used(x[2])
  BY DEF ListAllActive, Named
<1>5. ASSUME NEW k \in Jobs, NEW x \in job'[k].todo PROVE Used(x[2])'
  BY <1>1, <1>2, <1>4, <1>5 DEF Named, Eases, EasesJob
<1>6. ASSUME NEW k \in Jobs, NEW c, c # None, c = job'[k].old \/ c = job'[k].new PROVE Used(c)'
  <2>1. CASE k = j
    BY <1>1, <1>2, <1>6, <2>1 DEF Named, Eases, EasesJob
  <2>2. CASE k # j
    BY <1>1, <1>2, <1>6, <2>2 DEF Named
  <2>. QED BY <2>1, <2>2
<1>7. \A c \in Ids : StillRuns(c) => ctr'[c].svc \in Services
  BY DEF Named, Eases, EasesCtr
<1>8. \A s \in Services : row'[s] # None => Used(row[s])' /\ ctr'[row'[s]].svc = s
  BY <1>3
<1>9. \A k \in Jobs : \A x \in job'[k].todo : Used(x[2])'
  BY <1>5
<1>10. \A k \in Jobs : (job'[k].old # None => Used(job[k].old)') /\ (job'[k].new # None => Used(job[k].new)')
  BY <1>6
<1>. QED BY <1>7, <1>8, <1>9, <1>10 DEF Named, Running, StillRuns

LEMMA EasePrivate ==
    ASSUME RtType, Working, Private, NEW j \in Jobs, NEW w, Moves(j, w), Tidy, Eases(j, w) PROVE Private'
<1>1. RtType' /\ job'[j] = w /\ \A k \in Jobs : k # j => job'[k] = job[k]
  BY PutJob DEF Moves, RtType, Tidy
<1>2. SUFFICES ASSUME NEW k \in Replacers, Started(k)', NEW c, c = job'[k].new
      PROVE  /\ Used(c)' /\ ctr'[c].again /\ ctr'[c].svc = job'[k].svc
             /\ \A s \in Services : row'[s] # c
             /\ \A l \in Jobs : job'[l].old # c /\ \A x \in job'[l].todo : x[2] # c
             /\ \A l \in Replacers : Started(l)' /\ l # k => job'[l].new # c
  BY DEF Private
<1>3. \A l \in Replacers : Started(l)' => Started(l) /\ job'[l].new = job[l].new /\ job'[l].svc = job[l].svc
  BY <1>1, WhoIsWho DEF Started, Eases, EasesJob
<1>4. k \in Jobs /\ Started(k) /\ c = job[k].new /\ job'[k].svc = job[k].svc
  BY <1>2, <1>3, WhoIsWho
<1>5. /\ Used(c) /\ ctr[c].again /\ ctr[c].svc = job[k].svc
      /\ \A s \in Services : row[s] # c
      /\ \A l \in Jobs : job[l].old # c /\ \A x \in job[l].todo : x[2] # c
      /\ \A l \in Replacers : Started(l) /\ l # k => job[l].new # c
  BY <1>4 DEF Private
<1>6. c # None
  BY <1>5, WhoIsWho DEF Used
<1>7. Used(c)'
  BY <1>5 DEF Eases, EasesCtr, Used
<1>8. ctr'[c].again /\ ctr'[c].svc = job'[k].svc
  BY <1>4, <1>5 DEF Eases, EasesCtr, Used
<1>9. \A s \in Services : row'[s] # c
  BY <1>5, <1>6 DEF Eases, EasesRow
<1>10. \A x \in ListAllActive : x[2] # c
  BY <1>5 DEF ListAllActive
<1>11. \A l \in Jobs : job'[l].old # c /\ \A x \in job'[l].todo : x[2] # c
  BY <1>1, <1>5, <1>6, <1>10 DEF Eases, EasesJob
<1>12. \A l \in Replacers : Started(l)' /\ l # k => job'[l].new # c
  BY <1>3, <1>5, WhoIsWho
<1>. QED BY <1>5, <1>7, <1>8, <1>9, <1>11, <1>12

LEMMA EaseOneName ==
    ASSUME OneName, EasesCtr PROVE OneName'
  BY DEF OneName, EasesCtr, Running, StillRuns

LEMMA EaseReplacing ==
    ASSUME RtType, Working, Replacing, NEW j \in Jobs, NEW w, Moves(j, w), Tidy, Eases(j, w) PROVE Replacing'
<1>1. job'[j] = w /\ \A k \in Jobs : k # j => job'[k] = job[k]
  BY PutJob DEF Moves
<1>2. \A c : Original(c)' => Original(c)
  BY DEF Original, Eases, EasesCtr, Running, StillRuns
<1>3. \A s \in Services : Original(row[s])' => Original(row[s]) /\ row'[s] = row[s]
  BY <1>2, WhoIsWho DEF Original, Eases, EasesRow
<1>4. ASSUME NEW k \in Replacers, OutOfRecord(k, job'[k].pc), NEW s, s = job'[k].svc PROVE ~Original(row[s])'
  <2>1. CASE k = j
    BY <1>1, <1>4, <2>1 DEF Eases, EasesJob
  <2>2. CASE k # j
    <3>1. k \in Jobs /\ job'[k] = job[k] /\ s = job[k].svc /\ OutOfRecord(k, job[k].pc)
      BY <1>1, <1>4, <2>2, WhoIsWho
    <3>2. s \in Services
      BY <3>1 DEF Working, OutOfRecord, Busy
    <3>. QED BY <1>3, <3>1, <3>2 DEF Replacing
  <2>. QED BY <2>1, <2>2
<1>5. ASSUME NEW x \in job'["owner"].todo, Original(row[x[1]])' PROVE row'[x[1]] = x[2]
  <2>1. job["owner"].todo \subseteq Services \X Ids /\ w.todo \subseteq Services \X Ids
    BY WhoIsWho DEF RtType, Work, Moves
  <2>2. x \in job["owner"].todo \/ x \in ListAllActive
    BY <1>1, WhoIsWho DEF Eases, EasesJob
  <2>3. x[1] \in Services
    BY <1>1, <2>1, WhoIsWho
  <2>4. Original(row[x[1]]) /\ row'[x[1]] = row[x[1]]
    BY <1>3, <1>5, <2>3
  <2>5. row[x[1]] = x[2]
    BY <2>2, <2>4 DEF Replacing, ListAllActive
  <2>. QED BY <2>4, <2>5
<1>. QED BY <1>4, <1>5 DEF Replacing

LEMMA EaseStopped ==
    ASSUME RtType, StoppedFirst, NEW j \in Jobs, NEW w, Moves(j, w), Tidy, Eases(j, w) PROVE StoppedFirst'
<1>1. job'[j] = w /\ \A k \in Jobs : k # j => job'[k] = job[k]
  BY PutJob DEF Moves
<1>2. SUFFICES ASSUME job'["sweep"].pc = "clear", NEW c \in Ids, c = job'["sweep"].old PROVE ~StillRuns(c)
  BY DEF StoppedFirst, At, Running, StillRuns
<1>3. CASE j = "sweep"
  BY <1>1, <1>2, <1>3 DEF Eases, EasesJob
<1>4. CASE j # "sweep"
  <2>1. job["sweep"].pc = "clear" /\ c = job["sweep"].old
    BY <1>1, <1>2, <1>4, WhoIsWho
  <2>2. ~Running(c)
    BY <1>2, <2>1 DEF StoppedFirst, At
  <2>. QED BY <1>2, <2>2 DEF Eases, EasesCtr
<1>. QED BY <1>3, <1>4

LEMMA EaseKnown ==
    ASSUME RtType, Named, Private, Known, NEW j \in Jobs, NEW w, Moves(j, w), Tidy, Eases(j, w) PROVE Known'
<1>1. job'[j] = w /\ \A k \in Jobs : k # j => job'[k] = job[k]
  BY PutJob DEF Moves
<1>2. SUFFICES ASSUME NEW c \in Ids, StillRuns(c)
      PROVE  \/ row'[ctr'[c].svc] = c
             \/ \E k \in Replacers : Started(k)' /\ job'[k].new = c
             \/ job'["monitor"].pc = "stop" /\ job'["monitor"].old = c
             \/ c \in loose'
  BY DEF Known, At, Running, StillRuns
<1>3. Running(c) /\ ctr'[c].svc = ctr[c].svc
  BY <1>2 DEF Eases, EasesCtr
<1>4. CASE row[ctr[c].svc] = c
  <2>1. PICK s : s = ctr[c].svc
    OBVIOUS
  <2>2. s \in Services
    BY <1>2, <1>3, <2>1 DEF Named
  <2>. QED BY <1>1, <1>2, <1>3, <1>4, <2>1, <2>2, WhoIsWho DEF Eases, EasesRow
<1>5. CASE \E k \in Replacers : Started(k) /\ job[k].new = c
  <2>1. PICK k \in Replacers : Started(k) /\ job[k].new = c
    BY <1>5
  <2>2. k \in Jobs /\ ctr[c].svc = job[k].svc
    BY <2>1, WhoIsWho DEF Private
  <2>3. CASE k # j
    BY <1>1, <2>1, <2>2, <2>3 DEF Started
  <2>4. CASE k = j
    <3>1. w.pc \in {"check", "record"} \/ row'[ctr'[c].svc] = c \/ c \in loose'
      BY <1>2, <1>3, <2>1, <2>2, <2>4 DEF Eases, EasesJob, Over
    <3>2. w.pc \in {"check", "record"} => w.new = c
      BY <2>1, <2>4 DEF Eases, EasesJob
    <3>. QED BY <1>1, <2>4, <3>1, <3>2 DEF Started
  <2>. QED BY <2>3, <2>4
<1>6. CASE At("monitor", "stop") /\ job["monitor"].old = c
  BY <1>1, <1>2, <1>6, WhoIsWho DEF At, Eases, EasesJob, Over
<1>7. CASE c \in loose
  BY <1>7 DEF Eases, EasesCtr
<1>. QED BY <1>3, <1>4, <1>5, <1>6, <1>7 DEF Known

LEMMA EaseKeeps ==
    ASSUME RtInv, NEW j \in Jobs, NEW w, Moves(j, w), Tidy, Intact' => Intact /\ Eases(j, w)
    PROVE  RtInv'
<1>1. RtType' /\ Working'
  BY MoveTypes DEF RtInv, Sound
<1>2. CASE Intact'
  BY <1>1, <1>2, EaseNamed, EasePrivate, EaseOneName, EaseReplacing, EaseStopped, EaseKnown DEF RtInv, Sound, Eases
<1>3. CASE ~Intact'
  BY <1>1, <1>3 DEF RtInv, Sound
<1>. QED BY <1>2, <1>3

LEMMA IntactBefore ==
    ASSUME RtType, NEW j \in Jobs, NEW w, Moves(j, w), UNCHANGED <<deleted, restarts>>,
           j = "owner" => job[j].pc # "delete"
    PROVE  Intact' => Intact
<1>1. job'[j] = w /\ \A k \in Jobs : k # j => job'[k] = job[k]
  BY PutJob DEF Moves
<1>. QED BY <1>1, WhoIsWho DEF Intact, At

\* Containers that stay, and one that is stopped.
LEMMA SameCtr ==
    ASSUME UNCHANGED <<ctr, loose>> PROVE EasesCtr
  BY DEF EasesCtr, StillRuns, Running

LEMMA OneStopped ==
    ASSUME RtType, NEW c \in Ids, ctr' = Removed(c), UNCHANGED loose
    PROVE  EasesCtr /\ ~StillRuns(c)
<1>1. /\ ctr'[c].st = "gone" /\ ctr'[c].svc = ctr[c].svc /\ ctr'[c].again = ctr[c].again
      /\ \A d \in Ids : d # c => ctr'[d] = ctr[d]
  BY RemovedFits
<1>. QED BY <1>1 DEF EasesCtr, StillRuns, Running

LEMMA LetGoFits ==
    ASSUME RtType, NEW S, LetGo(S)
    PROVE  /\ loose' \in SUBSET Ids /\ loose \subseteq loose'
           /\ \A c \in Ids : c \in S /\ Running(c) => c \in loose'
  BY DEF LetGo, RtType

LEMMA MishapFits == ASSUME RtType, Mishap PROVE mishaps' \in Nat
  BY DEF Mishap, RtType

LEMMA StoppedOrNot ==
    ASSUME RtType, NEW c \in Ids, StopOrNot(c)
    PROVE  /\ ctr' \in [Ids -> Container] /\ loose' \in SUBSET Ids /\ mishaps' \in Nat
           /\ EasesCtr /\ Over(c)
<1>1. CASE ctr' = Removed(c) /\ UNCHANGED <<loose, mishaps>>
  BY <1>1, OneStopped, RemovedFits DEF RtType, Over
<1>2. CASE Mishap /\ LetGo({c}) /\ UNCHANGED ctr
  <2>1. loose' \in SUBSET Ids /\ loose \subseteq loose' /\ (Running(c) => c \in loose')
    BY <1>2, LetGoFits
  <2>2. EasesCtr /\ Over(c)
    BY <1>2, <2>1 DEF EasesCtr, Over, StillRuns, Running
  <2>. QED BY <1>2, <2>1, <2>2, MishapFits DEF RtType
<1>. QED BY <1>1, <1>2 DEF StopOrNot

LEMMA SameRow == ASSUME UNCHANGED row, NEW j, NEW w PROVE EasesRow(j, w)
  BY DEF EasesRow

\* One that works on nothing any more.
LEMMA CalmJob ==
    ASSUME NEW j \in Jobs, NEW w, w.pc \in {"idle", "probe", "restart"}, w.old = None, w.new = None,
           \A x \in w.todo : x \in job[j].todo \/ x \in ListAllActive,
           Started(j) => Over(job[j].new),
           j = "monitor" /\ At(j, "stop") => Over(job[j].old)
    PROVE  EasesJob(j, w)
  BY DEF EasesJob, OutOfRecord

LEMMA NextMoves ==
    ASSUME RtType, NEW j \in Replacers, NextService(j)
    PROVE  \E w : /\ Moves(j, w) /\ w.pc \in {"idle", "probe", "restart"} /\ w.old = None /\ w.new = None
                  /\ \A x \in w.todo : x \in job[j].todo \/ x \in ListAllActive
<1>1. PICK w \in Work : /\ job' = [job EXCEPT ![j] = w]
                        /\ w.pc \in {"idle", "probe"} /\ w.old = None /\ w.new = None
                        /\ w.todo \subseteq job[j].todo
  BY NextFits
<1>2. Moves(j, w)
  BY <1>1, WhoIsWho DEF Moves, Busy
<1>. QED BY <1>1, <1>2

LEMMA ReturnMoves ==
    ASSUME RtType, NEW j \in Jobs, Return(j) PROVE Moves(j, Quiet)
<1>1. Quiet \in Work /\ Quiet.pc = "idle"
  BY QuietFits DEF Quiet
<1>. QED BY <1>1 DEF Moves, Return, Busy

LEMMA QuietCalm ==
    /\ Quiet.pc \in {"idle", "probe", "restart"} /\ Quiet.old = None /\ Quiet.new = None /\ Quiet.todo = {}
  BY DEF Quiet

(***************************************************************************)
(* Cold starts and the idle sweep                                          *)
(***************************************************************************)
LEMMA ColdStartKeeps == ASSUME RtInv, NEW s \in Services, ColdStart(s) PROVE RtInv'
<1>0. s \in Jobs /\ s \in Replacers /\ s # "owner" /\ s # "monitor" /\ s # "sweep" /\ job[s].pc = "idle"
  BY WhoIsWho DEF ColdStart, At
<1>1. PICK w : w = [Quiet EXCEPT !.pc = "start", !.svc = s]
  OBVIOUS
<1>2. w \in Work /\ w.pc = "start" /\ w.svc = s /\ w.old = None /\ w.new = None /\ w.todo = {}
  BY <1>1 DEF Quiet, Work, Steps
<1>3. job' = [job EXCEPT ![s] = w]
  BY <1>1 DEF ColdStart
<1>4. Moves(s, w)
  BY <1>0, <1>2, <1>3 DEF Moves
<1>5. Tidy
  BY DEF ColdStart, RtInv, Sound, RtType, Tidy, mind, world
<1>6. row'[s] \notin Ids
  BY WhoIsWho DEF ColdStart
<1>7. EasesJob(s, w)
  BY <1>0, <1>2, <1>6 DEF EasesJob, Started, Original, OutOfRecord
<1>8. Intact' => Intact /\ Eases(s, w)
  BY <1>0, <1>4, <1>7, IntactBefore, SameCtr, SameRow DEF ColdStart, RtInv, Sound, Eases, world
<1>. QED BY <1>0, <1>4, <1>5, <1>8, EaseKeeps

LEMMA IdleListKeeps == ASSUME RtInv, IdleList PROVE RtInv'
<1>0. "sweep" \in Jobs /\ "sweep" \notin Replacers /\ job["sweep"] \in Work
  BY WhoIsWho DEF RtInv, Sound, RtType
<1>1. PICK idle \in SUBSET ListEligibleActive :
          job' = [job EXCEPT !["sweep"].pc = "stop", !["sweep"].todo = idle]
  BY DEF IdleList
<1>2. PICK w : w = [job["sweep"] EXCEPT !.pc = "stop", !.todo = idle]
  OBVIOUS
<1>3. idle \subseteq ListAllActive /\ idle \in SUBSET (Services \X Ids)
  BY <1>1, TodoFits DEF RtInv, Sound
<1>4. /\ w \in Work /\ w.pc = "stop" /\ w.svc = job["sweep"].svc /\ w.old = job["sweep"].old
      /\ w.new = job["sweep"].new /\ w.todo = idle
  BY <1>0, <1>2, <1>3 DEF Work, Steps
<1>5. job' = [job EXCEPT !["sweep"] = w]
  BY <1>0, <1>1, <1>2 DEF RtInv, Sound, RtType
<1>6. Moves("sweep", w)
  BY <1>0, <1>4, <1>5 DEF Moves
<1>7. Tidy
  BY DEF IdleList, RtInv, Sound, RtType, Tidy, mind, world
<1>8. EasesJob("sweep", w)
  BY <1>0, <1>3, <1>4, WhoIsWho DEF EasesJob
<1>9. Intact' => Intact /\ Eases("sweep", w)
  BY <1>0, <1>6, <1>8, IntactBefore, SameCtr, SameRow DEF IdleList, RtInv, Sound, Eases, world
<1>. QED BY <1>0, <1>6, <1>7, <1>9, EaseKeeps

LEMMA IdleStopKeeps == ASSUME RtInv, IdleStop PROVE RtInv'
<1>0. "sweep" \in Jobs /\ "sweep" \notin Replacers /\ job["sweep"] \in Work /\ job["sweep"].pc = "stop"
  BY WhoIsWho DEF RtInv, Sound, RtType, IdleStop, At
<1>1. CASE Return("sweep") /\ UNCHANGED <<ctr, mishaps>>
  <2>1. Moves("sweep", Quiet)
    BY <1>0, <1>1, ReturnMoves DEF RtInv, Sound
  <2>2. Tidy
    BY <1>1 DEF IdleStop, RtInv, Sound, RtType, Tidy, mind, world
  <2>3. EasesJob("sweep", Quiet)
    BY <1>0, QuietCalm, CalmJob DEF Started
  <2>4. Intact' => Intact /\ Eases("sweep", Quiet)
    BY <1>0, <1>1, <2>1, <2>3, IntactBefore, SameCtr, SameRow DEF IdleStop, RtInv, Sound, Eases, world
  <2>. QED BY <1>0, <2>1, <2>2, <2>4, EaseKeeps
<1>2. ASSUME NEW x \in job["sweep"].todo, Stops(x[2]), ctr' = Removed(x[2]),
             job' = [job EXCEPT !["sweep"] =
                      [@ EXCEPT !.pc = "clear", !.svc = x[1], !.old = x[2], !.todo = job["sweep"].todo \ {x}]],
             UNCHANGED mishaps
      PROVE  RtInv'
  <2>1. x \in Services \X Ids /\ x[1] \in Services /\ x[2] \in Ids
    BY <1>0 DEF Work
  <2>2. PICK w : w = [job["sweep"] EXCEPT !.pc = "clear", !.svc = x[1], !.old = x[2], !.todo = job["sweep"].todo \ {x}]
    OBVIOUS
  <2>3. /\ w \in Work /\ w.pc = "clear" /\ w.svc = x[1] /\ w.old = x[2] /\ w.new = job["sweep"].new
        /\ w.todo = job["sweep"].todo \ {x}
    BY <1>0, <2>1, <2>2 DEF Work, Steps
  <2>4. job' = [job EXCEPT !["sweep"] = w]
    BY <1>0, <1>2, <2>2 DEF RtInv, Sound, RtType
  <2>5. Moves("sweep", w)
    BY <1>0, <2>1, <2>3, <2>4 DEF Moves
  <2>6. Tidy
    BY <1>2, <2>1, RemovedFits DEF IdleStop, RtInv, Sound, RtType, Tidy, mind, world
  <2>7. EasesCtr /\ ~StillRuns(x[2])
    BY <1>2, <2>1, OneStopped DEF RtInv, Sound, IdleStop
  <2>8. EasesJob("sweep", w)
    BY <1>0, <2>3, <2>7, WhoIsWho DEF EasesJob
  <2>9. Intact' => Intact
    BY <1>0, <2>5, IntactBefore DEF IdleStop, RtInv, Sound, world
  <2>10. Intact' => Intact /\ Eases("sweep", w)
    BY <2>7, <2>8, <2>9, SameRow DEF IdleStop, Eases
  <2>. QED BY <1>0, <2>5, <2>6, <2>10, EaseKeeps
<1>3. ASSUME NEW x \in job["sweep"].todo, job' = [job EXCEPT !["sweep"].todo = @ \ {x}], UNCHANGED ctr,
             Mishap \/ UNCHANGED mishaps
      PROVE  RtInv'
  <2>1. PICK w : w = [job["sweep"] EXCEPT !.todo = @ \ {x}]
    OBVIOUS
  <2>2. /\ w \in Work /\ w.pc = "stop" /\ w.svc = job["sweep"].svc /\ w.old = job["sweep"].old
        /\ w.new = job["sweep"].new /\ w.todo = job["sweep"].todo \ {x}
    BY <1>0, <2>1 DEF Work
  <2>3. job' = [job EXCEPT !["sweep"] = w]
    BY <1>0, <1>3, <2>1 DEF RtInv, Sound, RtType
  <2>4. Moves("sweep", w)
    BY <1>0, <2>2, <2>3 DEF Moves
  <2>5. Tidy
    BY <1>3, MishapFits DEF IdleStop, RtInv, Sound, RtType, Tidy, mind, world
  <2>6. EasesJob("sweep", w)
    BY <1>0, <2>2, WhoIsWho DEF EasesJob
  <2>7. Intact' => Intact /\ Eases("sweep", w)
    BY <1>0, <1>3, <2>4, <2>6, IntactBefore, SameCtr, SameRow DEF IdleStop, RtInv, Sound, Eases, world
  <2>. QED BY <1>0, <2>4, <2>5, <2>7, EaseKeeps
<1>. QED BY <1>1, <1>2, <1>3 DEF IdleStop

LEMMA IdleClearKeeps == ASSUME RtInv, IdleClear PROVE RtInv'
<1>0. "sweep" \in Jobs /\ "sweep" \notin Replacers /\ job["sweep"].pc = "clear"
  BY WhoIsWho DEF IdleClear, At
<1>1. PICK w \in Work : /\ job' = [job EXCEPT !["sweep"] = w]
                        /\ w.pc = "stop" /\ w.svc = job["sweep"].svc /\ w.todo = job["sweep"].todo
                        /\ w.old = job["sweep"].old /\ w.new = job["sweep"].new
  BY <1>0, StepFits DEF IdleClear, RtInv, Sound, Steps
<1>2. Moves("sweep", w)
  BY <1>0, <1>1 DEF Moves
<1>3. row' \in [Services -> Ids \cup {None}] /\ mishaps' \in Nat
  BY MishapFits DEF IdleClear, ClearContainer, RtInv, Sound, RtType
<1>4. Tidy
  BY <1>3 DEF IdleClear, RtInv, Sound, RtType, Tidy, mind, world
<1>5. EasesJob("sweep", w)
  BY <1>0, <1>1, WhoIsWho DEF EasesJob
<1>6. ASSUME Intact PROVE EasesRow("sweep", w)
  <2>1. \A c \in Ids : c = job["sweep"].old => ~StillRuns(c)
    BY <1>0, <1>6 DEF IdleClear, RtInv, Sound, StoppedFirst, At, Running, StillRuns
  <2>2. \A s \in Services : row'[s] = row[s] \/ (row'[s] = None /\ row[s] = job["sweep"].old)
    BY DEF IdleClear, ClearContainer, Svc, RtInv, Sound, RtType
  <2>3. \A s \in Services : row[s] \in Ids \/ row[s] = None
    BY DEF RtInv, Sound, RtType
  <2>4. ASSUME NEW s \in Services, row'[s] # row[s] PROVE row'[s] = None /\ ~StillRuns(row[s])
    <3>1. row'[s] = None /\ row[s] = job["sweep"].old /\ row[s] \in Ids
      BY <2>2, <2>3, <2>4
    <3>. QED BY <2>1, <3>1
  <2>. QED BY <2>4 DEF EasesRow
<1>7. Intact' => Intact
  BY <1>0, <1>2, WhoIsWho, IntactBefore DEF IdleClear, RtInv, Sound, world
<1>8. Intact' => Intact /\ Eases("sweep", w)
  BY <1>5, <1>6, <1>7, SameCtr DEF IdleClear, RtInv, Sound, Eases
<1>. QED BY <1>0, <1>2, <1>4, <1>8, EaseKeeps

(***************************************************************************)
(* The health monitor                                                      *)
(***************************************************************************)
LEMMA MonitorListKeeps == ASSUME RtInv, MonitorList PROVE RtInv'
<1>0. "monitor" \in Jobs /\ "monitor" # "owner" /\ job["monitor"] \in Work /\ job["monitor"].pc = "idle"
  BY WhoIsWho DEF RtInv, Sound, RtType, MonitorList, At
<1>1. PICK w : w = [job["monitor"] EXCEPT !.pc = "probe", !.todo = ListAllActive]
  OBVIOUS
<1>2. ListAllActive \in SUBSET (Services \X Ids)
  BY TodoFits DEF RtInv, Sound
<1>3. /\ w \in Work /\ w.pc = "probe" /\ w.old = job["monitor"].old
      /\ w.new = job["monitor"].new /\ w.todo = ListAllActive
  BY <1>0, <1>1, <1>2 DEF Work, Steps
<1>4. job' = [job EXCEPT !["monitor"] = w]
  BY <1>0, <1>1 DEF MonitorList, RtInv, Sound, RtType
<1>5. Moves("monitor", w)
  BY <1>0, <1>3, <1>4 DEF Moves, Busy
<1>6. Tidy
  BY DEF MonitorList, RtInv, Sound, RtType, Tidy, mind, world
<1>7. EasesJob("monitor", w)
  BY <1>0, <1>3 DEF EasesJob, Started, OutOfRecord, At
<1>8. Intact' => Intact /\ Eases("monitor", w)
  BY <1>0, <1>5, <1>7, IntactBefore, SameCtr, SameRow DEF MonitorList, RtInv, Sound, Eases, world
<1>. QED BY <1>0, <1>5, <1>6, <1>8, EaseKeeps

LEMMA FailsFits == ASSUME RtType, NEW x \in Services \X Ids PROVE Fails(x) \in Nat
  BY DEF RtType, Fails

LEMMA MonitorProbeKeeps == ASSUME RtInv, MonitorProbe PROVE RtInv'
<1>0. "monitor" \in Jobs /\ "monitor" # "owner" /\ "monitor" # "sweep" /\ job["monitor"] \in Work /\ job["monitor"].pc = "probe"
  BY WhoIsWho DEF RtInv, Sound, RtType, MonitorProbe, At
<1>1. CASE Return("monitor") /\ UNCHANGED failures
  <2>1. Moves("monitor", Quiet)
    BY <1>0, <1>1, ReturnMoves DEF RtInv, Sound
  <2>2. Tidy
    BY <1>1 DEF MonitorProbe, RtInv, Sound, RtType, Tidy, world
  <2>3. EasesJob("monitor", Quiet)
    BY <1>0, QuietCalm, CalmJob DEF Started, At
  <2>4. Intact' => Intact /\ Eases("monitor", Quiet)
    BY <1>0, <2>1, <2>3, IntactBefore, SameCtr, SameRow DEF MonitorProbe, RtInv, Sound, Eases, world
  <2>. QED BY <1>0, <2>1, <2>2, <2>4, EaseKeeps
<1>2. ASSUME NEW x \in job["monitor"].todo, NEW left, left = job["monitor"].todo \ {x},
             failures' = [failures EXCEPT ![x[1]] = Fails(x)],
             job' = [job EXCEPT !["monitor"] =
                    IF Fails(x) < 2 THEN [@ EXCEPT !.todo = left]
                    ELSE [@ EXCEPT !.pc = "claim", !.svc = x[1], !.old = x[2], !.todo = left]]
      PROVE  RtInv'
  <2>1. x \in Services \X Ids /\ x[1] \in Services /\ x[2] \in Ids
    BY <1>0 DEF Work
  <2>2. PICK v : v = [job["monitor"] EXCEPT !.todo = left]
    OBVIOUS
  <2>3. PICK u : u = [job["monitor"] EXCEPT !.pc = "claim", !.svc = x[1], !.old = x[2], !.todo = left]
    OBVIOUS
  <2>4. PICK w : w = IF Fails(x) < 2 THEN v ELSE u
    OBVIOUS
  <2>5. /\ v \in Work /\ v.pc = "probe" /\ v.svc = job["monitor"].svc /\ v.old = job["monitor"].old
        /\ v.new = job["monitor"].new /\ v.todo = left
    BY <1>0, <1>2, <2>2 DEF Work
  <2>6. /\ u \in Work /\ u.pc = "claim" /\ u.svc = x[1] /\ u.old = x[2]
        /\ u.new = job["monitor"].new /\ u.todo = left
    BY <1>0, <1>2, <2>1, <2>3 DEF Work, Steps
  <2>7. job' = [job EXCEPT !["monitor"] = w]
    BY <1>0, <1>2, <2>2, <2>3, <2>4 DEF RtInv, Sound, RtType
  <2>8. /\ w \in Work /\ w.pc \in {"probe", "claim"}
        /\ w.pc = "claim" => w.svc \in Services /\ w.old \in Ids
        /\ w.old = job["monitor"].old \/ w.old = x[2]
        /\ w.new = job["monitor"].new /\ w.todo = left
    BY <2>1, <2>4, <2>5, <2>6
  <2>9. Moves("monitor", w)
    BY <1>0, <2>7, <2>8 DEF Moves, Busy
  <2>10. failures' \in [Services -> Nat]
    BY <1>2, <2>1, FailsFits DEF RtInv, Sound, RtType
  <2>11. Tidy
    BY <2>10 DEF MonitorProbe, RtInv, Sound, RtType, Tidy, world
  <2>12. EasesJob("monitor", w)
    BY <1>0, <1>2, <2>8 DEF EasesJob, Started, OutOfRecord, At
  <2>13. Intact' => Intact /\ Eases("monitor", w)
    BY <1>0, <2>9, <2>12, IntactBefore, SameCtr, SameRow DEF MonitorProbe, RtInv, Sound, Eases, world
  <2>. QED BY <1>0, <2>9, <2>11, <2>13, EaseKeeps
<1>. QED BY <1>1, <1>2 DEF MonitorProbe

LEMMA MonitorClaimKeeps == ASSUME RtInv, MonitorClaim PROVE RtInv'
<1>0. /\ "monitor" \in Jobs /\ "monitor" \in Replacers /\ "monitor" # "owner" /\ "monitor" # "sweep"
      /\ job["monitor"].pc = "claim" /\ job["monitor"].svc \in Services /\ job["monitor"].old \in Ids
  BY WhoIsWho DEF RtInv, Sound, Working, Busy, MonitorClaim, At
<1>1. row' \in [Services -> Ids \cup {None}] /\ failures' \in [Services -> Nat]
  BY DEF MonitorClaim, ClearContainer, RtInv, Sound, RtType
<1>2. Tidy
  BY <1>1 DEF MonitorClaim, RtInv, Sound, RtType, Tidy, world
<1>3. CASE row[Svc("monitor")] = job["monitor"].old
  <2>1. PICK w \in Work : /\ job' = [job EXCEPT !["monitor"] = w]
                          /\ w.pc = "stop" /\ w.svc = job["monitor"].svc /\ w.todo = job["monitor"].todo
                          /\ w.old = job["monitor"].old /\ w.new = job["monitor"].new
    BY <1>0, <1>3, StepFits DEF MonitorClaim, RtInv, Sound, Steps
  <2>2. Moves("monitor", w)
    BY <1>0, <2>1 DEF Moves
  <2>3. row' = [row EXCEPT ![job["monitor"].svc] = None] /\ row[job["monitor"].svc] = job["monitor"].old
    BY <1>3 DEF MonitorClaim, ClearContainer, Svc
  <2>4. row'[job["monitor"].svc] = None
    BY <1>0, <2>3 DEF RtInv, Sound, RtType
  <2>5. ~Original(row[w.svc])'
    BY <2>1, <2>4, WhoIsWho DEF Original
  <2>6. EasesJob("monitor", w)
    BY <1>0, <2>1, <2>5 DEF EasesJob, Started, At
  <2>7. EasesRow("monitor", w)
    BY <1>0, <2>1, <2>3 DEF EasesRow, RtInv, Sound, RtType
  <2>8. Intact' => Intact /\ Eases("monitor", w)
    BY <1>0, <2>2, <2>6, <2>7, IntactBefore, SameCtr DEF MonitorClaim, RtInv, Sound, Eases, world
  <2>. QED BY <1>0, <1>2, <2>2, <2>8, EaseKeeps
<1>4. CASE row[Svc("monitor")] # job["monitor"].old
  <2>1. NextService("monitor") /\ UNCHANGED row
    BY <1>4 DEF MonitorClaim, ClearContainer
  <2>2. PICK w : /\ Moves("monitor", w) /\ w.pc \in {"idle", "probe", "restart"} /\ w.old = None /\ w.new = None
                 /\ \A x \in w.todo : x \in job["monitor"].todo \/ x \in ListAllActive
    BY <1>0, <2>1, NextMoves DEF RtInv, Sound
  <2>3. EasesJob("monitor", w)
    BY <1>0, <2>2, CalmJob DEF Started, At
  <2>4. Intact' => Intact /\ Eases("monitor", w)
    BY <1>0, <2>1, <2>2, <2>3, IntactBefore, SameCtr, SameRow DEF MonitorClaim, RtInv, Sound, Eases, world
  <2>. QED BY <1>0, <1>2, <2>2, <2>4, EaseKeeps
<1>. QED BY <1>3, <1>4

LEMMA ClaimFailsKeeps == ASSUME RtInv, ClaimFails PROVE RtInv'
<1>0. /\ "monitor" \in Jobs /\ "monitor" \in Replacers /\ "monitor" # "owner" /\ job["monitor"].pc = "claim"
  BY WhoIsWho DEF ClaimFails, At
<1>1. Tidy
  BY MishapFits DEF ClaimFails, RtInv, Sound, RtType, Tidy, mind
<1>2. PICK w : /\ Moves("monitor", w) /\ w.pc \in {"idle", "probe", "restart"} /\ w.old = None /\ w.new = None
               /\ \A x \in w.todo : x \in job["monitor"].todo \/ x \in ListAllActive
  BY <1>0, NextMoves DEF RtInv, Sound, ClaimFails
<1>3. EasesJob("monitor", w)
  BY <1>0, <1>2, CalmJob DEF Started, At
<1>4. Intact' => Intact /\ Eases("monitor", w)
  BY <1>0, <1>2, <1>3, IntactBefore, SameCtr, SameRow DEF ClaimFails, RtInv, Sound, Eases
<1>. QED BY <1>0, <1>1, <1>2, <1>4, EaseKeeps

LEMMA MonitorStopKeeps == ASSUME RtInv, MonitorStop PROVE RtInv'
<1>0. /\ "monitor" \in Jobs /\ "monitor" \in Replacers /\ "monitor" # "owner" /\ "monitor" # "sweep"
      /\ job["monitor"].pc = "stop" /\ job["monitor"].svc \in Services /\ job["monitor"].old \in Ids
  BY WhoIsWho DEF RtInv, Sound, Working, Busy, MonitorStop, At
<1>1. Tidy
  BY <1>0, StoppedOrNot DEF MonitorStop, RtInv, Sound, RtType, Tidy, mind
<1>2. EasesCtr /\ Over(job["monitor"].old)
  BY <1>0, StoppedOrNot DEF RtInv, Sound, MonitorStop
<1>3. CASE Goto("monitor", "start")
  <2>1. PICK w \in Work : /\ job' = [job EXCEPT !["monitor"] = w]
                          /\ w.pc = "start" /\ w.svc = job["monitor"].svc /\ w.todo = job["monitor"].todo
                          /\ w.old = job["monitor"].old /\ w.new = job["monitor"].new
    BY <1>0, <1>3, StepFits DEF RtInv, Sound, Steps
  <2>2. Moves("monitor", w)
    BY <1>0, <2>1 DEF Moves
  <2>3. ASSUME Intact PROVE ~Original(row[w.svc])'
    <3>1. ~Original(row[job["monitor"].svc]) /\ UNCHANGED row
      BY <1>0, <2>3 DEF RtInv, Sound, Replacing, OutOfRecord, MonitorStop
    <3>2. \A c : Original(c)' => Original(c)
      BY <1>2 DEF Original, EasesCtr, Running, StillRuns
    <3>. QED BY <2>1, <3>1, <3>2
  <2>4. ASSUME Intact PROVE EasesJob("monitor", w)
    BY <1>0, <1>2, <2>1, <2>3, <2>4 DEF EasesJob, Started
  <2>5. Intact' => Intact
    BY <1>0, <2>2, IntactBefore DEF MonitorStop, RtInv, Sound
  <2>6. Intact' => Intact /\ Eases("monitor", w)
    BY <1>2, <2>4, <2>5, SameRow DEF MonitorStop, Eases
  <2>. QED BY <1>0, <1>1, <2>2, <2>6, EaseKeeps
<1>4. CASE NextService("monitor")
  <2>1. PICK w : /\ Moves("monitor", w) /\ w.pc \in {"idle", "probe", "restart"} /\ w.old = None /\ w.new = None
                 /\ \A x \in w.todo : x \in job["monitor"].todo \/ x \in ListAllActive
    BY <1>0, <1>4, NextMoves DEF RtInv, Sound
  <2>2. ASSUME Intact PROVE EasesJob("monitor", w)
    BY <1>0, <1>2, <2>1, <2>2, CalmJob DEF Started
  <2>3. Intact' => Intact
    BY <1>0, <2>1, IntactBefore DEF MonitorStop, RtInv, Sound
  <2>4. Intact' => Intact /\ Eases("monitor", w)
    BY <1>2, <2>2, <2>3, SameRow DEF MonitorStop, Eases
  <2>. QED BY <1>0, <1>1, <2>1, <2>4, EaseKeeps
<1>. QED BY <1>3, <1>4 DEF MonitorStop

LEMMA MonitorAdoptKeeps == ASSUME RtInv, MonitorAdopt PROVE RtInv'
<1>0. /\ "monitor" \in Jobs /\ "monitor" \in Replacers /\ "monitor" # "owner"
      /\ job["monitor"].pc = "adopt" /\ job["monitor"].svc \in Services
  BY WhoIsWho DEF RtInv, Sound, Working, Busy, MonitorAdopt, At
<1>1. recent' \in [Services -> Nat]
  BY <1>0 DEF MonitorAdopt, Svc, RtInv, Sound, RtType
<1>2. Tidy
  BY <1>1 DEF MonitorAdopt, RtInv, Sound, RtType, Tidy, world
<1>3. PICK w : /\ Moves("monitor", w) /\ w.pc \in {"idle", "probe", "restart"} /\ w.old = None /\ w.new = None
               /\ \A x \in w.todo : x \in job["monitor"].todo \/ x \in ListAllActive
  BY <1>0, NextMoves DEF RtInv, Sound, MonitorAdopt
<1>4. EasesJob("monitor", w)
  BY <1>0, <1>3, CalmJob DEF Started, At
<1>5. Intact' => Intact /\ Eases("monitor", w)
  BY <1>0, <1>3, <1>4, IntactBefore, SameCtr, SameRow DEF MonitorAdopt, RtInv, Sound, Eases, world
<1>. QED BY <1>0, <1>2, <1>3, <1>5, EaseKeeps

(***************************************************************************)
(* The owner, the world                                                    *)
(***************************************************************************)
LEMMA NobodyMoves ==
    ASSUME RtInv, UNCHANGED job
    PROVE  \E w : Moves("sweep", w) /\ (Intact /\ EasesCtr => EasesJob("sweep", w))
<1>0. "sweep" \in Jobs /\ "sweep" \notin Replacers /\ "sweep" # "monitor" /\ job["sweep"] \in Work
  BY WhoIsWho DEF RtInv, Sound, RtType
<1>1. PICK w : w = job["sweep"]
  OBVIOUS
<1>2. job' = [job EXCEPT !["sweep"] = w]
  BY <1>0, <1>1 DEF RtInv, Sound, RtType
<1>3. Moves("sweep", w)
  BY <1>0, <1>1, <1>2 DEF Moves, RtInv, Sound, Working, At
<1>4. ASSUME Intact, EasesCtr PROVE EasesJob("sweep", w)
  <2>1. ASSUME w.pc = "clear", w.old \in Ids PROVE ~StillRuns(w.old)
    <3>1. \A c \in Ids : c = w.old => ~Running(c)
      BY <1>1, <1>4, <2>1 DEF RtInv, Sound, StoppedFirst, At
    <3>. QED BY <1>4, <2>1, <3>1 DEF EasesCtr
  <2>. QED BY <1>0, <1>1, <2>1 DEF EasesJob
<1>. QED BY <1>3, <1>4

LEMMA WindowPassesKeeps == ASSUME RtInv, NEW s \in Services, WindowPasses(s) PROVE RtInv'
<1>1. recent' \in [Services -> Nat]
  BY DEF WindowPasses, RtInv, Sound, RtType
<1>2. Tidy
  BY <1>1 DEF WindowPasses, RtInv, Sound, RtType, Tidy, world
<1>3. UNCHANGED <<ctr, row, job, loose, deleted, restarts>>
  BY DEF WindowPasses, world
<1>4. Intact' <=> Intact
  BY <1>3 DEF Intact, At
<1>5. PICK w : Moves("sweep", w) /\ (Intact /\ EasesCtr => EasesJob("sweep", w))
  BY <1>3, NobodyMoves
<1>6. Intact' => Intact /\ Eases("sweep", w)
  BY <1>3, <1>4, <1>5, SameCtr, SameRow DEF RtInv, Sound, Eases
<1>. QED BY <1>2, <1>5, <1>6, WhoIsWho, EaseKeeps

LEMMA BreaksKeeps ==
    ASSUME RtInv, NEW c \in Ids, Breaks(c) PROVE RtInv'
<1>1. PICK st \in {"hung", "exited"} : ctr' = [ctr EXCEPT ![c].st = st]
  BY DEF Breaks
<1>2. /\ ctr' \in [Ids -> Container] /\ ctr'[c].svc = ctr[c].svc /\ ctr'[c].again = ctr[c].again
      /\ ctr'[c].st = st /\ ctr[c].st = "up" /\ \A d \in Ids : d # c => ctr'[d] = ctr[d]
  BY <1>1 DEF Breaks, RtInv, Sound, RtType, Container, States
<1>3. mishaps' \in Nat
  BY MishapFits DEF Breaks, RtInv
<1>4. Tidy
  BY <1>2, <1>3 DEF Breaks, RtInv, Sound, RtType, Tidy, mind
<1>5. UNCHANGED <<row, job, deleted, restarts>>
  BY DEF Breaks
<1>6. Intact' <=> Intact
  BY <1>5 DEF Intact, At
<1>7. EasesCtr
  <2>1. ASSUME NEW d \in Ids
        PROVE  /\ StillRuns(d) => Running(d)
               /\ ctr'[d].svc = ctr[d].svc /\ ctr'[d].again = ctr[d].again
               /\ ctr[d].st # "unused" => ctr'[d].st # "unused"
    BY <1>2 DEF Running, StillRuns
  <2>. QED BY <2>1 DEF EasesCtr, Breaks
<1>8. PICK w : Moves("sweep", w) /\ (Intact /\ EasesCtr => EasesJob("sweep", w))
  BY <1>5, NobodyMoves
<1>9. Intact' => Intact /\ Eases("sweep", w)
  BY <1>5, <1>6, <1>7, <1>8, SameRow DEF Eases
<1>. QED BY <1>4, <1>8, <1>9, WhoIsWho, EaseKeeps

LEMMA ServerRestartsKeeps == ASSUME RtInv, ServerRestarts PROVE RtInv'
<1>1. job' \in [Jobs -> Work] /\ \A j \in Jobs : job'[j].pc = "idle"
  BY QuietFits DEF ServerRestarts, Quiet
<1>2. restarts' \in Nat /\ restarts' # 0 /\ mishaps' \in Nat
  BY MishapFits DEF ServerRestarts, RtInv, Sound, RtType
<1>3. failures' \in [Services -> Nat] /\ recent' \in [Services -> Nat]
  BY DEF ServerRestarts
<1>4. RtType'
  BY <1>1, <1>2, <1>3 DEF ServerRestarts, RtInv, Sound, RtType
<1>5. Working'
  BY <1>1, WhoIsWho DEF Working, Busy, At
<1>. QED BY <1>2, <1>4, <1>5 DEF RtInv, Sound, Intact

LEMMA OwnerRestartKeeps == ASSUME RtInv, OwnerRestart PROVE RtInv'
<1>0. "owner" \in Jobs /\ "owner" # "monitor" /\ "owner" # "sweep" /\ job["owner"] \in Work /\ job["owner"].pc = "idle"
  BY WhoIsWho DEF RtInv, Sound, RtType, OwnerRestart, At
<1>1. PICK w : w = [job["owner"] EXCEPT !.pc = "restart", !.todo = ListAllActive]
  OBVIOUS
<1>2. ListAllActive \in SUBSET (Services \X Ids)
  BY TodoFits DEF RtInv, Sound
<1>3. /\ w \in Work /\ w.pc = "restart" /\ w.old = job["owner"].old
      /\ w.new = job["owner"].new /\ w.todo = ListAllActive
  BY <1>0, <1>1, <1>2 DEF Work, Steps
<1>4. job' = [job EXCEPT !["owner"] = w]
  BY <1>0, <1>1 DEF OwnerRestart, RtInv, Sound, RtType
<1>5. Moves("owner", w)
  BY <1>0, <1>3, <1>4 DEF Moves, Busy
<1>6. Tidy
  BY DEF OwnerRestart, RtInv, Sound, RtType, Tidy, mind, world
<1>7. EasesJob("owner", w)
  BY <1>0, <1>3 DEF EasesJob, Started, OutOfRecord
<1>8. Intact' => Intact /\ Eases("owner", w)
  BY <1>0, <1>5, <1>7, IntactBefore, SameCtr, SameRow DEF OwnerRestart, RtInv, Sound, Eases, world
<1>. QED BY <1>0, <1>5, <1>6, <1>8, EaseKeeps

LEMMA RestartNextKeeps == ASSUME RtInv, RestartNext PROVE RtInv'
<1>0. /\ "owner" \in Jobs /\ "owner" \in Replacers /\ "owner" # "monitor" /\ "owner" # "sweep"
      /\ job["owner"] \in Work /\ job["owner"].pc = "restart"
  BY WhoIsWho DEF RtInv, Sound, RtType, RestartNext, At
<1>1. CASE Goto("owner", "relist") /\ UNCHANGED <<ctr, mishaps>>
  <2>1. PICK w \in Work : /\ job' = [job EXCEPT !["owner"] = w]
                          /\ w.pc = "relist" /\ w.svc = job["owner"].svc /\ w.todo = job["owner"].todo
                          /\ w.old = job["owner"].old /\ w.new = job["owner"].new
    BY <1>0, <1>1, StepFits DEF RtInv, Sound, Steps
  <2>2. Moves("owner", w)
    BY <1>0, <2>1 DEF Moves, Busy
  <2>3. Tidy
    BY <1>1 DEF RestartNext, RtInv, Sound, RtType, Tidy, mind, world
  <2>4. EasesJob("owner", w)
    BY <1>0, <2>1 DEF EasesJob, Started, OutOfRecord
  <2>5. Intact' => Intact /\ Eases("owner", w)
    BY <1>0, <1>1, <2>2, <2>4, IntactBefore, SameCtr, SameRow DEF RestartNext, RtInv, Sound, Eases, world
  <2>. QED BY <1>0, <2>2, <2>3, <2>5, EaseKeeps
<1>2. ASSUME NEW x \in job["owner"].todo, ctr' = Removed(x[2]), UNCHANGED mishaps,
             job' = [job EXCEPT !["owner"] =
                    [@ EXCEPT !.pc = "start", !.svc = x[1], !.todo = job["owner"].todo \ {x}]]
      PROVE  RtInv'
  <2>1. x \in Services \X Ids /\ x[1] \in Services /\ x[2] \in Ids
    BY <1>0 DEF Work
  <2>2. Tidy
    BY <1>2, <2>1, RemovedFits DEF RestartNext, RtInv, Sound, RtType, Tidy, mind
  <2>3. EasesCtr /\ ~StillRuns(x[2])
    BY <1>2, <2>1, OneStopped DEF RtInv, RestartNext
  <2>4. PICK w : w = [job["owner"] EXCEPT !.pc = "start", !.svc = x[1], !.todo = job["owner"].todo \ {x}]
    OBVIOUS
  <2>5. /\ w \in Work /\ w.pc = "start" /\ w.svc = x[1] /\ w.old = job["owner"].old /\ w.new = job["owner"].new
        /\ w.todo = job["owner"].todo \ {x}
    BY <1>0, <2>1, <2>4 DEF Work, Steps
  <2>6. job' = [job EXCEPT !["owner"] = w]
    BY <1>0, <1>2, <2>4 DEF RtInv, RtType
  <2>7. Moves("owner", w)
    BY <1>0, <2>1, <2>5, <2>6 DEF Moves
  <2>8. ASSUME Intact PROVE ~Original(row[w.svc])'
    <3>1. Original(row[x[1]]) => row[x[1]] = x[2]
      BY <1>0, <1>2, <2>8 DEF RtInv, Sound, Replacing
    <3>2. UNCHANGED row /\ w.svc = x[1]
      BY <2>5 DEF RestartNext
    <3>3. \A c : Original(c)' => Original(c) /\ c # x[2]
      BY <2>3 DEF Original, EasesCtr, Running, StillRuns
    <3>. QED BY <3>1, <3>2, <3>3
  <2>9. ASSUME Intact PROVE EasesJob("owner", w)
    BY <1>0, <2>5, <2>8, <2>9 DEF EasesJob, Started
  <2>10. Intact' => Intact
    BY <1>0, <2>7, IntactBefore DEF RestartNext, RtInv
  <2>11. Intact' => Intact /\ Eases("owner", w)
    BY <2>3, <2>9, <2>10, SameRow DEF RestartNext, Eases
  <2>. QED BY <1>0, <2>2, <2>7, <2>11, EaseKeeps
<1>3. CASE Return("owner") /\ UNCHANGED ctr /\ (Mishap \/ UNCHANGED mishaps)
  <2>1. Moves("owner", Quiet)
    BY <1>0, <1>3, ReturnMoves DEF RtInv
  <2>2. Tidy
    BY <1>3, MishapFits DEF RestartNext, RtInv, RtType, Tidy, mind
  <2>3. EasesJob("owner", Quiet)
    BY <1>0, QuietCalm, CalmJob DEF Started
  <2>4. Intact' => Intact /\ Eases("owner", Quiet)
    BY <1>0, <1>3, <2>1, <2>3, IntactBefore, SameCtr, SameRow DEF RestartNext, RtInv, Eases
  <2>. QED BY <1>0, <2>1, <2>2, <2>4, EaseKeeps
<1>. QED BY <1>1, <1>2, <1>3 DEF RestartNext

LEMMA RelistKeeps == ASSUME RtInv, Relist PROVE RtInv'
<1>0. /\ "owner" \in Jobs /\ "owner" # "monitor" /\ "owner" # "sweep"
      /\ job["owner"] \in Work /\ job["owner"].pc = "relist"
  BY WhoIsWho DEF RtInv, Sound, RtType, Relist, At
<1>1. listed' \in SUBSET Ids
  BY <1>0 DEF Relist, Work
<1>2. Tidy
  BY <1>1 DEF Relist, RtInv, Sound, RtType, Tidy, mind, world
<1>3. Moves("owner", Quiet)
  BY <1>0, ReturnMoves DEF RtInv, Sound, Relist
<1>4. EasesJob("owner", Quiet)
  BY <1>0, QuietCalm, CalmJob DEF Started
<1>5. Intact' => Intact /\ Eases("owner", Quiet)
  BY <1>0, <1>3, <1>4, IntactBefore, SameCtr, SameRow DEF Relist, RtInv, Sound, Eases, world
<1>. QED BY <1>0, <1>2, <1>3, <1>5, EaseKeeps

LEMMA RetireKeeps == ASSUME RtInv, Retire PROVE RtInv'
<1>0. "owner" \in Jobs /\ job["owner"] \in Work
  BY WhoIsWho DEF RtInv, Sound, RtType
<1>1. PICK w \in Work : job' = [job EXCEPT !["owner"] = w] /\ w.pc = "delete"
  BY <1>0, StepFits DEF Retire, RtInv, Sound, Steps
<1>2. Moves("owner", w)
  BY <1>0, <1>1, WhoIsWho DEF Moves, Busy
<1>3. \A c \in Ids : [ctr[c] EXCEPT !.st = "gone"] \in Container
  BY DEF RtInv, Sound, RtType, Container, States
<1>4. ctr' \in [Ids -> Container]
  BY <1>3 DEF Retire, RtInv, Sound, RtType
<1>5. Tidy
  BY <1>4 DEF Retire, RtInv, Sound, RtType, Tidy, mind, world
<1>6. RtType' /\ Working' /\ job'["owner"] = w
  BY <1>0, <1>2, <1>5, MoveTypes DEF RtInv, Sound
<1>. QED BY <1>1, <1>6 DEF RtInv, Sound, Intact, At

LEMMA DeleteKeeps == ASSUME RtInv, DeleteForDeployment PROVE RtInv'
<1>0. "owner" \in Jobs
  BY WhoIsWho
<1>1. Moves("owner", Quiet)
  BY <1>0, ReturnMoves DEF RtInv, Sound, DeleteForDeployment
<1>2. Tidy
  BY DEF DeleteForDeployment, RtInv, Sound, RtType, Tidy, mind, world
<1>3. RtType' /\ Working'
  BY <1>0, <1>1, <1>2, MoveTypes DEF RtInv, Sound
<1>. QED BY <1>3 DEF RtInv, Sound, Intact, DeleteForDeployment

(***************************************************************************)
(* A replacement: started, health-checked, recorded                        *)
(***************************************************************************)
LEMMA StartFailsKeeps ==
    ASSUME RtInv, NEW j \in Replacers, Start(j), StartFails(Svc(j)),
           IF j = "monitor" THEN Goto(j, "adopt") ELSE NextService(j)
    PROVE  RtInv'
<1>0. j \in Jobs /\ j # "sweep" /\ job[j].svc \in Services /\ job[j].pc = "start"
  BY WhoIsWho DEF Start, At, RtInv, Sound, Working, Busy
<1>1. ctr' \in [Ids -> Container]
  BY LeftoverFits DEF StartFails, RtInv, Sound
<1>2. Tidy
  BY <1>1 DEF Start, RtInv, Sound, RtType, Tidy, mind, world
<1>3. EasesCtr
  <2>1. \A d \in Ids : /\ StillRuns(d) <=> Running(d)
                       /\ ctr'[d].svc = ctr[d].svc /\ ctr'[d].again = ctr[d].again
                       /\ ctr[d].st # "unused" => ctr'[d].st # "unused"
    BY LeftoverFits DEF StartFails, StillRuns, Running, RtInv, Sound
  <2>. QED BY <2>1 DEF EasesCtr, Start, world
<1>4. CASE j = "monitor"
  <2>1. PICK w \in Work : /\ job' = [job EXCEPT ![j] = w]
                          /\ w.pc = "adopt" /\ w.svc = job[j].svc /\ w.todo = job[j].todo
                          /\ w.old = job[j].old /\ w.new = job[j].new
    BY <1>0, <1>4, StepFits DEF RtInv, Sound, Steps
  <2>2. Moves(j, w)
    BY <1>0, <2>1 DEF Moves
  <2>3. EasesJob(j, w)
    BY <1>0, <2>1 DEF EasesJob, Started, OutOfRecord, At
  <2>4. Intact' => Intact
    BY <1>0, <2>2, IntactBefore DEF Start, RtInv, Sound, world
  <2>5. Intact' => Intact /\ Eases(j, w)
    BY <1>3, <2>3, <2>4, SameRow DEF Start, Eases
  <2>. QED BY <1>0, <1>2, <2>2, <2>5, EaseKeeps
<1>5. CASE j # "monitor"
  <2>1. PICK w : /\ Moves(j, w) /\ w.pc \in {"idle", "probe", "restart"} /\ w.old = None /\ w.new = None
                 /\ \A x \in w.todo : x \in job[j].todo \/ x \in ListAllActive
    BY <1>0, <1>5, NextMoves DEF RtInv, Sound
  <2>2. EasesJob(j, w)
    BY <1>0, <1>5, <2>1, CalmJob DEF Started
  <2>3. Intact' => Intact
    BY <1>0, <2>1, IntactBefore DEF Start, RtInv, Sound, world
  <2>4. Intact' => Intact /\ Eases(j, w)
    BY <1>3, <2>2, <2>3, SameRow DEF Start, Eases
  <2>. QED BY <1>0, <1>2, <2>1, <2>4, EaseKeeps
<1>. QED BY <1>4, <1>5

LEMMA CheckKeeps == ASSUME RtInv, NEW j \in Replacers, Check(j) PROVE RtInv'
<1>0. /\ j \in Jobs /\ j # "sweep" /\ job[j].svc \in Services /\ job[j].new \in Ids
      /\ job[j].pc = "check" /\ Started(j)
  BY WhoIsWho DEF Check, At, RtInv, Sound, Working, Busy, Started
<1>1. CASE Goto(j, "record") /\ UNCHANGED <<ctr, loose, mishaps>>
  <2>1. PICK w \in Work : /\ job' = [job EXCEPT ![j] = w]
                          /\ w.pc = "record" /\ w.svc = job[j].svc /\ w.todo = job[j].todo
                          /\ w.old = job[j].old /\ w.new = job[j].new
    BY <1>0, <1>1, StepFits DEF RtInv, Sound, Steps
  <2>2. Moves(j, w)
    BY <1>0, <2>1 DEF Moves
  <2>3. Tidy
    BY <1>1 DEF Check, RtInv, Sound, RtType, Tidy, mind, world
  <2>4. ASSUME Intact PROVE EasesJob(j, w)
    <3>1. ~Original(row[w.svc])'
      <4>1. UNCHANGED <<ctr, row>>
        BY <1>1 DEF Check
      <4>2. ~Original(row[w.svc])
        BY <1>0, <2>1, <2>4 DEF RtInv, Sound, Replacing, OutOfRecord
      <4>. QED BY <4>1, <4>2 DEF Original, Running
    <3>. QED BY <1>0, <2>1, <3>1 DEF EasesJob, At
  <2>5. Intact' => Intact
    BY <1>0, <2>2, IntactBefore DEF Check, RtInv, Sound, world
  <2>6. Intact' => Intact /\ Eases(j, w)
    BY <1>1, <2>4, <2>5, SameCtr, SameRow DEF Check, RtInv, Sound, Eases
  <2>. QED BY <1>0, <2>2, <2>3, <2>6, EaseKeeps
<1>2. CASE NextService(j) /\ StopOrNot(job[j].new)
  <2>1. PICK w : /\ Moves(j, w) /\ w.pc \in {"idle", "probe", "restart"} /\ w.old = None /\ w.new = None
                 /\ \A x \in w.todo : x \in job[j].todo \/ x \in ListAllActive
    BY <1>2, NextMoves DEF RtInv, Sound
  <2>2. Tidy
    BY <1>0, <1>2, StoppedOrNot DEF Check, RtInv, Sound, RtType, Tidy, mind
  <2>3. EasesCtr /\ Over(job[j].new)
    BY <1>0, <1>2, StoppedOrNot DEF RtInv
  <2>4. ASSUME Intact PROVE EasesJob(j, w)
    BY <1>0, <2>1, <2>3, <2>4, CalmJob DEF At
  <2>5. Intact' => Intact
    BY <1>0, <2>1, IntactBefore DEF Check, RtInv, Sound, world
  <2>6. Intact' => Intact /\ Eases(j, w)
    BY <2>3, <2>4, <2>5, SameRow DEF Check, Eases
  <2>. QED BY <1>0, <2>1, <2>2, <2>6, EaseKeeps
<1>. QED BY <1>1, <1>2 DEF Check

LEMMA PrivateNext ==
    ASSUME \A k \in Replacers : \A d : Started(k)' /\ d = job'[k].new =>
               /\ Used(d)' /\ ctr'[d].again /\ ctr'[d].svc = job'[k].svc
               /\ \A t \in Services : row'[t] # d
               /\ \A l \in Jobs : job'[l].old # d /\ \A x \in job'[l].todo : x[2] # d
               /\ \A l \in Replacers : Started(l)' /\ l # k => job'[l].new # d
    PROVE  Private'
  BY DEF Private

LEMMA StartedKeeps ==
    ASSUME RtInv, NEW j \in Replacers, Start(j), NEW c \in Ids, NEW p \in Ids,
           StartContainer(Svc(j), c, p), job' = [job EXCEPT ![j].pc = "check", ![j].new = c]
    PROVE  RtInv'
<1>0. /\ j \in Jobs /\ j # "sweep" /\ job[j] \in Work /\ job[j].svc \in Services /\ job[j].pc = "start"
      /\ c # None
  BY WhoIsWho DEF Start, At, RtInv, Sound, RtType, Working, Busy
<1>1. PICK s \in Services : s = job[j].svc
  BY <1>0
<1>2. /\ ctr' \in [Ids -> Container] /\ ctr[c].st = "unused"
      /\ ctr'[c].st = "up" /\ ctr'[c].svc = s /\ ctr'[c].again = TRUE
      /\ \A d \in Ids : d # c => ctr'[d] = RemoveLeftover(s)[d]
  BY <1>1, StartFits DEF Svc, RtInv, Sound
<1>3. PICK w : w = [job[j] EXCEPT !.pc = "check", !.new = c]
  OBVIOUS
<1>4. /\ w \in Work /\ w.pc = "check" /\ w.svc = s /\ w.new = c /\ w.old = job[j].old /\ w.todo = job[j].todo
  BY <1>0, <1>1, <1>3 DEF Work, Steps
<1>5. job' = [job EXCEPT ![j] = w]
  BY <1>0, <1>3 DEF RtInv, Sound, RtType
<1>6. Moves(j, w)
  BY <1>0, <1>4, <1>5 DEF Moves
<1>7. Tidy
  BY <1>2 DEF Start, RtInv, Sound, RtType, Tidy, mind, world
<1>8. /\ RtType' /\ Working' /\ job'[j] = w /\ \A k \in Jobs : k # j => job'[k] = job[k]
  BY <1>0, <1>6, <1>7, MoveTypes DEF RtInv, Sound
<1>9. Intact' => Intact
  BY <1>0, <1>6, IntactBefore DEF Start, RtInv, Sound, world
<1>10. UNCHANGED row
  BY DEF Start
\* What ran runs on, and only the new one is added.
<1>11. \A d \in Ids : d # c => /\ StillRuns(d) <=> Running(d)
                               /\ ctr'[d].svc = ctr[d].svc /\ ctr'[d].again = ctr[d].again
                               /\ ctr[d].st # "unused" => ctr'[d].st # "unused"
  BY <1>2, LeftoverFits DEF StillRuns, Running, RtInv, Sound
<1>12. ~Used(c) /\ ~Running(c) /\ StillRuns(c)
  BY <1>2 DEF Used, Running, StillRuns
<1>13. \A d : Used(d) => Used(d)' /\ d \in Ids /\ d # c
  BY <1>11, <1>12 DEF Used
<1>14. ASSUME Intact PROVE Sound'
  <2>. USE <1>14
  <2>0. Named /\ Private /\ OneName /\ Replacing /\ StoppedFirst /\ Known
    BY DEF RtInv, Sound
  <2>1. \A k \in Jobs : job'[k].todo = job[k].todo /\ job'[k].old = job[k].old
    BY <1>0, <1>4, <1>8
  <2>2. Named'
    <3>1. \A d \in Ids : StillRuns(d) => ctr'[d].svc \in Services
      BY <1>1, <1>2, <1>11, <2>0 DEF Named
    <3>2. \A t \in Services : (row[t] # None => Used(row[t]) /\ ctr[row[t]].svc = t)'
      <4>1. ASSUME NEW t \in Services, NEW d, d = row[t], d # None PROVE Used(d)' /\ ctr'[d].svc = t
        BY <1>11, <1>13, <2>0, <4>1 DEF Named
      <4>. QED BY <1>10, <4>1
    <3>3. \A k \in Jobs : \A x \in job'[k].todo : Used(x[2])'
      BY <1>13, <2>0, <2>1 DEF Named
    <3>4. Used(c)'
      BY <1>12 DEF Used, StillRuns
    <3>5. ASSUME NEW k \in Jobs, NEW d, d # None, d = job'[k].old \/ d = job'[k].new PROVE Used(d)'
      <4>1. d = job[k].old \/ d = job[k].new \/ d = c
        BY <1>4, <1>8, <2>1, <3>5
      <4>. QED BY <1>13, <2>0, <3>4, <3>5, <4>1 DEF Named
    <3>6. \A k \in Jobs : (job'[k].old # None => Used(job[k].old)') /\ (job'[k].new # None => Used(job[k].new)')
      BY <3>5
    <3>. QED BY <3>1, <3>2, <3>3, <3>6 DEF Named, Running, StillRuns
  \* Nobody has named the new one.
  <2>3. /\ \A t \in Services : row[t] # c
        /\ \A k \in Jobs : job[k].old # c /\ \A x \in job[k].todo : x[2] # c
    BY <1>0, <1>13, <2>0 DEF Named
  <2>4. Private'
    <3>1. SUFFICES ASSUME NEW k \in Replacers, Started(k)', NEW d, d = job'[k].new
          PROVE  /\ Used(d)' /\ ctr'[d].again /\ ctr'[d].svc = job'[k].svc
                 /\ \A t \in Services : row'[t] # d
                 /\ \A l \in Jobs : job'[l].old # d /\ \A x \in job'[l].todo : x[2] # d
                 /\ \A l \in Replacers : Started(l)' /\ l # k => job'[l].new # d
      BY PrivateNext
    <3>2. ASSUME NEW l \in Replacers, l # j, Started(l)'
          PROVE  /\ Started(l) /\ job'[l] = job[l] /\ job[l].new # c /\ job[l].new \in Ids
                 /\ \A e : e = job[l].new => Used(e)'
      <4>1. Started(l) /\ job'[l] = job[l]
        BY <1>8, <3>2, WhoIsWho DEF Started
      <4>2. Used(job[l].new)
        BY <2>0, <4>1 DEF Private
      <4>. QED BY <1>13, <4>1, <4>2
    <3>3. CASE k = j
      <4>1. d = c /\ job'[k].svc = s
        BY <1>4, <1>8, <3>1, <3>3
      <4>2. \A l \in Replacers : Started(l)' /\ l # k => job'[l].new # d
        BY <1>8, <3>2, <3>3, <4>1
      <4>3. \A l \in Jobs : job'[l].old # d /\ \A x \in job'[l].todo : x[2] # d
        BY <2>1, <2>3, <4>1
      <4>4. Used(c)'
        BY <1>12 DEF Used, StillRuns
      <4>. QED BY <1>2, <1>10, <2>3, <4>1, <4>2, <4>3, <4>4
    <3>4. CASE k # j
      <4>1. /\ Started(k) /\ job'[k] = job[k] /\ d = job[k].new /\ d # c /\ d \in Ids /\ Used(d)'
        BY <3>1, <3>2, <3>4
      <4>2. /\ ctr[d].again /\ ctr[d].svc = job[k].svc
            /\ \A t \in Services : row[t] # d
            /\ \A l \in Jobs : job[l].old # d /\ \A x \in job[l].todo : x[2] # d
            /\ \A l \in Replacers : Started(l) /\ l # k => job[l].new # d
        BY <2>0, <4>1 DEF Private
      <4>3. ctr'[d].again /\ ctr'[d].svc = job'[k].svc
        BY <1>11, <4>1, <4>2
      <4>4. \A l \in Replacers : Started(l)' /\ l # k => job'[l].new # d
        BY <1>4, <1>8, <3>2, <4>1, <4>2
      <4>. QED BY <1>10, <2>1, <4>1, <4>2, <4>3, <4>4
    <3>. QED BY <3>3, <3>4
  <2>5. OneName'
    <3>1. \A d \in Ids : d # c /\ StillRuns(d) /\ ctr'[d].again => ctr'[d].svc # s
      <4>1. ~NameTaken(s)
        BY <1>1 DEF StartContainer, Svc
      <4>. QED BY <1>11, <4>1 DEF NameTaken, RunningFor
    <3>2. ASSUME NEW d \in Ids, NEW e \in Ids, StillRuns(d), ctr'[d].again, StillRuns(e), ctr'[e].again,
                 ctr'[d].svc = ctr'[e].svc
          PROVE  d = e
      <4>1. CASE d = c \/ e = c
        BY <1>2, <3>1, <3>2, <4>1
      <4>2. CASE d # c /\ e # c
        BY <1>11, <2>0, <3>2, <4>2 DEF OneName
      <4>. QED BY <4>1, <4>2
    <3>. QED BY <3>2 DEF OneName, Running, StillRuns
  <2>6. Replacing'
    <3>1. \A d : Original(d)' => Original(d)
      BY <1>2, <1>11 DEF Original, Running, StillRuns
    <3>2. ASSUME NEW k \in Replacers, OutOfRecord(k, job'[k].pc), NEW t, t = job'[k].svc PROVE ~Original(row[t])'
      <4>1. OutOfRecord(k, job[k].pc) /\ t = job[k].svc
        BY <1>0, <1>1, <1>4, <1>8, <3>2, WhoIsWho DEF OutOfRecord
      <4>. QED BY <1>10, <2>0, <3>1, <4>1 DEF Replacing
    <3>3. ASSUME NEW x \in job'["owner"].todo, Original(row[x[1]])' PROVE row'[x[1]] = x[2]
      BY <1>10, <2>0, <2>1, <3>1, <3>3, WhoIsWho DEF Replacing
    <3>. QED BY <3>2, <3>3 DEF Replacing
  <2>7. StoppedFirst'
    <3>1. SUFFICES ASSUME job'["sweep"].pc = "clear", NEW d \in Ids, d = job'["sweep"].old PROVE ~StillRuns(d)
      BY DEF StoppedFirst, At, Running, StillRuns
    <3>2. job["sweep"].pc = "clear" /\ d = job["sweep"].old
      BY <1>0, <1>8, <3>1, WhoIsWho
    <3>3. ~Running(d) /\ d # c
      BY <2>0, <2>3, <3>1, <3>2, WhoIsWho DEF StoppedFirst, At
    <3>. QED BY <1>11, <3>1, <3>3
  <2>8. Known'
    <3>1. SUFFICES ASSUME NEW d \in Ids, StillRuns(d)
          PROVE  \/ row'[ctr'[d].svc] = d
                 \/ \E k \in Replacers : Started(k)' /\ job'[k].new = d
                 \/ job'["monitor"].pc = "stop" /\ job'["monitor"].old = d
                 \/ d \in loose'
      BY DEF Known, At, Running, StillRuns
    <3>2. CASE d = c
      <4>1. Started(j)' /\ job'[j].new = c
        BY <1>4, <1>8 DEF Started
      <4>. QED BY <3>2, <4>1
    <3>3. CASE d # c
      <4>1. Running(d) /\ ctr'[d].svc = ctr[d].svc
        BY <1>11, <3>1, <3>3
      <4>2. CASE row[ctr[d].svc] = d
        BY <1>10, <4>1, <4>2
      <4>3. CASE \E k \in Replacers : Started(k) /\ job[k].new = d
        <5>1. PICK k \in Replacers : Started(k) /\ job[k].new = d
          BY <4>3
        <5>2. k # j /\ k \in Jobs
          BY <1>0, <5>1, WhoIsWho DEF Started
        <5>. QED BY <1>8, <5>1, <5>2 DEF Started
      <4>4. CASE job["monitor"].pc = "stop" /\ job["monitor"].old = d
        BY <1>0, <1>8, <4>4, WhoIsWho
      <4>5. CASE d \in loose
        BY <4>5 DEF Start, world
      <4>. QED BY <2>0, <4>1, <4>2, <4>3, <4>4, <4>5 DEF Known, At
    <3>. QED BY <3>2, <3>3
  <2>. QED BY <2>2, <2>4, <2>5, <2>6, <2>7, <2>8 DEF Sound
<1>. QED BY <1>8, <1>9, <1>14 DEF RtInv, Sound

LEMMA RecordMoves ==
    ASSUME RtInv, NEW j \in Replacers, Record(j)
    PROVE  \E w : /\ Moves(j, w) /\ w.pc \in {"idle", "probe", "restart"} /\ w.old = None /\ w.new = None
                  /\ \A x \in w.todo : x \in job[j].todo \/ x \in ListAllActive
<1>0. /\ j \in Jobs /\ job[j] \in Work /\ job[j].new \in Ids
  BY WhoIsWho DEF Record, At, RtInv, Sound, RtType, Working
<1>1. CASE j = "owner"
  <2>1. PICK w : w = [Quiet EXCEPT !.pc = "restart", !.todo = job[j].todo, !.done = job[j].done \cup {job[j].new}]
    OBVIOUS
  <2>2. job' = [job EXCEPT ![j] = w]
    BY <1>1, <2>1 DEF Record
  <2>3. w \in Work /\ w.pc = "restart" /\ w.old = None /\ w.new = None /\ w.todo = job[j].todo
    BY <1>0, <2>1 DEF Quiet, Work, Steps
  <2>4. Moves(j, w)
    BY <1>1, <2>2, <2>3, WhoIsWho DEF Moves, Busy
  <2>. QED BY <2>3, <2>4
<1>2. CASE j # "owner"
  <2>1. NextService(j)
    BY <1>2 DEF Record
  <2>. QED BY <2>1, NextMoves DEF RtInv, Sound
<1>. QED BY <1>1, <1>2

LEMMA RecordKeeps == ASSUME RtInv, NEW j \in Replacers, Record(j) PROVE RtInv'
<1>0. j \in Jobs /\ j # "sweep" /\ job[j].svc \in Services /\ job[j].new \in Ids /\ job[j].pc = "record" /\ Started(j)
  BY WhoIsWho DEF Record, At, RtInv, Sound, Working, Busy, Started
<1>1. PICK s \in Services : s = job[j].svc
  BY <1>0
<1>2. PICK c \in Ids : c = job[j].new
  BY <1>0
<1>3. PICK w : /\ Moves(j, w) /\ w.pc \in {"idle", "probe", "restart"} /\ w.old = None /\ w.new = None
               /\ \A x \in w.todo : x \in job[j].todo \/ x \in ListAllActive
  BY RecordMoves
<1>4. row' \in [Services -> Ids \cup {None}]
  BY <1>0 DEF Record, SetContainer, Svc, RtInv, Sound, RtType
<1>5. recent' \in [Services -> Nat]
  BY <1>0 DEF Record, Svc, RtInv, Sound, RtType
<1>6. Tidy
  BY <1>4, <1>5, LetGoFits DEF Record, RtInv, Sound, RtType, Tidy
<1>7. /\ RtType' /\ Working' /\ job'[j] = w /\ \A k \in Jobs : k # j => job'[k] = job[k]
  BY <1>0, <1>3, <1>6, MoveTypes DEF RtInv, Sound
<1>8. Intact' => Intact
  BY <1>0, <1>3, IntactBefore DEF Record, RtInv, Sound, world
<1>9. UNCHANGED ctr
  BY DEF Record
<1>10. ASSUME Intact PROVE Sound'
  <2>. USE <1>10
  <2>0. Named /\ Private /\ OneName /\ Replacing /\ StoppedFirst /\ Known
    BY DEF RtInv, Sound
  <2>1. row'[s] = c /\ \A t \in Services : t # s => row'[t] = row[t]
    BY <1>1, <1>2 DEF Record, SetContainer, Svc, Intact, RtInv, Sound, RtType
  <2>2. /\ Used(c) /\ ctr[c].again /\ ctr[c].svc = s
        /\ \A l \in Jobs : job[l].old # c /\ \A x \in job[l].todo : x[2] # c
        /\ \A l \in Replacers : Started(l) /\ l # j => job[l].new # c
    BY <1>0, <1>1, <1>2, <2>0 DEF Private
  <2>3. Used(c) /\ ~Original(c)
    BY <2>2 DEF Original
  <2>4. \A d : (Used(d)' <=> Used(d)) /\ (Original(d)' <=> Original(d)) /\ (StillRuns(d) <=> Running(d))
    BY <1>9 DEF Used, Original, Running, StillRuns
  <2>5. \A x \in ListAllActive : Used(x[2])
    BY <2>0 DEF ListAllActive, Named
  <2>6. Named'
    <3>1. \A d \in Ids : StillRuns(d) => ctr'[d].svc \in Services
      BY <1>9, <2>0, <2>4 DEF Named
    <3>2. \A t \in Services : (row[t] # None => Used(row[t]) /\ ctr[row[t]].svc = t)'
      <4>1. ASSUME NEW t \in Services, NEW d, d = row'[t], d # None PROVE Used(d)' /\ ctr'[d].svc = t
        <5>1. CASE t = s
          BY <1>9, <2>1, <2>2, <2>3, <2>4, <4>1, <5>1
        <5>2. CASE t # s
          BY <1>9, <2>0, <2>1, <2>4, <4>1, <5>2 DEF Named
        <5>. QED BY <5>1, <5>2
      <4>. QED BY <4>1
    <3>3. ASSUME NEW k \in Jobs, NEW x \in job'[k].todo PROVE Used(x[2])
      <4>1. CASE k = j
        BY <1>3, <1>7, <2>0, <2>5, <3>3, <4>1 DEF Named
      <4>2. CASE k # j
        BY <1>7, <2>0, <3>3, <4>2 DEF Named
      <4>. QED BY <4>1, <4>2
    <3>4. \A k \in Jobs : \A x \in job'[k].todo : Used(x[2])'
      BY <2>4, <3>3
    <3>5. ASSUME NEW k \in Jobs, NEW d, d # None, d = job'[k].old \/ d = job'[k].new PROVE Used(d)'
      <4>1. k # j
        BY <1>3, <1>7, <3>5
      <4>. QED BY <1>7, <2>0, <2>4, <3>5, <4>1 DEF Named
    <3>6. \A k \in Jobs : (job'[k].old # None => Used(job[k].old)') /\ (job'[k].new # None => Used(job[k].new)')
      BY <3>5
    <3>. QED BY <3>1, <3>2, <3>4, <3>6 DEF Named, Running, StillRuns
  <2>7. Private'
    <3>1. SUFFICES ASSUME NEW k \in Replacers, Started(k)', NEW d, d = job'[k].new
          PROVE  /\ Used(d)' /\ ctr'[d].again /\ ctr'[d].svc = job'[k].svc
                 /\ \A t \in Services : row'[t] # d
                 /\ \A l \in Jobs : job'[l].old # d /\ \A x \in job'[l].todo : x[2] # d
                 /\ \A l \in Replacers : Started(l)' /\ l # k => job'[l].new # d
      BY PrivateNext
    <3>2. \A l \in Replacers : Started(l)' => l # j /\ job'[l] = job[l] /\ Started(l)
      BY <1>3, <1>7, WhoIsWho DEF Started
    <3>3. k \in Jobs /\ k # j /\ Started(k) /\ job'[k] = job[k] /\ d = job[k].new
      BY <3>1, <3>2, WhoIsWho
    <3>4. /\ Used(d) /\ ctr[d].again /\ ctr[d].svc = job[k].svc
          /\ \A t \in Services : row[t] # d
          /\ \A l \in Jobs : job[l].old # d /\ \A x \in job[l].todo : x[2] # d
          /\ \A l \in Replacers : Started(l) /\ l # k => job[l].new # d
      BY <2>0, <3>3 DEF Private
    <3>5. d # c /\ d # None
      BY <2>2, <3>3, <3>4, WhoIsWho DEF Used
    <3>6. \A t \in Services : row'[t] # d
      BY <2>1, <3>4, <3>5
    <3>7. \A x \in ListAllActive : x[2] # d
      BY <3>4 DEF ListAllActive
    <3>8. \A l \in Jobs : job'[l].old # d /\ \A x \in job'[l].todo : x[2] # d
      BY <1>3, <1>7, <3>4, <3>5, <3>7
    <3>9. \A l \in Replacers : Started(l)' /\ l # k => job'[l].new # d
      BY <3>2, <3>4
    <3>. QED BY <1>9, <2>4, <3>3, <3>4, <3>6, <3>8, <3>9
  <2>8. OneName'
    BY <1>9, <2>0 DEF OneName, Running
  <2>9. Replacing'
    <3>1. ASSUME NEW t \in Services, Original(row[t])' PROVE Original(row[t]) /\ t # s /\ row'[t] = row[t]
      BY <2>1, <2>3, <2>4, <3>1
    <3>2. ASSUME NEW k \in Replacers, OutOfRecord(k, job'[k].pc), NEW t, t = job'[k].svc PROVE ~Original(row[t])'
      <4>1. k # j
        BY <1>3, <1>7, <3>2 DEF OutOfRecord
      <4>2. OutOfRecord(k, job[k].pc) /\ t = job[k].svc
        BY <1>7, <3>2, <4>1, WhoIsWho
      <4>3. t \in Services
        BY <4>2 DEF OutOfRecord, RtInv, Sound, Working, Busy
      <4>. QED BY <2>0, <3>1, <4>2, <4>3 DEF Replacing
    <3>3. ASSUME NEW x \in job'["owner"].todo, Original(row[x[1]])' PROVE row'[x[1]] = x[2]
      <4>1. x[1] \in Services
        BY <1>7, <3>3, WhoIsWho DEF RtType, Work
      <4>2. Original(row[x[1]]) /\ row'[x[1]] = row[x[1]]
        BY <3>1, <3>3, <4>1
      <4>3. x \in job["owner"].todo \/ x \in ListAllActive
        BY <1>3, <1>7, <3>3, WhoIsWho
      <4>4. row[x[1]] = x[2]
        BY <2>0, <4>2, <4>3 DEF Replacing, ListAllActive
      <4>. QED BY <4>2, <4>4
    <3>. QED BY <3>2, <3>3 DEF Replacing
  <2>10. StoppedFirst'
    BY <1>0, <1>7, <1>9, <2>0, WhoIsWho DEF StoppedFirst, At, Running
  <2>11. Known'
    <3>1. SUFFICES ASSUME NEW d \in Ids, StillRuns(d)
          PROVE  \/ row'[ctr'[d].svc] = d
                 \/ \E k \in Replacers : Started(k)' /\ job'[k].new = d
                 \/ job'["monitor"].pc = "stop" /\ job'["monitor"].old = d
                 \/ d \in loose'
      BY DEF Known, At, Running, StillRuns
    <3>2. Running(d) /\ ctr'[d].svc = ctr[d].svc /\ ctr[d].svc \in Services
      BY <1>9, <2>0, <2>4, <3>1 DEF Named
    \* What the record held until now: the service's own container is out of
    \* it, and a replacement has the same name, unless the new one has exited.
    <3>3. CASE row[ctr[d].svc] = d
      <4>1. CASE ctr[d].svc = s
        <5>1. ~Original(row[s])
          BY <1>0, <1>1, <2>0 DEF Replacing, OutOfRecord
        <5>2. ctr[d].again
          BY <3>2, <3>3, <4>1, <5>1 DEF Original
        <5>3. CASE Running(c)
          <6>1. d = c
            BY <2>0, <2>2, <3>2, <4>1, <5>2, <5>3 DEF OneName
          <6>. QED BY <2>1, <3>2, <4>1, <6>1
        <5>4. CASE ~Running(c)
          <6>1. Overwritten(j) = {d}
            BY <1>1, <1>2, <3>3, <4>1, <5>4 DEF Overwritten, Svc
          <6>2. LetGo(Overwritten(j))
            BY DEF Record
          <6>. QED BY <3>2, <6>1, <6>2, LetGoFits DEF RtInv
        <5>. QED BY <5>3, <5>4
      <4>2. CASE ctr[d].svc # s
        BY <2>1, <3>2, <3>3, <4>2
      <4>. QED BY <4>1, <4>2
    <3>4. CASE \E k \in Replacers : Started(k) /\ job[k].new = d
      <4>1. PICK k \in Replacers : Started(k) /\ job[k].new = d
        BY <3>4
      <4>2. CASE k = j
        BY <1>2, <2>1, <2>2, <3>2, <4>1, <4>2
      <4>3. CASE k # j
        BY <1>7, <4>1, <4>3, WhoIsWho DEF Started
      <4>. QED BY <4>2, <4>3
    <3>5. CASE job["monitor"].pc = "stop" /\ job["monitor"].old = d
      BY <1>0, <1>7, <3>5, WhoIsWho
    <3>6. CASE d \in loose
      BY <3>6, LetGoFits DEF Record, RtInv
    <3>. QED BY <2>0, <3>2, <3>3, <3>4, <3>5, <3>6 DEF Known, At
  <2>. QED BY <2>6, <2>7, <2>8, <2>9, <2>10, <2>11 DEF Sound
<1>. QED BY <1>7, <1>8, <1>10 DEF RtInv, Sound

LEMMA RecordFailsKeeps == ASSUME RtInv, NEW j \in Replacers, RecordFails(j) PROVE RtInv'
<1>0. j \in Jobs /\ j # "sweep" /\ job[j].new \in Ids /\ job[j].pc = "record" /\ Started(j)
  BY WhoIsWho DEF RecordFails, At, RtInv, Working, Busy, Started
<1>1. PICK w : /\ Moves(j, w) /\ w.pc \in {"idle", "probe", "restart"} /\ w.old = None /\ w.new = None
               /\ \A x \in w.todo : x \in job[j].todo \/ x \in ListAllActive
  BY NextMoves DEF RtInv, RecordFails
<1>2. loose' \in SUBSET Ids /\ loose \subseteq loose' /\ (Running(job[j].new) => job[j].new \in loose')
  BY <1>0, LetGoFits DEF RtInv, RecordFails
<1>3. Tidy
  BY <1>2, MishapFits DEF RecordFails, RtInv, RtType, Tidy, mind
<1>4. EasesCtr /\ Over(job[j].new)
  BY <1>2 DEF RecordFails, EasesCtr, Over, StillRuns, Running
<1>5. EasesJob(j, w)
  BY <1>0, <1>1, <1>4, CalmJob DEF At
<1>6. Intact' => Intact
  BY <1>0, <1>1, IntactBefore DEF RecordFails, RtInv
<1>7. Intact' => Intact /\ Eases(j, w)
  BY <1>4, <1>5, <1>6, SameRow DEF RecordFails, Eases
<1>. QED BY <1>0, <1>1, <1>3, <1>7, EaseKeeps

(***************************************************************************)
(* Every container is accounted for                                        *)
(***************************************************************************)
LEMMA StepKeeps == ASSUME RtInv, [RuntimeNext]_rtVars PROVE RtInv'
<1>1. ASSUME NEW j \in Replacers, Start(j) PROVE RtInv'
  BY <1>1, StartFailsKeeps, StartedKeeps DEF Start
<1>2. CASE UNCHANGED rtVars
  BY <1>2 DEF rtVars, RtInv, Sound, RtType, Working, Intact, Named, Private, OneName, Replacing, StoppedFirst, Known,
              Started, Original, Running, Used, At
<1>. QED
  BY <1>1, <1>2, CheckKeeps, RecordKeeps, RecordFailsKeeps, ColdStartKeeps, WindowPassesKeeps, IdleListKeeps, IdleStopKeeps,
     IdleClearKeeps, MonitorListKeeps, MonitorProbeKeeps, MonitorClaimKeeps, ClaimFailsKeeps, MonitorStopKeeps, MonitorAdoptKeeps,
     OwnerRestartKeeps, RestartNextKeeps, RelistKeeps, RetireKeeps, DeleteKeeps, BreaksKeeps, ServerRestartsKeeps
  DEF RuntimeNext

LEMMA InvAccounts == ASSUME RtInv PROVE Accounted
<1>1. SUFFICES ASSUME NEW c \in Ids, Running(c), Intact PROVE row[ctr[c].svc] = c \/ Held(c) \/ c \in loose
  BY DEF Accounted, Intact
<1>2. Known
  BY <1>1 DEF RtInv, Sound
<1>. QED BY <1>1, <1>2, WhoIsWho DEF Known, Held

\* The deployment's services numbered, each once.
LEMMA Numbering ==
    ASSUME NEW first, first = CHOOSE f \in [Services -> 1..Cardinality(Services)] :
                                  \A s, t \in Services : f[s] = f[t] => s = t
    PROVE  /\ Cardinality(Services) \in Nat /\ first \in [Services -> 1..Cardinality(Services)]
           /\ \A s, t \in Services : first[s] = first[t] => s = t
           /\ \A c \in 1..Cardinality(Services) : \E s \in Services : first[s] = c
<1>. DEFINE N == Cardinality(Services)
<1>1. IsFiniteSet(Services) /\ N \in Nat
  BY RuntimeAssumption, FS_CardinalityType
<1>2. IsFiniteSet(1..N) /\ Cardinality(1..N) = N
  <2>1. /\ IsFiniteSet(1..N)
        /\ Cardinality(1..N) = IF 1 > N THEN 0 ELSE N - 1 + 1
    BY <1>1, FS_Interval
  <2>. QED BY <1>1, <2>1
<1>3. ExistsBijection(Services, 1..N)
  BY <1>1, <1>2, FS_SameCardinalityBij
<1>4. \E f \in [Services -> 1..N] : \A s, t \in Services : f[s] = f[t] => s = t
  <2>1. PICK f : f \in Bijection(Services, 1..N)
    BY <1>3 DEF ExistsBijection
  <2>2. f \in [Services -> 1..N] /\ \A s, t \in Services : f[s] = f[t] => s = t
    BY <2>1 DEF Bijection, Injection, IsInjective
  <2>. QED BY <2>2
<1>5. first \in [Services -> 1..N] /\ \A s, t \in Services : first[s] = first[t] => s = t
  BY <1>4
<1>6. first \in Injection(Services, 1..N)
  BY <1>5 DEF Injection, IsInjective
<1>7. first \in Surjection(Services, 1..N)
  BY <1>1, <1>2, <1>6, FS_Injection
<1>. QED BY <1>1, <1>5, <1>7 DEF Surjection

LEMMA StartsSound == ASSUME RuntimeInit PROVE RtInv
<1>0. PICK first : first = CHOOSE f \in [Services -> 1..Cardinality(Services)] :
                              \A s, t \in Services : f[s] = f[t] => s = t
  OBVIOUS
<1>1. /\ Cardinality(Services) \in Nat /\ first \in [Services -> 1..Cardinality(Services)]
      /\ \A s, t \in Services : first[s] = first[t] => s = t
      /\ \A c \in 1..Cardinality(Services) : \E s \in Services : first[s] = c
  BY <1>0, Numbering
<1>2. PICK N \in Nat : N = Cardinality(Services) /\ 1..N \subseteq Ids
  BY <1>1, RuntimeAssumption DEF Ids
<1>3. /\ ctr = [c \in Ids |-> IF c > N THEN Unused
                 ELSE [st |-> "up", svc |-> CHOOSE s \in Services : first[s] = c, port |-> c, again |-> FALSE]]
      /\ row = first /\ listed = {first[s] : s \in Services}
  BY <1>0, <1>2 DEF RuntimeInit
<1>4. job = [j \in Jobs |-> Quiet]
  BY DEF RuntimeInit
<1>5. job \in [Jobs -> Work] /\ \A j \in Jobs : /\ job[j].pc = "idle" /\ job[j].todo = {}
                                                /\ job[j].old = None /\ job[j].new = None
  BY <1>4, QuietFits DEF Quiet
<1>6. ASSUME NEW c \in Ids, c > N PROVE ctr[c] \in Container /\ ~Running(c)
  <2>1. ctr[c] = Unused
    BY <1>3, <1>6
  <2>. QED BY <2>1 DEF Unused, Container, States, Running, None
<1>7. ASSUME NEW c \in Ids, ~(c > N)
      PROVE  /\ ctr[c] \in Container /\ ctr[c].st = "up" /\ ctr[c].again = FALSE
             /\ ctr[c].svc \in Services /\ first[ctr[c].svc] = c
  <2>1. PICK s : s = CHOOSE t \in Services : first[t] = c
    OBVIOUS
  <2>2. c \in 1..N
    BY <1>2, <1>7 DEF Ids
  <2>3. s \in Services /\ first[s] = c
    BY <1>1, <1>2, <2>1, <2>2
  <2>4. ctr[c] = [st |-> "up", svc |-> s, port |-> c, again |-> FALSE]
    BY <1>3, <1>7, <2>1
  <2>. QED BY <2>3, <2>4, WhoIsWho DEF Container, States
<1>8. RtType
  <2>1. ctr \in [Ids -> Container]
    BY <1>3, <1>6, <1>7
  <2>2. row \in [Services -> Ids \cup {None}] /\ listed \in SUBSET Ids
    BY <1>1, <1>2, <1>3
  <2>. QED BY <1>5, <2>1, <2>2 DEF RtType, RuntimeInit
<1>9. Working
  BY <1>5, WhoIsWho DEF Working, Busy, At
<1>10. ASSUME NEW s \in Services PROVE Used(row[s]) /\ ctr[row[s]].svc = s /\ row[s] \in Ids
  <2>1. row[s] \in Ids /\ ~(row[s] > N) /\ row[s] = first[s]
    BY <1>1, <1>2, <1>3
  <2>2. PICK t : t = ctr[row[s]].svc
    OBVIOUS
  <2>3. ctr[row[s]].st = "up" /\ t \in Services /\ first[t] = first[s]
    BY <1>7, <2>1, <2>2
  <2>. QED BY <1>1, <2>1, <2>2, <2>3 DEF Used
<1>11. ASSUME NEW c \in Ids, Running(c) PROVE ctr[c].svc \in Services /\ row[ctr[c].svc] = c /\ ctr[c].again = FALSE
  BY <1>3, <1>6, <1>7, <1>11
<1>12. Named
  BY <1>5, <1>10, <1>11 DEF Named
<1>13. Private /\ Replacing /\ StoppedFirst
  BY <1>5, WhoIsWho DEF Private, Started, Replacing, OutOfRecord, StoppedFirst, At
<1>14. OneName /\ Known
  BY <1>11 DEF OneName, Known
<1>. QED BY <1>8, <1>9, <1>12, <1>13, <1>14 DEF RtInv, Sound

\* Until its deployment is retired or the server restarts, every container
\* that runs is the one recorded for its service, or somebody is about to
\* record or to stop it, or one of the failures that let a container go befell
\* it, however cold starts, the idle sweep, the owner and the monitor overlap
\* (scale_service.go, health_service.go, lifecycle_service.go).
THEOREM AlwaysAccounted == RuntimeSpec => []Accounted
<1>1. RuntimeInit => RtInv
  BY StartsSound
<1>2. RtInv /\ [RuntimeNext]_rtVars => RtInv'
  BY StepKeeps
<1>3. RtInv => Accounted
  BY InvAccounts
<1>. QED BY <1>1, <1>2, <1>3, PTL DEF RuntimeSpec
===============================================================================
