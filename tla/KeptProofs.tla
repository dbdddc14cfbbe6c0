------------------------------ MODULE KeptProofs -------------------------------
(***************************************************************************)
(* Theorems about what owners and users are told and shown: the alerts of  *)
(* an application (Alerts), the addresses of its services (Addresses), the *)
(* output of its containers (Logs); and about what every request adds to,  *)
(* the audit log's chain and the traffic counters (Records).  Each part    *)
(* has an inductive invariant, a lemma per action, and a theorem per       *)
(* property its run checks.                                                *)
(***************************************************************************)
EXTENDS Alerts, Addresses, Logs, Records, SequenceTheorems, TLAPS

(***************************************************************************)
(* Alerts                                                                  *)
(***************************************************************************)
Levels == 0..2
Kinds == {"fine", "resolved", "fired", "escalated", "reminded", "kept"}
Todos == {<<>>, <<"put">>, <<"announce">>, <<"delete">>, <<"put", "announce">>, <<"announce", "delete">>}

AlertsType ==
    /\ level \in Levels /\ announced \in Levels /\ told \in Levels
    /\ firing \in [level : Levels, due : BOOLEAN]
    /\ sweep \in [todo : Todos, level : Levels, kind : Kinds]

\* What a case has left to do, and what it found: no row when it fires, a row
\* that its level keeps otherwise.
SweepFits ==
    /\ sweep.todo \in {<<"put">>, <<"put", "announce">>} => sweep.kind # "resolved" /\ sweep.level # 0
    /\ sweep.todo \in {<<"delete">>, <<"announce", "delete">>} => sweep.kind = "resolved"
    /\ sweep.todo = <<"announce">> => sweep.kind # "resolved" /\ firing # NoAlert
    /\ sweep.kind # "fired" /\ sweep.todo # <<>> => firing # NoAlert

\* Without a row nothing is announced, or that it ended.
Ended ==
    /\ firing = NoAlert /\ sweep.todo = <<>> => announced = 0
    /\ sweep.kind = "fired" /\ sweep.todo # <<>> => announced = 0
    /\ sweep.todo = <<"delete">> => announced = 0

AlertsInv == AlertsType /\ SweepFits /\ Ended

LEMMA TodosFit ==
    /\ \A s \in Todos : s # <<>> => Tail(s) \in Todos /\ Head(s) \in {"put", "announce", "delete"}
    /\ \A s \in Todos : s # <<>> /\ Head(s) = "put" =>
          (s = <<"put">> /\ Tail(s) = <<>>) \/ (s = <<"put", "announce">> /\ Tail(s) = <<"announce">>)
    /\ \A s \in Todos : s # <<>> /\ Head(s) = "announce" =>
          (s = <<"announce">> /\ Tail(s) = <<>>) \/ (s = <<"announce", "delete">> /\ Tail(s) = <<"delete">>)
    /\ \A s \in Todos : s # <<>> /\ Head(s) = "delete" => s = <<"delete">> /\ Tail(s) = <<>>
    /\ <<"put">> # <<>> /\ <<"announce">> # <<>> /\ <<"delete">> # <<>> /\ <<"announce">> # <<"delete">>
<1>1. /\ Head(<<"put">>) = "put" /\ Tail(<<"put">>) = <<>> /\ Len(<<"put">>) = 1
      /\ Head(<<"announce">>) = "announce" /\ Tail(<<"announce">>) = <<>> /\ Len(<<"announce">>) = 1
      /\ Head(<<"delete">>) = "delete" /\ Tail(<<"delete">>) = <<>> /\ Len(<<"delete">>) = 1
  OBVIOUS
<1>2. Head(<<"put", "announce">>) = "put" /\ Head(<<"announce", "delete">>) = "announce"
  OBVIOUS
<1>3. Tail(<<"put", "announce">>) = <<"announce">>
  OBVIOUS
<1>4. Tail(<<"announce", "delete">>) = <<"delete">>
  OBVIOUS
<1>5. <<"put">> # <<>> /\ <<"announce">> # <<>> /\ <<"delete">> # <<>> /\ <<"announce">> # <<"delete">>
  BY <1>1
<1>6. ASSUME NEW s \in Todos, s # <<>>
      PROVE  /\ Tail(s) \in Todos /\ Head(s) \in {"put", "announce", "delete"}
             /\ Head(s) = "put" =>
                   (s = <<"put">> /\ Tail(s) = <<>>) \/ (s = <<"put", "announce">> /\ Tail(s) = <<"announce">>)
             /\ Head(s) = "announce" =>
                   (s = <<"announce">> /\ Tail(s) = <<>>) \/ (s = <<"announce", "delete">> /\ Tail(s) = <<"delete">>)
             /\ Head(s) = "delete" => s = <<"delete">> /\ Tail(s) = <<>>
  <2>1. {<<>>, <<"announce">>, <<"delete">>} \subseteq Todos
    BY DEF Todos
  <2>2. CASE s = <<"put">>
    <3>1. Head(s) = "put" /\ Tail(s) = <<>>
      BY <1>1, <2>2, Zenon
    <3>2. Tail(s) \in Todos
      BY <2>1, <3>1
    <3>3. Head(s) \in {"put", "announce", "delete"} /\ Head(s) # "announce" /\ Head(s) # "delete"
      BY <3>1
    <3>. QED BY <2>2, <3>1, <3>2, <3>3, Zenon
  <2>3. CASE s = <<"announce">>
    <3>1. Head(s) = "announce" /\ Tail(s) = <<>>
      BY <1>1, <2>3, Zenon
    <3>2. Tail(s) \in Todos
      BY <2>1, <3>1
    <3>3. Head(s) \in {"put", "announce", "delete"} /\ Head(s) # "put" /\ Head(s) # "delete"
      BY <3>1
    <3>. QED BY <2>3, <3>1, <3>2, <3>3, Zenon
  <2>4. CASE s = <<"delete">>
    BY <1>1, <2>1, <2>4, Zenon
  <2>5. CASE s = <<"put", "announce">>
    BY <1>2, <1>3, <2>1, <2>5, Zenon
  <2>6. CASE s = <<"announce", "delete">>
    BY <1>2, <1>4, <2>1, <2>6, Zenon
  <2>. QED BY <1>6, <2>2, <2>3, <2>4, <2>5, <2>6 DEF Todos
<1>. QED BY <1>5, <1>6, Zenon

LEMMA TodosDiffer ==
    /\ \A s \in {<<>>, <<"announce", "delete">>, <<"put">>, <<"put", "announce">>} : s \notin {<<"delete">>, <<"announce">>}
    /\ \A s \in {<<>>, <<"announce", "delete">>} : s \notin {<<"put">>, <<"put", "announce">>}
    /\ \A s \in {<<>>, <<"announce">>, <<"delete">>, <<"put">>, <<"put", "announce">>} : s # <<"announce", "delete">>
    /\ <<"delete">> # <<"announce">> /\ <<"put">> # <<"put", "announce">>
<1>1. /\ Len(<<>>) = 0 /\ Len(<<"put">>) = 1 /\ Len(<<"announce">>) = 1 /\ Len(<<"delete">>) = 1
      /\ Len(<<"put", "announce">>) = 2 /\ Len(<<"announce", "delete">>) = 2
  OBVIOUS
<1>2. /\ <<"put">>[1] = "put" /\ <<"announce">>[1] = "announce" /\ <<"delete">>[1] = "delete"
      /\ <<"put", "announce">>[1] = "put" /\ <<"announce", "delete">>[1] = "announce"
  OBVIOUS
<1>3. <<"put">> # <<"announce">> /\ <<"put">> # <<"delete">> /\ <<"announce">> # <<"delete">>
      /\ <<"put", "announce">> # <<"announce", "delete">>
  BY <1>2
<1>. QED BY <1>1, <1>3

LEMMA AlertsInitial == AlertsInit => AlertsInv
  BY DEF AlertsInit, AlertsInv, AlertsType, SweepFits, Ended, NoAlert, NoEvaluation, Levels, Todos, Kinds

LEMMA JudgeKeeps ==
    ASSUME AlertsInv, NEW l \in Levels, sweep.todo = <<>>, Judge(l), UNCHANGED <<level, firing, heard>>
    PROVE  AlertsInv'
<1>. USE DEF heard
<1>1. CaseOf(l) \in Kinds
  BY DEF CaseOf, Kinds
<1>2. Steps(CaseOf(l)) \in Todos
  BY DEF Steps, Todos
<1>3. sweep'.todo = Steps(CaseOf(l)) /\ sweep'.level = l /\ sweep'.kind = CaseOf(l)
      /\ sweep' \in [todo : Todos, level : Levels, kind : Kinds]
  BY <1>1, <1>2 DEF Judge
<1>4. /\ CaseOf(l) = "fired" <=> l # 0 /\ firing = NoAlert
      /\ CaseOf(l) = "resolved" <=> l = 0 /\ firing # NoAlert
      /\ CaseOf(l) = "fine" <=> l = 0 /\ firing = NoAlert
  BY DEF CaseOf, Levels
<1>5. AlertsType'
  BY <1>3 DEF AlertsInv, AlertsType
<1>6. /\ CaseOf(l) = "fine" => Steps(CaseOf(l)) = <<>>
      /\ CaseOf(l) = "resolved" => Steps(CaseOf(l)) = <<"announce", "delete">>
      /\ CaseOf(l) \notin {"fine", "resolved"} => Steps(CaseOf(l)) \in {<<"put">>, <<"put", "announce">>}
  BY DEF Steps
<1>7. SweepFits'
  <2>1. /\ sweep'.todo \notin {<<"delete">>, <<"announce">>}
        /\ sweep'.todo = <<"announce", "delete">> => CaseOf(l) = "resolved"
        /\ sweep'.todo \in {<<"put">>, <<"put", "announce">>} => CaseOf(l) \notin {"fine", "resolved"}
        /\ sweep'.todo # <<>> => CaseOf(l) # "fine"
    BY <1>1, <1>3, <1>6, TodosDiffer
  <2>. QED BY <1>1, <1>3, <1>4, <2>1 DEF SweepFits, Kinds
<1>8. Ended'
  BY <1>1, <1>3, <1>4, <1>6 DEF Ended, AlertsInv
<1>. QED BY <1>5, <1>7, <1>8 DEF AlertsInv

LEMMA AlertsStep == AlertsInv /\ [AlertsNext]_alertVars => AlertsInv'
<1>. SUFFICES ASSUME AlertsInv, [AlertsNext]_alertVars PROVE AlertsInv'
  OBVIOUS
<1>. USE DEF AlertsInv, heard
<1>1. CASE UNCHANGED alertVars
  BY <1>1 DEF alertVars, AlertsType, SweepFits, Ended
<1>2. CASE Measure
  BY <1>2 DEF Measure, AlertsType, SweepFits, Ended, Levels
<1>3. CASE ReminderDue
  BY <1>3 DEF ReminderDue, AlertsType, SweepFits, Ended, NoAlert
<1>4. CASE Evaluate
  <2>1. 0 \in Levels /\ level \in Levels
    BY DEF AlertsType, Levels
  <2>. QED BY <1>4, <2>1, JudgeKeeps DEF Evaluate
<1>5. ASSUME sweep.todo # <<>>, Done PROVE
        /\ sweep' \in [todo : Todos, level : Levels, kind : Kinds]
        /\ sweep'.todo = Tail(sweep.todo) /\ sweep'.level = sweep.level /\ sweep'.kind = sweep.kind
  <2>1. Tail(sweep.todo) \in Todos
    BY <1>5, TodosFit DEF AlertsType
  <2>. QED BY <1>5, <2>1 DEF Done, AlertsType
<1>6. CASE PutState
  <2>1. sweep.todo # <<>> /\ sweep.todo \in {<<"put">>, <<"put", "announce">>} /\ UNCHANGED <<level, heard>>
        /\ (sweep.todo = <<"put">> => Tail(sweep.todo) = <<>>)
        /\ (sweep.todo = <<"put", "announce">> => Tail(sweep.todo) = <<"announce">>)
    <3>1. sweep.todo # <<>> /\ Head(sweep.todo) = "put" /\ sweep.todo \in Todos /\ UNCHANGED <<level, heard>>
      BY <1>6 DEF PutState, InSweep, AlertsType
    <3>2. \/ sweep.todo = <<"put">> /\ Tail(sweep.todo) = <<>>
          \/ sweep.todo = <<"put", "announce">> /\ Tail(sweep.todo) = <<"announce">>
      BY <3>1, TodosFit
    <3>. QED BY <3>1, <3>2, TodosDiffer
  <2>2. sweep.kind # "resolved" /\ sweep.level # 0 /\ sweep.level \in Levels
    BY <2>1 DEF SweepFits, AlertsType
  <2>3. CASE firing' = [level |-> sweep.level, due |-> Due] /\ Done
    <3>1. firing' # NoAlert /\ firing' \in [level : Levels, due : BOOLEAN]
      BY <2>2, <2>3 DEF NoAlert, Due, AlertsType
    <3>. QED BY <1>5, <2>1, <2>2, <2>3, <3>1 DEF AlertsType, SweepFits, Ended
  <2>4. CASE UNCHANGED firing /\ sweep.kind = "fired" /\ sweep' = [sweep EXCEPT !.todo = <<>>]
    BY <2>1, <2>4 DEF AlertsType, SweepFits, Ended, Todos
  <2>5. CASE UNCHANGED firing /\ sweep.kind # "fired" /\ Done
    BY <1>5, <2>1, <2>2, <2>5 DEF AlertsType, SweepFits, Ended
  <2>. QED BY <1>6, <2>3, <2>4, <2>5 DEF PutState
<1>7. CASE Announce
  <2>1. sweep.todo # <<>> /\ sweep.todo \in {<<"announce">>, <<"announce", "delete">>} /\ UNCHANGED <<level, firing>>
        /\ (sweep.todo = <<"announce">> => Tail(sweep.todo) = <<>>)
        /\ (sweep.todo = <<"announce", "delete">> => Tail(sweep.todo) = <<"delete">>)
        /\ Done /\ announced' = (IF sweep.kind = "resolved" THEN 0 ELSE sweep.level) /\ told' \in {told, announced'}
    <3>1. /\ sweep.todo # <<>> /\ Head(sweep.todo) = "announce" /\ sweep.todo \in Todos
          /\ Done /\ announced' = (IF sweep.kind = "resolved" THEN 0 ELSE sweep.level) /\ told' \in {told, announced'}
          /\ UNCHANGED <<level, firing>>
      BY <1>7 DEF Announce, InSweep, AlertsType
    <3>2. \/ sweep.todo = <<"announce">> /\ Tail(sweep.todo) = <<>>
          \/ sweep.todo = <<"announce", "delete">> /\ Tail(sweep.todo) = <<"delete">>
      BY <3>1, TodosFit
    <3>. QED BY <3>1, <3>2, TodosDiffer
  <2>2. AlertsType'
    BY <1>5, <2>1 DEF AlertsType, Levels
  <2>3. SweepFits' /\ Ended'
    <3>1. CASE sweep.todo = <<"announce">>
      BY <1>5, <2>1, <3>1, TodosDiffer DEF SweepFits, Ended
    <3>2. CASE sweep.todo = <<"announce", "delete">>
      BY <1>5, <2>1, <3>2, TodosDiffer DEF SweepFits, Ended
    <3>. QED BY <2>1, <3>1, <3>2
  <2>. QED BY <2>2, <2>3
<1>8. CASE DeleteState
  <2>1. sweep.todo # <<>> /\ sweep.todo = <<"delete">> /\ Tail(sweep.todo) = <<>> /\ UNCHANGED <<level, heard>>
        /\ Done /\ firing' \in {firing, NoAlert}
    BY <1>8, TodosFit DEF DeleteState, InSweep, AlertsType
  <2>2. AlertsType'
    <3>1. NoAlert \in [level : Levels, due : BOOLEAN]
      BY DEF NoAlert, Levels
    <3>. QED BY <1>5, <2>1, <3>1 DEF AlertsType
  <2>3. announced = 0 /\ sweep.kind = "resolved"
    BY <2>1 DEF SweepFits, Ended
  <2>. QED BY <1>5, <2>1, <2>2, <2>3 DEF SweepFits, Ended
<1>9. CASE AlertServerDown
  BY <1>9 DEF AlertServerDown, AlertsType, SweepFits, Ended, NoEvaluation, Levels, Todos, Kinds
<1>. QED BY <1>1, <1>2, <1>3, <1>4, <1>6, <1>7, <1>8, <1>9 DEF AlertsNext, Sweeping

\* An alert is announced as new only after the end of the one before it was,
\* wherever the server stopped and whatever failed, the notifications included.
THEOREM AlwaysFiredAfterResolved == AlertsSpec => FiredAfterResolved
<1>1. AlertsInv =>
        [sweep.kind = "fired" /\ InSweep("announce") /\ sweep' = [sweep EXCEPT !.todo = Tail(@)]
           => announced = 0]_alertVars
  BY DEF AlertsInv, Ended, InSweep
<1>. QED BY <1>1, AlertsInitial, AlertsStep, PTL DEF AlertsSpec, FiredAfterResolved

(***************************************************************************)
(* Addresses                                                               *)
(***************************************************************************)
Segments == {App, "run", ""} \cup Services \cup Pages
Paths == Seq(Segments) \ {<<>>}
Root == <<"">>
Just(segment) == <<segment>>

LEMMA DefaultIsOne ==
    ASSUME NEW names, NEW s \in DefaultService(names)
    PROVE  DefaultService(names) = {s} /\ s \in names
  BY DEF DefaultService

\* What is found is one service.
LEMMA OneFound ==
    ASSUME NEW s, NEW b
    PROVE  [svc : {s}, consumes : {b}] = {[svc |-> s, consumes |-> b]}
<1>1. \A x \in [svc : {s}, consumes : {b}] : x = [svc |-> s, consumes |-> b]
  <2>. TAKE x \in [svc : {s}, consumes : {b}]
  <2>1. x = [svc |-> x.svc, consumes |-> x.consumes] /\ x.svc = s /\ x.consumes = b
    OBVIOUS
  <2>. QED BY <2>1
<1>2. [svc |-> s, consumes |-> b] \in [svc : {s}, consumes : {b}]
  OBVIOUS
<1>. QED BY <1>1, <1>2

\* The end of a path, from a segment on.
LEMMA EndOfPath ==
    ASSUME NEW S, NEW q \in Seq(S), NEW k \in 1..Len(q)
    PROVE  /\ k = Len(q) => SubSeq(q, k, Len(q)) = <<q[k]>>
           /\ \A x : SubSeq(q, k, Len(q)) = <<x>> => k = Len(q) /\ q[k] = x
           /\ SubSeq(q, k, Len(q)) # <<>>
<1>. DEFINE t == SubSeq(q, k, Len(q))
<1>1. t \in Seq(S) /\ Len(t) = Len(q) - k + 1 /\ t[1] = q[k]
  OBVIOUS
<1>2. ASSUME Len(t) = 1 PROVE t = <<t[1]>>
  <2>1. t[1] \in S
    BY <1>1, <1>2
  <2>. DEFINE o == <<t[1]>>
  <2>2. o \in Seq(S) /\ Len(o) = 1 /\ o[1] = t[1]
    BY <2>1
  <2>. HIDE DEF t, o
  <2>3. t = o
    BY <1>1, <1>2, <2>2, SeqEqual
  <2>. QED BY <2>3 DEF o
<1>3. \A x : Len(<<x>>) = 1 /\ <<x>>[1] = x
  OBVIOUS
<1>. HIDE DEF t
<1>4. \A x : t = <<x>> => k = Len(q) /\ q[k] = x
  BY <1>1, <1>3
<1>5. k = Len(q) => t = <<q[k]>>
  BY <1>1, <1>2
<1>6. t # <<>>
  BY <1>1
<1>. QED BY <1>4, <1>5, <1>6 DEF t

\* A page with more than its application in its path, of which one service is
\* found: by default, or by its name.
LEMMA ServedByDefault ==
    ASSUME NEW names, NEW url, NEW s, Len(url) # 1, url[1] = App,
           ServiceForPath(names, url[2]) = {[svc |-> s, consumes |-> FALSE]}
    PROVE  ServeApp(names, url, TRUE) = {Forward(s, SubSeq(url, 2, Len(url)))}
<1>. DEFINE f == [svc |-> s, consumes |-> FALSE]
            to(g) == IF g.consumes /\ BareSegment(url, TRUE) THEN Redirect(<<App, url[2], "">>)
                     ELSE Forward(g.svc, SubSeq(url, IF g.consumes THEN 3 ELSE 2, Len(url)))
<1>1. ServeApp(names, url, TRUE) = {to(g) : g \in {f}}
  BY DEF ServeApp
<1>2. f.svc = s /\ f.consumes = FALSE
  OBVIOUS
<1>3. {to(g) : g \in {f}} = {to(f)}
  <2>. HIDE DEF to, f
  <2>1. \A y : y \in {to(g) : g \in {f}} <=> \E g \in {f} : y = to(g)
    OBVIOUS
  <2>. QED BY <2>1
<1>. QED BY <1>1, <1>2, <1>3

LEMMA ServedByName ==
    ASSUME NEW names, NEW url, NEW s, Len(url) # 1, url[1] = App,
           ServiceForPath(names, url[2]) = {[svc |-> s, consumes |-> TRUE]}
    PROVE  /\ BareSegment(url, TRUE) => ServeApp(names, url, TRUE) = {Redirect(<<App, url[2], "">>)}
           /\ ~BareSegment(url, TRUE) => ServeApp(names, url, TRUE) = {Forward(s, SubSeq(url, 3, Len(url)))}
<1>. DEFINE f == [svc |-> s, consumes |-> TRUE]
            to(g) == IF g.consumes /\ BareSegment(url, TRUE) THEN Redirect(<<App, url[2], "">>)
                     ELSE Forward(g.svc, SubSeq(url, IF g.consumes THEN 3 ELSE 2, Len(url)))
<1>1. ServeApp(names, url, TRUE) = {to(g) : g \in {f}}
  BY DEF ServeApp
<1>2. f.svc = s /\ f.consumes = TRUE
  OBVIOUS
<1>3. {to(g) : g \in {f}} = {to(f)}
  <2>. HIDE DEF to, f
  <2>1. \A y : y \in {to(g) : g \in {f}} <=> \E g \in {f} : y = to(g)
    OBVIOUS
  <2>. QED BY <2>1
<1>. QED BY <1>1, <1>2, <1>3

\* Where the address of one of a version's services leads.
LEMMA AddressServed ==
    ASSUME NEW names \in SUBSET Services, NEW s \in names
    PROVE  Serve(names, ServiceURL(names, s), TRUE) = {Forward(s, <<"">>)}
<1>0. App # "run" /\ "" \notin names /\ s # ""
  BY AddressesAssumption
<1>1. CASE s \in DefaultService(names)
  <2>. DEFINE url == <<App, "">>
  <2>0. url \in Seq({App, ""}) /\ Len(url) = 2 /\ url[1] = App /\ url[2] = ""
    OBVIOUS
  <2>1. url[1] = App /\ url[2] = "" /\ Len(url) = 2 /\ SubSeq(url, 2, Len(url)) = <<"">>
    <3>. HIDE DEF url
    <3>1. 2 \in 1..Len(url)
      <4>1. 2 \in 1..2
        OBVIOUS
      <4>. QED BY <2>0, <4>1, Zenon
    <3>. QED BY <2>0, <3>1, EndOfPath
  <2>2. DefaultService(names) = {s}
    BY <1>1, DefaultIsOne
  <2>3. ServiceForPath(names, "") = [svc : {s}, consumes : {FALSE}]
    BY <1>0, <2>2 DEF ServiceForPath
  <2>4. [svc : {s}, consumes : {FALSE}] = {[svc |-> s, consumes |-> FALSE]}
    BY OneFound
  <2>5. Rest(<<"">>) = <<"">>
    BY DEF Rest
  <2>6. ServeApp(names, url, TRUE) = {Forward(s, <<"">>)}
    <3>. HIDE DEF url
    <3>1. ServiceForPath(names, url[2]) = {[svc |-> s, consumes |-> FALSE]}
      BY <2>1, <2>3, <2>4
    <3>2. Len(url) # 1
      <4>1. 2 # 1
        OBVIOUS
      <4>. QED BY <2>1, <4>1, Zenon
    <3>3. ServeApp(names, url, TRUE) = {Forward(s, SubSeq(url, 2, Len(url)))}
      BY <2>1, <3>1, <3>2, ServedByDefault, Zenon
    <3>. QED BY <2>1, <2>5, <3>3 DEF Forward
  <2>. QED BY <1>0, <1>1, <2>1, <2>6 DEF Serve, ServiceURL
<1>2. CASE s \notin DefaultService(names)
  <2>. DEFINE url == <<App, s, "">>
  <2>0. url \in Seq({App, s, ""}) /\ Len(url) = 3 /\ url[1] = App /\ url[2] = s /\ url[3] = ""
    OBVIOUS
  <2>1. url[1] = App /\ url[2] = s /\ Len(url) = 3 /\ SubSeq(url, 3, Len(url)) = <<"">>
    <3>. HIDE DEF url
    <3>1. 3 \in 1..Len(url)
      <4>1. 3 \in 1..3
        OBVIOUS
      <4>. QED BY <2>0, <4>1, Zenon
    <3>. QED BY <2>0, <3>1, EndOfPath
  <2>3. ServiceForPath(names, s) = [svc : {s}, consumes : {TRUE}]
    BY DEF ServiceForPath
  <2>4. [svc : {s}, consumes : {TRUE}] = {[svc |-> s, consumes |-> TRUE]}
    BY OneFound
  <2>5. Rest(<<"">>) = <<"">>
    BY DEF Rest
  <2>6. ServeApp(names, url, TRUE) = {Forward(s, <<"">>)}
    <3>. HIDE DEF url
    <3>1. ServiceForPath(names, url[2]) = {[svc |-> s, consumes |-> TRUE]}
      BY <2>1, <2>3, <2>4
    <3>2. Len(url) # 1 /\ ~BareSegment(url, TRUE)
      <4>1. 3 # 1 /\ 3 # 2
        OBVIOUS
      <4>. QED BY <2>1, <4>1, Zenon DEF BareSegment
    <3>3. ServeApp(names, url, TRUE) = {Forward(s, SubSeq(url, 3, Len(url)))}
      BY <2>1, <3>1, <3>2, ServedByName, Zenon
    <3>. QED BY <2>1, <2>5, <3>3 DEF Forward
  <2>. QED BY <1>0, <1>2, <2>1, <2>6 DEF Serve, ServiceURL
<1>. QED BY <1>1, <1>2

\* A path with its last segment replaced.
LEMMA RelativePath ==
    ASSUME NEW S, NEW q \in Seq(S), NEW n \in Nat, n = Len(q), n > 0, NEW x \in S,
           NEW t, t = SubSeq(q, 1, n - 1), NEW to, to = Append(t, x)
    PROVE  to \in Seq(S) /\ Len(to) = n /\ to[n] = x /\ \A i \in 1..(n - 1) : to[i] = q[i]
<1>1. t \in Seq(S)
  OBVIOUS
<1>5. Len(t) = n - 1
  OBVIOUS
<1>2. \A i \in 1..(n - 1) : t[i] = q[i]
  OBVIOUS
<1>3. to \in Seq(S) /\ Len(to) = n
  BY <1>1, <1>5
<1>6. to[n] = x
  BY <1>1, <1>5
<1>4.  \A i \in 1..(n - 1) : to[i] = t[i]
  BY <1>1, <1>5
<1>. QED BY <1>2, <1>3, <1>6, <1>4

LEMMA PathHasLength ==
    ASSUME NEW url \in Paths
    PROVE  \E n \in Nat : n = Len(url) /\ n > 0 /\ url \in Seq(Segments)
<1>1. url \in Seq(Segments) /\ url # <<>>
  BY DEF Paths
<1>2. Len(url) \in Nat \ {0}
  BY <1>1, EmptySeq
<1>. DEFINE m == Len(url)
<1>. HIDE DEF m
<1>3. m \in Nat /\ m > 0
  BY <1>2 DEF m
<1>. QED BY <1>1, <1>3 DEF m

LEMMA RelativeTo ==
    ASSUME NEW url \in Paths, NEW link \in Pages
    PROVE  \E to \in Seq(Segments) :
              /\ Len(url) \in Nat /\ Len(url) > 0 /\ url \in Seq(Segments)
              /\ to = Relative(url, link) /\ Len(to) = Len(url) /\ to[Len(to)] = link
              /\ \A i \in 1..(Len(url) - 1) : to[i] = url[i]
<1>1. PICK n \in Nat : n = Len(url) /\ n > 0 /\ url \in Seq(Segments)
  BY PathHasLength
<1>2. PICK t : t = SubSeq(url, 1, n - 1)
  OBVIOUS
<1>3. PICK to : to = Append(t, link)
  OBVIOUS
<1>4. link \in Segments
  BY DEF Segments
<1>5. to \in Seq(Segments) /\ Len(to) = n /\ to[n] = link /\ \A i \in 1..(n - 1) : to[i] = url[i]
  BY <1>1, <1>2, <1>3, <1>4, RelativePath
<1>6. to = Relative(url, link)
  BY <1>1, <1>2, <1>3, Zenon DEF Relative
<1>. QED BY <1>1, <1>5, <1>6, Zenon

LEMMA ForwardIs ==
    /\ \A v, q : /\ Forward(v, q).kind = "forward" /\ Forward(v, q).svc = v
                 /\ Forward(v, q).rest = Rest(q)
    /\ \A p : Redirect(p).kind = "redirect" /\ NotFound.kind = "notFound"
  BY DEF Forward, Redirect, NotFound

IsForward(r) == r.kind = "forward"

LEMMA OnlyForward ==
    (\A v, q : IsForward(Forward(v, q))) /\ (\A p : ~IsForward(Redirect(p))) /\ ~IsForward(NotFound)
  BY ForwardIs DEF IsForward

LEMMA EndIs ==
    ASSUME NEW S, NEW q \in Seq(S), NEW k \in 1..Len(q)
    PROVE  /\ \A x : SubSeq(q, k, Len(q)) = Just(x) <=> (k = Len(q) /\ q[Len(q)] = x)
           /\ Rest(SubSeq(q, k, Len(q))) = SubSeq(q, k, Len(q))
<1>1. k \in 1..Len(q)
  OBVIOUS
<1>2. SubSeq(q, k, Len(q)) # <<>>
  BY <1>1, EndOfPath
<1>3. \A x : SubSeq(q, k, Len(q)) = Just(x) => k = Len(q) /\ q[Len(q)] = x
  BY <1>1, EndOfPath DEF Just
<1>4. k = Len(q) => SubSeq(q, k, Len(q)) = Just(q[Len(q)])
  BY <1>1, EndOfPath DEF Just
<1>. QED BY <1>2, <1>3, <1>4, Zenon DEF Rest

\* Where the long form leads, and where the short one does.
LEMMA RunForwards ==
    ASSUME NEW names, NEW url, url[1] = "run", NEW page
    PROVE  /\ \A r \in Serve(names, url, page) : IsForward(r) =>
                 /\ ~(Len(url) < 3) /\ url[2] = App /\ url[3] # ""  /\ ~(page /\ Len(url) = 3)
                 /\ r = Forward(url[3], SubSeq(url, 4, Len(url)))
           /\ ~(Len(url) < 3) /\ url[2] = App /\ url[3] # "" /\ ~(page /\ Len(url) = 3) =>
                 Serve(names, url, page) = {Forward(url[3], SubSeq(url, 4, Len(url)))}
<1>1. Serve(names, url, page) = {ServeRun(url, page)}
  BY Zenon DEF Serve
<1>2. ~(Len(url) < 3) /\ url[2] = App /\ url[3] # "" /\ ~(page /\ Len(url) = 3) =>
         ServeRun(url, page) = Forward(url[3], SubSeq(url, 4, Len(url)))
  BY Zenon DEF ServeRun, BareService
<1>3. Len(url) < 3 \/ url[2] # App \/ url[3] = "" => ServeRun(url, page) = NotFound
  BY Zenon DEF ServeRun
<1>4. ~(Len(url) < 3 \/ url[2] # App \/ url[3] = "") /\ page /\ Len(url) = 3 => ServeRun(url, page) = Redirect(Append(url, ""))
  BY Zenon DEF ServeRun, BareService
<1>. QED BY <1>1, <1>2, <1>3, <1>4, OnlyForward, Zenon

FirstOf(url, n) == IF n = 1 THEN "" ELSE url[2]
Served(url, n, first, page, f) ==
    IF f.consumes /\ BareSegment(url, page) THEN Redirect(<<App, first, "">>)
    ELSE Forward(f.svc, SubSeq(url, IF f.consumes THEN 3 ELSE 2, n))

AppForward(names, url, page, r) ==
    /\ url[1] = App /\ ~(page /\ Len(url) = 1)
    /\ \/ /\ Len(url) # 1 /\ url[2] \in names /\ ~(page /\ Len(url) = 2)
          /\ r = Forward(url[2], SubSeq(url, 3, Len(url)))
       \/ /\ Len(url) # 1 => url[2] \notin names
          /\ \E d \in DefaultService(names) : r = Forward(d, SubSeq(url, 2, Len(url)))

LEMMA AppForwards ==
    ASSUME NEW names, "" \notin names, NEW url, url[1] # "run", NEW page
    PROVE  \A r \in Serve(names, url, page) : IsForward(r) => AppForward(names, url, page, r)
<1>. SUFFICES ASSUME NEW r \in Serve(names, url, page), IsForward(r)
              PROVE  AppForward(names, url, page, r)
  OBVIOUS
<1>1. r \in ServeApp(names, url, page)
  BY Zenon DEF Serve
<1>2. url[1] = App
  BY <1>1, OnlyForward, Zenon DEF ServeApp
<1>3. ~(page /\ Len(url) = 1)
  <2>. SUFFICES ASSUME page, Len(url) = 1 PROVE FALSE
    OBVIOUS
  <2>1. ServeApp(names, url, page) = {Redirect(<<App, "">>)}
    BY <1>2, Zenon DEF ServeApp
  <2>2. r = Redirect(<<App, "">>)
    BY <2>1, <1>1
  <2>. QED BY <2>2, OnlyForward, Zenon
<1>4. PICK f \in ServiceForPath(names, FirstOf(url, Len(url))) : r = Served(url, Len(url), FirstOf(url, Len(url)), page, f)
    <2>. DEFINE first == FirstOf(url, Len(url))
              found == ServiceForPath(names, first)
  <2>1. CASE found = {}
    <3>1. ServeApp(names, url, page) = {NotFound}
      BY <1>2, <1>3, <2>1, Zenon DEF ServeApp, FirstOf
    <3>2. r = NotFound
      BY <3>1, <1>1, Zenon
    <3>. QED BY <3>2, OnlyForward, Zenon
  <2>2. CASE found # {}
    <3>1. ServeApp(names, url, page) = {Served(url, Len(url), first, page, f) : f \in found}
      BY <1>2, <1>3, <2>2, Zenon DEF ServeApp, FirstOf, Served
    <3>. QED BY <3>1, <1>1, Zenon
  <2>. QED BY <2>1, <2>2
<1>5. CASE FirstOf(url, Len(url)) \in names
  <2>1. Len(url) # 1 /\ FirstOf(url, Len(url)) = url[2]
    BY <1>5, Zenon DEF FirstOf
  <2>2. f \in [svc : {url[2]}, consumes : {TRUE}]
    BY <1>4, <1>5, <2>1, Zenon DEF ServiceForPath
  <2>3. f.svc = url[2] /\ f.consumes = TRUE
    BY <2>2
  <2>4. ~(page /\ Len(url) = 2)
    BY <1>4, <2>3, OnlyForward, Zenon DEF Served, BareSegment
  <2>5. r = Forward(url[2], SubSeq(url, 3, Len(url)))
    BY <1>4, <2>3, <2>4, Zenon DEF Served, BareSegment
  <2>. QED BY <1>2, <1>3, <1>5, <2>1, <2>4, <2>5, Zenon DEF AppForward
<1>6. CASE FirstOf(url, Len(url)) \notin names
  <2>1. f \in [svc : DefaultService(names), consumes : {FALSE}]
    BY <1>4, <1>6, Zenon DEF ServiceForPath
  <2>2. f.svc \in DefaultService(names) /\ f.consumes = FALSE
    BY <2>1
  <2>3. r = Forward(f.svc, SubSeq(url, 2, Len(url)))
    BY <1>4, <2>2, Zenon DEF Served
  <2>4. Len(url) # 1 => url[2] \notin names
    BY <1>6, Zenon DEF FirstOf
  <2>. QED BY <1>2, <1>3, <2>2, <2>3, <2>4, Zenon DEF AppForward
<1>. QED BY <1>5, <1>6, Zenon DEF AppForward

\* A forward from a path's end: one segment is left of the path.
LEMMA ForwardFrom ==
    ASSUME NEW url \in Seq(Segments), NEW k \in 1..Len(url), Rest(SubSeq(url, k, Len(url))) = Root
    PROVE  k = Len(url) /\ url[Len(url)] = ""
<1>1. SubSeq(url, k, Len(url)) = Root
  BY EndIs
<1>2. Root = Just("")
  BY DEF Root, Just
<1>. QED BY <1>1, <1>2, EndIs

LEMMA ForwardTo ==
    ASSUME NEW to \in Seq(Segments), Len(to) \in 1..Len(to), NEW s
    PROVE  Forward(s, SubSeq(to, Len(to), Len(to))) = Forward(s, Just(to[Len(to)]))
<1>2. SubSeq(to, Len(to), Len(to)) = Just(to[Len(to)])
  BY EndIs
<1>. QED BY <1>2

LEMMA Counts ==
    ASSUME NEW n \in Nat, n > 0
    PROVE  /\ n \in 1..n
           /\ n # 1 => 2 \in 1..n /\ 1 \in 1..(n - 1)
           /\ n # 1 /\ n # 2 => 3 \in 1..n /\ 2 \in 1..(n - 1) /\ 1 \in 1..(n - 1)
           /\ ~(n < 3) /\ n # 3 => 4 \in 1..n /\ 3 \in 1..(n - 1) /\ 2 \in 1..(n - 1) /\ 1 \in 1..(n - 1)
  OBVIOUS

\* A link of a page leads to the service its page came from.
LinkLeads(names, url, link, r0) ==
    Serve(names, Relative(url, link), TRUE) = {Forward(r0.svc, Just(link))}

LEMMA RunLinks ==
    ASSUME NEW names, NEW url \in Paths, NEW link \in Pages, url[1] = "run",
           NEW r0 \in Serve(names, url, TRUE), IsForward(r0), r0.rest = Root
    PROVE  LinkLeads(names, url, link, r0)
<1>1. PICK to \in Seq(Segments) :
        /\ Len(url) \in Nat /\ Len(url) > 0 /\ url \in Seq(Segments)
        /\ to = Relative(url, link) /\ Len(to) = Len(url) /\ to[Len(to)] = link
        /\ \A i \in 1..(Len(url) - 1) : to[i] = url[i]
  BY RelativeTo, Zenon
<1>2. ~(Len(url) < 3) /\ url[2] = App /\ url[3] # "" /\ Len(url) # 3
      /\ r0 = Forward(url[3], SubSeq(url, 4, Len(url)))
  BY RunForwards, Zenon
<1>3. /\ 4 \in 1..Len(url) /\ 3 \in 1..(Len(url) - 1) /\ 2 \in 1..(Len(url) - 1) /\ 1 \in 1..(Len(url) - 1)
      /\ Len(url) \in 1..Len(url)
  BY <1>1, <1>2, Counts, Zenon
<1>4. 4 = Len(url) /\ r0.svc = url[3]
  <2>1. r0.svc = url[3] /\ Rest(SubSeq(url, 4, Len(url))) = Root
    BY <1>2, ForwardIs, Zenon
  <2>2. url \in Seq(Segments) /\ 4 \in 1..Len(url)
    BY <1>1, <1>3
  <2>. QED BY <2>1, <2>2, ForwardFrom, Zenon
<1>5. to[1] = "run" /\ to[2] = App /\ to[3] = url[3]
  BY <1>1, <1>2, <1>3, Zenon
<1>6. Serve(names, to, TRUE) = {Forward(to[3], SubSeq(to, 4, Len(to)))}
  <2>1. ~(Len(to) < 3) /\ Len(to) # 3
    BY <1>1, <1>2, Zenon
  <2>2. to[3] # ""
    BY <1>2, <1>5, Zenon
  <2>. QED BY <1>5, <2>1, <2>2, RunForwards, Zenon
<1>7. Forward(r0.svc, SubSeq(to, 4, Len(to))) = Forward(r0.svc, Just(link))
  <2>1. Len(to) \in 1..Len(to) /\ Len(to) = 4
    BY <1>1, <1>3, <1>4, Zenon
  <2>2. Forward(r0.svc, SubSeq(to, Len(to), Len(to))) = Forward(r0.svc, Just(to[Len(to)]))
    BY <2>1, ForwardTo, Zenon
  <2>3. to[Len(to)] = link
    BY <1>1
  <2>. QED BY <2>1, <2>2, <2>3, Zenon
<1>8. to[3] = r0.svc /\ to = Relative(url, link)
  BY <1>1, <1>4, <1>5, Zenon
<1>. QED BY <1>6, <1>7, <1>8, Zenon DEF LinkLeads

LEMMA ByNameServed ==
    ASSUME NEW names, NEW url, NEW s \in names, Len(url) # 1, Len(url) # 2, url[1] = App, App # "run", url[2] = s
    PROVE  Serve(names, url, TRUE) = {Forward(s, SubSeq(url, 3, Len(url)))}
<1>1. ServiceForPath(names, url[2]) = [svc : {s}, consumes : {TRUE}]
  BY Zenon DEF ServiceForPath
<1>2. ServiceForPath(names, url[2]) = {[svc |-> s, consumes |-> TRUE]}
  BY <1>1, OneFound, Zenon
<1>3. ~BareSegment(url, TRUE)
  BY Zenon DEF BareSegment
<1>4. ServeApp(names, url, TRUE) = {Forward(s, SubSeq(url, 3, Len(url)))}
  BY <1>2, <1>3, ServedByName, Zenon
<1>. QED BY <1>4, Zenon DEF Serve

LEMMA ByDefaultServed ==
    ASSUME NEW names, NEW url, NEW s \in DefaultService(names), Len(url) # 1, url[1] = App, App # "run",
           url[2] \notin names
    PROVE  Serve(names, url, TRUE) = {Forward(s, SubSeq(url, 2, Len(url)))}
<1>1. ServiceForPath(names, url[2]) = [svc : {s}, consumes : {FALSE}]
  BY DefaultIsOne, Zenon DEF ServiceForPath
<1>2. ServiceForPath(names, url[2]) = {[svc |-> s, consumes |-> FALSE]}
  BY <1>1, OneFound, Zenon
<1>4. ServeApp(names, url, TRUE) = {Forward(s, SubSeq(url, 2, Len(url)))}
  BY <1>2, ServedByDefault, Zenon
<1>. QED BY <1>4, Zenon DEF Serve

LEMMA AppLinks ==
    ASSUME NEW names \in SUBSET Services, NEW url \in Paths, NEW link \in Pages \ names, url[1] # "run",
           NEW r0 \in Serve(names, url, TRUE), IsForward(r0), r0.rest = Root
    PROVE  LinkLeads(names, url, link, r0)
<1>0. App # "run" /\ "" \notin names
  BY AddressesAssumption
<1>1. PICK to \in Seq(Segments) :
        /\ Len(url) \in Nat /\ Len(url) > 0 /\ url \in Seq(Segments)
        /\ to = Relative(url, link) /\ Len(to) = Len(url) /\ to[Len(to)] = link
        /\ \A i \in 1..(Len(url) - 1) : to[i] = url[i]
  BY RelativeTo, Zenon
<1>2. /\ url[1] = App /\ Len(url) # 1
      /\ \/ url[2] \in names /\ Len(url) # 2 /\ r0 = Forward(url[2], SubSeq(url, 3, Len(url)))
         \/ /\ url[2] \notin names
            /\ \E d \in DefaultService(names) : r0 = Forward(d, SubSeq(url, 2, Len(url)))
  <2>1. AppForward(names, url, TRUE, r0)
    BY <1>0, AppForwards, Zenon
  <2>. QED BY <2>1, Zenon DEF AppForward
<1>3. CASE url[2] \in names /\ Len(url) # 2 /\ r0 = Forward(url[2], SubSeq(url, 3, Len(url)))
  <2>1. /\ 3 \in 1..Len(url) /\ 2 \in 1..(Len(url) - 1) /\ 1 \in 1..(Len(url) - 1)
        /\ Len(url) \in 1..Len(url)
    BY <1>1, <1>2, <1>3, Counts, Zenon
  <2>2. 3 = Len(url) /\ r0.svc = url[2]
    <3>1. r0.svc = url[2] /\ Rest(SubSeq(url, 3, Len(url))) = Root
      BY <1>3, ForwardIs, Zenon
    <3>2. url \in Seq(Segments) /\ 3 \in 1..Len(url)
      BY <1>1, <2>1
    <3>. QED BY <3>1, <3>2, ForwardFrom, Zenon
  <2>3. to[1] = App /\ to[2] = url[2]
    BY <1>1, <1>2, <2>1, Zenon
  <2>4. Serve(names, to, TRUE) = {Forward(r0.svc, SubSeq(to, 3, Len(to)))}
    <3>1. Len(to) # 1 /\ Len(to) # 2 /\ to[2] = r0.svc /\ r0.svc \in names
      BY <1>1, <1>2, <1>3, <2>2, <2>3, Zenon
    <3>. QED BY <3>1, <1>0, <2>3, ByNameServed, Zenon
  <2>5. Len(to) \in 1..Len(to) /\ Len(to) = 3
    BY <1>1, <2>1, <2>2, Zenon
  <2>6. Forward(r0.svc, SubSeq(to, Len(to), Len(to))) = Forward(r0.svc, Just(to[Len(to)]))
    BY <2>5, ForwardTo, Zenon
  <2>7. to[Len(to)] = link /\ to = Relative(url, link)
    BY <1>1
  <2>. QED BY <2>4, <2>5, <2>6, <2>7, Zenon DEF LinkLeads
<1>4. CASE url[2] \notin names /\ \E d \in DefaultService(names) : r0 = Forward(d, SubSeq(url, 2, Len(url)))
  <2>0. PICK d \in DefaultService(names) : r0 = Forward(d, SubSeq(url, 2, Len(url)))
    BY <1>4
  <2>1. 2 \in 1..Len(url) /\ 1 \in 1..(Len(url) - 1) /\ Len(url) \in 1..Len(url)
    BY <1>1, <1>2, Counts, Zenon
  <2>2. 2 = Len(url) /\ r0.svc = d
    <3>1. r0.svc = d /\ Rest(SubSeq(url, 2, Len(url))) = Root
      BY <2>0, ForwardIs, Zenon
    <3>2. url \in Seq(Segments) /\ 2 \in 1..Len(url)
      BY <1>1, <2>1
    <3>. QED BY <3>1, <3>2, ForwardFrom, Zenon
  <2>5. Len(to) \in 1..Len(to) /\ Len(to) = 2
    BY <1>1, <2>1, <2>2, Zenon
  <2>3. to[1] = App /\ to[2] = link
    BY <1>1, <1>2, <2>1, <2>5, Zenon
  <2>4. Serve(names, to, TRUE) = {Forward(d, SubSeq(to, 2, Len(to)))}
    <3>1. Len(to) # 1 /\ to[2] \notin names
      BY <1>1, <1>2, <2>3, Zenon
    <3>. QED BY <3>1, <1>0, <2>3, ByDefaultServed, Zenon
  <2>6. Forward(r0.svc, SubSeq(to, Len(to), Len(to))) = Forward(r0.svc, Just(to[Len(to)]))
    BY <2>5, ForwardTo, Zenon
  <2>7. to[Len(to)] = link /\ to = Relative(url, link)
    BY <1>1
  <2>. QED BY <2>2, <2>4, <2>5, <2>6, <2>7, Zenon DEF LinkLeads
<1>. QED BY <1>2, <1>3, <1>4, Zenon

(***************************************************************************)
(* Addresses: a request                                                    *)
(***************************************************************************)
\* The step a link takes from a path.
LEMMA RelativeIsPath ==
    ASSUME NEW url \in Paths, NEW link \in Segments
    PROVE  Relative(url, link) \in Paths
<1>1. PICK n \in Nat : n = Len(url) /\ n > 0 /\ url \in Seq(Segments)
  BY PathHasLength
<1>2. PICK t : t = SubSeq(url, 1, n - 1)
  OBVIOUS
<1>3. PICK to : to = Append(t, link)
  OBVIOUS
<1>4. to \in Seq(Segments) /\ Len(to) = n
  BY <1>1, <1>2, <1>3, RelativePath
<1>5. to # <<>>
  BY <1>1, <1>4
<1>6. to = Relative(url, link)
  BY <1>1, <1>2, <1>3, Zenon DEF Relative
<1>. QED BY <1>4, <1>5, <1>6, Zenon DEF Paths

LEMMA ShortPaths ==
    /\ \A a \in Segments : <<a>> \in Paths
    /\ \A a, b \in Segments : <<a, b>> \in Paths
    /\ \A a, b, c \in Segments : <<a, b, c>> \in Paths
    /\ \A a, b, c, d \in Segments : <<a, b, c, d>> \in Paths
<1>1. ASSUME NEW a \in Segments PROVE <<a>> \in Paths
  BY DEF Paths
<1>2. ASSUME NEW a \in Segments, NEW b \in Segments PROVE <<a, b>> \in Paths
  BY DEF Paths
<1>3. ASSUME NEW a \in Segments, NEW b \in Segments, NEW c \in Segments PROVE <<a, b, c>> \in Paths
  BY DEF Paths
<1>4. ASSUME NEW a \in Segments, NEW b \in Segments, NEW c \in Segments, NEW d \in Segments
      PROVE  <<a, b, c, d>> \in Paths
  BY DEF Paths
<1>. QED BY <1>1, <1>2, <1>3, <1>4

LEMMA UrlsArePaths == Urls \subseteq Paths
<1>0. App \in Segments /\ "run" \in Segments /\ Links \subseteq Segments /\ Services \subseteq Segments
  BY DEF Segments, Links
<1>1. <<App>> \in Paths
  BY <1>0, ShortPaths
<1>2. ASSUME NEW u \in {App} \X Links PROVE u \in Paths
  <2>1. PICK a \in {App}, b \in Links : u = <<a, b>>
    OBVIOUS
  <2>. QED BY <1>0, <2>1, ShortPaths
<1>3. ASSUME NEW u \in {App} \X Services \X Links PROVE u \in Paths
  <2>1. PICK a \in {App}, b \in Services, c \in Links : u = <<a, b, c>>
    OBVIOUS
  <2>. QED BY <1>0, <2>1, ShortPaths
<1>4. ASSUME NEW u \in {"run"} \X {App} \X Services PROVE u \in Paths
  <2>1. PICK a \in {"run"}, b \in {App}, c \in Services : u = <<a, b, c>>
    OBVIOUS
  <2>. QED BY <1>0, <2>1, ShortPaths
<1>5. ASSUME NEW u \in {"run"} \X {App} \X Services \X Links PROVE u \in Paths
  <2>1. PICK a \in {"run"}, b \in {App}, c \in Services, d \in Links : u = <<a, b, c, d>>
    OBVIOUS
  <2>. QED BY <1>0, <2>1, ShortPaths
<1>. QED BY <1>1, <1>2, <1>3, <1>4, <1>5 DEF Urls

LEMMA AppKinds ==
    ASSUME NEW names, NEW url, NEW page, NEW r \in ServeApp(names, url, page)
    PROVE  r.kind \in {"notFound", "redirect", "forward"}
<1>. DEFINE first == FirstOf(url, Len(url))
            found == ServiceForPath(names, first)
<1>1. CASE url[1] # App
  <2>1. r = NotFound
    BY <1>1, Zenon DEF ServeApp
  <2>. QED BY <2>1, ForwardIs
<1>2. CASE url[1] = App /\ page /\ Len(url) = 1
  <2>1. ServeApp(names, url, page) = {Redirect(<<App, "">>)}
    BY <1>2, Zenon DEF ServeApp
  <2>2. r = Redirect(<<App, "">>)
    BY <2>1, Zenon
  <2>3. r.kind = "redirect"
    BY <2>2, ForwardIs, Zenon
  <2>. QED BY <2>3
<1>3. CASE url[1] = App /\ ~(page /\ Len(url) = 1)
  <2>1. CASE found = {}
    <3>1. ServeApp(names, url, page) = {NotFound}
      BY <1>3, <2>1, Zenon DEF ServeApp, FirstOf
    <3>2. r = NotFound
      BY <3>1, Zenon
    <3>. QED BY <3>2, ForwardIs
  <2>2. CASE found # {}
    <3>1. ServeApp(names, url, page) = {Served(url, Len(url), first, page, f) : f \in found}
      BY <1>3, <2>2, Zenon DEF ServeApp, FirstOf, Served
    <3>2. PICK f \in found : r = Served(url, Len(url), first, page, f)
      BY <3>1, Zenon
    <3>3. (\E p : r = Redirect(p)) \/ (\E v, q : r = Forward(v, q))
      BY <3>2, Zenon DEF Served
    <3>4. CASE \E p : r = Redirect(p)
      <4>1. r.kind = "redirect"
        BY <3>4, ForwardIs, Zenon
      <4>. QED BY <4>1
    <3>5. CASE \E v, q : r = Forward(v, q)
      <4>0. PICK v, q : r = Forward(v, q)
        BY <3>5
      <4>1. r.kind = "forward"
        BY <4>0 DEF Forward
      <4>. QED BY <4>1
    <3>. QED BY <3>3, <3>4, <3>5
  <2>. QED BY <2>1, <2>2
<1>. QED BY <1>1, <1>2, <1>3, Zenon

\* A redirect sends the browser to a path again.
LEMMA RedirectsToPaths ==
    ASSUME NEW names \in SUBSET Services, NEW url \in Paths, NEW page,
           NEW r \in Serve(names, url, page), r.kind = "redirect"
    PROVE  r.url \in Paths
<1>1. \A to : Redirect(to).url = to
  BY DEF Redirect
<1>2. (\A v, q : Forward(v, q).kind # "redirect") /\ NotFound.kind # "redirect"
  BY DEF Forward, NotFound
<1>3. App \in Segments /\ "" \in Segments /\ Services \subseteq Segments
  BY DEF Segments
<1>4. Append(url, "") \in Paths
  <2>1. url \in Seq(Segments)
    BY DEF Paths
  <2>2. \A x \in Segments : Append(url, x) \in Paths
    BY <2>1 DEF Paths
  <2>. QED BY <1>3, <2>2, Zenon
<1>5. CASE url[1] = "run"
  <2>1. r = ServeRun(url, page)
    BY <1>5, Zenon DEF Serve
  <2>2. r = Redirect(Append(url, ""))
    BY <2>1, <1>2, Zenon DEF ServeRun
  <2>. QED BY <2>2, <1>1, <1>4, Zenon
<1>6. CASE url[1] # "run"
  <2>1. r \in ServeApp(names, url, page)
    BY <1>6, Zenon DEF Serve
  <2>2. <<App, "">> \in Paths
    BY <1>3, ShortPaths
  <2>3. url[1] = App
    BY <2>1, <1>2, Zenon DEF ServeApp
  <2>4. CASE page /\ Len(url) = 1
    <3>1. ServeApp(names, url, page) = {Redirect(<<App, "">>)}
      BY <2>3, <2>4, Zenon DEF ServeApp
    <3>2. r = Redirect(<<App, "">>)
      BY <2>1, <3>1, Zenon
    <3>. QED BY <2>2, <3>2, <1>1, Zenon
  <2>5. CASE ~(page /\ Len(url) = 1)
    <3>. DEFINE first == FirstOf(url, Len(url))
                found == ServiceForPath(names, first)
    <3>1. found # {}
      <4>. SUFFICES ASSUME found = {} PROVE FALSE
        OBVIOUS
      <4>1. ServeApp(names, url, page) = {NotFound}
        BY <2>3, <2>5, Zenon DEF ServeApp, FirstOf
      <4>. QED BY <2>1, <4>1, <1>2, Zenon
    <3>2. ServeApp(names, url, page) = {Served(url, Len(url), first, page, f) : f \in found}
      BY <2>3, <2>5, <3>1, Zenon DEF ServeApp, FirstOf, Served
    <3>3. PICK f \in found : r = Served(url, Len(url), first, page, f)
      BY <2>1, <3>2, Zenon
    <3>4. f.consumes /\ r = Redirect(<<App, first, "">>)
      BY <3>3, <1>2, Zenon DEF Served
    <3>5. first \in names
      <4>. SUFFICES ASSUME first \notin names PROVE FALSE
        OBVIOUS
      <4>1. f \in [svc : DefaultService(names), consumes : {FALSE}]
        BY <3>3, Zenon DEF ServiceForPath
      <4>2. f.consumes = FALSE
        BY <4>1
      <4>. QED BY <4>2, <3>4
    <3>6. <<App, first, "">> \in Paths
      <4>. HIDE DEF first
      <4>. QED BY <1>3, <3>5, ShortPaths
    <3>. QED BY <3>4, <3>6, <1>1, Zenon
  <2>. QED BY <2>4, <2>5
<1>. QED BY <1>5, <1>6

Request(v) ==
    v = [pc |-> v.pc, url |-> v.url, page |-> v.page, svc |-> v.svc, rest |-> v.rest, seen |-> v.seen]

Forwarded == visit.pc \in {"resolved", "answered"}

\* A request that goes on to a service was sent there under the version seen.
SentThere(v) ==
    \E r \in Serve(v.seen, v.url, v.page) : IsForward(r) /\ r.svc = v.svc /\ r.rest = v.rest

AddressesInv ==
    /\ version \in SUBSET Services /\ Request(visit)
    /\ visit.pc # "idle" => visit.url \in Paths /\ visit.page \in BOOLEAN
    /\ Forwarded => visit.seen \in SUBSET Services /\ SentThere(visit)

LEMMA NoVisitFits == Request(NoVisit) /\ NoVisit.pc = "idle"
  BY DEF Request, NoVisit

LEMMA MovedFits ==
    ASSUME NEW v, Request(v), NEW pc
    PROVE  /\ Request([v EXCEPT !.pc = pc]) /\ [v EXCEPT !.pc = pc].pc = pc
           /\ [v EXCEPT !.pc = pc].url = v.url /\ [v EXCEPT !.pc = pc].page = v.page
           /\ [v EXCEPT !.pc = pc].svc = v.svc /\ [v EXCEPT !.pc = pc].rest = v.rest
           /\ [v EXCEPT !.pc = pc].seen = v.seen
  BY DEF Request

LEMMA RedirectedFits ==
    ASSUME NEW v, Request(v), NEW u, NEW w, w = [v EXCEPT !.pc = "redirected", !.url = u]
    PROVE  Request(w) /\ w.pc = "redirected" /\ w.url = u /\ w.page = v.page
  BY DEF Request

LEMMA ResolvedFits ==
    ASSUME NEW v, Request(v), NEW s, NEW q, NEW names,
           NEW w, w = [v EXCEPT !.pc = "resolved", !.svc = s, !.rest = q, !.seen = names]
    PROVE  /\ Request(w) /\ w.pc = "resolved" /\ w.url = v.url /\ w.page = v.page
           /\ w.svc = s /\ w.rest = q /\ w.seen = names
  BY DEF Request

LEMMA AddressesStart == ASSUME AddressesInit PROVE AddressesInv
<1>1. visit.pc = "idle" /\ Request(visit)
  BY NoVisitFits DEF AddressesInit
<1>. QED BY <1>1 DEF AddressesInit, AddressesInv, Forwarded

LEMMA VisitKeeps == ASSUME AddressesInv, Visit PROVE AddressesInv'
<1>1. PICK u \in Urls, p \in BOOLEAN : visit' = [NoVisit EXCEPT !.pc = "sent", !.url = u, !.page = p]
  BY DEF Visit
<1>2. Request(visit)' /\ visit'.pc = "sent" /\ visit'.url = u /\ visit'.page = p
  <2>1. PICK v : v = visit'
    OBVIOUS
  <2>2. Request(v) /\ v.pc = "sent" /\ v.url = u /\ v.page = p
    <3>1. v = [NoVisit EXCEPT !.pc = "sent", !.url = u, !.page = p]
      BY <1>1, <2>1
    <3>. QED BY <3>1 DEF Request, NoVisit
  <2>. QED BY <2>1, <2>2 DEF Request
<1>3. u \in Paths
  BY UrlsArePaths
<1>. QED BY <1>2, <1>3 DEF Visit, AddressesInv, Forwarded

LEMMA FollowLinkKeeps == ASSUME AddressesInv, FollowLink PROVE AddressesInv'
<1>1. PICK link \in Links :
        visit' = [NoVisit EXCEPT !.pc = "sent", !.url = Relative(visit.url, link), !.page = TRUE]
  BY DEF FollowLink
<1>2. Request(visit)' /\ visit'.pc = "sent" /\ visit'.url = Relative(visit.url, link) /\ visit'.page = TRUE
  <2>1. PICK v : v = visit'
    OBVIOUS
  <2>2. PICK u : u = Relative(visit.url, link)
    OBVIOUS
  <2>3. Request(v) /\ v.pc = "sent" /\ v.url = u /\ v.page = TRUE
    <3>1. v = [NoVisit EXCEPT !.pc = "sent", !.url = u, !.page = TRUE]
      BY <1>1, <2>1, <2>2
    <3>. QED BY <3>1 DEF Request, NoVisit
  <2>. QED BY <2>1, <2>2, <2>3 DEF Request
<1>3. visit.url \in Paths /\ link \in Segments
  BY DEF AddressesInv, FollowLink, Links, Segments
<1>4. Relative(visit.url, link) \in Paths
  BY <1>3, RelativeIsPath
<1>. QED BY <1>2, <1>4 DEF FollowLink, AddressesInv, Forwarded

LEMMA ResolveKeeps == ASSUME AddressesInv, Resolve PROVE AddressesInv'
<1>1. PICK r \in Serve(version, visit.url, visit.page) :
        visit' = CASE r.kind = "notFound" -> [visit EXCEPT !.pc = "notFound"]
                   [] r.kind = "redirect" -> [visit EXCEPT !.pc = "redirected", !.url = r.url]
                   [] r.kind = "forward" ->
                        [visit EXCEPT !.pc = "resolved", !.svc = r.svc, !.rest = r.rest, !.seen = version]
  BY DEF Resolve
<1>2. /\ visit.pc = "sent" /\ visit.url \in Paths /\ visit.page \in BOOLEAN /\ version \in SUBSET Services
      /\ version' = version /\ Request(visit)
  BY DEF Resolve, AddressesInv
<1>3. r.kind \in {"notFound", "redirect", "forward"}
  <2>1. r \in {ServeRun(visit.url, visit.page)} \/ r \in ServeApp(version, visit.url, visit.page)
    BY DEF Serve
  <2>2. CASE r = ServeRun(visit.url, visit.page)
    BY <2>2, ForwardIs DEF ServeRun
  <2>3. CASE r \in ServeApp(version, visit.url, visit.page)
    BY <2>3, AppKinds
  <2>. QED BY <2>1, <2>2, <2>3
<1>4. CASE r.kind = "notFound"
  <2>1. visit' = [visit EXCEPT !.pc = "notFound"]
    BY <1>1, <1>4
  <2>2. Request(visit)' /\ visit'.pc = "notFound" /\ visit'.url = visit.url /\ visit'.page = visit.page
    BY <1>2, <2>1, MovedFits DEF Request
  <2>. QED BY <1>2, <2>2 DEF AddressesInv, Forwarded
<1>5. CASE r.kind = "redirect"
  <2>1. visit' = [visit EXCEPT !.pc = "redirected", !.url = r.url]
    BY <1>1, <1>5
  <2>2. Request(visit)' /\ visit'.pc = "redirected" /\ visit'.url = r.url /\ visit'.page = visit.page
    BY <1>2, <2>1, RedirectedFits DEF Request
  <2>3. r.url \in Paths
    BY <1>2, <1>5, RedirectsToPaths
  <2>. QED BY <1>2, <2>2, <2>3 DEF AddressesInv, Forwarded
<1>6. CASE r.kind = "forward"
  <2>1. visit' = [visit EXCEPT !.pc = "resolved", !.svc = r.svc, !.rest = r.rest, !.seen = version]
    BY <1>1, <1>6
  <2>2. /\ Request(visit)' /\ visit'.pc = "resolved" /\ visit'.url = visit.url /\ visit'.page = visit.page
        /\ visit'.svc = r.svc /\ visit'.rest = r.rest /\ visit'.seen = version
    BY <1>2, <2>1, ResolvedFits DEF Request
  <2>3. IsForward(r)
    BY <1>6 DEF IsForward
  <2>4. SentThere(visit')
    BY <2>2, <2>3, Zenon DEF SentThere
  <2>5. SentThere(visit)' /\ visit'.pc # "idle"
    BY <2>2, <2>4 DEF SentThere, Serve
  <2>. QED BY <1>2, <2>2, <2>5 DEF AddressesInv, Forwarded
<1>. QED BY <1>3, <1>4, <1>5, <1>6

LEMMA EnsureRunningKeeps == ASSUME AddressesInv, EnsureRunningByName PROVE AddressesInv'
<1>1. PICK pc \in {"answered", "notFound"} : visit' = [visit EXCEPT !.pc = pc]
  BY DEF EnsureRunningByName
<1>2. PICK v : v = visit /\ Request(v)
  BY DEF AddressesInv
<1>3. PICK w : w = visit' /\ w = [v EXCEPT !.pc = pc]
  BY <1>1, <1>2
<1>4. /\ Request(w) /\ w.pc = pc /\ w.url = v.url /\ w.page = v.page /\ w.svc = v.svc
      /\ w.rest = v.rest /\ w.seen = v.seen
  BY <1>2, <1>3, MovedFits
<1>5. /\ version' = version /\ version \in SUBSET Services /\ v.url \in Paths /\ v.page \in BOOLEAN
      /\ v.seen \in SUBSET Services /\ SentThere(v)
  BY <1>2 DEF EnsureRunningByName, AddressesInv, Forwarded
<1>6. SentThere(w)
  BY <1>4, <1>5, Zenon DEF SentThere
<1>7. Request(visit)' /\ SentThere(visit)'
  BY <1>3, <1>4, <1>6 DEF Request, SentThere, Serve
<1>. QED BY <1>3, <1>4, <1>5, <1>7 DEF AddressesInv

LEMMA FollowRedirectKeeps == ASSUME AddressesInv, FollowRedirect PROVE AddressesInv'
<1>1. PICK v : v = visit /\ Request(v)
  BY DEF AddressesInv
<1>2. PICK w : w = visit' /\ w = [v EXCEPT !.pc = "sent"]
  BY <1>1 DEF FollowRedirect
<1>3. Request(w) /\ w.pc = "sent" /\ w.url = v.url /\ w.page = v.page
  BY <1>1, <1>2, MovedFits
<1>4. version' = version /\ version \in SUBSET Services /\ v.url \in Paths /\ v.page \in BOOLEAN
  BY <1>1 DEF FollowRedirect, AddressesInv
<1>5. Request(visit)'
  BY <1>2, <1>3 DEF Request
<1>. QED BY <1>2, <1>3, <1>4, <1>5 DEF AddressesInv, Forwarded

LEMMA RestKeeps ==
    ASSUME AddressesInv, CloseTab \/ VersionChanges \/ UNCHANGED addressVars
    PROVE  AddressesInv'
<1>1. CASE CloseTab
  <2>1. visit' = NoVisit /\ version' = version
    BY <1>1 DEF CloseTab
  <2>2. Request(visit)' /\ visit'.pc = "idle"
    BY <2>1, NoVisitFits DEF Request
  <2>. QED BY <2>1, <2>2 DEF AddressesInv, Forwarded
<1>2. CASE VersionChanges
  BY <1>2 DEF VersionChanges, AddressesInv, Forwarded, SentThere, Serve, Request
<1>3. CASE UNCHANGED addressVars
  BY <1>3 DEF addressVars, AddressesInv, Forwarded, SentThere, Serve, Request
<1>. QED BY <1>1, <1>2, <1>3

LEMMA AddressesStep == ASSUME AddressesInv, [AddressesNext]_addressVars PROVE AddressesInv'
  BY VisitKeeps, FollowLinkKeeps, ResolveKeeps, EnsureRunningKeeps, FollowRedirectKeeps, RestKeeps
     DEF AddressesNext

LEMMA AddressesSound == ASSUME AddressesInv PROVE AddressesHold
<1>1. AddressReaches
  BY AddressServed DEF AddressReaches, AddressesInv
<1>2. LinksStay
  <2>. SUFFICES ASSUME visit.pc = "answered", visit.page, visit.rest = <<"">>, visit.seen = version,
                       NEW link \in Pages \ version,
                       NEW r \in Serve(version, Relative(visit.url, link), TRUE)
                PROVE  r = Forward(visit.svc, <<link>>)
    BY DEF LinksStay
  <2>1. /\ version \in SUBSET Services /\ visit.url \in Paths /\ visit.page = TRUE
        /\ visit.rest = Root
    BY DEF AddressesInv, Root
  <2>2. SentThere(visit)
    BY DEF AddressesInv, Forwarded
  <2>3. PICK r0 \in Serve(version, visit.url, TRUE) : IsForward(r0) /\ r0.svc = visit.svc /\ r0.rest = Root
    BY <2>1, <2>2, Zenon DEF SentThere
  <2>4. Serve(version, Relative(visit.url, link), TRUE) = {Forward(r0.svc, Just(link))}
    <3>0. PICK url \in Paths, names \in SUBSET Services : url = visit.url /\ names = version
      BY <2>1
    <3>1. r0 \in Serve(names, url, TRUE) /\ IsForward(r0) /\ r0.rest = Root /\ link \in Pages \ names
      BY <2>3, <3>0
    <3>2. CASE url[1] = "run"
      <4>1. LinkLeads(names, url, link, r0)
        BY <3>1, <3>2, RunLinks, Zenon
      <4>. QED BY <3>0, <4>1 DEF LinkLeads
    <3>3. CASE url[1] # "run"
      <4>1. LinkLeads(names, url, link, r0)
        BY <3>1, <3>3, AppLinks, Zenon
      <4>. QED BY <3>0, <4>1 DEF LinkLeads
    <3>. QED BY <3>2, <3>3
  <2>. QED BY <2>3, <2>4, Zenon DEF Just
<1>. QED BY <1>1, <1>2 DEF AddressesHold

\* The address handed out for a service (service_url.go:42-50) is served by it
\* from its root, and the links of the page found there lead back to it
\* (handlers_proxy.go:170-178), whatever version runs.
THEOREM AddressesAlwaysHold == AddressesSpec => []AddressesHold
<1>1. AddressesInit => AddressesInv
  BY AddressesStart
<1>2. AddressesInv /\ [AddressesNext]_addressVars => AddressesInv'
  BY AddressesStep
<1>3. AddressesInv => AddressesHold
  BY AddressesSound
<1>. QED BY <1>1, <1>2, <1>3, PTL DEF AddressesSpec

(***************************************************************************)
(* Logs: sequences of lines                                                *)
(***************************************************************************)
Ascending(s) == \A i, j \in 1..Len(s) : i < j => s[i] < s[j]
Below(S, T) == \A x \in S, y \in T : x < y
UpTo(S, n) == \A x \in S : x \in 1..n

LEMMA LinesOf ==
    ASSUME NEW s \in Seq(Nat)
    PROVE  /\ \A x \in Lines(s) : x \in Nat /\ \E i \in 1..Len(s) : x = s[i]
           /\ \A i \in 1..Len(s) : s[i] \in Lines(s)
           /\ Len(s) \in Nat
<1>1. DOMAIN s = 1..Len(s) /\ Len(s) \in Nat
  OBVIOUS
<1>2. \A i \in 1..Len(s) : s[i] \in Nat
  OBVIOUS
<1>. QED BY <1>1, <1>2, Zenon DEF Lines

LEMMA LinesWithin ==
    ASSUME NEW s \in Seq(Nat), NEW n \in Nat, Len(s) = n
    PROVE  (\A x \in Lines(s) : \E i \in 1..n : x = s[i]) /\ (\A i \in 1..n : s[i] \in Lines(s))
<1>1. DOMAIN s = 1..n
  OBVIOUS
<1>. QED BY <1>1, Zenon DEF Lines

LEMMA NoLines == Lines(<<>>) = {} /\ Ascending(<<>>) /\ <<>> \in Seq(Nat) /\ Len(<<>>) = 0
<1>1. <<>> \in Seq(Nat) /\ Len(<<>>) = 0
  OBVIOUS
<1>2. \A x \in Lines(<<>>) : FALSE
  <2>1. \A i \in 1..0 : FALSE
    OBVIOUS
  <2>. QED BY <1>1, <2>1, LinesWithin, Zenon
<1>3. Ascending(<<>>)
  BY <1>1 DEF Ascending
<1>. QED BY <1>1, <1>2, <1>3

LEMMA LinesAppend ==
    ASSUME NEW s \in Seq(Nat), NEW x \in Nat, Ascending(s), Below(Lines(s), {x}),
           NEW t, t = Append(s, x)
    PROVE  t \in Seq(Nat) /\ Lines(t) = Lines(s) \cup {x} /\ Ascending(t)
<1>1. PICK n \in Nat : n = Len(s)
  BY LinesOf
<1>2. /\ t \in Seq(Nat) /\ Len(t) = n + 1 /\ t[n + 1] = x
      /\ \A i \in 1..n : t[i] = s[i]
  BY <1>1
<1>3. \A y \in Lines(t) : y \in Lines(s) \cup {x}
  <2>3. n + 1 \in Nat
    OBVIOUS
  <2>4. \A y \in Lines(t) : \E i \in 1..(n + 1) : y = t[i]
    BY <1>2, <2>3, LinesWithin, Zenon
  <2>. SUFFICES ASSUME NEW i \in 1..(n + 1) PROVE t[i] \in Lines(s) \cup {x}
    BY <2>4, Zenon
  <2>1. CASE i = n + 1
    BY <2>1, <1>2
  <2>2. CASE i \in 1..n
    BY <2>2, <1>1, <1>2, LinesOf
  <2>. QED BY <1>1, <2>1, <2>2
<1>4. \A y \in Lines(s) \cup {x} : y \in Lines(t)
  <2>1. x \in Lines(t)
    <3>1. n + 1 \in 1..Len(t)
      BY <1>1, <1>2
    <3>. QED BY <3>1, <1>2, LinesOf
  <2>2. ASSUME NEW y \in Lines(s) PROVE y \in Lines(t)
    <3>1. PICK i \in 1..n : y = s[i]
      BY <1>1, LinesOf
    <3>2. i \in 1..Len(t) /\ t[i] = y
      BY <1>2, <3>1
    <3>. QED BY <3>2, <1>2, LinesOf
  <2>. QED BY <2>1, <2>2
<1>5. Ascending(t)
  <2>. SUFFICES ASSUME NEW i \in 1..(n + 1), NEW j \in 1..(n + 1), i < j PROVE t[i] < t[j]
    BY <1>2 DEF Ascending
  <2>1. i \in 1..n /\ s[i] \in Lines(s) /\ t[i] = s[i]
    BY <1>1, <1>2, LinesOf
  <2>2. CASE j = n + 1
    BY <2>1, <2>2, <1>2 DEF Below
  <2>3. CASE j \in 1..n
    BY <2>1, <2>3, <1>1, <1>2 DEF Ascending
  <2>. QED BY <1>1, <2>2, <2>3
<1>. QED BY <1>2, <1>3, <1>4, <1>5

\* A buffer cut in two.
LEMMA LinesSplit ==
    ASSUME NEW p \in Seq(Nat), Ascending(p), NEW m \in 0..Len(p)
    PROVE  /\ SubSeq(p, 1, m) \in Seq(Nat) /\ SubSeq(p, m + 1, Len(p)) \in Seq(Nat)
           /\ Lines(SubSeq(p, 1, m)) \cup Lines(SubSeq(p, m + 1, Len(p))) = Lines(p)
           /\ Below(Lines(SubSeq(p, 1, m)), Lines(SubSeq(p, m + 1, Len(p))))
           /\ Ascending(SubSeq(p, 1, m)) /\ Ascending(SubSeq(p, m + 1, Len(p)))
<1>n. PICK n \in Nat : n = Len(p)
  BY LinesOf
<1>b. PICK b : b = SubSeq(p, 1, m)
  OBVIOUS
<1>r. PICK r : r = SubSeq(p, m + 1, n)
  OBVIOUS
<1>m. m \in 0..n
  BY <1>n
<1>1. b \in Seq(Nat) /\ Len(b) = m /\ \A i \in 1..m : b[i] = p[i]
  BY <1>n, <1>b
<1>2. r \in Seq(Nat) /\ Len(r) = n - m /\ \A i \in 1..(n - m) : r[i] = p[m + i]
  <2>1. m + 1 \in 1..(n + 1)
    BY <1>m
  <2>2. \A i \in (m + 1)..n : i \in 1..n
    BY <1>m
  <2>3. \A i \in (m + 1)..n : p[i] \in Nat
    BY <1>n, <2>2
  <2>4. /\ r \in Seq(Nat) /\ Len(r) = IF m + 1 <= n THEN n - (m + 1) + 1 ELSE 0
        /\ \A i \in 1..(n - (m + 1) + 1) : r[i] = p[(m + 1) + i - 1]
    <3>1. m + 1 \in Int /\ n \in Int
      BY <1>n, <1>m
    <3>. QED BY <1>r, <2>3, <3>1, SubSeqProperties
  <2>5. n - (m + 1) + 1 = n - m /\ \A i \in 1..(n - m) : (m + 1) + i - 1 = m + i
    BY <1>n, <1>m
  <2>6. (IF m + 1 <= n THEN n - (m + 1) + 1 ELSE 0) = n - m
    BY <1>n, <1>m
  <2>. QED BY <2>4, <2>5, <2>6
<1>3. \A x \in Lines(b) : \E i \in 1..m : x = p[i]
  <2>0. m \in Nat
    BY <1>m
  <2>1. \A x \in Lines(b) : \E i \in 1..m : x = b[i]
    BY <1>1, <2>0, LinesWithin, Zenon
  <2>. QED BY <1>1, <2>1
<1>4. \A x \in Lines(r) : \E i \in (m + 1)..n : x = p[i]
  <2>2. n - m \in Nat
    BY <1>m
  <2>3. \A x \in Lines(r) : \E i \in 1..(n - m) : x = r[i]
    BY <1>2, <2>2, LinesWithin, Zenon
  <2>. SUFFICES ASSUME NEW i \in 1..(n - m) PROVE \E k \in (m + 1)..n : r[i] = p[k]
    BY <2>3
  <2>1. m + i \in (m + 1)..n
    BY <1>m
  <2>. QED BY <2>1, <1>2
<1>5. \A i \in 1..m : p[i] \in Lines(b)
  BY <1>1, LinesOf
<1>6. ASSUME NEW i \in (m + 1)..n PROVE p[i] \in Lines(r)
  <2>1. i - m \in 1..(n - m) /\ m + (i - m) = i
    BY <1>m
  <2>2. r[i - m] = p[i]
    BY <1>2, <2>1
  <2>3. i - m \in 1..Len(r)
    BY <1>2, <2>1
  <2>. QED BY <1>2, <2>2, <2>3, LinesOf
<1>7. Lines(b) \cup Lines(r) = Lines(p)
  <2>1. \A i \in 1..n : p[i] \in Lines(b) \cup Lines(r)
    <3>1. \A i \in 1..n : i \in 1..m \/ i \in (m + 1)..n
      BY <1>m
    <3>. QED BY <3>1, <1>5, <1>6, Zenon
  <2>2. \A x \in Lines(p) : x \in Lines(b) \cup Lines(r)
    BY <2>1, <1>n, LinesOf
  <2>3. \A i : i \in 1..m \/ i \in (m + 1)..n => i \in 1..Len(p)
    BY <1>m, <1>n
  <2>4. \A x \in Lines(b) \cup Lines(r) : x \in Lines(p)
    BY <2>3, <1>3, <1>4, LinesOf, Zenon
  <2>. QED BY <2>2, <2>4, Zenon
<1>8. Below(Lines(b), Lines(r))
  <2>1. \A i \in 1..m, j \in (m + 1)..n : i \in 1..Len(p) /\ j \in 1..Len(p) /\ i < j
    BY <1>m, <1>n
  <2>2. \A i \in 1..m, j \in (m + 1)..n : p[i] < p[j]
    BY <2>1, Zenon DEF Ascending
  <2>. QED BY <2>2, <1>3, <1>4, Zenon DEF Below
<1>9. Ascending(b)
  <2>1. \A i \in 1..m : i \in 1..Len(p)
    BY <1>m, <1>n
  <2>. QED BY <2>1, <1>1, Zenon DEF Ascending
<1>10. Ascending(r)
  <2>. SUFFICES ASSUME NEW i \in 1..(n - m), NEW j \in 1..(n - m), i < j PROVE r[i] < r[j]
    BY <1>2 DEF Ascending
  <2>1. m + i \in 1..Len(p) /\ m + j \in 1..Len(p) /\ m + i < m + j
    BY <1>m, <1>n
  <2>2. p[m + i] < p[m + j]
    BY <2>1, Zenon DEF Ascending
  <2>. QED BY <2>2, <1>2
<1>. QED BY <1>n, <1>b, <1>r, <1>1, <1>2, <1>7, <1>8, <1>9, <1>10, Zenon

\* Whatever is stored twice is one of A; the last of a set of lines.
OnceBut(s, A) == \A i, j \in 1..Len(s) : s[i] = s[j] /\ i # j => s[i] \in A
HasLast(S) == S = {} \/ \E x \in S : \A y \in S : y <= x

LEMMA LastOfAscending ==
    ASSUME NEW s \in Seq(Nat), Ascending(s)
    PROVE  HasLast(Lines(s))
<1>1. PICK n \in Nat : n = Len(s)
  BY LinesOf
<1>2. CASE n = 0
  <2>1. \A l \in Lines(s) : \E i \in 1..n : l = s[i]
    BY <1>1, LinesWithin, Zenon
  <2>2. 1..n = {}
    BY <1>2
  <2>. QED BY <2>1, <2>2 DEF HasLast
<1>3. CASE n # 0
  <2>1. n \in 1..n /\ s[n] \in Lines(s) /\ s[n] \in Nat
    BY <1>1, <1>3, LinesOf
  <2>2. ASSUME NEW y \in Lines(s) PROVE y <= s[n]
    <3>1. PICK i \in 1..n : y = s[i]
      BY <1>1, LinesWithin, Zenon
    <3>2. s[i] \in Nat
      BY <1>1
    <3>3. CASE i = n
      BY <2>1, <3>1, <3>3
    <3>4. CASE i < n
      BY <1>1, <2>1, <3>1, <3>2, <3>4 DEF Ascending
    <3>. QED BY <3>3, <3>4
  <2>. QED BY <2>1, <2>2 DEF HasLast
<1>. QED BY <1>2, <1>3

LEMMA LastOfBoth ==
    ASSUME NEW S \in SUBSET Nat, NEW T \in SUBSET Nat, HasLast(S), HasLast(T)
    PROVE  HasLast(S \cup T)
<1>1. CASE S = {} \/ T = {}
  <2>1. S \cup T = S \/ S \cup T = T
    BY <1>1
  <2>. QED BY <2>1, Zenon
<1>2. ASSUME NEW x \in S, NEW z \in T, \A y \in S : y <= x, \A y \in T : y <= z
      PROVE  HasLast(S \cup T)
  <2>1. CASE x <= z
    <3>1. \A y \in S \cup T : y <= z
      BY <1>2, <2>1
    <3>. QED BY <3>1 DEF HasLast
  <2>2. CASE ~(x <= z)
    <3>1. \A y \in S \cup T : y <= x
      BY <1>2, <2>2
    <3>. QED BY <3>1 DEF HasLast
  <2>. QED BY <2>1, <2>2
<1>. QED BY <1>1, <1>2 DEF HasLast

\* A batch stored after the rows.
LEMMA LinesStored ==
    ASSUME NEW s \in Seq(Nat), NEW b \in Seq(Nat), NEW A, OnceBut(s, A), Ascending(b),
           \A x \in Lines(b) : x \in Lines(s) => x \in A, NEW t, t = s \o b
    PROVE  t \in Seq(Nat) /\ Lines(t) = Lines(s) \cup Lines(b) /\ OnceBut(t, A)
<1>1. PICK n \in Nat, m \in Nat : n = Len(s) /\ m = Len(b)
  BY LinesOf
<1>2. /\ t \in Seq(Nat) /\ Len(t) = n + m
      /\ \A i \in 1..n : t[i] = s[i]
      /\ \A i \in 1..m : t[n + i] = b[i]
  BY <1>1
<1>3. ASSUME NEW i \in 1..(n + m)
      PROVE  (i \in 1..n /\ t[i] = s[i]) \/ (i - n \in 1..m /\ t[i] = b[i - n] /\ i \notin 1..n)
  <2>1. CASE i \in 1..n
    BY <2>1, <1>1, <1>2
  <2>2. CASE i \notin 1..n
    <3>1. i - n \in 1..m /\ n + (i - n) = i
      BY <2>2
    <3>2. \A k : k \in 1..m => t[n + k] = b[k]
      BY <1>2
    <3>3. t[n + (i - n)] = b[i - n]
      BY <3>1, <3>2, Zenon
    <3>. QED BY <3>1, <3>3, <2>2
  <2>. QED BY <2>1, <2>2
<1>4. \A y \in Lines(t) : y \in Lines(s) \cup Lines(b)
  <2>2. n + m \in Nat
    OBVIOUS
  <2>3. \A x \in Lines(t) : \E i \in 1..(n + m) : x = t[i]
    BY <1>2, <2>2, LinesWithin, Zenon
  <2>. SUFFICES ASSUME NEW i \in 1..(n + m) PROVE t[i] \in Lines(s) \cup Lines(b)
    BY <2>3, Zenon
  <2>1. (\A k \in 1..n : s[k] \in Lines(s)) /\ (\A k \in 1..m : b[k] \in Lines(b))
    BY <1>1, LinesWithin, Zenon
  <2>. QED BY <1>3, <2>1, Zenon
<1>5. \A y \in Lines(s) : y \in Lines(t)
  <2>1. \A i \in 1..n : i \in 1..Len(t)
    BY <1>2
  <2>2. \A i \in 1..Len(t) : t[i] \in Lines(t)
    BY <1>2, LinesOf, Zenon
  <2>3. \A y \in Lines(s) : \E i \in 1..n : y = s[i]
    BY <1>1, LinesWithin, Zenon
  <2>. QED BY <2>1, <2>2, <2>3, <1>2, Zenon
<1>6. \A y \in Lines(b) : y \in Lines(t)
  <2>1. \A i \in 1..m : n + i \in 1..Len(t)
    BY <1>2
  <2>2. \A i \in 1..m : b[i] \in Lines(t)
    <3>1. \A i \in 1..Len(t) : t[i] \in Lines(t)
      BY <1>2, LinesOf, Zenon
    <3>. QED BY <3>1, <2>1, <1>2
  <2>3. \A y \in Lines(b) : \E i \in 1..m : y = b[i]
    BY <1>1, LinesWithin, Zenon
  <2>. QED BY <2>2, <2>3, Zenon
<1>7. (\A k \in 1..n : s[k] \in Lines(s)) /\ (\A k \in 1..m : b[k] \in Lines(b) /\ b[k] \in Nat)
  BY <1>1, LinesWithin
<1>8. OnceBut(t, A)
  <2>. SUFFICES ASSUME NEW i \in 1..(n + m), NEW j \in 1..(n + m), t[i] = t[j], i # j PROVE t[i] \in A
    BY <1>2 DEF OnceBut
  <2>1. CASE i \in 1..n /\ j \in 1..n
    BY <2>1, <1>1, <1>2 DEF OnceBut
  <2>2. CASE i \in 1..n /\ j \notin 1..n
    <3>1. t[i] \in Lines(s)
      BY <2>2, <1>2, <1>7
    <3>2. t[j] \in Lines(b)
      BY <2>2, <1>3, <1>7
    <3>. QED BY <3>1, <3>2
  <2>3. CASE i \notin 1..n /\ j \in 1..n
    <3>1. t[j] \in Lines(s)
      BY <2>3, <1>2, <1>7
    <3>2. t[i] \in Lines(b)
      BY <2>3, <1>3, <1>7
    <3>. QED BY <3>1, <3>2
  <2>4. CASE i \notin 1..n /\ j \notin 1..n
    <3>1. i - n \in 1..m /\ t[i] = b[i - n]
      BY <2>4, <1>3
    <3>2. j - n \in 1..m /\ t[j] = b[j - n]
      BY <2>4, <1>3
    <3>3. i - n < j - n \/ j - n < i - n
      OBVIOUS
    <3>4. b[i - n] < b[j - n] \/ b[j - n] < b[i - n]
      BY <3>1, <3>2, <3>3, <1>1 DEF Ascending
    <3>5. b[i - n] \in Nat /\ b[j - n] \in Nat
      BY <3>1, <3>2, <1>7
    <3>6. \A u, v \in Nat : u < v \/ v < u => u # v
      OBVIOUS
    <3>7. b[i - n] # b[j - n]
      BY <3>4, <3>5, <3>6
    <3>. QED BY <3>1, <3>2, <3>7
  <2>. QED BY <2>1, <2>2, <2>3, <2>4
<1>9. Lines(t) = Lines(s) \cup Lines(b)
  BY <1>4, <1>5, <1>6, Zenon
<1>. QED BY <1>2, <1>8, <1>9

\* The batch taken stays a prefix when a line is read.
LEMMA PrefixStays ==
    ASSUME NEW p \in Seq(Nat), NEW m \in Nat, m <= Len(p), NEW x \in Nat, NEW q, q = Append(p, x)
    PROVE  m <= Len(q) /\ SubSeq(q, 1, m) = SubSeq(p, 1, m)
<1>1. PICK n \in Nat : n = Len(p)
  BY LinesOf
<1>2. q \in Seq(Nat) /\ Len(q) = n + 1 /\ \A i \in 1..n : q[i] = p[i]
  BY <1>1
<1>3. PICK a : a = SubSeq(p, 1, m)
  OBVIOUS
<1>4. PICK b : b = SubSeq(q, 1, m)
  OBVIOUS
<1>5. a \in Seq(Nat) /\ Len(a) = m /\ \A i \in 1..m : a[i] = p[i]
  BY <1>3
<1>6. m <= n + 1
  BY <1>1
<1>7. b \in Seq(Nat) /\ Len(b) = m /\ \A i \in 1..m : b[i] = q[i]
  BY <1>2, <1>4, <1>6
<1>8. \A i \in 1..m : a[i] = b[i]
  BY <1>1, <1>2, <1>5, <1>7
<1>9. a = b
  BY <1>5, <1>7, <1>8, SeqEqual
<1>. QED BY <1>2, <1>3, <1>4, <1>6, <1>9

LEMMA LargestOfTwo ==
    ASSUME NEW a \in Int, NEW b \in Int
    PROVE  Largest({a, b}) \in {a, b} /\ Largest({a, b}) >= a /\ Largest({a, b}) >= b
<1>1. \E n \in {a, b} : \A x \in {a, b} : x <= n
  <2>1. CASE a <= b
    BY <2>1
  <2>2. CASE b <= a
    BY <2>2
  <2>. QED BY <2>1, <2>2
<1>. QED BY <1>1 DEF Largest

\* The time a resumed follower starts after: the last row retention has left.
LEMMA LastIsLargest ==
    ASSUME NEW R \in SUBSET Nat, HasLast(R), NEW f, \A l \in R : f[l] \in Nat,
           \A l, x \in R : l <= x => f[l] <= f[x], NEW p \in Nat,
           NEW S, 0 \in S, \A l \in R : f[l] > p => f[l] \in S,
           \A t \in S : t = 0 \/ \E l \in R : t = f[l] /\ t > p
    PROVE  Largest(S) \in Nat /\ Largest(S) \in S /\ \A t \in S : t <= Largest(S)
<1>1. S \subseteq Nat /\ 0 \in S
  OBVIOUS
<1>2. \E k \in S : \A t \in S : t <= k
  <2>1. CASE R = {}
    <3>1. 0 \in S /\ \A t \in S : t <= 0
      BY <2>1
    <3>. QED BY <3>1
  <2>2. ASSUME NEW x \in R, \A y \in R : y <= x PROVE \E k \in S : \A t \in S : t <= k
    <3>1. f[x] \in Nat /\ \A l \in R : f[l] <= f[x]
      BY <2>2
    <3>2. CASE f[x] > p
      <4>1. f[x] \in S /\ \A t \in S : t <= f[x]
        BY <3>1, <3>2
      <4>. QED BY <4>1
    <3>3. CASE ~(f[x] > p)
      <4>1. \A l \in R : ~(f[l] > p)
        BY <3>1, <3>3
      <4>2. 0 \in S /\ \A t \in S : t <= 0
        BY <4>1
      <4>. QED BY <4>2
    <3>. QED BY <3>2, <3>3
  <2>. QED BY <2>1, <2>2 DEF HasLast
<1>3. Largest(S) \in S /\ \A t \in S : t <= Largest(S)
  BY <1>2, Zenon DEF Largest
<1>. QED BY <1>1, <1>3

(***************************************************************************)
(* Logs: what is stored, held and still to be read                         *)
(***************************************************************************)
Followers == [state : {"on", "done", "down", "off"}, read : Nat]

LogsType ==
    /\ container \in {"running", "stopped", "removed"} /\ times \in Seq(Nat)
    /\ rows \in Seq(Nat) /\ resent \in SUBSET Nat /\ oldest \in Nat /\ purged \in Nat
    /\ follower \in Followers /\ after \in Nat
    /\ pending \in Seq(Nat) /\ flush \in [Flushers -> Seq(Nat)]
    /\ dropped \in SUBSET Nat /\ logFaults \in Nat

\* Lines are written one after the other, and several at a time.
Timed ==
    /\ \A l \in Written : times[l] > 0 /\ times[l] <= LastTime
    /\ \A l, x \in Written : l <= x => times[l] <= times[x]

\* The rows, then the buffer, but for batches that are sent again.
InOrder ==
    /\ OnceBut(rows, resent) /\ Ascending(pending)
    /\ Lines(rows) \subseteq Written /\ HasLast(Lines(rows))
    /\ UpTo(Lines(pending), follower.read)
    /\ \A l \in Lines(pending) : l \in Lines(rows) => l \in resent
    /\ \A l \in Lines(pending) : l \in Lines(rows) \/ \A x \in Lines(rows) : x < l

\* Where the follower is: it has read every row, or passes over it.
Position ==
    /\ purged <= oldest /\ oldest <= LastTime /\ follower.read <= Len(times)
    /\ Following =>
          /\ \A x \in Lines(rows) : x <= follower.read \/ times[x] <= after
          /\ after = 0 \/ after <= oldest \/ \E x \in Lines(rows) : times[x] = after
    /\ ~Following => pending = <<>> /\ flush = NoFlush
    /\ follower.state = "done" =>
          container # "running" /\ (container # "removed" => follower.read = Len(times))

\* One flush at a time, and its batch is still the head of the buffer.
OneFlush ==
    /\ \A f, g \in Flushers : flush[f] # <<>> /\ flush[g] # <<>> => f = g
    /\ \A f \in Flushers : flush[f] # <<>> =>
          Len(flush[f]) <= Len(pending) /\ flush[f] = SubSeq(pending, 1, Len(flush[f]))

\* Before a fault nothing is given up or read again.
Faultless ==
    logFaults = 0 =>
        /\ follower.state \notin {"down", "off"} /\ dropped = {} /\ after = 0
        /\ Lines(rows) \cup Lines(pending) = 1..follower.read
        /\ container = "removed" => follower.state = "done"
        /\ follower.state = "done" => follower.read = Len(times)

LogsInv == LogsType /\ Timed /\ InOrder /\ Position /\ OneFlush /\ NoneLost /\ Faultless

LEMMA Followed ==
    ASSUME LogsType
    PROVE  /\ follower = [state |-> follower.state, read |-> follower.read]
           /\ follower.state \in {"on", "done", "down", "off"} /\ follower.read \in Nat
  BY DEF LogsType, Followers

\* The lines' times are numbers, and so is the last.
LEMMA TimesOf ==
    ASSUME LogsType
    PROVE  /\ Len(times) \in Nat /\ \A l \in Written : l \in Nat /\ times[l] \in Nat
           /\ LastTime \in Nat
           /\ \A l \in 1..Len(times) : l \in Written
<1>1. Len(times) \in Nat /\ \A l \in 1..Len(times) : times[l] \in Nat /\ l \in Nat
  BY DEF LogsType
<1>2. LastTime \in Nat
  BY DEF LogsType, LastTime
<1>. QED BY <1>1, <1>2 DEF Written

LEMMA LogsStart == ASSUME LogsInit PROVE LogsInv
<1>. USE DEF LogsInit
<1>0. Written = {} /\ LastTime = 0 /\ Len(times) = 0
  BY DEF Written, LastTime
<1>1. LogsType
  BY DEF LogsType, Followers, NoFlush
<1>2. Timed /\ InOrder
  BY <1>0, NoLines DEF Timed, InOrder, OnceBut, HasLast, UpTo
<1>3. Position
  BY <1>0, NoLines DEF Position, Following
<1>4. OneFlush
  BY DEF OneFlush, NoFlush
<1>5. NoneLost
  BY <1>0 DEF NoneLost
<1>6. Faultless
  BY NoLines DEF Faultless
<1>. QED BY <1>1, <1>2, <1>3, <1>4, <1>5, <1>6 DEF LogsInv

\* What the last row says of where to begin again.
LEMMA LastLogged ==
    ASSUME LogsInv
    PROVE  /\ LastLoggedAt \in Nat /\ LastLoggedAt <= LastTime
           /\ LastLoggedAt = 0 \/ \E x \in Lines(rows) : times[x] = LastLoggedAt
           /\ \A l \in Lines(rows) : times[l] > purged => times[l] <= LastLoggedAt
           /\ ResumeFrom \in {LastLoggedAt, oldest}
           /\ ResumeFrom \in Nat /\ ResumeFrom >= LastLoggedAt /\ ResumeFrom >= oldest
<1>1. PICK S : S = {0} \cup {t \in {times[l] : l \in Lines(rows)} : t > purged}
  OBVIOUS
<1>2. LastLoggedAt = Largest(S)
  BY <1>1, Zenon DEF LastLoggedAt
<1>3. /\ Lines(rows) \in SUBSET Nat /\ HasLast(Lines(rows)) /\ purged \in Nat
      /\ \A l \in Lines(rows) : times[l] \in Nat /\ times[l] <= LastTime
      /\ \A l, x \in Lines(rows) : l <= x => times[l] <= times[x]
  BY TimesOf DEF LogsInv, LogsType, InOrder, Timed
<1>4. Largest(S) \in Nat /\ Largest(S) \in S /\ \A t \in S : t <= Largest(S)
  <2>1. PICK R : R = Lines(rows)
    OBVIOUS
  <2>2. /\ R \in SUBSET Nat /\ HasLast(R) /\ \A l \in R : times[l] \in Nat
        /\ \A l, x \in R : l <= x => times[l] <= times[x]
        /\ S = {0} \cup {t \in {times[l] : l \in R} : t > purged}
    BY <1>1, <1>3, <2>1
  <2>3. PICK f : f = times
    OBVIOUS
  <2>4. PICK p \in Nat : p = purged
    BY <1>3
  <2>5. /\ \A l \in R : f[l] \in Nat
        /\ \A l, x \in R : l <= x => f[l] <= f[x]
    BY <2>2, <2>3, Zenon
  <2>6. /\ 0 \in S /\ \A l \in R : f[l] > p => f[l] \in S
        /\ \A t \in S : t = 0 \/ \E l \in R : t = f[l] /\ t > p
    BY <2>2, <2>3, <2>4
  <2>. QED BY <2>2, <2>5, <2>6, LastIsLargest
<1>5. LastTime \in Nat /\ oldest \in Nat
  BY TimesOf DEF LogsInv, LogsType
<1>6. \A t \in S : t <= LastTime
  BY <1>1, <1>3, <1>5
<1>7. \A l \in Lines(rows) : times[l] > purged => times[l] \in S
  BY <1>1
<1>8. Largest(S) = 0 \/ \E x \in Lines(rows) : times[x] = Largest(S)
  BY <1>1, <1>4
<1>9. /\ Largest({LastLoggedAt, oldest}) \in {LastLoggedAt, oldest}
      /\ Largest({LastLoggedAt, oldest}) >= LastLoggedAt /\ Largest({LastLoggedAt, oldest}) >= oldest
  <2>1. LastLoggedAt \in Int /\ oldest \in Int
    BY <1>2, <1>4, <1>5
  <2>. QED BY <2>1, LargestOfTwo, Zenon
<1>. QED BY <1>2, <1>4, <1>5, <1>6, <1>7, <1>8, <1>9 DEF ResumeFrom

\* A line more: its time is the last one's or a later one.
LEMMA WriteLineKeeps == ASSUME LogsInv, WriteLine PROVE LogsInv'
<1>. USE DEF WriteLine, output, kept
<1>0. PICK n \in Nat, t \in Nat :
         /\ n = Len(times) /\ times' = Append(times, t) /\ t > 0 /\ t >= LastTime
  BY TimesOf DEF LogsInv
<1>1. times \in Seq(Nat) /\ Written = 1..n /\ LastTime \in Nat
  BY <1>0, TimesOf DEF LogsInv, LogsType, Written
<1>2. /\ times' \in Seq(Nat) /\ Len(times') = n + 1 /\ times'[n + 1] = t
      /\ \A l \in 1..n : times'[l] = times[l]
  BY <1>0, <1>1
<1>3. Written' = 1..(n + 1) /\ LastTime' = t /\ n + 1 \in Written'
      /\ \A l \in Written' : l = n + 1 \/ l \in 1..n
  BY <1>0, <1>2 DEF Written, LastTime
<1>4. \A l \in 1..n : times[l] \in Nat /\ times[l] > 0 /\ times[l] <= LastTime
  BY <1>1, TimesOf DEF LogsInv, Timed
<1>5. \A l \in Lines(rows) : l \in 1..n /\ times'[l] = times[l]
  BY <1>1, <1>2 DEF LogsInv, InOrder
<1>6. Lines(rows)' = Lines(rows) /\ Lines(pending)' = Lines(pending) /\ (Following' <=> Following)
  BY DEF Lines, Following
<1>7. LogsType'
  BY <1>2 DEF LogsInv, LogsType
<1>8. Timed'
  <2>1. \A l \in Written' : times'[l] > 0 /\ times'[l] <= t
    BY <1>0, <1>1, <1>2, <1>3, <1>4
  <2>2. ASSUME NEW l \in Written', NEW x \in Written', l <= x PROVE times'[l] <= times'[x]
    <3>1. CASE x = n + 1
      BY <1>2, <2>1, <3>1
    <3>2. CASE x \in 1..n
      <4>1. l \in 1..n
        BY <1>3, <2>2, <3>2
      <4>. QED BY <1>1, <1>2, <2>2, <3>2, <4>1 DEF LogsInv, Timed
    <3>. QED BY <1>3, <3>1, <3>2
  <2>. QED BY <1>3, <2>1, <2>2 DEF Timed
<1>9. InOrder'
  <2>1. Lines(rows) \subseteq Written'
    BY <1>3, <1>5
  <2>2. OnceBut(rows, resent)' /\ Ascending(pending)'
    BY DEF LogsInv, InOrder, OnceBut, Ascending
  <2>. QED BY <1>6, <2>1, <2>2 DEF LogsInv, InOrder, UpTo, HasLast
<1>10. follower.state # "done" /\ follower.read \in Nat /\ follower.read <= n
  BY <1>0, Followed DEF LogsInv, Position
<1>11. Position'
  <2>1. follower.read <= n + 1 /\ oldest <= t
    BY <1>0, <1>1, <1>10 DEF LogsInv, Position, LogsType
  <2>2. ASSUME Following
        PROVE  /\ \A x \in Lines(rows) : x <= follower.read \/ times'[x] <= after
               /\ after = 0 \/ after <= oldest \/ \E x \in Lines(rows) : times'[x] = after
    BY <1>5, <2>2 DEF LogsInv, Position
  <2>3. ~Following => pending = <<>> /\ flush = NoFlush
    BY DEF LogsInv, Position
  <2>4. purged <= oldest
    BY DEF LogsInv, Position
  <2>. QED BY <1>2, <1>3, <1>6, <1>10, <2>1, <2>2, <2>3, <2>4 DEF Position, NoFlush
<1>12. OneFlush'
  BY DEF LogsInv, OneFlush
<1>13. LastLoggedAt \in Nat /\ LastLoggedAt <= LastTime /\ LastLoggedAt' = LastLoggedAt
  <2>1. {times'[l] : l \in Lines(rows)} = {times[l] : l \in Lines(rows)}
    BY <1>5
  <2>2. LastLoggedAt' = LastLoggedAt
    BY <1>6, <2>1 DEF LastLoggedAt, Largest
  <2>. QED BY <2>2, LastLogged
<1>14. NoneLost'
  <2>0. \A l \in 1..n : SharesTime(l) => SharesTime(l)'
    BY <1>2, <1>5, <1>6 DEF SharesTime
  <2>. SUFFICES ASSUME NEW l \in Written'
                PROVE  \/ l \in Lines(rows) \cup Lines(pending) \cup dropped
                       \/ times'[l] <= oldest
                       \/ IF Following THEN l > follower.read /\ times'[l] > after
                                       ELSE times'[l] >= LastLoggedAt
                       \/ after # 0 /\ SharesTime(l)'
    BY <1>6, <1>13 DEF NoneLost
  <2>1. CASE l \in 1..n
    BY <1>1, <1>2, <2>0, <2>1 DEF LogsInv, NoneLost
  <2>2. CASE l = n + 1 /\ ~Following
    BY <1>0, <1>1, <1>2, <1>13, <2>2
  <2>3. CASE l = n + 1 /\ Following
    <3>1. after \in Nat /\ oldest \in Nat /\ times'[l] = t /\ l > follower.read
      BY <1>2, <1>10, <2>3 DEF LogsInv, LogsType
    <3>2. CASE t > after
      BY <2>3, <3>1, <3>2
    <3>3. CASE ~(t > after)
      <4>1. after <= oldest \/ \E x \in Lines(rows) : times[x] = after
        BY <1>0, <2>3, <3>1, <3>3 DEF LogsInv, Position
      <4>2. CASE after <= oldest
        BY <3>1, <3>3, <4>2
      <4>3. ASSUME NEW x \in Lines(rows), times[x] = after PROVE SharesTime(l)'
        <5>1. times[x] <= LastTime /\ times'[x] = times[x]
          BY <1>4, <1>5
        <5>2. times'[x] = times'[l]
          BY <1>0, <1>1, <3>1, <3>3, <4>3, <5>1
        <5>. QED BY <1>6, <5>2 DEF SharesTime
      <4>4. after # 0
        BY <1>0, <3>1, <3>3
      <4>. QED BY <4>1, <4>2, <4>3, <4>4
    <3>. QED BY <3>2, <3>3
  <2>. QED BY <1>3, <2>1, <2>2, <2>3
<1>15. Faultless'
  BY <1>6, <1>10 DEF LogsInv, Faultless
<1>. QED BY <1>7, <1>8, <1>9, <1>11, <1>12, <1>14, <1>15 DEF LogsInv

\* Steps that only move the container, or retention.
LEMMA OutsideKeeps ==
    ASSUME LogsInv,
           UNCHANGED <<times, rows, resent, follower, after, pending, flush, dropped>>,
           container' \in {"running", "stopped", "removed"}, container' # container => container' # "running",
           container = "removed" => container' = "removed",
           oldest' \in Nat, purged' \in Nat, oldest' >= oldest, purged' >= purged,
           purged' <= oldest', oldest' <= LastTime,
           logFaults' \in Nat, logFaults' >= logFaults,
           container' = "removed" /\ logFaults' = 0 => container = "removed" \/ ~Following
    PROVE  LogsInv'
<1>0. /\ Written' = Written /\ LastTime' = LastTime /\ (Following' <=> Following)
      /\ Lines(rows)' = Lines(rows) /\ Lines(pending)' = Lines(pending)
      /\ \A l : SharesTime(l)' <=> SharesTime(l)
  BY DEF Written, LastTime, Following, Lines, SharesTime
<1>1. LogsType'
  BY DEF LogsInv, LogsType
<1>2. Timed'
  BY <1>0 DEF LogsInv, Timed
<1>3. InOrder'
  <2>1. OnceBut(rows, resent)' /\ Ascending(pending)'
    BY DEF LogsInv, InOrder, OnceBut, Ascending
  <2>. QED BY <1>0, <2>1 DEF LogsInv, InOrder, UpTo, HasLast
<1>4. Position'
  <2>1. ASSUME Following
        PROVE  /\ \A x \in Lines(rows) : x <= follower.read \/ times[x] <= after
               /\ after = 0 \/ after <= oldest' \/ \E x \in Lines(rows) : times[x] = after
    BY <2>1 DEF LogsInv, Position, LogsType
  <2>. QED BY <1>0, <2>1 DEF LogsInv, Position, NoFlush
<1>5. OneFlush'
  BY DEF LogsInv, OneFlush
<1>6. LastLoggedAt' <= LastLoggedAt /\ LastLoggedAt \in Nat /\ LastLoggedAt' \in Nat
  <2>0. PICK R, f : R = Lines(rows) /\ f = times
    OBVIOUS
  <2>1. PICK p \in Nat, q \in Nat : p = purged /\ q = purged' /\ q >= p
    BY DEF LogsInv, LogsType
  <2>2. PICK S : S = {0} \cup {t \in {f[l] : l \in R} : t > p}
    OBVIOUS
  <2>3. PICK T : T = {0} \cup {t \in {f[l] : l \in R} : t > q}
    OBVIOUS
  <2>4. LastLoggedAt = Largest(S)
    BY <2>0, <2>1, <2>2, Zenon DEF LastLoggedAt
  <2>5. LastLoggedAt' = Largest(T)
    <3>1. times' = f /\ Lines(rows)' = R /\ purged' = q
      BY <1>0, <2>0, <2>1, Zenon
    <3>. QED BY <2>3, <3>1, Zenon DEF LastLoggedAt, Largest
  <2>6. /\ R \in SUBSET Nat /\ HasLast(R) /\ \A l \in R : f[l] \in Nat
        /\ \A l, x \in R : l <= x => f[l] <= f[x]
    BY <2>0, TimesOf DEF LogsInv, InOrder, Timed
  <2>7. Largest(S) \in Nat /\ \A t \in S : t <= Largest(S)
    <3>1. /\ 0 \in S /\ \A l \in R : f[l] > p => f[l] \in S
          /\ \A t \in S : t = 0 \/ \E l \in R : t = f[l] /\ t > p
      BY <2>2
    <3>. QED BY <2>1, <2>6, <3>1, LastIsLargest
  <2>8. Largest(T) \in Nat /\ Largest(T) \in T
    <3>1. /\ 0 \in T /\ \A l \in R : f[l] > q => f[l] \in T
          /\ \A t \in T : t = 0 \/ \E l \in R : t = f[l] /\ t > q
      BY <2>3
    <3>. QED BY <2>1, <2>6, <3>1, LastIsLargest
  <2>9. T \subseteq S
    BY <2>1, <2>2, <2>3, <2>6
  <2>. QED BY <2>4, <2>5, <2>7, <2>8, <2>9
<1>7. NoneLost'
  <2>. SUFFICES ASSUME container' # "removed", NEW l \in Written
                PROVE  \/ l \in Lines(rows) \cup Lines(pending) \cup dropped
                       \/ times[l] <= oldest'
                       \/ IF Following THEN l > follower.read /\ times[l] > after
                                       ELSE times[l] >= LastLoggedAt'
                       \/ after # 0 /\ SharesTime(l)
    BY <1>0 DEF NoneLost
  <2>1. times[l] \in Nat /\ oldest \in Nat
    BY TimesOf DEF LogsInv, LogsType
  <2>2. \/ l \in Lines(rows) \cup Lines(pending) \cup dropped
        \/ times[l] <= oldest
        \/ IF Following THEN l > follower.read /\ times[l] > after ELSE times[l] >= LastLoggedAt
        \/ after # 0 /\ SharesTime(l)
    BY DEF LogsInv, NoneLost
  <2>. QED BY <1>6, <2>1, <2>2
<1>8. Faultless'
  <2>1. logFaults' = 0 => logFaults = 0
    BY DEF LogsInv, LogsType
  <2>2. logFaults' = 0 /\ container' = "removed" => follower.state = "done"
    BY <2>1, Followed DEF LogsInv, Faultless, Following
  <2>. QED BY <1>0, <2>1, <2>2 DEF LogsInv, Faultless
<1>. QED BY <1>1, <1>2, <1>3, <1>4, <1>5, <1>7, <1>8 DEF LogsInv

\* A line read goes into the buffer, or is passed over.
LEMMA ReadLineKeeps == ASSUME LogsInv, ReadLine PROVE LogsInv'
<1>. USE DEF ReadLine, output, kept
<1>0. PICK n \in Nat : n = follower.read
  BY Followed DEF LogsInv
<1>1. /\ follower' = [state |-> "on", read |-> n + 1] /\ Following /\ Following'
      /\ follower'.read = n + 1 /\ n + 1 \in Nat /\ n + 1 \in Written
      /\ pending' = IF times[n + 1] > after THEN Append(pending, n + 1) ELSE pending
  <2>1. n < Len(times) /\ Len(times) \in Nat
    BY <1>0, TimesOf DEF LogsInv
  <2>2. follower' = [state |-> "on", read |-> n + 1]
    BY <1>0, Followed DEF LogsInv, Following
  <2>3. Following /\ Following' /\ follower'.read = n + 1
    BY <2>2 DEF Following
  <2>4. n + 1 \in Nat /\ n + 1 \in 1..Len(times)
    BY <1>0, <2>1
  <2>. QED BY <1>0, <2>2, <2>3, <2>4 DEF Written
<1>2. /\ Written' = Written /\ LastTime' = LastTime /\ Lines(rows)' = Lines(rows)
      /\ \A l : SharesTime(l)' <=> SharesTime(l)
  BY DEF Written, LastTime, Lines, SharesTime
<1>3. /\ \A x \in Lines(pending) : x \in 1..n
      /\ \A x \in Lines(rows) : x \in Written /\ (x <= n \/ times[x] <= after)
  BY <1>0, <1>1 DEF LogsInv, InOrder, Position, UpTo
<1>4. times[n + 1] \in Nat /\ after \in Nat
  BY <1>1, TimesOf DEF LogsInv, LogsType
\* What the buffer is afterwards.
<1>5. /\ pending' \in Seq(Nat) /\ Ascending(pending)'
      /\ Lines(pending)' = Lines(pending) \cup {l \in {n + 1} : times[l] > after}
  <2>1. CASE times[n + 1] > after
    <3>1. Below(Lines(pending), {n + 1})
      BY <1>3 DEF Below
    <3>2. PICK t : t = Append(pending, n + 1)
      OBVIOUS
    <3>3. t \in Seq(Nat) /\ Lines(t) = Lines(pending) \cup {n + 1} /\ Ascending(t)
      BY <1>1, <3>1, <3>2, LinesAppend DEF LogsInv, LogsType, InOrder
    <3>4. pending' = t
      BY <1>1, <2>1, <3>2
    <3>5. Lines(pending)' = Lines(t) /\ (Ascending(pending)' <=> Ascending(t))
      BY <3>4 DEF Lines, Ascending
    <3>6. {l \in {n + 1} : times[l] > after} = {n + 1}
      BY <2>1
    <3>. QED BY <3>3, <3>4, <3>5, <3>6
  <2>2. CASE ~(times[n + 1] > after)
    <3>1. pending' = pending
      BY <1>1, <2>2
    <3>2. Lines(pending)' = Lines(pending) /\ (Ascending(pending)' <=> Ascending(pending))
      BY <3>1 DEF Lines, Ascending
    <3>3. {l \in {n + 1} : times[l] > after} = {}
      BY <2>2
    <3>. QED BY <3>1, <3>2, <3>3 DEF LogsInv, LogsType, InOrder
  <2>. QED BY <2>1, <2>2
<1>6. LogsType'
  BY <1>1, <1>5 DEF LogsInv, LogsType, Followers
<1>7. Timed'
  BY <1>2 DEF LogsInv, Timed
<1>8. InOrder'
  <2>1. OnceBut(rows, resent)' /\ HasLast(Lines(rows)) /\ Lines(rows) \subseteq Written
    BY DEF LogsInv, InOrder, OnceBut
  <2>2. UpTo(Lines(pending)', n + 1)
    BY <1>3, <1>5 DEF UpTo
  <2>3. ASSUME times[n + 1] > after, NEW x \in Lines(rows) PROVE x < n + 1
    <3>1. CASE x <= n
      BY <1>3, <3>1 DEF Written
    <3>2. CASE times[x] <= after
      <4>1. x \in Written /\ x \in Nat /\ times[x] \in Nat
        BY <1>3, TimesOf DEF LogsInv
      <4>2. ~(n + 1 <= x)
        BY <1>1, <1>4, <2>3, <3>2, <4>1 DEF LogsInv, Timed
      <4>. QED BY <4>1, <4>2
    <3>. QED BY <1>3, <3>1, <3>2
  <2>4. ASSUME NEW l \in Lines(pending)'
        PROVE  /\ l \in Lines(rows) => l \in resent
               /\ l \in Lines(rows) \/ \A x \in Lines(rows) : x < l
    <3>1. CASE l \in Lines(pending)
      BY <3>1 DEF LogsInv, InOrder
    <3>2. CASE l = n + 1 /\ times[n + 1] > after
      <4>1. \A x \in Lines(rows) : x < l
        BY <2>3, <3>2
      <4>2. l \notin Lines(rows)
        BY <1>1, <3>2, <4>1
      <4>. QED BY <4>1, <4>2
    <3>. QED BY <1>5, <3>1, <3>2
  <2>. QED BY <1>1, <1>2, <1>5, <2>1, <2>2, <2>4 DEF InOrder, UpTo, HasLast
<1>9. Position'
  <2>1. purged <= oldest /\ oldest <= LastTime
    BY DEF LogsInv, Position
  <2>2. n + 1 <= Len(times)
    BY <1>1 DEF Written
  <2>3. \A x \in Lines(rows) : x <= n + 1 \/ times[x] <= after
    BY <1>3, TimesOf DEF LogsInv
  <2>4. after = 0 \/ after <= oldest \/ \E x \in Lines(rows) : times[x] = after
    BY <1>1 DEF LogsInv, Position
  <2>. QED BY <1>1, <1>2, <2>1, <2>2, <2>3, <2>4 DEF Position
<1>10. OneFlush'
  <2>. SUFFICES ASSUME NEW f \in Flushers, flush[f] # <<>>
                PROVE  Len(flush[f]) <= Len(pending') /\ flush[f] = SubSeq(pending', 1, Len(flush[f]))
    BY DEF LogsInv, OneFlush
  <2>1. PICK m \in Nat : m = Len(flush[f])
    BY LinesOf DEF LogsInv, LogsType
  <2>2. m <= Len(pending) /\ flush[f] = SubSeq(pending, 1, m)
    BY <2>1 DEF LogsInv, OneFlush
  <2>3. m <= Len(pending') /\ SubSeq(pending', 1, m) = SubSeq(pending, 1, m)
    <3>1. pending \in Seq(Nat)
      BY DEF LogsInv, LogsType
    <3>2. PICK q : q = Append(pending, n + 1)
      OBVIOUS
    <3>3. m <= Len(q) /\ SubSeq(q, 1, m) = SubSeq(pending, 1, m)
      BY <1>1, <2>2, <3>1, <3>2, PrefixStays, Zenon
    <3>. QED BY <1>1, <2>2, <3>2, <3>3, Zenon
  <2>. QED BY <2>1, <2>2, <2>3
<1>11. NoneLost'
  <2>. SUFFICES ASSUME NEW l \in Written
                PROVE  \/ l \in Lines(rows) \cup Lines(pending)' \cup dropped
                       \/ times[l] <= oldest \/ (l > n + 1 /\ times[l] > after)
                       \/ after # 0 /\ SharesTime(l)
    BY <1>1, <1>2 DEF NoneLost
  <2>1. \/ l \in Lines(rows) \cup Lines(pending) \cup dropped
        \/ times[l] <= oldest \/ (l > n /\ times[l] > after)
        \/ after # 0 /\ SharesTime(l)
    BY <1>0, <1>1 DEF LogsInv, NoneLost
  <2>2. CASE l > n /\ times[l] > after
    <3>1. l \in Nat
      BY TimesOf DEF LogsInv
    <3>2. l = n + 1 \/ l > n + 1
      BY <2>2, <3>1
    <3>. QED BY <1>5, <2>2, <3>2
  <2>. QED BY <1>5, <2>1, <2>2
<1>12. Faultless'
  <2>. SUFFICES ASSUME logFaults = 0
                PROVE  /\ dropped = {} /\ after = 0
                       /\ Lines(rows) \cup Lines(pending)' = 1..(n + 1)
                       /\ container # "removed"
    BY <1>1, <1>2 DEF Faultless
  <2>1. dropped = {} /\ after = 0 /\ Lines(rows) \cup Lines(pending) = 1..n /\ container # "removed"
    BY <1>0 DEF LogsInv, Faultless
  <2>2. times[n + 1] > 0
    BY <1>1 DEF LogsInv, Timed
  <2>3. 1..(n + 1) = (1..n) \cup {n + 1}
    OBVIOUS
  <2>4. {l \in {n + 1} : times[l] > after} = {n + 1}
    BY <2>1, <2>2
  <2>. QED BY <1>5, <2>1, <2>3, <2>4
<1>. QED BY <1>6, <1>7, <1>8, <1>9, <1>10, <1>11, <1>12 DEF LogsInv

LEMMA TakeBatchKeeps ==
    ASSUME LogsInv, NEW f \in Flushers, TakeBatch(f)
    PROVE  LogsInv'
<1>. USE DEF TakeBatch, output, kept
<1>0. PICK p : p = pending
  OBVIOUS
<1>1. p \in Seq(Nat) /\ p # <<>> /\ flush = NoFlush /\ Following
  BY <1>0 DEF LogsInv, LogsType, FlushLock
<1>2. PICK n \in Nat : n = Len(p)
  BY <1>1, LinesOf
<1>3. PICK m \in Nat : m = Lower(FlushLines, n) /\ m <= n
  BY LogsAssumption DEF Lower
<1>4. PICK b : b = SubSeq(p, 1, m)
  OBVIOUS
<1>5. b \in Seq(Nat) /\ Len(b) = m
  BY <1>1, <1>2, <1>3, <1>4
<1>6. flush' = [flush EXCEPT ![f] = b]
  BY <1>0, <1>2, <1>3, <1>4
<1>7. LogsType'
  BY <1>5, <1>6 DEF LogsInv, LogsType
<1>8. /\ Written' = Written /\ LastTime' = LastTime /\ (Following' <=> Following)
      /\ Lines(rows)' = Lines(rows) /\ Lines(pending)' = Lines(pending)
      /\ \A l : SharesTime(l)' <=> SharesTime(l)
  BY DEF Written, LastTime, Following, Lines, SharesTime
<1>9. Timed'
  BY <1>8 DEF LogsInv, Timed
<1>10. InOrder'
  <2>1. OnceBut(rows, resent)' /\ Ascending(pending)'
    BY DEF LogsInv, InOrder, OnceBut, Ascending
  <2>. QED BY <1>8, <2>1 DEF LogsInv, InOrder, UpTo, HasLast
<1>11. Position'
  BY <1>1, <1>8 DEF LogsInv, Position
<1>12. NoneLost'
  BY <1>1, <1>8 DEF LogsInv, NoneLost
<1>13. Faultless'
  BY <1>8 DEF LogsInv, Faultless
<1>14. OneFlush'
  <2>1. \A g \in Flushers : g # f => flush'[g] = <<>>
    BY <1>1, <1>6 DEF NoFlush
  <2>2. flush'[f] = b
    BY <1>6 DEF LogsInv, LogsType
  <2>3. Len(b) <= Len(pending) /\ b = SubSeq(pending, 1, Len(b))
    BY <1>0, <1>2, <1>3, <1>4, <1>5
  <2>. QED BY <2>1, <2>2, <2>3 DEF OneFlush
<1>. QED BY <1>7, <1>9, <1>10, <1>11, <1>12, <1>13, <1>14 DEF LogsInv

\* The flush under way is the only one, of the head of the buffer.
LEMMA Flushing ==
    ASSUME LogsInv, NEW f \in Flushers, flush[f] # <<>>
    PROVE  /\ Following /\ [flush EXCEPT ![f] = <<>>] = NoFlush
           /\ Len(flush[f]) \in 0..Len(pending)
           /\ flush[f] = SubSeq(pending, 1, Len(flush[f]))
<1>1. Following
  BY DEF LogsInv, Position, NoFlush
<1>2. [flush EXCEPT ![f] = <<>>] = NoFlush
  BY DEF LogsInv, LogsType, OneFlush, NoFlush
<1>3. flush[f] \in Seq(Nat)
  BY DEF LogsInv, LogsType
<1>4. Len(flush[f]) \in Nat /\ Len(pending) \in Nat
  BY <1>3, LinesOf DEF LogsInv, LogsType
<1>. QED BY <1>1, <1>2, <1>4 DEF LogsInv, OneFlush

\* A batch stored, whether its lines are known to be (A): what the rows are.
LEMMA BatchStored ==
    ASSUME LogsInv, NEW b \in Seq(Nat), NEW r \in Seq(Nat), NEW A,
           Lines(b) \cup Lines(r) = Lines(pending), Below(Lines(b), Lines(r)), Ascending(b),
           resent \subseteq A, NEW t, t = rows \o b
    PROVE  /\ t \in Seq(Nat) /\ Lines(t) = Lines(rows) \cup Lines(b) /\ OnceBut(t, A)
           /\ Lines(t) \subseteq Written /\ HasLast(Lines(t))
           /\ \A l \in Lines(r) : l \in Lines(t) => l \in resent
           /\ \A l \in Lines(r) : l \in Lines(t) \/ \A x \in Lines(t) : x < l
           /\ Lines(b) \subseteq Nat
           /\ Following => \A x \in Lines(t) : x <= follower.read \/ times[x] <= after
<1>1. rows \in Seq(Nat) /\ OnceBut(rows, A) /\ Lines(rows) \subseteq Written
  BY DEF LogsInv, LogsType, InOrder, OnceBut
<1>2. \A x \in Lines(b) : x \in Lines(rows) => x \in A
  BY DEF LogsInv, InOrder
<1>3. t \in Seq(Nat) /\ Lines(t) = Lines(rows) \cup Lines(b) /\ OnceBut(t, A)
  BY <1>1, <1>2, LinesStored
<1>4. follower.read <= Len(times) /\ follower.read \in Nat /\ Len(times) \in Nat
  BY Followed, TimesOf DEF LogsInv, Position
<1>5. \A x \in Lines(b) : x \in Written /\ x <= follower.read /\ x \in Nat
  BY <1>4 DEF LogsInv, InOrder, UpTo, Written
<1>6. HasLast(Lines(t))
  <2>1. HasLast(Lines(b)) /\ HasLast(Lines(rows))
    BY LastOfAscending DEF LogsInv, InOrder
  <2>2. Lines(b) \in SUBSET Nat /\ Lines(rows) \in SUBSET Nat
    BY <1>1, LinesOf
  <2>. QED BY <1>3, <2>1, <2>2, LastOfBoth
<1>7. ASSUME NEW l \in Lines(r)
      PROVE  /\ l \in Lines(t) => l \in resent
             /\ l \in Lines(t) \/ \A x \in Lines(t) : x < l
  <2>1. l \in Lines(pending) /\ l \in Nat /\ \A x \in Lines(b) : x < l
    BY LinesOf DEF Below
  <2>2. l \notin Lines(b)
    BY <2>1
  <2>. QED BY <1>3, <2>1, <2>2 DEF LogsInv, InOrder
<1>8. Following => \A x \in Lines(t) : x <= follower.read \/ times[x] <= after
  BY <1>3, <1>5 DEF LogsInv, Position
<1>. QED BY <1>1, <1>3, <1>5, <1>6, <1>7, <1>8

LEMMA AppendBatchKeeps ==
    ASSUME LogsInv, NEW f \in Flushers, AppendBatch(f)
    PROVE  LogsInv'
<1>. USE DEF AppendBatch, output, kept
<1>0. PICK p : p = pending
  OBVIOUS
<1>1. p \in Seq(Nat) /\ Ascending(p)
  BY <1>0 DEF LogsInv, LogsType, InOrder
<1>2. PICK n \in Nat : Len(p) = n
  BY <1>1, LinesOf
<1>3. PICK m \in 0..n : m = Len(flush[f])
  BY <1>0, <1>2, Flushing
<1>4. PICK b : SubSeq(p, 1, m) = b
  OBVIOUS
<1>5. PICK r : SubSeq(p, m + 1, n) = r
  OBVIOUS
<1>6. /\ b \in Seq(Nat) /\ r \in Seq(Nat) /\ Lines(b) \cup Lines(r) = Lines(p)
      /\ Below(Lines(b), Lines(r)) /\ Ascending(b) /\ Ascending(r)
  <2>1. m \in 0..Len(p)
    BY <1>2
  <2>2. b = SubSeq(p, 1, m) /\ r = SubSeq(p, m + 1, Len(p))
    BY <1>2, <1>4, <1>5, Zenon
  <2>. QED BY <1>1, <2>1, <2>2, LinesSplit, Zenon
<1>7. flush[f] = b /\ Following /\ flush' = NoFlush
  BY <1>0, <1>3, <1>4, Flushing
<1>8. PICK t : t = rows \o b
  OBVIOUS
<1>10. /\ t \in Seq(Nat) /\ Lines(t) = Lines(rows) \cup Lines(b) /\ OnceBut(t, resent)
       /\ Lines(t) \subseteq Written /\ HasLast(Lines(t))
       /\ \A l \in Lines(r) : l \in Lines(t) => l \in resent
       /\ \A l \in Lines(r) : l \in Lines(t) \/ \A x \in Lines(t) : x < l
       /\ Following => \A x \in Lines(t) : x <= follower.read \/ times[x] <= after
  BY <1>0, <1>6, <1>8, BatchStored
<1>11. rows' = t /\ pending' = r
  BY <1>0, <1>2, <1>3, <1>5, <1>7, <1>8
<1>12. /\ Lines(rows)' = Lines(t) /\ Lines(pending)' = Lines(r) /\ Ascending(pending)'
       /\ OnceBut(rows, resent)'
  BY <1>6, <1>10, <1>11 DEF Lines, Ascending, OnceBut
<1>13. Written' = Written /\ LastTime' = LastTime /\ (Following' <=> Following)
  BY DEF Written, LastTime, Following
<1>17. LogsType'
  BY <1>6, <1>7, <1>10, <1>11, NoLines DEF LogsInv, LogsType, NoFlush
<1>18. InOrder'
  <2>1. UpTo(Lines(r), follower.read)
    BY <1>0, <1>6 DEF LogsInv, InOrder, UpTo
  <2>. QED BY <1>10, <1>12, <1>13, <2>1 DEF InOrder, UpTo, HasLast
<1>19. Position'
  <2>1. \A x \in Lines(rows) : x \in Lines(t)
    BY <1>10
  <2>. QED BY <1>7, <1>10, <1>12, <1>13, <2>1 DEF LogsInv, Position
<1>20. OneFlush'
  BY <1>7 DEF OneFlush, NoFlush
<1>21. NoneLost'
  <2>1. \A l : SharesTime(l) => SharesTime(l)'
    BY <1>10, <1>12 DEF SharesTime
  <2>. SUFFICES ASSUME container # "removed", NEW l \in Written
                PROVE  \/ l \in Lines(t) \cup Lines(r) \cup dropped
                       \/ times[l] <= oldest \/ (l > follower.read /\ times[l] > after)
                       \/ after # 0 /\ SharesTime(l)'
    BY <1>7, <1>12, <1>13 DEF NoneLost
  <2>2. \/ l \in Lines(rows) \cup Lines(p) \cup dropped
        \/ times[l] <= oldest \/ (l > follower.read /\ times[l] > after)
        \/ after # 0 /\ SharesTime(l)
    BY <1>0, <1>7 DEF LogsInv, NoneLost
  <2>. QED BY <1>6, <1>10, <2>1, <2>2
<1>22. Faultless'
  BY <1>0, <1>6, <1>10, <1>12 DEF LogsInv, Faultless
<1>23. Timed'
  BY <1>13 DEF LogsInv, Timed
<1>. QED BY <1>17, <1>18, <1>19, <1>20, <1>21, <1>22, <1>23 DEF LogsInv

\* A failed batch stays, stored or not; what no longer fits is given up.
LEMMA AppendFailsKeeps ==
    ASSUME LogsInv, NEW f \in Flushers, AppendFails(f)
    PROVE  LogsInv'
<1>. USE DEF AppendFails, output, kept
<1>0. PICK p : p = pending
  OBVIOUS
<1>1. p \in Seq(Nat) /\ Ascending(p)
  BY <1>0 DEF LogsInv, LogsType, InOrder
<1>2. PICK n \in Nat : Len(p) = n
  BY <1>1, LinesOf
<1>3. BufferMax \in Nat
  BY LogsAssumption
<1>4. PICK k \in 0..n : k = Largest({0, n - BufferMax}) /\ (n - BufferMax > 0 => k = n - BufferMax)
                        /\ (~(n - BufferMax > 0) => k = 0)
  <2>1. PICK d \in Int : d = n - BufferMax /\ d <= n
    BY <1>3
  <2>2. Largest({0, d}) \in {0, d} /\ Largest({0, d}) >= 0 /\ Largest({0, d}) >= d
    <3>1. 0 \in Int
      OBVIOUS
    <3>. QED BY <3>1, LargestOfTwo, Zenon
  <2>. QED BY <2>1, <2>2
<1>5. PICK b : SubSeq(p, 1, k) = b
  OBVIOUS
<1>6. PICK r : SubSeq(p, k + 1, n) = r
  OBVIOUS
<1>7. /\ b \in Seq(Nat) /\ r \in Seq(Nat) /\ Lines(b) \cup Lines(r) = Lines(p) /\ Ascending(r)
  <2>1. k \in 0..Len(p)
    BY <1>2
  <2>2. b = SubSeq(p, 1, k) /\ r = SubSeq(p, k + 1, Len(p))
    BY <1>2, <1>5, <1>6, Zenon
  <2>. QED BY <1>1, <2>1, <2>2, LinesSplit, Zenon
<1>8. pending' = r
  BY <1>0, <1>2, <1>4, <1>6 DEF Remaining
<1>9. Following /\ flush' = NoFlush
  BY Flushing
<1>10. SubSeq(p, 1, n - BufferMax) = b
  <2>1. CASE n - BufferMax > 0
    BY <2>1, <1>4, <1>5
  <2>2. CASE ~(n - BufferMax > 0)
    <3>1. k = 0
      BY <2>2, <1>4
    <3>2. SubSeq(p, 1, n - BufferMax) = <<>> /\ SubSeq(p, 1, 0) = <<>>
      BY <1>3, <2>2
    <3>. QED BY <3>1, <3>2, <1>5
  <2>. QED BY <2>1, <2>2
<1>11. dropped' = dropped \cup Lines(b)
  BY <1>0, <1>2, <1>10
\* What the rows are: as they were, or with the batch.
<1>12. PICK t, A : /\ t = rows' /\ A = resent' /\ t \in Seq(Nat) /\ A \in SUBSET Nat
                   /\ resent \subseteq A /\ OnceBut(t, A) /\ Lines(rows) \subseteq Lines(t)
                   /\ Lines(t) \subseteq Written /\ HasLast(Lines(t))
                   /\ \A l \in Lines(p) : l \in Lines(t) => l \in A
                   /\ \A l \in Lines(p) : l \in Lines(t) \/ \A x \in Lines(t) : x < l
                   /\ \A x \in Lines(t) : x <= follower.read \/ times[x] <= after
  <2>1. CASE rows' = rows /\ resent' = resent
    BY <1>0, <1>9, <2>1, Zenon DEF LogsInv, LogsType, InOrder, Position
  <2>2. CASE rows' = rows \o flush[f] /\ resent' = resent \cup Lines(flush[f])
    <3>1. PICK m \in 0..n : m = Len(flush[f])
      BY <1>0, <1>2, Flushing
    <3>2. PICK c : SubSeq(p, 1, m) = c
      OBVIOUS
    <3>3. PICK q : SubSeq(p, m + 1, n) = q
      OBVIOUS
    <3>4. /\ c \in Seq(Nat) /\ q \in Seq(Nat) /\ Lines(c) \cup Lines(q) = Lines(p)
          /\ Below(Lines(c), Lines(q)) /\ Ascending(c)
      <4>1. m \in 0..Len(p)
        BY <1>2
      <4>2. c = SubSeq(p, 1, m) /\ q = SubSeq(p, m + 1, Len(p))
        BY <1>2, <3>2, <3>3, Zenon
      <4>. QED BY <1>1, <4>1, <4>2, LinesSplit, Zenon
    <3>5. flush[f] = c
      BY <1>0, <3>1, <3>2, Flushing
    <3>6. PICK t : t = rows \o c
      OBVIOUS
    <3>7. PICK A : A = resent \cup Lines(c)
      OBVIOUS
    <3>8. /\ t \in Seq(Nat) /\ Lines(t) = Lines(rows) \cup Lines(c) /\ OnceBut(t, A)
          /\ Lines(t) \subseteq Written /\ HasLast(Lines(t))
          /\ \A l \in Lines(q) : l \in Lines(t) => l \in resent
          /\ \A l \in Lines(q) : l \in Lines(t) \/ \A x \in Lines(t) : x < l
          /\ Lines(c) \subseteq Nat
          /\ Following => \A x \in Lines(t) : x <= follower.read \/ times[x] <= after
      <4>1. resent \subseteq A
        BY <3>7
      <4>. QED BY <1>0, <3>4, <3>6, <4>1, BatchStored
    <3>9. A \in SUBSET Nat
      BY <3>7, <3>8 DEF LogsInv, LogsType
    <3>10. ASSUME NEW l \in Lines(p)
           PROVE  /\ l \in Lines(t) => l \in A
                  /\ l \in Lines(t) \/ \A x \in Lines(t) : x < l
      BY <3>4, <3>7, <3>8
    <3>11. rows' = t /\ resent' = A
      BY <2>2, <3>5, <3>6, <3>7
    <3>12. resent \subseteq A /\ Lines(rows) \subseteq Lines(t)
      BY <3>7, <3>8
    <3>. QED BY <1>9, <3>8, <3>9, <3>10, <3>11, <3>12
  <2>. QED BY <2>1, <2>2
<1>13. /\ Written' = Written /\ LastTime' = LastTime /\ (Following' <=> Following)
       /\ Lines(rows)' = Lines(t) /\ Lines(pending)' = Lines(r) /\ Ascending(pending)'
       /\ OnceBut(rows, resent)'
  BY <1>7, <1>8, <1>12 DEF Written, LastTime, Following, Lines, Ascending, OnceBut
<1>15. LogsType'
  <2>1. Lines(b) \subseteq Nat
    BY <1>7, LinesOf
  <2>2. flush' \in [Flushers -> Seq(Nat)] /\ pending' \in Seq(Nat) /\ dropped' \in SUBSET Nat
    BY <2>1, <1>7, <1>8, <1>9, <1>11, NoLines DEF LogsInv, LogsType, NoFlush
  <2>. QED BY <1>12, <2>2 DEF LogsInv, LogsType
<1>16. InOrder'
  <2>1. UpTo(Lines(r), follower.read)
    BY <1>0, <1>7 DEF LogsInv, InOrder, UpTo
  <2>2. \A l \in Lines(r) : l \in Lines(p)
    BY <1>7
  <2>. QED BY <1>12, <1>13, <2>1, <2>2 DEF InOrder, UpTo, HasLast
<1>17. Position'
  BY <1>9, <1>12, <1>13 DEF LogsInv, Position
<1>18. OneFlush'
  BY <1>9 DEF OneFlush, NoFlush
<1>19. NoneLost'
  <2>1. \A l : SharesTime(l) => SharesTime(l)'
    BY <1>12, <1>13 DEF SharesTime
  <2>. SUFFICES ASSUME container # "removed", NEW l \in Written
                PROVE  \/ l \in Lines(t) \cup Lines(r) \cup dropped'
                       \/ times[l] <= oldest \/ (l > follower.read /\ times[l] > after)
                       \/ after # 0 /\ SharesTime(l)'
    BY <1>9, <1>13 DEF NoneLost
  <2>2. \/ l \in Lines(rows) \cup Lines(p) \cup dropped
        \/ times[l] <= oldest \/ (l > follower.read /\ times[l] > after)
        \/ after # 0 /\ SharesTime(l)
    BY <1>0, <1>9 DEF LogsInv, NoneLost
  <2>. QED BY <1>7, <1>11, <1>12, <2>1, <2>2
<1>20. Faultless'
  BY DEF Faultless, LogsInv, LogsType
<1>21. Timed'
  BY <1>13 DEF LogsInv, Timed
<1>. QED BY <1>15, <1>16, <1>17, <1>18, <1>19, <1>20, <1>21 DEF LogsInv

\* The follower stops following: at the end, or with the server.
LEMMA NoFollower ==
    ASSUME LogsInv, UNCHANGED <<times, rows, resent, oldest, purged, after, dropped, container>>,
           NEW s \in {"done", "down", "off"}, follower' = [follower EXCEPT !.state = s],
           pending' = <<>>, flush' = NoFlush, logFaults' \in Nat
    PROVE  /\ LogsType' /\ Timed' /\ InOrder' /\ OneFlush'
           /\ s # "done" => Position'
           /\ follower'.state = s /\ follower'.read = follower.read /\ ~Following'
           /\ Written' = Written /\ LastTime' = LastTime
           /\ Lines(rows)' = Lines(rows) /\ Lines(pending)' = {} /\ LastLoggedAt' = LastLoggedAt
           /\ \A l : SharesTime(l)' <=> SharesTime(l)
<1>0. PICK n \in Nat : n = follower.read
  BY Followed DEF LogsInv
<1>1. follower' = [state |-> s, read |-> n] /\ follower'.state = s /\ follower'.read = n /\ ~Following'
  <2>1. follower' = [state |-> s, read |-> n]
    BY <1>0, Followed DEF LogsInv
  <2>2. follower'.state = s /\ follower'.read = n
    <3>1. [state |-> s, read |-> n].state = s /\ [state |-> s, read |-> n].read = n
      OBVIOUS
    <3>. QED BY <2>1, <3>1, Zenon
  <2>3. ~Following'
    BY <2>2, Zenon DEF Following
  <2>. QED BY <2>1, <2>2, <2>3
<1>2. /\ Written' = Written /\ LastTime' = LastTime
      /\ Lines(rows)' = Lines(rows) /\ Lines(pending)' = {} /\ Ascending(pending)'
      /\ \A l : SharesTime(l)' <=> SharesTime(l)
  <2>1. Lines(pending)' = Lines(<<>>) /\ (Ascending(pending)' <=> Ascending(<<>>))
    BY DEF Lines, Ascending
  <2>. QED BY <2>1, NoLines DEF Written, LastTime, Lines, SharesTime
<1>3. LastLoggedAt' = LastLoggedAt
  BY <1>2 DEF LastLoggedAt, Largest
<1>4. LogsType'
  <2>1. flush' \in [Flushers -> Seq(Nat)] /\ pending' \in Seq(Nat)
    BY NoLines DEF NoFlush
  <2>2. follower' \in Followers
    BY <1>1 DEF Followers
  <2>. QED BY <2>1, <2>2 DEF LogsInv, LogsType
<1>5. Timed'
  BY <1>2 DEF LogsInv, Timed
<1>6. InOrder'
  <2>1. OnceBut(rows, resent)'
    BY DEF LogsInv, InOrder, OnceBut
  <2>. QED BY <1>0, <1>1, <1>2, <2>1 DEF LogsInv, InOrder, UpTo, HasLast
<1>7. OneFlush'
  BY DEF OneFlush, NoFlush
<1>8. s # "done" => Position'
  BY <1>0, <1>1, <1>2 DEF LogsInv, Position, NoFlush
<1>. QED BY <1>0, <1>1, <1>2, <1>3, <1>4, <1>5, <1>6, <1>7, <1>8

LEMMA FollowerEndsKeeps == ASSUME LogsInv, FollowerEnds PROVE LogsInv'
<1>. USE DEF FollowerEnds, output, kept
<1>0. PICK n \in Nat : n = follower.read /\ Len(times) \in Nat
  BY Followed, TimesOf DEF LogsInv
<1>1. /\ Following /\ pending = <<>> /\ flush = NoFlush /\ logFaults \in Nat
      /\ container # "running" /\ (container # "removed" => n = Len(times))
      /\ logFaults = 0 => container # "removed"
  BY <1>0 DEF LogsInv, LogsType, AllRead, Faultless, Following
<1>2. /\ LogsType' /\ Timed' /\ InOrder' /\ OneFlush'
      /\ follower'.state = "done" /\ follower'.read = n /\ ~Following'
      /\ Written' = Written /\ LastTime' = LastTime
      /\ Lines(rows)' = Lines(rows) /\ Lines(pending)' = {}
      /\ \A l : SharesTime(l)' <=> SharesTime(l)
  BY <1>0, <1>1, NoFollower
<1>3. Position'
  BY <1>0, <1>1, <1>2 DEF LogsInv, Position, NoFlush
<1>4. Lines(pending) = {}
  BY <1>1, NoLines
<1>5. NoneLost'
  <2>. SUFFICES ASSUME container # "removed", NEW l \in Written
                PROVE  \/ l \in Lines(rows) \cup dropped \/ times[l] <= oldest
                       \/ after # 0 /\ SharesTime(l)
    BY <1>2 DEF NoneLost
  <2>1. \/ l \in Lines(rows) \cup dropped \/ times[l] <= oldest \/ l > n
        \/ after # 0 /\ SharesTime(l)
    BY <1>0, <1>1, <1>4 DEF LogsInv, NoneLost
  <2>2. l <= n
    BY <1>0, <1>1 DEF Written
  <2>3. l \in Nat
    BY TimesOf DEF LogsInv
  <2>. QED BY <2>1, <2>2, <2>3
<1>6. Faultless'
  BY <1>0, <1>1, <1>2, <1>4 DEF LogsInv, Faultless
<1>. QED BY <1>2, <1>3, <1>5, <1>6 DEF LogsInv

\* What is lost with the server was written no earlier than the last row.
LEMMA LogServerDownKeeps == ASSUME LogsInv, LogServerDown PROVE LogsInv'
<1>. USE DEF LogServerDown, output, kept
<1>1. /\ LogsType' /\ Timed' /\ InOrder' /\ OneFlush' /\ Position' /\ ~Following'
      /\ Written' = Written /\ Lines(rows)' = Lines(rows) /\ LastLoggedAt' = LastLoggedAt
      /\ \A l : SharesTime(l)' <=> SharesTime(l)
  <2>1. logFaults' \in Nat
    BY DEF LogsInv, LogsType
  <2>. QED BY <2>1, NoFollower
<1>2. /\ LastLoggedAt \in Nat
      /\ LastLoggedAt = 0 \/ \E x \in Lines(rows) : times[x] = LastLoggedAt
  BY LastLogged
<1>3. NoneLost'
  <2>. SUFFICES ASSUME container # "removed", NEW l \in Written
                PROVE  \/ l \in Lines(rows) \cup dropped \/ times[l] <= oldest
                       \/ times[l] >= LastLoggedAt
                       \/ after # 0 /\ SharesTime(l)
    BY <1>1 DEF NoneLost
  <2>0. l \in Nat /\ times[l] \in Nat /\ follower.read \in Nat /\ after \in Nat
    BY TimesOf, Followed DEF LogsInv, LogsType
  <2>1. \/ l \in Lines(rows) \cup Lines(pending) \cup dropped
        \/ times[l] <= oldest
        \/ IF Following THEN l > follower.read /\ times[l] > after ELSE times[l] >= LastLoggedAt
        \/ after # 0 /\ SharesTime(l)
    BY DEF LogsInv, NoneLost
  <2>2. \A x \in Lines(rows) : x \in Written /\ x \in Nat /\ times[x] \in Nat
    BY TimesOf DEF LogsInv, InOrder
  <2>3. ASSUME NEW x \in Lines(rows), times[x] = LastLoggedAt, x <= l PROVE times[l] >= LastLoggedAt
    <3>1. times[x] <= times[l]
      BY <2>2, <2>3 DEF LogsInv, Timed
    <3>. QED BY <1>2, <2>0, <2>3, <3>1
  <2>z. LastLoggedAt = 0 => times[l] >= LastLoggedAt
    <3>1. \A t \in Nat : \A z : z = 0 => t >= z
      OBVIOUS
    <3>. QED BY <2>0, <3>1, Zenon
  <2>4. CASE l \in Lines(pending) /\ l \notin Lines(rows)
    <3>1. \A x \in Lines(rows) : x < l
      BY <2>4 DEF LogsInv, InOrder
    <3>2. \A x \in Lines(rows) : x <= l
      BY <2>0, <2>2, <3>1
    <3>. QED BY <1>2, <2>z, <2>3, <3>2, Zenon
  <2>5. CASE Following /\ l > follower.read /\ times[l] > after
    <3>2. ASSUME NEW x \in Lines(rows), times[x] = LastLoggedAt PROVE times[l] >= LastLoggedAt
      <4>1. x <= follower.read \/ times[x] <= after
        BY <2>5 DEF LogsInv, Position
      <4>2. CASE x <= follower.read
        <5>1. x <= l
          BY <2>0, <2>2, <2>5, <4>2
        <5>. QED BY <2>3, <3>2, <5>1
      <4>3. CASE times[x] <= after
        BY <1>2, <2>0, <2>2, <2>5, <3>2, <4>3
      <4>. QED BY <4>1, <4>2, <4>3
    <3>. QED BY <1>2, <2>z, <3>2, Zenon
  <2>. QED BY <2>1, <2>4, <2>5, Zenon
<1>4. Faultless'
  BY DEF LogsInv, LogsType, Faultless
<1>. QED BY <1>1, <1>3, <1>4 DEF LogsInv

LEMMA ResumeFailsKeeps == ASSUME LogsInv, ResumeFails PROVE LogsInv'
<1>. USE DEF ResumeFails, output, kept
<1>1. ~Following /\ pending = <<>> /\ flush = NoFlush /\ logFaults' \in Nat
  BY DEF LogsInv, LogsType, Position, Following
<1>2. /\ LogsType' /\ Timed' /\ InOrder' /\ OneFlush' /\ Position' /\ ~Following'
      /\ Written' = Written /\ Lines(rows)' = Lines(rows) /\ LastLoggedAt' = LastLoggedAt
      /\ Lines(pending)' = {} /\ \A l : SharesTime(l)' <=> SharesTime(l)
  BY <1>1, NoFollower
<1>3. Lines(pending) = {}
  BY <1>1, NoLines
<1>4. NoneLost'
  BY <1>1, <1>2, <1>3 DEF LogsInv, NoneLost
<1>5. Faultless'
  BY DEF LogsInv, LogsType, Faultless
<1>. QED BY <1>2, <1>4, <1>5 DEF LogsInv

\* A resumed follower passes over what the last row's time covers.
LEMMA ResumeKeeps == ASSUME LogsInv, ResumeLogCollection PROVE LogsInv'
<1>. USE DEF ResumeLogCollection, output, kept
<1>0. PICK k \in Nat : k = ResumeFrom /\ k >= oldest /\ k >= LastLoggedAt /\ k \in {LastLoggedAt, oldest}
  BY LastLogged
<1>1. /\ LastLoggedAt \in Nat /\ \A l \in Lines(rows) : times[l] > purged => times[l] <= LastLoggedAt
      /\ LastLoggedAt = 0 \/ \E x \in Lines(rows) : times[x] = LastLoggedAt
  BY LastLogged
<1>2. follower' = [state |-> "on", read |-> 0] /\ after' = k /\ pending = <<>> /\ flush = NoFlush
  BY <1>0 DEF LogsInv, Position, Following
<1>3. /\ follower'.state = "on" /\ follower'.read = 0 /\ Following' /\ ~Following /\ Lines(pending) = {}
      /\ logFaults # 0
  <2>1. logFaults # 0
    BY DEF LogsInv, Faultless
  <2>. QED BY <1>2, <2>1, NoLines DEF Following
<1>4. /\ Len(times) \in Nat /\ oldest \in Nat /\ purged \in Nat /\ purged <= oldest
      /\ \A l \in Written : times[l] \in Nat /\ times[l] > 0 /\ l \in Nat /\ l > 0
      /\ Lines(rows) \subseteq Written
  <2>1. \A l \in Written : l > 0
    BY TimesOf DEF LogsInv, Written
  <2>. QED BY <2>1, TimesOf DEF LogsInv, LogsType, Position, InOrder, Timed
<1>5. \A x \in Lines(rows) : times[x] <= k
  <2>. SUFFICES ASSUME NEW x \in Lines(rows) PROVE times[x] <= k
    OBVIOUS
  <2>1. times[x] \in Nat
    BY <1>4
  <2>2. CASE times[x] > purged
    <3>1. times[x] <= LastLoggedAt
      BY <1>1, <2>2
    <3>. QED BY <1>0, <1>1, <2>1, <3>1
  <2>3. CASE ~(times[x] > purged)
    BY <1>0, <1>4, <2>1, <2>3
  <2>. QED BY <2>2, <2>3
<1>6. /\ Written' = Written /\ LastTime' = LastTime
      /\ Lines(rows)' = Lines(rows) /\ Lines(pending)' = {}
      /\ \A l : SharesTime(l)' <=> SharesTime(l)
  BY <1>3 DEF Written, LastTime, Lines, SharesTime
<1>7. LogsType'
  BY <1>2 DEF LogsInv, LogsType, Followers
<1>8. Timed'
  BY <1>6 DEF LogsInv, Timed
<1>9. InOrder'
  <2>1. OnceBut(rows, resent)' /\ Ascending(pending)'
    BY DEF LogsInv, InOrder, OnceBut, Ascending
  <2>. QED BY <1>6, <2>1 DEF LogsInv, InOrder, UpTo, HasLast
<1>10. Position'
  <2>1. k = 0 \/ k <= oldest \/ \E x \in Lines(rows) : times[x] = k
    BY <1>0, <1>1, <1>4
  <2>2. purged <= oldest /\ oldest <= LastTime
    BY DEF LogsInv, Position
  <2>. QED BY <1>2, <1>3, <1>4, <1>5, <1>6, <2>1, <2>2 DEF Position
<1>11. OneFlush'
  BY DEF LogsInv, OneFlush
<1>12. NoneLost'
  <2>. SUFFICES ASSUME container # "removed", NEW l \in Written
                PROVE  \/ l \in Lines(rows) \cup Lines(pending) \cup dropped
                       \/ times[l] <= oldest \/ times[l] > k
                       \/ k # 0 /\ SharesTime(l)
    <3>1. \A l \in Written : l > follower'.read
      BY <1>3, <1>4
    <3>. QED BY <1>2, <1>3, <1>6, <3>1 DEF NoneLost
  <2>1. \/ l \in Lines(rows) \cup Lines(pending) \cup dropped
        \/ times[l] <= oldest \/ times[l] >= LastLoggedAt
        \/ after # 0 /\ SharesTime(l)
    BY <1>3 DEF LogsInv, NoneLost
  <2>2. times[l] \in Nat /\ times[l] > 0
    BY <1>4
  <2>3. CASE times[l] >= LastLoggedAt
    <3>1. times[l] > k \/ times[l] <= oldest \/ times[l] = LastLoggedAt
      BY <1>0, <1>1, <1>4, <2>2, <2>3
    <3>2. CASE times[l] = LastLoggedAt
      <4>1. k # 0
        BY <1>0, <2>2, <3>2
      <4>2. SharesTime(l)
        BY <1>1, <2>2, <3>2 DEF SharesTime
      <4>. QED BY <4>1, <4>2
    <3>. QED BY <3>1, <3>2
  <2>4. CASE SharesTime(l)
    <3>1. PICK x \in Lines(rows) : times[x] = times[l]
      BY <2>4 DEF SharesTime
    <3>2. times[x] <= k
      BY <1>5
    <3>3. k # 0
      BY <2>2, <3>1, <3>2
    <3>. QED BY <2>4, <3>3
  <2>. QED BY <2>1, <2>3, <2>4
<1>13. Faultless'
  BY <1>3 DEF LogsInv, Faultless
<1>. QED BY <1>7, <1>8, <1>9, <1>10, <1>11, <1>12, <1>13 DEF LogsInv

LEMMA LogsStep == ASSUME LogsInv, [LogsNext]_logVars PROVE LogsInv'
<1>0. LastTime \in Nat /\ oldest \in Nat /\ purged \in Nat /\ purged <= oldest /\ oldest <= LastTime
      /\ container \in {"running", "stopped", "removed"} /\ logFaults \in Nat
  BY TimesOf DEF LogsInv, LogsType, Position
<1>1. CASE StopContainer \/ RemoveContainer
  BY <1>0, <1>1, OutsideKeeps DEF StopContainer, RemoveContainer, Drained, kept
<1>2. CASE LinesAge
  BY <1>0, <1>2, OutsideKeeps DEF LinesAge, output, LogsInv, Faultless, Following
<1>3. CASE DeleteOlderThan
  BY <1>0, <1>3, OutsideKeeps DEF DeleteOlderThan, output, LogsInv, Faultless, Following
<1>4. CASE UNCHANGED logVars
  BY <1>0, <1>4, OutsideKeeps DEF logVars, LogsInv, Faultless, Following
<1>5. CASE \E f \in Flushers : TakeBatch(f) \/ AppendBatch(f)
  BY <1>5, TakeBatchKeeps, AppendBatchKeeps
<1>6. CASE \E f \in Flushers : AppendFails(f)
  BY <1>6, AppendFailsKeeps
<1>. QED BY <1>1, <1>2, <1>3, <1>4, <1>5, <1>6, WriteLineKeeps, ReadLineKeeps, FollowerEndsKeeps,
            LogServerDownKeeps, ResumeKeeps, ResumeFailsKeeps DEF LogsNext, Collects

LEMMA LogsAlways == LogsSpec => []LogsInv
<1>1. LogsInit => LogsInv
  BY LogsStart
<1>2. LogsInv /\ [LogsNext]_logVars => LogsInv'
  BY LogsStep
<1>. QED BY <1>1, <1>2, PTL DEF LogsSpec

\* A line is stored twice only if an append that had stored it was reported as
\* failed (logs.go:186-198): not by two flushes (logs.go:146), nor by a restart
\* that reads the output again (logs.go:335-344).
THEOREM AlwaysStoredOnce == LogsSpec => []StoredOnce
<1>1. ASSUME LogsInv PROVE StoredOnce
  <2>1. rows \in Seq(Nat) /\ OnceBut(rows, resent)
    BY <1>1 DEF LogsInv, LogsType, InOrder
  <2>2. DOMAIN rows = 1..Len(rows)
    BY <2>1
  <2>. QED BY <2>1, <2>2 DEF StoredOnce, OnceBut
<1>. QED BY <1>1, LogsAlways, PTL

\* While its container is there, a line it wrote is stored, in the buffer, or
\* still to be read (again), but for what a full buffer drops, what retention
\* removes, and what a resumption takes for stored because a stored line has
\* the same time (domain/logs.go:98-100).
THEOREM NoneEverLost == LogsSpec => []NoneLost
<1>1. LogsInv => NoneLost
  BY DEF LogsInv
<1>. QED BY <1>1, LogsAlways, PTL

\* Stopping a container keeps its last lines when the drain is not late
\* (logs.go:296-299).
THEOREM LastLinesAlwaysKept == LogsSpec => []LastLinesKept
<1>1. ASSUME LogsInv PROVE LastLinesKept
  <2>. SUFFICES ASSUME container = "removed", logFaults = 0 PROVE Written = Lines(rows)
    BY DEF LastLinesKept
  <2>1. /\ follower.state = "done" /\ follower.read = Len(times)
        /\ Lines(rows) \cup Lines(pending) = 1..follower.read
    BY <1>1 DEF LogsInv, Faultless
  <2>2. pending = <<>>
    BY <1>1, <2>1 DEF LogsInv, Position, Following
  <2>. QED BY <2>1, <2>2, NoLines DEF Written
<1>. QED BY <1>1, LogsAlways, PTL

(***************************************************************************)
(* Records                                                                 *)
(***************************************************************************)
Entry == [seq : Nat, prev : Int]
RowCounts == [Minutes -> Nat]

\* The state keeps its type.
AuditType == chain \in Seq(Entry) /\ seq \in Nat /\ recording \in [Writers -> Int]
TrafficType == {served, buckets, storing, stored, again, forgotten} \subseteq RowCounts

\* The chain's lock: one transaction at a time holds the latest entry, and it
\* is still the latest.
Recording(w) == recording[w] # -1
OneRecords == \A w, v \in Writers : Recording(w) /\ Recording(v) => w = v
HoldsLatest == \A w \in Writers : Recording(w) => recording[w] = Latest

AuditInv == AuditType /\ OneRecords /\ HoldsLatest /\ VerifyChain
TrafficInv == TrafficType /\ TrafficKept

\* What is recorded last is a number of an entry, or zero.
LEMMA LatestType == ASSUME AuditType PROVE Latest \in Nat
<1>1. CASE chain = <<>>
  BY <1>1 DEF Latest
<1>2. CASE chain # <<>>
  <2>1. chain[Len(chain)] \in Entry
    BY <1>2 DEF AuditType
  <2>. QED BY <1>2, <2>1 DEF Latest, Entry
<1>. QED BY <1>1, <1>2

LEMMA AuditInit == RecordsInit => AuditInv
BY DEF RecordsInit, AuditInv, AuditType, OneRecords, HoldsLatest, VerifyChain, Recording, Entry

\* A transaction begins: nobody else has one, and it reads the latest entry.
LEMMA ReadPreviousAudit ==
    ASSUME AuditInv, NEW w \in Writers, ReadPrevious(w)
    PROVE  AuditInv'
<1>1. Latest \in Nat /\ Latest' = Latest
  BY LatestType DEF AuditInv, ReadPrevious, Latest
<1>2. AuditType'
  BY <1>1 DEF AuditInv, AuditType, ReadPrevious
<1>3. \A v \in Writers : recording'[v] = IF v = w THEN Latest ELSE -1
  BY DEF AuditInv, AuditType, ReadPrevious, ChainLock
<1>4. OneRecords' /\ HoldsLatest'
  BY <1>1, <1>3 DEF OneRecords, HoldsLatest, Recording
<1>5. VerifyChain'
  BY DEF AuditInv, VerifyChain, ReadPrevious
<1>. QED BY <1>2, <1>4, <1>5 DEF AuditInv

\* It commits or is rolled back: the entry names the latest one, and no other
\* transaction has read a previous.
LEMMA InsertAudit ==
    ASSUME AuditInv, NEW w \in Writers, InsertAndCommit(w)
    PROVE  AuditInv'
<1>1. recording[w] = Latest /\ Latest \in Nat
  BY LatestType DEF AuditInv, HoldsLatest, Recording, InsertAndCommit
<1>2. \A v \in Writers : recording'[v] = -1
  BY DEF AuditInv, AuditType, OneRecords, Recording, InsertAndCommit
<1>3. OneRecords' /\ HoldsLatest'
  BY <1>2 DEF OneRecords, HoldsLatest, Recording
<1>4. seq' \in Nat /\ recording' \in [Writers -> Int]
  BY DEF AuditInv, AuditType, InsertAndCommit
<1>5. CASE UNCHANGED chain
  BY <1>3, <1>4, <1>5 DEF AuditInv, AuditType, VerifyChain
<1>6. CASE chain' = Append(chain, [seq |-> seq + 1, prev |-> recording[w]])
  <2>1. [seq |-> seq + 1, prev |-> recording[w]] \in Entry
    BY <1>1 DEF AuditInv, AuditType, Entry
  <2>2. AuditType'
    BY <1>4, <1>6, <2>1 DEF AuditInv, AuditType
  <2>3. /\ Len(chain) \in Nat /\ DOMAIN chain = 1..Len(chain)
        /\ Len(chain') = Len(chain) + 1 /\ DOMAIN chain' = 1..Len(chain')
        /\ \A i \in 1..Len(chain) : chain'[i] = chain[i]
        /\ chain'[Len(chain')].prev = Latest
    BY <1>1, <1>6, <2>1 DEF AuditInv, AuditType
  <2>4. Len(chain) = 0 => Latest = 0
    BY <2>3 DEF Latest, AuditInv, AuditType
  <2>5. Len(chain) # 0 => Latest = chain[Len(chain)].seq
    BY <2>3 DEF Latest, AuditInv, AuditType
  <2>6. ASSUME NEW i \in DOMAIN chain'
        PROVE  chain'[i].prev = IF i = 1 THEN 0 ELSE chain'[i - 1].seq
    <3>1. CASE i \in 1..Len(chain)
      BY <2>3, <3>1 DEF AuditInv, VerifyChain
    <3>2. CASE i = Len(chain')
      BY <2>3, <2>4, <2>5, <3>2
    <3>. QED BY <2>3, <3>1, <3>2
  <2>. QED BY <1>3, <2>2, <2>6 DEF AuditInv, VerifyChain
<1>. QED BY <1>5, <1>6 DEF InsertAndCommit

LEMMA AuditStep == ASSUME AuditInv, [RecordsNext]_recordVars PROVE AuditInv'
<1>1. ASSUME UNCHANGED auditVars PROVE AuditInv'
  BY <1>1 DEF AuditInv, AuditType, OneRecords, HoldsLatest, VerifyChain, Recording, Latest, auditVars
<1>2. ASSUME NEW m \in Minutes, RecordRequest(m) PROVE AuditInv'
  BY <1>1, <1>2 DEF RecordRequest
<1>3. CASE Drain
  BY <1>1, <1>3 DEF Drain
<1>4. CASE AddRequestBuckets
  BY <1>1, <1>4 DEF AddRequestBuckets
<1>5. CASE UNCHANGED recordVars
  BY <1>1, <1>5 DEF recordVars, auditVars
<1>6. CASE RecordsRestart
  BY <1>6 DEF RecordsRestart, AuditInv, AuditType, OneRecords, HoldsLatest, VerifyChain, Recording
<1>. QED BY ReadPreviousAudit, InsertAudit, <1>2, <1>3, <1>4, <1>5, <1>6 DEF RecordsNext

\* The chain verifies, whoever records at once and whichever transactions fail:
\* the advisory lock of Record (audit_repo.go:63-114) is what it rests on.
THEOREM ChainIntactHolds == RecordsSpec => []ChainIntact
<1>1. AuditInv => ChainIntact
  BY DEF AuditInv, ChainIntact
<1>. QED BY AuditInit, AuditStep, <1>1, PTL DEF RecordsSpec

LEMMA TrafficInit == RecordsInit => TrafficInv
BY DEF RecordsInit, TrafficInv, TrafficType, TrafficKept, NoTraffic, RowCounts

LEMMA CountsAdd ==
    ASSUME NEW f \in RowCounts, NEW g \in RowCounts, NEW S
    PROVE  /\ Plus(f, g) \in RowCounts /\ \A m \in Minutes : Plus(f, g)[m] = f[m] + g[m]
           /\ Of(f, S) \in RowCounts
           /\ \A m \in Minutes : Of(f, S)[m] = IF m \in S THEN f[m] ELSE 0
BY DEF RowCounts, Plus, Of

\* Storing takes each row's count or puts it back; what it does both to is
\* counted again.
LEMMA StoredTraffic == ASSUME TrafficInv, AddRequestBuckets PROVE TrafficInv'
<1>1. storing' = NoTraffic /\ NoTraffic \in RowCounts /\ UNCHANGED <<served, forgotten>>
  BY DEF AddRequestBuckets, NoTraffic, RowCounts
<1>2. {served, buckets, storing, stored, again, forgotten} \subseteq RowCounts
  BY DEF TrafficInv, TrafficType
<1>3. CASE stored' = Plus(stored, storing) /\ UNCHANGED <<buckets, again>>
  <2>1. TrafficType'
    BY <1>1, <1>2, <1>3, CountsAdd DEF TrafficType
  <2>2. ASSUME NEW m \in Minutes
        PROVE  stored'[m] + storing'[m] + buckets'[m] + forgotten'[m] = served'[m] + again'[m]
    <3>1. stored'[m] = stored[m] + storing[m] /\ storing'[m] = 0
      BY <1>1, <1>2, <1>3, CountsAdd DEF NoTraffic
    <3>. QED BY <1>1, <1>2, <1>3, <3>1 DEF TrafficInv, TrafficKept, RowCounts
  <2>. QED BY <2>1, <2>2 DEF TrafficInv, TrafficKept
<1>4. ASSUME NEW S \in SUBSET BeingStored, buckets' = PutBack,
             stored' = Plus(stored, Of(storing, S)), again' = Plus(again, Of(storing, S))
      PROVE  TrafficInv'
  <2>1. Of(storing, S) \in RowCounts /\ buckets' \in RowCounts
    <3>1. \A m \in Minutes : buckets[m] + storing[m] \in Nat
      BY <1>2 DEF RowCounts
    <3>2. buckets' \in RowCounts
      BY <1>4, <3>1 DEF PutBack, RowCounts
    <3>3. Of(storing, S) \in RowCounts
      BY <1>2, CountsAdd
    <3>. QED BY <3>2, <3>3
  <2>2. TrafficType'
    <3>1. stored' \in RowCounts /\ again' \in RowCounts
      BY <1>2, <1>4, <2>1, CountsAdd
    <3>. QED BY <1>1, <1>2, <2>1, <3>1 DEF TrafficType
  <2>3. ASSUME NEW m \in Minutes
        PROVE  stored'[m] + storing'[m] + buckets'[m] + forgotten'[m] = served'[m] + again'[m]
    <3>1. /\ stored'[m] = stored[m] + Of(storing, S)[m]
          /\ again'[m] = again[m] + Of(storing, S)[m]
      BY <1>2, <1>4, <2>1, CountsAdd
    <3>2. storing'[m] = 0 /\ buckets'[m] = buckets[m] + storing[m]
      BY <1>1, <1>4 DEF PutBack, NoTraffic
    <3>3. Of(storing, S)[m] \in Nat
      BY <2>1 DEF RowCounts
    <3>4. stored[m] + storing[m] + buckets[m] + forgotten[m] = served[m] + again[m]
      BY DEF TrafficInv, TrafficKept
    <3>5. /\ stored[m] \in Nat /\ storing[m] \in Nat /\ buckets[m] \in Nat
          /\ forgotten[m] \in Nat /\ served[m] \in Nat /\ again[m] \in Nat
      BY <1>2 DEF RowCounts
    <3>6. served'[m] = served[m] /\ forgotten'[m] = forgotten[m]
      BY <1>1
    <3>7. ASSUME NEW s \in Nat, NEW t \in Nat, NEW b \in Nat, NEW f \in Nat, NEW v \in Nat, NEW a \in Nat,
                 NEW x \in Nat, s + t + b + f = v + a
          PROVE  (s + x) + 0 + (b + t) + f = v + (a + x)
      BY <3>7
    <3>8. (stored[m] + Of(storing, S)[m]) + 0 + (buckets[m] + storing[m]) + forgotten[m]
             = served[m] + (again[m] + Of(storing, S)[m])
      BY <3>3, <3>4, <3>5, <3>7
    <3>. QED BY <3>1, <3>2, <3>6, <3>8
  <2>. QED BY <2>2, <2>3 DEF TrafficInv, TrafficKept
<1>. QED BY <1>3, <1>4 DEF AddRequestBuckets

\* A restart forgets what it does not store.
LEMMA RestartTraffic == ASSUME TrafficInv, RecordsRestart PROVE TrafficInv'
<1>. DEFINE rest(S) == Of(storing, Minutes \ S)
<1>1. /\ storing' = NoTraffic /\ buckets' = NoTraffic /\ NoTraffic \in RowCounts
      /\ UNCHANGED <<served, again>>
  BY DEF RecordsRestart, NoTraffic, RowCounts
<1>2. {served, buckets, storing, stored, again, forgotten} \subseteq RowCounts
  BY DEF TrafficInv, TrafficType
<1>3. PICK S \in SUBSET BeingStored :
         /\ stored' = Plus(stored, Of(storing, S))
         /\ forgotten' = Plus(forgotten, Plus(buckets, rest(S)))
  BY DEF RecordsRestart
<1>4. Of(storing, S) \in RowCounts /\ rest(S) \in RowCounts /\ Plus(buckets, rest(S)) \in RowCounts
  BY <1>2, CountsAdd
<1>5. TrafficType'
  <2>1. stored' \in RowCounts /\ forgotten' \in RowCounts
    BY <1>2, <1>3, <1>4, CountsAdd
  <2>. QED BY <1>1, <1>2, <2>1 DEF TrafficType
<1>6. ASSUME NEW m \in Minutes
      PROVE  stored'[m] + storing'[m] + buckets'[m] + forgotten'[m] = served'[m] + again'[m]
  <2>1. stored'[m] = stored[m] + Of(storing, S)[m]
    BY <1>2, <1>3, <1>4, CountsAdd
  <2>2. forgotten'[m] = forgotten[m] + Plus(buckets, rest(S))[m]
    BY <1>2, <1>3, <1>4, CountsAdd
  <2>3. Plus(buckets, rest(S))[m] = buckets[m] + rest(S)[m]
    BY <1>2, <1>4, CountsAdd
  <2>4. Of(storing, S)[m] + rest(S)[m] = storing[m] /\ Of(storing, S)[m] \in Nat /\ rest(S)[m] \in Nat
    <3>1. Of(storing, S)[m] = (IF m \in S THEN storing[m] ELSE 0)
          /\ rest(S)[m] = (IF m \in Minutes \ S THEN storing[m] ELSE 0)
      BY <1>2, CountsAdd
    <3>. QED BY <1>2, <3>1 DEF RowCounts
  <2>5. storing'[m] = 0 /\ buckets'[m] = 0
    BY <1>1 DEF NoTraffic
  <2>6. stored[m] + storing[m] + buckets[m] + forgotten[m] = served[m] + again[m]
    BY DEF TrafficInv, TrafficKept
  <2>7. {stored[m], storing[m], buckets[m], forgotten[m], served[m], again[m]} \subseteq Nat
    BY <1>2 DEF RowCounts
  <2>. HIDE DEF rest
  <2>. QED BY <1>1, <2>1, <2>2, <2>3, <2>4, <2>5, <2>6, <2>7
<1>. QED BY <1>5, <1>6 DEF TrafficInv, TrafficKept

LEMMA TrafficStep == ASSUME TrafficInv, [RecordsNext]_recordVars PROVE TrafficInv'
<1>1. \A m \in Minutes :
         {served[m], buckets[m], storing[m], stored[m], again[m], forgotten[m]} \subseteq Nat
  BY DEF TrafficInv, TrafficType, RowCounts
<1>2. ASSUME UNCHANGED trafficVars PROVE TrafficInv'
  BY <1>2 DEF TrafficInv, TrafficType, TrafficKept, trafficVars
<1>3. ASSUME NEW m \in Minutes, RecordRequest(m) PROVE TrafficInv'
  BY <1>1, <1>3 DEF RecordRequest, TrafficInv, TrafficType, TrafficKept, RowCounts
<1>4. CASE Drain
  BY <1>1, <1>4 DEF Drain, TrafficInv, TrafficType, TrafficKept, RowCounts, NoTraffic
<1>5. ASSUME NEW w \in Writers, ReadPrevious(w) \/ InsertAndCommit(w) PROVE TrafficInv'
  BY <1>2, <1>5 DEF ReadPrevious, InsertAndCommit
<1>6. CASE UNCHANGED recordVars
  BY <1>2, <1>6 DEF recordVars, trafficVars
<1>. QED BY StoredTraffic, RestartTraffic, <1>3, <1>4, <1>5, <1>6 DEF RecordsNext

\* Every request the proxy counted is accounted for: it is stored or in memory
\* once, a restart forgot it, or a store that failed half way stored it and put
\* it back as well, which counts it twice (metrics_service.go:74-98).
THEOREM TrafficKeptHolds == RecordsSpec => []TrafficKept
<1>1. TrafficInv => TrafficKept
  BY DEF TrafficInv
<1>. QED BY TrafficInit, TrafficStep, <1>1, PTL DEF RecordsSpec
==============================================================================
