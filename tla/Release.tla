------------------------------- MODULE Release -------------------------------
(***************************************************************************)
(* What the deployment pipeline promises about the versions of one         *)
(* application, whatever it does to get there: versions are tried one at a *)
(* time; a version is live from the end of its trial; another version is   *)
(* tried only when the one that just went live has replaced the one        *)
(* before; a version that ended never comes back, and one that is parked   *)
(* (suspended) comes back only while nothing newer has been tried.         *)
(***************************************************************************)
EXTENDS Naturals, FiniteSets

CONSTANT Versions   \* tried in increasing order

VARIABLE stage      \* of each version

Stage == {"untried", "trial", "live", "parked", "ended"}
TypeOK == stage \in [Versions -> Stage]

In(s) == {v \in Versions : stage[v] = s}
Move(v, from, to) == stage[v] = from /\ stage' = [stage EXCEPT ![v] = to]

Init == stage = [v \in Versions |-> "untried"]

Try(v) ==
    /\ In("trial") = {} /\ Cardinality(In("live")) <= 1
    /\ \A u \in Versions : u < v => stage[u] # "untried"
    /\ Move(v, "untried", "trial")

GoLive(v) == Move(v, "trial", "live")
Drop(v) == Move(v, "trial", "ended")

\* Replaced, archived, or failed with nothing to go back to.
Withdraw(v) == Move(v, "live", "ended")

\* An owner or an administrator suspends the live version, and resumes it.
Park(v) == Cardinality(In("live")) = 1 /\ Move(v, "live", "parked")

Unpark(v) ==
    /\ In("live") = {} /\ In("trial") = {}
    /\ \A u \in Versions : u > v => stage[u] = "untried"
    /\ Move(v, "parked", "live")

Forget(v) == Move(v, "parked", "ended")

Next == \E v \in Versions :
    Try(v) \/ GoLive(v) \/ Drop(v) \/ Withdraw(v) \/ Park(v) \/ Unpark(v) \/ Forget(v)

Spec == Init /\ [][Next]_stage
=============================================================================
