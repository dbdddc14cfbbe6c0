--------------------------------- MODULE Review ---------------------------------
(***************************************************************************)
(* What an approver of one application's deployments is shown and signs:   *)
(* test runs on the platform (testrun_service.go), the report a deployment *)
(* carries, and the signed decision (approval_service.go).                 *)
(*                                                                         *)
(*   testing       reported -> (deployment)       deciding -> applying     *)
(***************************************************************************)
EXTENDS Integers, Sequences, FiniteSets

CONSTANTS
    Owners, Approvers,
    Trees,          \* the sources that are built and tested
    Slots,          \* test runs the host takes at once
    MaxTests, MaxTrees, MaxReviews, \* bounds: test runs, builds, deployments (and signatures)
    MaxReviewFaults \* bound: restarts, writes that fail

ASSUME ReviewAssumption ==
    /\ Owners \cap Approvers = {} /\ "none" \notin Trees
    /\ {Slots, MaxTests, MaxTrees, MaxReviews, MaxReviewFaults} \subseteq Nat

VARIABLES
    built,          \* the source of each succeeded build, the latest last
    tests,          \* test_runs
    review,         \* deployments that wait, or waited, for approval
    signed, fresh,  \* what approvers signed, and what of it is recent enough
    up,             \* platform-api has started
    unwritten,      \* history: runs that a failed write left running
    revJob, reviewFaults

revVars == <<built, tests, review, signed, fresh, up, unwritten, revJob, reviewFaults>>
texts == <<signed, fresh>>

NoRevJob == [pc |-> "idle", test |-> 0, build |-> 0, dep |-> 0, approve |-> FALSE]
InRevJob(w, pc) == up /\ revJob[w].pc = pc
TakesUp(w, j) == up /\ revJob[w] = NoRevJob /\ revJob' = [revJob EXCEPT ![w] = j]
Leaves(w) == revJob' = [revJob EXCEPT ![w] = NoRevJob]
Goes(w, pc) == revJob' = [revJob EXCEPT ![w].pc = pc]
Fault == reviewFaults < MaxReviewFaults /\ reviewFaults' = reviewFaults + 1

(***************************************************************************)
(* Building, and testing what may become a build                           *)
(***************************************************************************)
BuildTree ==
    /\ up /\ Len(built) < MaxTrees
    /\ \E s \in Trees : built' = Append(built, s)
    /\ UNCHANGED <<tests, review, texts, up, unwritten, revJob, reviewFaults>>

RunTests(w) ==
    /\ Cardinality({v \in Owners : InRevJob(v, "testing")}) < Slots
    /\ Len(tests) < MaxTests
    /\ \E s \in Trees : tests' = Append(tests, [source |-> s, status |-> "running"])
    /\ TakesUp(w, [NoRevJob EXCEPT !.pc = "testing", !.test = Len(tests) + 1])
    /\ UNCHANGED <<built, review, texts, up, unwritten, reviewFaults>>

\* The outcome is written with ten seconds to do it in; nobody writes it again.
FinishRun(w) ==
    LET t == revJob[w].test IN
    /\ InRevJob(w, "testing")
    /\ \/ /\ \E s \in {"passed", "failed", "error"} :
                tests' = IF tests[t].status = "running" THEN [tests EXCEPT ![t].status = s] ELSE tests
          /\ UNCHANGED <<unwritten, reviewFaults>>
       \/ Fault /\ unwritten' = unwritten \cup {t} /\ UNCHANGED tests
    /\ Leaves(w)
    /\ UNCHANGED <<built, review, texts, up>>

(***************************************************************************)
(* A deployment and its report: a test run's, or 0 for the requester's own *)
(* words, which are marked as such, or none                                *)
(***************************************************************************)
\* Bug: any passed run's report will do.
SameSource_Any(t) == TRUE

SameSource(t) == tests[t].source = built[Len(built)]

ReportForDeploy(w) ==
    /\ built # <<>>
    /\ \E t \in DOMAIN tests :
          /\ tests[t].status = "passed" /\ SameSource(t)
          /\ TakesUp(w, [NoRevJob EXCEPT !.pc = "reported", !.test = t, !.build = Len(built)])
    /\ UNCHANGED <<built, tests, review, texts, up, unwritten, reviewFaults>>

\* InitiateDeploy takes the latest build there is by now.  "checked" is history:
\* the build the run was compared with.
Deploys(report, checked) ==
    /\ built # <<>>
    /\ IF Len(review) < MaxReviews /\ \A d \in DOMAIN review : review[d].status # "pending"
       THEN review' = Append(review, [build |-> Len(built), report |-> report,
                                      checked |-> checked, status |-> "pending"])
       ELSE UNCHANGED review

DeployForReview(w) ==
    /\ \/ InRevJob(w, "reported") /\ Deploys(revJob[w].test, revJob[w].build)
       \/ TakesUp(w, NoRevJob) /\ Deploys(0, 0)
    /\ Leaves(w)
    /\ UNCHANGED <<built, tests, texts, up, unwritten, reviewFaults>>

(***************************************************************************)
(* The signed decision                                                     *)
(***************************************************************************)
\* Bug: the text names the build and not the deployment.
SignedMessage_Build(d, approve) ==
    [dep |-> 0, build |-> review[d].build, report |-> review[d].report, approve |-> approve]

SignedMessage(d, approve) ==
    [dep |-> d, build |-> review[d].build, report |-> review[d].report, approve |-> approve]

\* An approver reads a request and signs (company-deploy approve).
Sign ==
    /\ \E d \in DOMAIN review, approve \in BOOLEAN :
          LET s == [about |-> d, text |-> SignedMessage(d, approve)] IN
          /\ review[d].status = "pending" /\ s \notin signed /\ Cardinality(signed) < MaxReviews
          /\ signed' = signed \cup {s} /\ fresh' = fresh \cup {s}
    /\ UNCHANGED <<built, tests, review, up, unwritten, revJob, reviewFaults>>

Stale ==
    /\ \E s \in fresh : fresh' = fresh \ {s}
    /\ UNCHANGED <<built, tests, review, signed, up, unwritten, revJob, reviewFaults>>

\* The text is rebuilt from the records; a signature of that text is enough.
DecideSigned(w) ==
    /\ \E d \in DOMAIN review, s \in fresh, approve \in BOOLEAN :
          /\ review[d].status = "pending" /\ s.text = SignedMessage(d, approve)
          /\ TakesUp(w, [NoRevJob EXCEPT !.pc = "deciding", !.dep = d, !.approve = approve])
    /\ UNCHANGED <<built, tests, review, texts, up, unwritten, reviewFaults>>

DecideSignedApproval(w) ==
    /\ InRevJob(w, "deciding")
    /\ IF review[revJob[w].dep].status = "pending" THEN Goes(w, "applying") ELSE Leaves(w)
    /\ UNCHANGED <<built, tests, review, texts, up, unwritten, reviewFaults>>

ApplyDecision(w) ==
    /\ InRevJob(w, "applying")
    /\ review' = [review EXCEPT ![revJob[w].dep].status =
                      IF revJob[w].approve THEN "approved" ELSE "rejected"]
    /\ Leaves(w)
    /\ UNCHANGED <<built, tests, texts, up, unwritten, reviewFaults>>

(***************************************************************************)
(* Restarts                                                                *)
(***************************************************************************)
ReviewRestart ==
    /\ up /\ up' = FALSE /\ Fault
    /\ revJob' = [w \in Owners \cup Approvers |-> NoRevJob]
    /\ UNCHANGED <<built, tests, review, texts, unwritten>>

\* Bug: a start leaves the runs as it finds them.
FailUnfinished_None == tests

FailUnfinished ==
    [t \in DOMAIN tests |-> IF tests[t].status = "running"
                            THEN [tests[t] EXCEPT !.status = "error"] ELSE tests[t]]

\* A start goes on without it, and it is not tried again until the next.
ReviewBoot ==
    /\ ~up /\ up' = TRUE
    /\ \/ tests' = FailUnfinished /\ unwritten' = {} /\ UNCHANGED reviewFaults
       \/ /\ Fault /\ UNCHANGED tests
          /\ unwritten' = {t \in DOMAIN tests : tests[t].status = "running"}
    /\ UNCHANGED <<built, review, texts, revJob>>

ReviewInit ==
    /\ built = <<>> /\ tests = <<>> /\ review = <<>>
    /\ signed = {} /\ fresh = {} /\ up = TRUE /\ unwritten = {}
    /\ revJob = [w \in Owners \cup Approvers |-> NoRevJob]
    /\ reviewFaults = 0

ReviewNext ==
    \/ BuildTree \/ Sign \/ Stale \/ ReviewRestart \/ ReviewBoot
    \/ \E w \in Owners : RunTests(w) \/ FinishRun(w) \/ ReportForDeploy(w) \/ DeployForReview(w)
    \/ \E w \in Approvers : DecideSigned(w) \/ DecideSignedApproval(w) \/ ApplyDecision(w)

ReviewSpec == ReviewInit /\ [][ReviewNext]_revVars
\* A test run is bounded by its timeout, and a start goes on.
ReviewFairness == WF_revVars(ReviewBoot) /\ \A w \in Owners : WF_revVars(FinishRun(w))
ReviewFairSpec == ReviewSpec /\ ReviewFairness

(***************************************************************************)
(* Properties                                                              *)
(***************************************************************************)
\* A deployment is approved only by a signature on that deployment, whatever
\* was signed for an earlier one of the same build and report
\* (approval_service.go:207-211: "only verifies if the approver signed
\* exactly this deployment").
SignedForThis ==
    \A d \in DOMAIN review : review[d].status = "approved" =>
        \E s \in signed : s.about = d /\ s.text.approve

\* A test run ends, the restart that interrupts it included, unless its
\* outcome, or the recovery at startup, could not be written: then it waits for
\* the next start that can (testrun_repo.go:65-66: "nothing finishes them
\* otherwise").
RunsEnd == \A t \in 1..MaxTests :
    []<>(t \in DOMAIN tests => tests[t].status # "running" \/ t \in unwritten)

\* A report of the platform's own, as an approver reads it, is of a run that
\* passed, on the source of the build that was the latest when it was asked
\* for.  That is the build deployed, or an earlier one when another succeeded
\* in between: testrun_service.go:5-8 says it is always "the build being
\* deployed".
ReportIsOfABuild ==
    \A d \in DOMAIN review : review[d].report # 0 =>
        /\ tests[review[d].report].status = "passed"
        /\ 0 < review[d].checked /\ review[d].checked <= review[d].build
        /\ tests[review[d].report].source = built[review[d].checked]
================================================================================
