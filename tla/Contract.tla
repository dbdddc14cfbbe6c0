-------------------------------- MODULE Contract --------------------------------
(***************************************************************************)
(* One application's contract (deployment.yaml: validation_service.go) and *)
(* what the company's standard says of its builds (governance_service.go): *)
(* the profile, the libraries not allowed, and the exceptions to them.     *)
(* Editors change the contract and build; Askers ask for exceptions.       *)
(* BuildService and DeployService have the steps of a build and a          *)
(* deployment; here they are the few that read the contract.               *)
(*                                                                         *)
(*   saving | revising | marking                                           *)
(*   starting -> listing -> checking -> compiling                          *)
(*   asking                                                                *)
(***************************************************************************)
EXTENDS Integers, Sequences

CONSTANTS
    Editors, Askers,
    Engines,        \* the databases a contract may declare
    MaxExceptions   \* bound: requests for an exception

ASSUME ContractAssumption == "none" \notin Engines /\ MaxExceptions \in Nat

VARIABLES
    status,         \* the application's lifecycle status
    contract,       \* deployment_yaml_draft
    image,          \* the contract the latest build was made from, if it succeeded
    building,       \* a build is queued or in progress
    data,           \* the database provisioned, with its data
    profile, forbidden,
    exceptions,     \* standard_exceptions for the library, in order
    conJob

conVars == <<status, contract, image, building, data, profile, forbidden, exceptions, conJob>>
contractVars == <<status, contract, image, building, data>>
standardVars == <<profile, forbidden, exceptions>>

NoContract == [valid |-> FALSE, db |-> "none"]
Contracts == [valid : BOOLEAN, db : Engines \cup {"none"}]
Drafting == {"draft", "validated"}
Deployed == {"build", "running", "failed", "suspended", "rolled_back"}

NoConJob == [pc |-> "idle", c |-> NoContract, from |-> "draft", granted |-> FALSE]
InConJob(w, pc) == conJob[w].pc = pc
Asked(w, j) == conJob[w] = NoConJob /\ conJob' = [conJob EXCEPT ![w] = j]
Moves(w, pc) == conJob' = [conJob EXCEPT ![w].pc = pc]
Answered(w) == conJob' = [conJob EXCEPT ![w] = NoConJob]

(***************************************************************************)
(* The contract                                                            *)
(***************************************************************************)
Passes(c) == c.valid

\* Bug: a revision may declare another database, or none.
KeepsDatabase_Any(before, after) == TRUE

KeepsDatabase(before, after) == before.db \in {"none", after.db}

SaveDeploymentYAML(w) ==
    /\ \E c \in Contracts :
          IF status \in Deployed
          THEN /\ KeepsDatabase(contract, c) /\ Passes(c)
               /\ Asked(w, [NoConJob EXCEPT !.pc = "revising", !.c = c])
          ELSE Asked(w, [NoConJob EXCEPT !.pc = "saving", !.c = c])
    /\ UNCHANGED <<contractVars, standardVars>>

UpdateDeploymentYAML(w) ==
    /\ InConJob(w, "saving")
    /\ IF status \in Drafting THEN contract' = conJob[w].c /\ status' = "draft"
       ELSE UNCHANGED <<contract, status>>
    /\ Answered(w)
    /\ UNCHANGED <<image, building, data, standardVars>>

ReviseDeploymentYAML(w) ==
    /\ InConJob(w, "revising")
    /\ contract' = IF status \in Deployed THEN conJob[w].c ELSE contract
    /\ Answered(w)
    /\ UNCHANGED <<status, image, building, data, standardVars>>

Validate(w) ==
    /\ status = "draft" /\ Passes(contract)
    /\ Asked(w, [NoConJob EXCEPT !.pc = "marking"])
    /\ UNCHANGED <<contractVars, standardVars>>

MarkValidated(w) ==
    /\ InConJob(w, "marking")
    /\ status' = IF status = "draft" THEN "validated" ELSE status
    /\ Answered(w)
    /\ UNCHANGED <<contract, image, building, data, standardVars>>

(***************************************************************************)
(* The standard                                                            *)
(***************************************************************************)
PutProfile == profile' = TRUE /\ UNCHANGED <<contractVars, forbidden, exceptions, conJob>>

AddDependencyRule ==
    /\ ~forbidden /\ forbidden' = TRUE
    /\ UNCHANGED <<contractVars, profile, exceptions, conJob>>

RemoveDependencyRule ==
    /\ forbidden /\ forbidden' = FALSE
    /\ UNCHANGED <<contractVars, profile, exceptions, conJob>>

\* What is pending or approved is returned instead of a second request.
RequestException(w) ==
    /\ \A e \in DOMAIN exceptions : exceptions[e] = "rejected"
    /\ Asked(w, [NoConJob EXCEPT !.pc = "asking"])
    /\ UNCHANGED <<contractVars, standardVars>>

CreateException(w) ==
    /\ InConJob(w, "asking") /\ Len(exceptions) < MaxExceptions
    /\ exceptions' = Append(exceptions, "pending")
    /\ Answered(w)
    /\ UNCHANGED <<contractVars, profile, forbidden>>

DecideException ==
    /\ \E e \in DOMAIN exceptions, verdict \in {"approved", "rejected"} :
          exceptions[e] = "pending" /\ exceptions' = [exceptions EXCEPT ![e] = verdict]
    /\ UNCHANGED <<contractVars, profile, forbidden, conJob>>

\* Bug: the newest request answers for the library.
Approved_Newest == exceptions # <<>> /\ exceptions[Len(exceptions)] = "approved"

Approved == \E e \in DOMAIN exceptions : exceptions[e] = "approved"

(***************************************************************************)
(* A build, and a deployment of what was built                             *)
(***************************************************************************)
TriggerBuild(w) ==
    /\ status \in {"validated", "build", "running", "failed"}
    /\ profile /\ ~building
    /\ Asked(w, [pc |-> "starting", c |-> contract, from |-> status,
                 granted |-> \E e \in DOMAIN exceptions : exceptions[e] = "approved"])
    /\ UNCHANGED <<contractVars, standardVars>>

StartBuild(w) ==
    /\ InConJob(w, "starting")
    /\ building' = TRUE
    /\ IF building \/ status # conJob[w].from THEN Answered(w) /\ UNCHANGED status
       ELSE Moves(w, "listing") /\ status' = "build"
    /\ UNCHANGED <<contract, image, data, standardVars>>

\* The source names the library, or doesn't.
ScanDependencies == BOOLEAN

CheckDependencies(named) == named /\ forbidden

ListDependencyRules(w) ==
    /\ InConJob(w, "listing")
    /\ \E named \in ScanDependencies :
          Moves(w, IF CheckDependencies(named) THEN "checking" ELSE "compiling")
    /\ UNCHANGED <<contractVars, standardVars>>

MarkFailed(w) ==
    /\ building' = FALSE
    /\ status' = IF status # "build" THEN status
                 ELSE IF conJob[w].from \in {"running", "build"} THEN conJob[w].from ELSE "failed"
    /\ image' = NoContract
    /\ Answered(w)

SourceFailure(w) ==
    /\ InConJob(w, "checking")
    /\ IF Approved THEN Moves(w, "compiling") /\ UNCHANGED <<building, status, image>>
       ELSE MarkFailed(w)
    /\ UNCHANGED <<contract, data, standardVars>>

\* The check that follows: a source that routes in the hash isn't built.
ScanHashRouting(w) ==
    /\ InConJob(w, "compiling")
    /\ MarkFailed(w)
    /\ UNCHANGED <<contract, data, standardVars>>

FinishBuild(w) ==
    /\ InConJob(w, "compiling")
    /\ \/ MarkFailed(w)
       \/ image' = conJob[w].c /\ building' = FALSE /\ Answered(w) /\ UNCHANGED status
    /\ UNCHANGED <<contract, data, standardVars>>

\* The database is provisioned once, and kept.
DeployContract ==
    /\ status \in {"build", "running", "failed"} /\ ~building /\ image # NoContract
    /\ status' \in {"running", "failed"}
    /\ data' = IF data = "none" THEN contract.db ELSE data
    /\ UNCHANGED <<contract, image, building, standardVars, conJob>>

ContractInit ==
    /\ status = "draft" /\ contract = NoContract /\ image = NoContract
    /\ building = FALSE /\ data = "none"
    /\ profile = FALSE /\ forbidden = FALSE /\ exceptions = <<>>
    /\ conJob = [w \in Editors \cup Askers |-> NoConJob]

ContractNext ==
    \/ \E w \in Editors :
          \/ SaveDeploymentYAML(w) \/ UpdateDeploymentYAML(w) \/ ReviseDeploymentYAML(w)
          \/ Validate(w) \/ MarkValidated(w)
          \/ TriggerBuild(w) \/ StartBuild(w) \/ ListDependencyRules(w)
          \/ SourceFailure(w) \/ ScanHashRouting(w) \/ FinishBuild(w)
    \/ \E w \in Askers : RequestException(w) \/ CreateException(w)
    \/ PutProfile \/ AddDependencyRule \/ RemoveDependencyRule \/ DecideException
    \/ DeployContract

ContractSpec == ContractInit /\ [][ContractNext]_conVars

(***************************************************************************)
(* Properties                                                              *)
(***************************************************************************)
\* With one change at a time, what the platform builds and deploys passed the
\* checks, and a database with data in it stays declared: "the data is in it"
\* (validation_service.go:99-115), through every save, validation, build,
\* failed build, deployment and revision.
ContractSound ==
    /\ status # "draft" => contract.valid /\ data \in {"none", contract.db}
    /\ image # NoContract => image.valid

\* An exception approved before a build began lets the library through,
\* whatever is asked, approved or rejected meanwhile, twice included: two
\* requests at once both find none and both create one
\* (governance_service.go:230-239, 389-414).
ExceptionHonoured ==
    [][\A w \in Editors : InConJob(w, "checking") /\ conJob'[w].pc = "idle"
          => ~conJob[w].granted]_conVars

\* "there is never a stale 'Validated' status sitting on top of an edited
\* contract" (validation_service.go:143-144): Validate checks the contract it
\* read and then only asks that the status is still draft.
ValidatedIsChecked == status = "validated" => contract.valid
================================================================================
