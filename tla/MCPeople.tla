-------------------------------- MODULE MCPeople --------------------------------
(***************************************************************************)
(* For TLC: who may do what (sign-in, ownership, the contract, reviews)    *)
(* and what is kept of it (output, alerts, the audit log, traffic); where  *)
(* an address leads.  The parts share no state: a behaviour is one of a    *)
(* part, the others at rest, so that the states of the parts add up where  *)
(* interleaving would multiply them.                                       *)
(***************************************************************************)
EXTENDS SignIn, Ownership, Contract, Review, Logs, Alerts, Records, Addresses

VARIABLE part

peopleVars == <<signInVars, ownerVars, conVars, revVars>>
keptVars == <<logVars, alertVars, recordVars, addressVars>>
mcVars == <<part, peopleVars, keptVars>>

SignInPart(A) ==
    part = "signIn" /\ A /\ UNCHANGED <<part, ownerVars, conVars, revVars, keptVars>>
OwnershipPart(A) ==
    part = "ownership" /\ A /\ UNCHANGED <<part, signInVars, conVars, revVars, keptVars>>
ContractPart(A) ==
    part = "contract" /\ A /\ UNCHANGED <<part, signInVars, ownerVars, revVars, keptVars>>
ReviewPart(A) ==
    part = "review" /\ A /\ UNCHANGED <<part, signInVars, ownerVars, conVars, keptVars>>
LogsPart(A) ==
    part = "logs" /\ A /\ UNCHANGED <<part, peopleVars, alertVars, recordVars, addressVars>>
AlertsPart(A) ==
    part = "alerts" /\ A /\ UNCHANGED <<part, peopleVars, logVars, recordVars, addressVars>>
RecordsPart(A) ==
    part = "records" /\ A /\ UNCHANGED <<part, peopleVars, logVars, alertVars, addressVars>>
AddressesPart(A) ==
    part = "addresses" /\ A /\ UNCHANGED <<part, peopleVars, logVars, alertVars, recordVars>>

MCInit ==
    /\ part \in {"signIn", "ownership", "contract", "review", "logs", "alerts", "records", "addresses"}
    /\ SignInInit /\ OwnershipInit /\ ContractInit /\ ReviewInit
    /\ LogsInit /\ AlertsInit /\ RecordsInit /\ AddressesInit
    /\ part # "signIn" => \A e \in Emails : account[e] = "absent"

MCNext ==
    \/ SignInPart(SignInNext) \/ OwnershipPart(OwnershipNext)
    \/ ContractPart(ContractNext) \/ ReviewPart(ReviewNext)
    \/ LogsPart(LogsNext) \/ AlertsPart(AlertsNext) \/ RecordsPart(RecordsNext)
    \/ AddressesPart(AddressesNext)

\* Each part's own fairness.
MCSpec ==
    /\ MCInit /\ [][MCNext]_mcVars
    /\ SF_mcVars(SignInPart(Polls)) /\ \A w \in Requesters : WF_mcVars(SignInPart(Handles(w)))
    /\ WF_mcVars(ReviewPart(ReviewBoot) \/ LogsPart(Collects) \/ AlertsPart(Sweeping))
    /\ \A w \in Owners : WF_mcVars(ReviewPart(FinishRun(w)) \/ AlertsPart(ReminderDue))
================================================================================
