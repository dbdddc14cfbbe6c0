-------------------------------- MODULE Records --------------------------------
(***************************************************************************)
(* Two records every request adds to: the audit log, whose entries chain   *)
(* (audit_repo.go), and the traffic counters (metrics_service.go over      *)
(* metric_repo.go).                                                        *)
(***************************************************************************)
EXTENDS Integers, Sequences, FiniteSets

CONSTANTS
    Writers,            \* requests that record an audit entry
    Minutes,            \* the traffic rows: a service in a minute
    MaxEntries, MaxTraffic,     \* bounds: audit entries, requests per row
    MaxRecordFaults     \* bound: writes that fail, restarts

ASSUME RecordsAssumption == {MaxEntries, MaxTraffic, MaxRecordFaults} \subseteq Nat

VARIABLES
    chain,          \* audit_log by seq: the entry and the one it names as before
    seq,            \* the sequence: it is not given back on a rollback
    recording,      \* what each writer's transaction has read
    served,         \* requests proxied, per row
    buckets,        \* TrafficRecorder, in memory
    storing,        \* what Collect has drained and not stored yet
    stored,         \* request_buckets
    again,          \* history: stored by a store that failed, and put back all the same
    forgotten,      \* history: in memory when the process stopped
    recordFaults

recordVars == <<chain, seq, recording, served, buckets, storing, stored, again, forgotten, recordFaults>>
auditVars == <<chain, seq, recording>>
trafficVars == <<served, buckets, storing, stored, again, forgotten>>

RecordFails == recordFaults < MaxRecordFaults /\ recordFaults' = recordFaults + 1
NoTraffic == [m \in Minutes |-> 0]

(***************************************************************************)
(* The audit log: an entry is committed with the hash of the latest        *)
(***************************************************************************)
\* Bug: the transaction does not take the chain's lock.
ChainLock_None == TRUE

ChainLock == \A w \in Writers : recording[w] = -1

Latest == IF chain = <<>> THEN 0 ELSE chain[Len(chain)].seq

ReadPrevious(w) ==
    /\ recording[w] = -1 /\ ChainLock
    /\ seq < MaxEntries
    /\ recording' = [recording EXCEPT ![w] = Latest]
    /\ UNCHANGED <<chain, seq, trafficVars, recordFaults>>

InsertAndCommit(w) ==
    /\ recording[w] # -1
    /\ seq' = seq + 1
    /\ \/ chain' = Append(chain, [seq |-> seq + 1, prev |-> recording[w]]) /\ UNCHANGED recordFaults
       \/ UNCHANGED chain /\ RecordFails
    /\ recording' = [recording EXCEPT ![w] = -1]
    /\ UNCHANGED trafficVars

VerifyChain == \A i \in DOMAIN chain :
    chain[i].prev = IF i = 1 THEN 0 ELSE chain[i - 1].seq

(***************************************************************************)
(* Traffic                                                                 *)
(***************************************************************************)
RecordRequest(m) ==
    /\ served[m] < MaxTraffic
    /\ served' = [served EXCEPT ![m] = @ + 1]
    /\ buckets' = [buckets EXCEPT ![m] = @ + 1]
    /\ UNCHANGED <<auditVars, storing, stored, again, forgotten, recordFaults>>

Drain ==
    /\ storing = NoTraffic /\ buckets # NoTraffic
    /\ storing' = buckets /\ buckets' = NoTraffic
    /\ UNCHANGED <<auditVars, served, stored, again, forgotten, recordFaults>>

\* Bug: what was drained replaces what has come in since.
PutBack_Replace == [m \in Minutes |-> IF storing[m] # 0 THEN storing[m] ELSE buckets[m]]

PutBack == [m \in Minutes |-> buckets[m] + storing[m]]

BeingStored == {m \in Minutes : storing[m] # 0}
Of(count, S) == [m \in Minutes |-> IF m \in S THEN count[m] ELSE 0]
Plus(count, more) == [m \in Minutes |-> count[m] + more[m]]

\* One row after the other, in no order: a store that fails has done some of
\* them, perhaps the one it failed at too.
AddRequestBuckets ==
    /\ storing # NoTraffic /\ storing' = NoTraffic
    /\ \/ /\ stored' = Plus(stored, storing)
          /\ UNCHANGED <<buckets, again, recordFaults>>
       \/ \E S \in SUBSET BeingStored :
             /\ RecordFails /\ buckets' = PutBack
             /\ stored' = Plus(stored, Of(storing, S)) /\ again' = Plus(again, Of(storing, S))
    /\ UNCHANGED <<auditVars, served, forgotten>>

\* What is in memory goes, a store that is half done with what it has not
\* stored; transactions roll back.
RecordsRestart ==
    /\ RecordFails
    /\ \E S \in SUBSET BeingStored :
          /\ stored' = Plus(stored, Of(storing, S))
          /\ forgotten' = Plus(forgotten, Plus(buckets, Of(storing, Minutes \ S)))
    /\ buckets' = NoTraffic /\ storing' = NoTraffic
    /\ recording' = [w \in Writers |-> -1]
    /\ UNCHANGED <<chain, seq, served, again>>

RecordsInit ==
    /\ chain = <<>> /\ seq = 0 /\ recording = [w \in Writers |-> -1]
    /\ served = NoTraffic /\ buckets = NoTraffic /\ storing = NoTraffic /\ stored = NoTraffic
    /\ again = NoTraffic /\ forgotten = NoTraffic
    /\ recordFaults = 0

RecordsNext ==
    \/ \E w \in Writers : ReadPrevious(w) \/ InsertAndCommit(w)
    \/ \E m \in Minutes : RecordRequest(m)
    \/ Drain \/ AddRequestBuckets \/ RecordsRestart

RecordsSpec == RecordsInit /\ [][RecordsNext]_recordVars

(***************************************************************************)
(* Properties                                                              *)
(***************************************************************************)
\* The chain verifies, whatever requests record at once and whichever of
\* their transactions fail ("silently forking it", audit_repo.go:27-33).
ChainIntact == VerifyChain

\* Every request proxied is counted once, stored or still in memory, but for
\* what a restart forgets (main.go:485-498 stores nothing on the way out) and
\* the rows that a store which failed had written: it puts them back as well,
\* and counts them twice, where metrics_service.go:96-98 says that nothing is.
TrafficKept ==
    \A m \in Minutes : stored[m] + storing[m] + buckets[m] + forgotten[m] = served[m] + again[m]
================================================================================
