---------------------------------- MODULE Logs ----------------------------------
(***************************************************************************)
(* Collecting one container's output (runtimeengine/logs.go over           *)
(* log_repo.go) and purging it (retention_service.go).  A line is its      *)
(* place in the output; its time is in microseconds, which lines share.    *)
(* A follower reads lines into a buffer; a ticker, and the follower once   *)
(* the container has stopped, flush it.                                    *)
(***************************************************************************)
EXTENDS Integers, Sequences

CONSTANTS
    FlushLines, BufferMax,  \* logFlushLines, logBufferMax
    MaxLines,               \* bound: lines the container writes
    MaxLogFaults            \* bound: appends and resumptions that fail, restarts, slow drains

\* The last flush is tried five times: it never gives up within the bound.
ASSUME LogsAssumption ==
    /\ {FlushLines, BufferMax, MaxLines} \subseteq Nat \ {0}
    /\ MaxLogFaults \in 0..4

VARIABLES
    container,      \* "running", "stopped", "removed"
    times,          \* when it wrote each line, as Docker stamps it
    rows,           \* application_logs: every line appended, in order
    resent,          \* history: stored by an append that was reported as failed
    oldest, purged, \* lines up to these times are past retention, are deleted
    follower,       \* "on", "done", "down", "off" (not resumed), and the line it has read up to
    after,          \* it passes over lines up to this time
    pending,        \* its buffer
    flush,          \* the batch each flush under way has taken
    dropped,        \* lines given up: the buffer was full
    logFaults

logVars == <<container, times, rows, resent, oldest, purged, follower, after, pending, flush, dropped, logFaults>>
output == <<container, times>>
kept == <<rows, resent, oldest, purged>>

Flushers == {"ticker", "last"}
Following == follower.state = "on"
NoFlush == [f \in Flushers |-> <<>>]
Lines(s) == {s[i] : i \in DOMAIN s}
Largest(S) == CHOOSE n \in S : \A x \in S : x <= n
Lower(a, b) == IF a < b THEN a ELSE b
Written == 1..Len(times)
LastTime == IF times = <<>> THEN 0 ELSE times[Len(times)]

(***************************************************************************)
(* The container                                                           *)
(***************************************************************************)
WriteLine ==
    /\ container = "running" /\ Len(times) < MaxLines
    /\ \E t \in {LastTime, LastTime + 1} \ {0} : times' = Append(times, t)
    /\ UNCHANGED <<container, kept, follower, after, pending, flush, dropped, logFaults>>

StopContainer ==
    /\ container = "running" /\ container' = "stopped"
    /\ UNCHANGED <<times, kept, follower, after, pending, flush, dropped, logFaults>>

\* Bug: the container is removed without waiting for its last lines.
Drained_Always == TRUE

Drained == ~Following

\* Stop removes it once its follower is done, or after stopDrainTimeout.
RemoveContainer ==
    /\ container = "stopped"
    /\ \/ Drained /\ UNCHANGED logFaults
       \/ ~Drained /\ logFaults < MaxLogFaults /\ logFaults' = logFaults + 1
    /\ container' = "removed"
    /\ UNCHANGED <<times, kept, follower, after, pending, flush, dropped>>

(***************************************************************************)
(* The follower and the flushes                                            *)
(***************************************************************************)
ReadLine ==
    /\ Following /\ container # "removed" /\ follower.read < Len(times)
    /\ follower' = [follower EXCEPT !.read = @ + 1]
    /\ pending' = IF times[follower.read + 1] > after
                  THEN Append(pending, follower.read + 1) ELSE pending
    /\ UNCHANGED <<output, kept, after, flush, dropped, logFaults>>

AllRead == container = "removed" \/ (container = "stopped" /\ follower.read = Len(times))

\* Bug: two flushes run at once.
FlushLock_None(f) == flush[f] = <<>>

FlushLock(f) == flush = NoFlush

TakeBatch(f) ==
    /\ Following /\ pending # <<>> /\ FlushLock(f)
    /\ f = "last" => AllRead
    /\ flush' = [flush EXCEPT ![f] = SubSeq(pending, 1, Lower(FlushLines, Len(pending)))]
    /\ UNCHANGED <<output, kept, follower, after, pending, dropped, logFaults>>

AppendBatch(f) ==
    /\ flush[f] # <<>>
    /\ rows' = rows \o flush[f]
    /\ pending' = SubSeq(pending, Len(flush[f]) + 1, Len(pending))
    /\ flush' = [flush EXCEPT ![f] = <<>>]
    /\ UNCHANGED <<output, resent, oldest, purged, follower, after, dropped, logFaults>>

\* Bug: the batch leaves the buffer whether it was stored or not.
Remaining_Sent(f) == SubSeq(pending, Len(flush[f]) + 1, Len(pending))

\* A failed batch stays for the next attempt, but for the oldest beyond BufferMax.
Remaining(f) == SubSeq(pending, Largest({0, Len(pending) - BufferMax}) + 1, Len(pending))

\* An append that ran out of its ten seconds may have stored its batch.
AppendFails(f) ==
    /\ flush[f] # <<>> /\ logFaults < MaxLogFaults /\ logFaults' = logFaults + 1
    /\ pending' = Remaining(f)
    /\ dropped' = dropped \cup Lines(SubSeq(pending, 1, Len(pending) - BufferMax))
    /\ flush' = [flush EXCEPT ![f] = <<>>]
    /\ \/ UNCHANGED <<rows, resent>>
       \/ rows' = rows \o flush[f] /\ resent' = resent \cup Lines(flush[f])
    /\ UNCHANGED <<output, oldest, purged, follower, after>>

FollowerEnds ==
    /\ Following /\ AllRead /\ pending = <<>> /\ flush = NoFlush
    /\ follower' = [follower EXCEPT !.state = "done"]
    /\ UNCHANGED <<output, kept, after, pending, flush, dropped, logFaults>>

(***************************************************************************)
(* Restarts and retention                                                  *)
(***************************************************************************)
LogServerDown ==
    /\ follower.state # "down" /\ container # "removed"
    /\ logFaults < MaxLogFaults /\ logFaults' = logFaults + 1
    /\ follower' = [follower EXCEPT !.state = "down"] /\ pending' = <<>> /\ flush' = NoFlush
    /\ UNCHANGED <<output, kept, after, dropped>>

LastLoggedAt == Largest({0} \cup {t \in {times[l] : l \in Lines(rows)} : t > purged})

ResumeFrom == Largest({LastLoggedAt, oldest})

\* Bug: only running containers are listed.
Resumable_Running == container = "running"

\* Containers that stopped meanwhile included.
Resumable == container # "removed"

\* Docker's Since only spares it lines that it would pass over.
ResumeLogCollection ==
    /\ follower.state = "down" /\ Resumable
    /\ follower' = [state |-> "on", read |-> 0] /\ after' = ResumeFrom
    /\ UNCHANGED <<output, kept, pending, flush, dropped, logFaults>>

\* A start resumes once: what it cannot list, or look up, it leaves.
ResumeFails ==
    /\ follower.state = "down" /\ container # "removed"
    /\ logFaults < MaxLogFaults /\ logFaults' = logFaults + 1
    /\ follower' = [follower EXCEPT !.state = "off"]
    /\ UNCHANGED <<output, kept, after, pending, flush, dropped>>

LinesAge ==
    /\ oldest < LastTime /\ oldest' = oldest + 1
    /\ UNCHANGED <<output, rows, resent, purged, follower, after, pending, flush, dropped, logFaults>>

DeleteOlderThan ==
    /\ purged < oldest /\ purged' = oldest
    /\ UNCHANGED <<output, rows, resent, oldest, follower, after, pending, flush, dropped, logFaults>>

LogsInit ==
    /\ container = "running" /\ times = <<>>
    /\ rows = <<>> /\ resent = {} /\ oldest = 0 /\ purged = 0
    /\ follower = [state |-> "on", read |-> 0] /\ after = 0
    /\ pending = <<>> /\ flush = NoFlush /\ dropped = {}
    /\ logFaults = 0

Collects == ReadLine \/ FollowerEnds \/ ResumeLogCollection
            \/ \E f \in Flushers : TakeBatch(f) \/ AppendBatch(f)

LogsNext ==
    \/ WriteLine \/ StopContainer \/ RemoveContainer \/ Collects
    \/ \E f \in Flushers : AppendFails(f)
    \/ LogServerDown \/ ResumeFails \/ LinesAge \/ DeleteOlderThan

LogsSpec == LogsInit /\ [][LogsNext]_logVars
LogsFairness == WF_logVars(Collects)
LogsFairSpec == LogsSpec /\ LogsFairness

(***************************************************************************)
(* Properties                                                              *)
(***************************************************************************)
\* A line is stored twice only if an append that had stored it was reported
\* as failed, and its batch sent again: not by two flushes (flushMu, "so no
\* batch is sent twice", logs.go:146), nor by a restart that reads the output
\* again from the rows, some of which retention has deleted (logs.go:335-344).
StoredOnce == \A i, j \in DOMAIN rows : rows[i] = rows[j] /\ i # j => rows[i] \in resent

\* While its container is there, no line is lost but what a full buffer drops,
\* what retention removes, and what a resumption takes for stored because it
\* was written in the same microsecond as a stored line (domain/logs.go:98-100):
\* it is stored, or will be read (again).
SharesTime(l) == \E x \in Lines(rows) : times[x] = times[l]
NoneLost ==
    container # "removed" =>
        \A l \in Written :
            \/ l \in Lines(rows) \cup Lines(pending) \cup dropped
            \/ times[l] <= oldest
            \/ IF Following THEN l > follower.read /\ times[l] > after ELSE times[l] >= LastLoggedAt
            \/ after # 0 /\ SharesTime(l)

\* Stopping a container keeps its last lines when the drain is not late
\* (logs.go:296-299).
LastLinesKept ==
    container = "removed" /\ logFaults = 0 => Written = Lines(rows)

\* What a container has written is stored, or given up, in the end: its
\* follower comes to the end of a stopped container's output, one that
\* stopped while platform-api was down included (logs.go:312-318).  A start
\* that fails to resume it leaves it to the next start (main.go:86-87).
OutputStored ==
    []<>(container = "stopped" =>
            \/ follower.state = "done" /\ pending = <<>>
            \/ follower.state = "off")
================================================================================
