------------------------------ MODULE BackupDelta ------------------------------
(***************************************************************************)
(* The differential half of a backup (backupdelta/delta.go): Diff writes   *)
(* the instructions that make a dump from the full backup's dump, one line *)
(* or one copy a step, and Apply carries them out.  A dump is the lines    *)
(* SplitAfter makes of it: all but the last end in a newline, and the last *)
(* is Nothing if the dump does.                                            *)
(***************************************************************************)
EXTENDS Integers, Sequences, FiniteSets

CONSTANTS
    Lines,          \* lines that end in a newline
    Tails,          \* what can follow the last newline
    Nothing,        \* the empty line
    MaxLines,       \* bound: newlines in a dump
    MaxCandidates   \* maxCandidates

ASSUME DeltaAssumption ==
    /\ Nothing \in Tails /\ Lines \cap Tails = {}
    /\ MaxLines \in Nat /\ MaxCandidates \in Nat \ {0}

VARIABLES
    base, target,   \* the two dumps
    written,        \* lines of the target Diff is done with
    next,           \* the base line after the last copy
    literal,        \* lines not flushed yet
    delta,          \* the instructions
    applied,        \* instructions Apply has carried out
    out,            \* what it has made
    phase           \* diff, apply, done or refused

deltaVars == <<base, target, written, next, literal, delta, applied, out, phase>>

\* splitLines of every dump within the bound.
SplitLines ==
    {<<>>} \cup {Append(s, e) : s \in UNION {[1..n -> Lines] : n \in 1..MaxLines}, e \in Tails}
           \cup {<<e>> : e \in Tails \ {Nothing}}

\* The bytes those lines are: only a dump's last line can be Nothing.
Bytes(s) == IF s # <<>> /\ s[Len(s)] = Nothing THEN SubSeq(s, 1, Len(s) - 1) ELSE s

(***************************************************************************)
(* Diff                                                                    *)
(***************************************************************************)
Copying(first, count) == [op |-> "C", first |-> first, count |-> count, lines |-> <<>>]
Literally(s) == [op |-> "L", first |-> 0, count |-> 0, lines |-> s]

\* Bug: an instruction is written although nothing is waiting.
Flushed_Always == Append(delta, Literally(literal))

Flushed == IF Bytes(literal) = <<>> THEN delta ELSE Append(delta, Literally(literal))

\* The first MaxCandidates places a line has in the base.
Index(l) == {i \in DOMAIN base :
    base[i] = l /\ Cardinality({k \in 1..(i - 1) : base[k] = l}) < MaxCandidates}

Alike(i, n) ==
    /\ i + n <= Len(base) + 1 /\ written + n <= Len(target)
    /\ \A k \in 0..(n - 1) : base[i + k] = target[written + 1 + k]
Extent(i) == CHOOSE n \in 0..Len(base) : Alike(i, n) /\ ~Alike(i, n + 1)

\* The place after the last copy is tried first, and kept unless another one
\* goes on for longer.
Tried == {i \in {next} \cap DOMAIN base : Alike(i, 1)} \cup Index(target[written + 1])
Longest == {i \in Tried : \A k \in Tried : Extent(k) <= Extent(i)}
Best == IF next \in Longest THEN next ELSE CHOOSE i \in Longest : \A k \in Longest : i <= k

WriteLiteral ==
    /\ phase = "diff" /\ written < Len(target) /\ Tried = {}
    /\ literal' = Append(literal, target[written + 1])
    /\ written' = written + 1
    /\ UNCHANGED <<base, target, next, delta, applied, out, phase>>

WriteCopy ==
    /\ phase = "diff" /\ written < Len(target) /\ Tried # {}
    /\ delta' = Append(Flushed, Copying(Best, Extent(Best)))
    /\ literal' = <<>>
    /\ written' = written + Extent(Best)
    /\ next' = Best + Extent(Best)
    /\ UNCHANGED <<base, target, applied, out, phase>>

DiffEnds ==
    /\ phase = "diff" /\ written = Len(target)
    /\ delta' = Flushed
    /\ literal' = <<>>
    /\ phase' = "apply"
    /\ UNCHANGED <<base, target, written, next, applied, out>>

(***************************************************************************)
(* Apply                                                                   *)
(***************************************************************************)
Refused(d) ==
    \/ d.op = "C" /\ (d.first < 1 \/ d.count <= 0 \/ d.first + d.count > Len(base) + 1)
    \/ d.op = "L" /\ Bytes(d.lines) = <<>>

ApplyNext ==
    /\ phase = "apply" /\ applied < Len(delta)
    /\ LET d == delta[applied + 1] IN
       IF Refused(d) THEN phase' = "refused" /\ UNCHANGED <<applied, out>>
       ELSE /\ out' = out \o Bytes(IF d.op = "C" THEN SubSeq(base, d.first, d.first + d.count - 1)
                                   ELSE d.lines)
            /\ applied' = applied + 1
            /\ UNCHANGED phase
    /\ UNCHANGED <<base, target, written, next, literal, delta>>

ApplyEnds ==
    /\ phase = "apply" /\ applied = Len(delta)
    /\ phase' = "done"
    /\ UNCHANGED <<base, target, written, next, literal, delta, applied, out>>

DeltaInit ==
    /\ base \in SplitLines /\ target \in SplitLines
    /\ written = 0 /\ next = 1
    /\ literal = <<>> /\ delta = <<>>
    /\ applied = 0 /\ out = <<>>
    /\ phase = "diff"

DeltaNext == WriteLiteral \/ WriteCopy \/ DiffEnds \/ ApplyNext \/ ApplyEnds

DeltaSpec == DeltaInit /\ [][DeltaNext]_deltaVars

\* A differential restores to exactly the dump it was made of, with no final
\* newline too many or too few, whatever the full backup it is against
\* (delta.go:62, 107); no instruction Diff writes is one Apply refuses.
DeltaRestores ==
    /\ phase # "refused"
    /\ phase = "done" => out = Bytes(target)
===============================================================================
