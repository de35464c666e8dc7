------------------------------ MODULE LogRing -------------------------------
(***************************************************************************)
(* The fixed-size buffer of recent log lines (state/logbuffer.go).  The    *)
(* array and the index arithmetic are the code's: 0-based, modulo maxSize. *)
(***************************************************************************)
EXTENDS Integers, Sequences

CONSTANTS
    RequestedSize,  \* the sizes NewLogBuffer is called with
    LogEntry,       \* log lines
    MaxLogged       \* bound: lines ever added

ASSUME SizeAssumption == RequestedSize \subseteq Int

VARIABLES entries, maxSize, head, count, logged

logVars == <<entries, maxSize, head, count, logged>>

NoEntry == "none"   \* an array cell not written yet
minLogBufferSize == 1

LogInit ==
    /\ \E n \in RequestedSize :
           maxSize = IF n < minLogBufferSize THEN minLogBufferSize ELSE n
    /\ entries = [i \in 0..(maxSize - 1) |-> NoEntry]
    /\ head = 0
    /\ count = 0
    /\ logged = <<>>

\* Mutant: the write position wraps one cell too late.
AddWrapsLate(e) ==
    /\ Len(logged) < MaxLogged
    /\ entries' = [entries EXCEPT ![head % maxSize] = e]
    /\ head' = (head + 1) % (maxSize + 1)
    /\ count' = IF count < maxSize THEN count + 1 ELSE count
    /\ logged' = Append(logged, e)
    /\ UNCHANGED maxSize

\* Add: write at head, advance it, count up to the size.
Add(e) ==
    /\ Len(logged) < MaxLogged
    /\ entries' = [entries EXCEPT ![head] = e]
    /\ head' = (head + 1) % maxSize
    /\ count' = IF count < maxSize THEN count + 1 ELSE count
    /\ logged' = Append(logged, e)
    /\ UNCHANGED maxSize

\* Snapshot: the newest entry first.
LogSnapshot == [i \in 1..count |-> entries[(head - 1 - (i - 1) + maxSize) % maxSize]]

LogNext == \E e \in LogEntry : Add(e)
LogSpec == LogInit /\ [][LogNext]_logVars

\* What Snapshot returns is the last maxSize lines that were added, newest
\* first, whatever size was asked for and however often Add has wrapped.
SnapshotIsTail ==
    LET n == Len(logged)
        kept == IF n < maxSize THEN n ELSE maxSize
    IN  LogSnapshot = [i \in 1..kept |-> logged[n + 1 - i]]
=============================================================================
