------------------------------ MODULE MCGcLock ------------------------------
(***************************************************************************)
(* Instances of GcLock for TLC: which thread makes which calls.            *)
(***************************************************************************)
EXTENDS GcLock, TLC

CONSTANTS t1, t2, t3, t4

\* Every thread reads, defers and reclaims.
CanReclaim == [t \in Threads |-> {"shared", "defer", "deferBarrier"}]

\* One thread uses every kind of guard and runs barriers, the others read and
\* write.
CanGuard == [t \in Threads |->
    IF t = t1 THEN {"shared", "speculative", "exclusive", "visibleBarrier"}
    ELSE {"shared", "exclusive"}]

\* Readers that only read and defer.
CanDefer == [t \in Threads |-> {"shared", "defer"}]

\* Two writers that never read, and readers.
CanWrite == [t \in Threads |-> IF t \in {t1, t2} THEN {"exclusive"} ELSE {"shared"}]

\* A thread that reads and then waits for the readers.
CanWait == [t \in Threads |-> IF t = t1 THEN {"shared", "visibleBarrier"} ELSE {"shared"}]

ThreadSymmetry == Permutations(Threads)
=============================================================================
