------------------------------- MODULE Epochs -------------------------------
(***************************************************************************)
(* Epoch numbers of the GcLock (arch/gc_lock.cc).  An epoch is an unsigned *)
(* 32-bit integer that wraps to zero.  The model keeps the wrap and the    *)
(* four quadrants that the two top bits distinguish, and leaves the width  *)
(* open: an epoch ranges over 4 * Quarter values (Quarter = 2^30 in the    *)
(* program).                                                               *)
(***************************************************************************)
EXTENDS Integers

CONSTANT Quarter

ASSUME QuarterAssumption == Quarter \in Nat \ {0}

Modulus == 4 * Quarter

Epoch == 0 .. (Modulus - 1)

\* epoch + 1 and epoch - 1 on uint32_t.
After(e) == IF e = Modulus - 1 THEN 0 ELSE e + 1

Before(e) == IF e = 0 THEN Modulus - 1 ELSE e - 1

\* "a & MASK" with MASK = 3 << (Bits - 2): the two top bits.
Quadrant(e) ==
    IF e < Quarter THEN 0
    ELSE IF e < 2 * Quarter THEN 1
    ELSE IF e < 3 * Quarter THEN 2
    ELSE 3

\* 0 if equal, -1 if a is earlier than b, 1 if a is later.
compareEpochs(a, b) ==
    LET qa == Quadrant(a)
        qb == Quadrant(b)
    IN  IF a = b THEN 0
        ELSE IF qa = qb THEN IF a < b THEN -1 ELSE 1
        ELSE IF qa = 0 THEN IF qb = 3 THEN 1 ELSE -1
        ELSE IF qb = 0 THEN IF qa = 3 THEN -1 ELSE 1
        ELSE IF qa < qb THEN -1 ELSE 1

\* The same bits read as int32_t: the key order of Deferred::entries.
Signed(e) == IF e < 2 * Quarter THEN e ELSE e - Modulus

=============================================================================
