-------------------------- MODULE GcLockInvariant ---------------------------
(***************************************************************************)
(* The inductive invariant of GcLock, what compareEpochs, the epoch        *)
(* arithmetic and the operations on the packed word compute for every      *)
(* width, and the proof that every step keeps the types.                   *)
(***************************************************************************)
EXTENDS GcLock, FiniteSetTheorems, TLAPS

-----------------------------------------------------------------------------
(* The inductive invariant.                                                *)

ReadLockOps == {"lockShared", "lockSpeculative"}
ReadUnlockOps == {"unlockShared", "unlockSpeculative", "forceUnlock"}

CheckPCs == {"current.epoch", "current.in", "old.epoch", "old.in", "old2.epoch",
             "old2.in", "visible", "visible-1", "visible-2"}
UpdatePCs == {"bump", "wakeVisible", "runDefers", "runAll", "return"} \cup CheckPCs
DeferPCs == {"defer", "deferInsert", "runInline"}
BarrierPCs == {"barrier", "barrierAgain", "barrierWait", "barrierSleep", "barrierDone"}

\* Inside and outside of a section, as the entry of the thread has it.
Settled(t) ==
    /\ inEpoch[t] = -1 <=> section[t] = -1 /\ writeLocked[t] = 0
    /\ section[t] # -1 => readLocked[t] > 0 /\ writeLocked[t] = 0

\* Where a thread can be in each call, and what its entry says there.
CallInv(t) ==
    /\ section[t] # -1 => inEpoch[t] = section[t] % 2
    /\ op[t] = "none" => pc[t] = "idle" /\ Settled(t)
    /\ pc[t] = "idle" => op[t] = "none"
    /\ op[t] \in ReadLockOps =>
          /\ readLocked[t] = 0 /\ writeLocked[t] = 0
          /\ \/ /\ pc[t] \in {"enter", "enterWait", "enterSleep"}
                /\ section[t] = -1 /\ inEpoch[t] = -1
             \/ pc[t] \in UpdatePCs /\ section[t] # -1
    /\ op[t] \in ReadUnlockOps =>
          /\ readLocked[t] = 0 /\ writeLocked[t] = 0
          /\ \/ /\ pc[t] \in {"exit", "threw"}
                /\ inEpoch[t] = -1 <=> section[t] = -1
             \/ pc[t] \in UpdatePCs /\ section[t] = -1
    /\ op[t] = "defer" => pc[t] \in DeferPCs \cup {"return"} /\ Settled(t)
    /\ op[t] = "visibleBarrier" =>
          pc[t] \in BarrierPCs \cup {"return"} /\ Settled(t)
    /\ op[t] = "deferBarrier" =>
          /\ pc[t] \in BarrierPCs \cup DeferPCs \cup (UpdatePCs \ {"bump", "wakeVisible"})
                        \cup {"dbDec", "dbWait", "dbSleep", "dbNext"}
          /\ Settled(t)
    /\ op[t] = "lockExclusive" =>
          \/ /\ pc[t] \in BarrierPCs \cup {"xenter", "xenterWait", "xenterSleep", "xstore1"}
             /\ section[t] = -1 /\ inEpoch[t] = -1 /\ writeLocked[t] = 0
          \/ pc[t] = "return" /\ Settled(t) /\ writeLocked[t] > 0
    /\ op[t] = "unlockExclusive" =>
          /\ pc[t] \in {"xexit", "xstore0", "xwake", "return"}
          /\ section[t] = -1 /\ writeLocked[t] = 0

\* The speculative guard holds one read lock, except while it is given back.
SpecInv(t) ==
    /\ (specLocked[t] > 0 \/ specUnlocked[t] > 0) =>
          readLocked[t] > 0 \/ op[t] \in {"unlockSpeculative", "forceUnlock"}
    /\ op[t] \in {"unlockSpeculative", "forceUnlock"} => specLocked[t] = 0

\* The thread owns the exclusive bit.
OwnsBit(t) ==
    \/ op[t] = "lockExclusive" /\ pc[t] \in BarrierPCs \cup {"xstore1"}
    \/ writeLocked[t] > 0
    \/ pc[t] = "xexit"

BitInv ==
    /\ \A t \in Threads : OwnsBit(t) => atomic.exclusive
    /\ \A t, u \in Threads : OwnsBit(t) /\ OwnsBit(u) => t = u
    /\ \A t \in Threads :
          op[t] = "lockExclusive" /\ pc[t] \in BarrierPCs \ {"barrier"}
              => start[t] = atomic.epoch
    /\ \A t, u \in Threads : InExclusive(t) => section[u] = -1

\* The thread has set exclusiveFutex and not cleared it again.
SetFutex(t) ==
    \/ op[t] = "lockExclusive" /\ pc[t] \in BarrierPCs
    \/ writeLocked[t] > 0
    \/ pc[t] \in {"xexit", "xstore0"}

FutexInv ==
    /\ exclusiveFutex = 1 => \E u \in Threads : SetFutex(u)
    /\ (\E t \in Threads : pc[t] \in {"enterSleep", "xenterSleep"}) =>
          \E u \in Threads : SetFutex(u) \/ pc[u] = "xwake"

IInv ==
    /\ TypeOK
    /\ EpochAccounting
    /\ \A t \in Threads : CallInv(t) /\ SpecInv(t)
    /\ BitInv
    /\ FutexInv

-----------------------------------------------------------------------------
(* Epochs.                                                                 *)

\* epoch + 1 and epoch - 1 are inverse to each other, stay in range and
\* alternate parity, so that "epoch & 1" and "(epoch - 1) & 1" always name
\* the two different counters, at the wrap too.
LEMMA RingLemma ==
    ASSUME NEW e \in Epoch
    PROVE  /\ After(e) \in Epoch /\ Before(e) \in Epoch
           /\ After(Before(e)) = e /\ Before(After(e)) = e
           /\ After(e) # e /\ Before(e) # e
           /\ After(e) % 2 = (e + 1) % 2
           /\ Before(e) % 2 = (e + 1) % 2
           /\ e % 2 \in 0..1 /\ (e + 1) % 2 \in 0..1
           /\ e % 2 # (e + 1) % 2
  BY QuarterAssumption DEF Epoch, After, Before, Modulus

\* Two epochs that differ by two are different too when there are more than
\* two epochs.
LEMMA TwoBeforeLemma ==
    ASSUME NEW e \in Epoch
    PROVE  Before(Before(e)) \in Epoch /\ Before(Before(e)) # e
  BY QuarterAssumption DEF Epoch, Before, Modulus

\* compareEpochs is the order of the ring on epochs at most a quadrant apart:
\* an epoch is equal to itself, and one that leads by 1 .. Quarter is later,
\* whichever quadrant boundary or wrap lies between (gc_lock.cc:43-72).
THEOREM CompareTheorem ==
    ASSUME NEW x \in Epoch, NEW y \in Epoch
    PROVE  LET lead == IF x >= y THEN x - y ELSE x - y + Modulus
           IN  /\ lead = 0 => compareEpochs(x, y) = 0
               /\ lead \in 1..Quarter => /\ compareEpochs(x, y) = 1
                                         /\ compareEpochs(y, x) = -1
<1>1. Quarter \in Int /\ Quarter > 0 /\ x \in Int /\ y \in Int
  BY QuarterAssumption DEF Epoch, Modulus
<1>2. /\ x >= 0 /\ x <= 4 * Quarter - 1 /\ y >= 0 /\ y <= 4 * Quarter - 1
  BY QuarterAssumption DEF Epoch, Modulus
<1>3. CASE x = y
  BY <1>1, <1>2, <1>3 DEF compareEpochs, Modulus
<1>4. CASE x > y
  <2>1. CASE x - y <= Quarter
    BY <1>1, <1>2, <1>4, <2>1 DEF compareEpochs, Quadrant
  <2>2. CASE x - y > Quarter
    BY <1>1, <1>2, <1>4, <2>2
  <2>3. QED
    BY <1>1, <1>2, <1>4, <2>1, <2>2
<1>5. CASE x < y
  <2>1. CASE x - y + Modulus <= Quarter
    <3>1. Quadrant(x) = 0 /\ Quadrant(y) = 3
      BY <1>1, <1>2, <1>5, <2>1 DEF Quadrant, Modulus
    <3>2. QED
      BY <1>1, <1>2, <1>5, <3>1 DEF compareEpochs, Modulus
  <2>2. CASE x - y + Modulus > Quarter
    BY <1>1, <1>2, <1>5, <2>2 DEF Modulus
  <2>3. QED
    BY <1>1, <1>2, <1>5, <2>1, <2>2 DEF Modulus
<1>6. QED
  BY <1>1, <1>3, <1>4, <1>5

-----------------------------------------------------------------------------
(* The packed word.                                                        *)

\* What enterCS, exitCS and the exclusive bit do to a word leaves a word, and
\* every epoch computed from one is an epoch, at the wrap too.
LEMMA WordLemma ==
    ASSUME NEW w \in Word
    PROVE  /\ w.epoch \in Epoch /\ w.epoch % 2 \in 0..1 /\ (w.epoch + 1) % 2 \in 0..1
           /\ Entered(w) \in Word /\ Entered(w).epoch \in Epoch
           /\ Entered(w).epoch % 2 \in 0..1
           /\ \A x \in BOOLEAN : WithExclusive(w, x) \in Word
           /\ \A p \in 0..1 : w.in[p] > 0 => Exited(w, p) \in Word
           /\ visibleEpoch(w) \in Epoch
           /\ NewestVisibleEpoch(w) \in Epoch
<1>1. w.epoch \in Epoch /\ w.in \in [0..1 -> Nat] /\ w.exclusive \in BOOLEAN
  BY DEF Word
<1>2. /\ After(w.epoch) \in Epoch /\ Before(w.epoch) \in Epoch
      /\ Before(Before(w.epoch)) \in Epoch
      /\ w.epoch % 2 \in 0..1 /\ (w.epoch + 1) % 2 \in 0..1
      /\ After(w.epoch) % 2 \in 0..1
  BY <1>1, RingLemma, TwoBeforeLemma
<1>3. Entered(w) \in Word
  BY <1>1, <1>2 DEF Entered, Word
<1>4. Entered(w).epoch \in Epoch
  BY <1>3 DEF Word
<1>5. Entered(w).epoch % 2 \in 0..1
  BY <1>4, RingLemma
<1>6. \A x \in BOOLEAN : WithExclusive(w, x) \in Word
  BY <1>1 DEF WithExclusive, Word
<1>7. ASSUME NEW p \in 0..1, w.in[p] > 0
      PROVE  Exited(w, p) \in Word
  <2>1. [w.in EXCEPT ![p] = @ - 1] \in [0..1 -> Nat]
    BY <1>1, <1>7
  <2>2. QED
    BY <1>1, <2>1 DEF Exited, Word
<1>8. visibleEpoch(w) \in Epoch /\ NewestVisibleEpoch(w) \in Epoch
  BY <1>1, <1>2 DEF visibleEpoch, NewestVisibleEpoch
<1>9. QED
  BY <1>1, <1>2, <1>3, <1>4, <1>5, <1>6, <1>7, <1>8

\* The threads in an epoch of parity p, when thread t is in epoch f[t].
SectionsOf(f, p) == {t \in Threads : f[t] # -1 /\ f[t] % 2 = p}

\* There are finitely many of them, so they can be counted.
LEMMA SectionsFinite ==
    ASSUME NEW f, NEW p
    PROVE  IsFiniteSet(SectionsOf(f, p)) /\ Cardinality(SectionsOf(f, p)) \in Nat
<1>1. SectionsOf(f, p) \subseteq Threads
  BY DEF SectionsOf
<1>2. IsFiniteSet(SectionsOf(f, p))
  BY <1>1, GcLockAssumption, FS_Subset
<1>3. QED
  BY <1>2, FS_CardinalityType

\* A section that was entered is counted, and a counter that is zero means
\* that nobody is in an epoch of that parity.
LEMMA CountLemma ==
    ASSUME TypeOK, EpochAccounting
    PROVE  /\ \A t \in Threads : section[t] # -1 =>
                 section[t] % 2 \in 0..1 /\ atomic.in[section[t] % 2] > 0
           /\ \A p \in 0..1 : atomic.in[p] = 0 =>
                 \A t \in Threads : section[t] = -1 \/ section[t] % 2 # p
<1>1. ASSUME NEW t \in Threads, NEW p \in 0..1, section[t] # -1, section[t] % 2 = p
      PROVE  atomic.in[p] > 0
  <2>1. t \in SectionsOf(section, p)
    BY <1>1 DEF SectionsOf
  <2>2. Cardinality(SectionsOf(section, p)) # 0
    BY <2>1, SectionsFinite, FS_EmptySet
  <2>3. atomic.in[p] = Cardinality(SectionsOf(section, p))
    BY DEF EpochAccounting, SectionsOf
  <2>4. QED
    BY <2>2, <2>3, SectionsFinite
<1>2. ASSUME NEW t \in Threads, section[t] # -1 PROVE section[t] % 2 \in 0..1
  <2>1. section[t] \in Epoch
    BY <1>2 DEF TypeOK
  <2>2. QED
    BY <2>1, RingLemma
<1>3. ASSUME NEW p \in 0..1, atomic.in[p] = 0, NEW t \in Threads
      PROVE  section[t] = -1 \/ section[t] % 2 # p
  <2>1. SUFFICES ASSUME section[t] # -1, section[t] % 2 = p PROVE FALSE
    OBVIOUS
  <2>2. atomic.in[p] > 0
    BY <1>1, <2>1
  <2>3. QED
    BY <1>3, <2>2
<1>4. QED
  BY <1>1, <1>2, <1>3

-----------------------------------------------------------------------------
(* Types.                                                                  *)

\* Every step of a thread keeps the state well-typed.  The counters of the
\* word stay natural numbers because exitCS only leaves a section that the
\* counter of its parity counts.
LEMMA TypeStep ==
    ASSUME TypeOK, EpochAccounting, NEW t \in Threads, CallInv(t), SpecInv(t),
           Calls(t) \/ Releases(t) \/ Steps(t)
    PROVE  TypeOK'
<1> USE GcLockAssumption
<1>a. /\ pc \in [Threads -> PCs] /\ op \in [Threads -> Ops]
      /\ rd \in [Threads -> BOOLEAN] /\ inner \in [Threads -> BOOLEAN]
  BY DEF TypeOK
<1>b. /\ readLocked \in [Threads -> Nat] /\ inEpoch \in [Threads -> -1..1]
      /\ xstart \in [Threads -> Epoch] /\ newest \in [Threads -> Epoch]
      /\ parity \in [Threads -> 0..1] /\ atomic.epoch \in Epoch
  BY WordLemma DEF TypeOK
<1>1. ASSUME NEW r \in RunDefers, lockShared(t, r) PROVE TypeOK'
  <2>1. pc' = pc \/ \E x \in PCs : pc' = [pc EXCEPT ![t] = x]
    BY <1>1 DEF lockShared, AcquireRead, Invoke, Add, PCs
  <2>2. pc' \in [Threads -> PCs]
    BY <1>a, <2>1
  <2>3. op' = op \/ \E x \in Ops : op' = [op EXCEPT ![t] = x]
    BY <1>1 DEF lockShared, AcquireRead, Invoke, Add, Ops, callVars
  <2>4. op' \in [Threads -> Ops]
    BY <1>a, <2>3
  <2>5. rd' = rd \/ \E x \in BOOLEAN : rd' = [rd EXCEPT ![t] = x]
    BY <1>1 DEF lockShared, AcquireRead, Invoke, Add, callVars
  <2>6. rd' \in [Threads -> BOOLEAN]
    BY <1>a, <2>5
  <2>7. readLocked' \in [Threads -> Nat]
    BY <1>1 DEF TypeOK, lockShared, AcquireRead, Invoke, Add
  <2>8. specLocked' \in [Threads -> Nat]
    BY <1>1 DEF TypeOK, lockShared, AcquireRead, Invoke, Add
  <2>9. QED
    BY <1>1, <2>2, <2>4, <2>6, <2>7, <2>8 DEF TypeOK, lockShared, shared,
       entryVars, callVars, locals, aux
<1>2. ASSUME NEW r \in RunDefers, lockSpeculative(t, r) PROVE TypeOK'
  <2>1. pc' = pc \/ \E x \in PCs : pc' = [pc EXCEPT ![t] = x]
    BY <1>2 DEF lockSpeculative, AcquireRead, Invoke, Add, PCs
  <2>2. pc' \in [Threads -> PCs]
    BY <1>a, <2>1
  <2>3. op' = op \/ \E x \in Ops : op' = [op EXCEPT ![t] = x]
    BY <1>2 DEF lockSpeculative, AcquireRead, Invoke, Add, Ops, callVars
  <2>4. op' \in [Threads -> Ops]
    BY <1>a, <2>3
  <2>5. rd' = rd \/ \E x \in BOOLEAN : rd' = [rd EXCEPT ![t] = x]
    BY <1>2 DEF lockSpeculative, AcquireRead, Invoke, Add, callVars
  <2>6. rd' \in [Threads -> BOOLEAN]
    BY <1>a, <2>5
  <2>7. readLocked' \in [Threads -> Nat]
    BY <1>2 DEF TypeOK, lockSpeculative, AcquireRead, Invoke, Add
  <2>8. specLocked' \in [Threads -> Nat]
    BY <1>2 DEF TypeOK, lockSpeculative, AcquireRead, Invoke, Add
  <2>9. QED
    BY <1>2, <2>2, <2>4, <2>6, <2>7, <2>8 DEF TypeOK, lockSpeculative, shared,
       entryVars, callVars, locals, aux
<1>3. CASE lockExclusive(t)
  <2>1. pc' = pc \/ \E x \in PCs : pc' = [pc EXCEPT ![t] = x]
    BY <1>3 DEF lockExclusive, Invoke, Add, PCs
  <2>2. pc' \in [Threads -> PCs]
    BY <1>a, <2>1
  <2>3. op' = op \/ \E x \in Ops : op' = [op EXCEPT ![t] = x]
    BY <1>3 DEF lockExclusive, Invoke, Add, Ops, callVars
  <2>4. op' \in [Threads -> Ops]
    BY <1>a, <2>3
  <2>5. rd' = rd \/ \E x \in BOOLEAN : rd' = [rd EXCEPT ![t] = x]
    BY <1>3 DEF lockExclusive, Invoke, Add, callVars
  <2>6. rd' \in [Threads -> BOOLEAN]
    BY <1>a, <2>5
  <2>7. writeLocked' \in [Threads -> Nat]
    BY <1>3 DEF TypeOK, lockExclusive, Invoke, Add
  <2>8. QED
    BY <1>3, <2>2, <2>4, <2>6, <2>7 DEF TypeOK, lockExclusive, shared,
       entryVars, callVars, locals, aux
<1>4. ASSUME NEW w \in Work, defer(t, w) PROVE TypeOK'
  <2>1. work' \in [Work -> {"new", "deferring", "pending", "ran"}]
    BY <1>4 DEF TypeOK, defer, Invoke, Items
  <2>2. blockers' \in [Items -> SUBSET Threads]
    BY <1>4 DEF TypeOK, defer, Invoke, Items, Readers
  <2>3. item' \in [Threads -> Items]
    BY <1>4 DEF TypeOK, defer, Invoke, Items
  <2>4. pc' \in [Threads -> PCs]
    BY <1>4 DEF TypeOK, defer, Invoke, PCs
  <2>5. op' \in [Threads -> Ops]
    BY <1>4 DEF TypeOK, defer, Invoke, Ops, callVars
  <2>6. rd' \in [Threads -> BOOLEAN]
    BY <1>4 DEF TypeOK, defer, Invoke, callVars
  <2>7. QED
    BY <1>4, <2>1, <2>2, <2>3, <2>4, <2>5, <2>6 DEF TypeOK, defer, shared,
       entryVars, callVars, locals, aux
<1>5. CASE visibleBarrier(t)
  <2>1. pc' \in [Threads -> PCs]
    BY <1>5 DEF TypeOK, visibleBarrier, Invoke, PCs
  <2>2. op' \in [Threads -> Ops]
    BY <1>5 DEF TypeOK, visibleBarrier, Invoke, Ops, callVars
  <2>3. rd' \in [Threads -> BOOLEAN]
    BY <1>5 DEF TypeOK, visibleBarrier, Invoke, callVars
  <2>4. QED
    BY <1>5, <2>1, <2>2, <2>3 DEF TypeOK, visibleBarrier, shared, entryVars,
       callVars, locals, aux
<1>6. CASE deferBarrier(t)
  <2>1. pc' \in [Threads -> PCs]
    BY <1>6 DEF TypeOK, deferBarrier, Invoke, PCs
  <2>2. op' \in [Threads -> Ops]
    BY <1>6 DEF TypeOK, deferBarrier, Invoke, Ops, callVars
  <2>3. rd' \in [Threads -> BOOLEAN]
    BY <1>6 DEF TypeOK, deferBarrier, Invoke, callVars
  <2>4. owed' \in [Threads -> SUBSET Work]
    BY <1>6 DEF TypeOK, deferBarrier, Invoke
  <2>5. QED
    BY <1>6, <2>1, <2>2, <2>3, <2>4 DEF TypeOK, deferBarrier, shared,
       entryVars, callVars, locals, aux
<1>7. ASSUME NEW r \in RunDefers, unlockShared(t, r) PROVE TypeOK'
  <2>1. readLocked[t] > 0
    BY <1>7 DEF unlockShared, SharedGuards, TypeOK
  <2>2. pc' = pc \/ \E x \in PCs : pc' = [pc EXCEPT ![t] = x]
    BY <1>7 DEF unlockShared, ReleaseRead, Invoke, Add, PCs
  <2>3. pc' \in [Threads -> PCs]
    BY <1>a, <2>2
  <2>4. op' = op \/ \E x \in Ops : op' = [op EXCEPT ![t] = x]
    BY <1>7 DEF unlockShared, ReleaseRead, Invoke, Add, Ops, callVars
  <2>5. op' \in [Threads -> Ops]
    BY <1>a, <2>4
  <2>6. rd' = rd \/ \E x \in BOOLEAN : rd' = [rd EXCEPT ![t] = x]
    BY <1>7 DEF unlockShared, ReleaseRead, Invoke, Add, callVars
  <2>7. rd' \in [Threads -> BOOLEAN]
    BY <1>a, <2>6
  <2>8. readLocked' \in [Threads -> Nat]
    BY <1>7, <2>1 DEF TypeOK, unlockShared, ReleaseRead, Invoke, Add
  <2>9. specUnlocked' \in [Threads -> Nat]
    BY <1>7, <2>1 DEF TypeOK, unlockShared, ReleaseRead, Invoke, Add
  <2>10. QED
    BY <1>7, <2>3, <2>5, <2>7, <2>8, <2>9 DEF TypeOK, unlockShared, shared,
       entryVars, callVars, locals, aux
<1>8. ASSUME NEW r \in RunDefers, unlockSpeculative(t, r) PROVE TypeOK'
  <2>1. readLocked[t] > 0
    BY <1>8 DEF unlockSpeculative, TypeOK, CallInv, SpecInv
  <2>2. pc' = pc \/ \E x \in PCs : pc' = [pc EXCEPT ![t] = x]
    BY <1>8 DEF unlockSpeculative, ReleaseRead, Invoke, Add, PCs
  <2>3. pc' \in [Threads -> PCs]
    BY <1>a, <2>2
  <2>4. op' = op \/ \E x \in Ops : op' = [op EXCEPT ![t] = x]
    BY <1>8 DEF unlockSpeculative, ReleaseRead, Invoke, Add, Ops, callVars
  <2>5. op' \in [Threads -> Ops]
    BY <1>a, <2>4
  <2>6. rd' = rd \/ \E x \in BOOLEAN : rd' = [rd EXCEPT ![t] = x]
    BY <1>8 DEF unlockSpeculative, ReleaseRead, Invoke, Add, callVars
  <2>7. rd' \in [Threads -> BOOLEAN]
    BY <1>a, <2>6
  <2>8. readLocked' \in [Threads -> Nat]
    BY <1>8, <1>b, <2>1 DEF unlockSpeculative, ReleaseRead, Invoke, Add
  <2>9. specLocked' \in [Threads -> Nat]
    BY <1>8, <2>1 DEF TypeOK, unlockSpeculative, ReleaseRead, Invoke, Add
  <2>10. specUnlocked' \in [Threads -> Nat]
    BY <1>8, <2>1 DEF TypeOK, unlockSpeculative, ReleaseRead, Invoke, Add
  <2>11. QED
    BY <1>8, <2>3, <2>5, <2>7, <2>8, <2>9, <2>10 DEF TypeOK,
       unlockSpeculative, shared, entryVars, callVars, locals, aux
<1>9. ASSUME NEW r \in RunDefers, forceUnlock(t, r) PROVE TypeOK'
  <2>1. readLocked[t] > 0
    BY <1>9 DEF forceUnlock, TypeOK, CallInv, SpecInv
  <2>2. pc' = pc \/ \E x \in PCs : pc' = [pc EXCEPT ![t] = x]
    BY <1>9 DEF forceUnlock, ReleaseRead, Invoke, Add, PCs
  <2>3. pc' \in [Threads -> PCs]
    BY <1>a, <2>2
  <2>4. op' = op \/ \E x \in Ops : op' = [op EXCEPT ![t] = x]
    BY <1>9 DEF forceUnlock, ReleaseRead, Invoke, Add, Ops, callVars
  <2>5. op' \in [Threads -> Ops]
    BY <1>a, <2>4
  <2>6. rd' = rd \/ \E x \in BOOLEAN : rd' = [rd EXCEPT ![t] = x]
    BY <1>9 DEF forceUnlock, ReleaseRead, Invoke, Add, callVars
  <2>7. rd' \in [Threads -> BOOLEAN]
    BY <1>a, <2>6
  <2>8. readLocked' \in [Threads -> Nat]
    BY <1>9, <2>1 DEF TypeOK, forceUnlock, ReleaseRead, Invoke, Add
  <2>9. specUnlocked' \in [Threads -> Nat]
    BY <1>9, <2>1 DEF TypeOK, forceUnlock, ReleaseRead, Invoke, Add
  <2>10. QED
    BY <1>9, <2>3, <2>5, <2>7, <2>8, <2>9 DEF TypeOK, forceUnlock, shared,
       entryVars, callVars, locals, aux
<1>10. CASE unlockExclusive(t)
  <2>1. pc' = pc \/ \E x \in PCs : pc' = [pc EXCEPT ![t] = x]
    BY <1>10 DEF unlockExclusive, Invoke, Add, PCs
  <2>2. pc' \in [Threads -> PCs]
    BY <1>a, <2>1
  <2>3. op' = op \/ \E x \in Ops : op' = [op EXCEPT ![t] = x]
    BY <1>10 DEF unlockExclusive, Invoke, Add, Ops, callVars
  <2>4. op' \in [Threads -> Ops]
    BY <1>a, <2>3
  <2>5. rd' = rd \/ \E x \in BOOLEAN : rd' = [rd EXCEPT ![t] = x]
    BY <1>10 DEF unlockExclusive, Invoke, Add, callVars
  <2>6. rd' \in [Threads -> BOOLEAN]
    BY <1>a, <2>5
  <2>7. writeLocked' \in [Threads -> Nat]
    BY <1>10 DEF TypeOK, unlockExclusive, Invoke, Add
  <2>8. QED
    BY <1>10, <2>2, <2>4, <2>6, <2>7 DEF TypeOK, unlockExclusive, shared,
       entryVars, callVars, locals, aux
<1>11. CASE enterCS(t)
  <2>1. atomic \in Word
    BY DEF TypeOK
  <2>2. /\ Entered(atomic) \in Word
        /\ Entered(atomic).epoch \in Epoch
        /\ Entered(atomic).epoch % 2 \in 0..1
    BY <2>1, WordLemma
  <2>3. atomic' \in Word
    BY <1>11, <2>2 DEF TypeOK, enterCS, updateAtomic, exclusive
  <2>4. inEpoch' \in [Threads -> -1..1]
    <3>1. \/ inEpoch' = inEpoch
          \/ inEpoch' = [inEpoch EXCEPT ![t] = Entered(atomic).epoch % 2]
      BY <1>11 DEF enterCS
    <3>2. QED
      BY <1>b, <2>2, <3>1
  <2>5. section' \in [Threads -> Epoch \cup {-1}]
    <3>1. \/ section' = section
          \/ section' = [section EXCEPT ![t] = Entered(atomic).epoch]
      BY <1>11 DEF enterCS
    <3>2. QED
      BY <2>2, <3>1 DEF TypeOK
  <2>6. pc' = pc \/ \E x \in PCs : pc' = [pc EXCEPT ![t] = x]
    BY <1>11 DEF enterCS, updateAtomic, exclusive, PCs
  <2>7. pc' \in [Threads -> PCs]
    BY <1>a, <2>6
  <2>8. QED
    BY <1>11, <2>3, <2>4, <2>5, <2>7 DEF TypeOK, enterCS, shared, entryVars,
       callVars, locals, aux
<1>12. CASE exitCS(t)
  <2>1. inEpoch[t] \in 0..1 /\ atomic.in[inEpoch[t]] > 0
    BY <1>12, CountLemma DEF TypeOK, exitCS, CallInv, ReadUnlockOps,
       ReadLockOps, Settled, UpdatePCs, CheckPCs, DeferPCs, BarrierPCs, Ops
  <2>2. Exited(atomic, inEpoch[t]) \in Word
    BY <2>1, WordLemma DEF TypeOK
  <2>3. atomic' \in Word
    BY <1>12, <2>2 DEF TypeOK, exitCS, updateAtomic
  <2>4. section' \in [Threads -> Epoch \cup {-1}]
    BY <1>12, <2>2 DEF TypeOK, exitCS, updateAtomic
  <2>5. blockers' \in [Items -> SUBSET Threads]
    BY <1>12, <2>2 DEF TypeOK, exitCS, updateAtomic, Items, Readers
  <2>6. pc' \in [Threads -> PCs]
    BY <1>12 DEF TypeOK, exitCS, updateAtomic, PCs
  <2>7. QED
    BY <1>12, <2>3, <2>4, <2>5, <2>6 DEF TypeOK, exitCS, shared, entryVars,
       callVars, locals, aux
<1>13. CASE exitCSThrows(t)
  <2>1. pc' \in [Threads -> PCs]
    BY <1>13 DEF TypeOK, exitCSThrows, PCs
  <2>2. QED
    BY <1>13, <2>1 DEF TypeOK, exitCSThrows, shared, entryVars, callVars,
       locals, aux
<1>14. CASE waitExclusive(t)
  <2>1. pc' \in [Threads -> PCs]
    BY <1>14, <1>a DEF waitExclusive, PCs
  <2>2. QED
    BY <1>14, <2>1 DEF TypeOK, waitExclusive, shared, entryVars, callVars,
       locals, aux
<1>15. CASE bumpVisible(t)
  <2>1. After(visibleFutex) \in Epoch
    BY RingLemma DEF TypeOK
  <2>2. visibleFutex' \in Epoch
    BY <1>15, <2>1 DEF TypeOK, bumpVisible
  <2>3. pc' \in [Threads -> PCs]
    BY <1>15 DEF TypeOK, bumpVisible, PCs
  <2>4. QED
    BY <1>15, <2>2, <2>3 DEF TypeOK, bumpVisible, shared, entryVars, callVars,
       locals, aux
<1>16. CASE wakeVisible(t)
  <2>1. pc' \in [Threads -> PCs]
    BY <1>16 DEF TypeOK, wakeVisible, PCs
  <2>2. QED
    BY <1>16, <2>1 DEF TypeOK, wakeVisible, shared, entryVars, callVars,
       locals, aux
<1>17. CASE runDefers(t)
  <2>1. pc' \in [Threads -> PCs]
    BY <1>17 DEF TypeOK, runDefers, PCs
  <2>2. deferredLock' \in Threads \cup {NoThread}
    BY <1>17 DEF TypeOK, runDefers
  <2>3. inner' = inner \/ \E x \in BOOLEAN : inner' = [inner EXCEPT ![t] = x]
    BY <1>17 DEF runDefers
  <2>4. inner' \in [Threads -> BOOLEAN]
    BY <1>a, <2>3
  <2>5. QED
    BY <1>17, <2>1, <2>2, <2>4 DEF TypeOK, runDefers, shared, entryVars,
       callVars, locals, aux
<1>18. CASE loadEpoch(t)
  <2>1. atomic.epoch % 2 \in 0..1 /\ (atomic.epoch + 1) % 2 \in 0..1
    BY WordLemma DEF TypeOK
  <2>2. pc' \in [Threads -> PCs]
    BY <1>18, <1>a DEF loadEpoch, PCs
  <2>3. parity' \in [Threads -> 0..1]
    BY <1>18, <1>b, <2>1 DEF loadEpoch
  <2>4. QED
    BY <1>18, <2>2, <2>3 DEF TypeOK, loadEpoch, shared, entryVars, callVars,
       locals, aux
<1>19. CASE loadIn(t)
  <2>1. pc' = pc \/ \E x \in PCs : pc' = [pc EXCEPT ![t] = x]
    BY <1>19 DEF loadIn, PCs
  <2>2. pc' \in [Threads -> PCs]
    BY <1>a, <2>1
  <2>3. QED
    BY <1>19, <2>2 DEF TypeOK, loadIn, shared, entryVars, callVars, locals,
       aux
<1>20. CASE checkDefers(t)
  <2>1. entries' \in [Epoch -> SUBSET Items]
    BY <1>20 DEF TypeOK, checkDefers
  <2>2. toRun' \in [Threads -> SUBSET Items]
    BY <1>20 DEF TypeOK, checkDefers
  <2>3. inner' \in [Threads -> BOOLEAN]
    BY <1>20 DEF TypeOK, checkDefers
  <2>4. deferredLock' \in Threads \cup {NoThread}
    BY <1>20 DEF TypeOK, checkDefers
  <2>5. pc' \in [Threads -> PCs]
    BY <1>20 DEF TypeOK, checkDefers, PCs
  <2>6. QED
    BY <1>20, <2>1, <2>2, <2>3, <2>4, <2>5 DEF TypeOK, checkDefers, shared,
       entryVars, callVars, locals, aux
<1>21. CASE runAll(t)
  <2>1. work' \in [Work -> {"new", "deferring", "pending", "ran"}]
    BY <1>21 DEF TypeOK, runAll, RunItem, Items
  <2>2. barrierLock' \in [Threads -> Int]
    BY <1>21 DEF TypeOK, runAll, RunItem, Items
  <2>3. pc' \in [Threads -> PCs]
    BY <1>21 DEF TypeOK, runAll, RunItem, PCs
  <2>4. toRun' \in [Threads -> SUBSET Items]
    BY <1>21 DEF TypeOK, runAll, RunItem
  <2>5. QED
    BY <1>21, <2>1, <2>2, <2>3, <2>4 DEF TypeOK, runAll, shared, entryVars,
       callVars, locals, aux
<1>22. CASE deferLoad(t)
  <2>1. NewestVisibleEpoch(atomic) \in Epoch
    BY WordLemma DEF TypeOK
  <2>2. newest' \in [Threads -> Epoch]
    BY <1>22, <1>b, <2>1 DEF deferLoad
  <2>3. pc' \in [Threads -> PCs]
    <3>1. \E x \in PCs : pc' = [pc EXCEPT ![t] = x]
      BY <1>22 DEF deferLoad, PCs
    <3>2. QED
      BY <1>a, <3>1
  <2>4. QED
    BY <1>22, <2>2, <2>3 DEF TypeOK, deferLoad, shared, entryVars, callVars,
       locals, aux
<1>23. CASE deferInsert(t)
  <2>1. entries' \in [Epoch -> SUBSET Items]
    <3>1. \/ entries' = entries
          \/ entries' = [entries EXCEPT ![newest[t]] = @ \cup {item[t]}]
      BY <1>23 DEF deferInsert
    <3>2. QED
      BY <3>1 DEF TypeOK
  <2>2. work' \in [Work -> {"new", "deferring", "pending", "ran"}]
    BY <1>23 DEF TypeOK, deferInsert, AfterDefer, Items
  <2>3. pc' = pc \/ \E x \in PCs : pc' = [pc EXCEPT ![t] = x]
    BY <1>23 DEF deferInsert, AfterDefer, PCs
  <2>4. pc' \in [Threads -> PCs]
    BY <1>a, <2>3
  <2>5. QED
    BY <1>23, <2>1, <2>2, <2>4 DEF TypeOK, deferInsert, shared, entryVars,
       callVars, locals, aux
<1>24. CASE runInline(t)
  <2>1. work' \in [Work -> {"new", "deferring", "pending", "ran"}]
    BY <1>24 DEF TypeOK, runInline, RunItem, AfterDefer, Items
  <2>2. barrierLock' \in [Threads -> Int]
    BY <1>24 DEF TypeOK, runInline, RunItem, AfterDefer, Items
  <2>3. pc' \in [Threads -> PCs]
    BY <1>24 DEF TypeOK, runInline, RunItem, AfterDefer, PCs
  <2>4. QED
    BY <1>24, <2>1, <2>2, <2>3 DEF TypeOK, runInline, shared, entryVars,
       callVars, locals, aux
<1>25. CASE barrierLoad(t)
  <2>1. atomic.epoch \in Epoch /\ visibleEpoch(atomic) \in Epoch
    BY WordLemma DEF TypeOK
  <2>2. start' \in [Threads -> Epoch]
    BY <1>25, <2>1 DEF TypeOK, barrierLoad
  <2>3. val' \in [Threads -> Epoch]
    BY <1>25, <2>1 DEF TypeOK, barrierLoad
  <2>4. blockers' \in [Items -> SUBSET Threads]
    BY <1>25, <2>1 DEF TypeOK, barrierLoad, Items, Readers
  <2>5. pc' \in [Threads -> PCs]
    BY <1>25 DEF TypeOK, barrierLoad, PCs
  <2>6. QED
    BY <1>25, <2>2, <2>3, <2>4, <2>5 DEF TypeOK, barrierLoad, shared,
       entryVars, callVars, locals, aux
<1>26. CASE barrierWait(t)
  <2>1. pc' \in [Threads -> PCs]
    BY <1>26 DEF TypeOK, barrierWait, PCs
  <2>2. QED
    BY <1>26, <2>1 DEF TypeOK, barrierWait, shared, entryVars, callVars,
       locals, aux
<1>27. CASE enterCSExclusive(t)
  <2>1. WithExclusive(atomic, TRUE) \in Word
    BY WordLemma DEF TypeOK
  <2>2. atomic' \in Word
    BY <1>27, <2>1 DEF TypeOK, enterCSExclusive, exclusive
  <2>3. pc' = pc \/ \E x \in PCs : pc' = [pc EXCEPT ![t] = x]
    BY <1>27 DEF enterCSExclusive, exclusive, PCs
  <2>4. pc' \in [Threads -> PCs]
    BY <1>a, <2>3
  <2>5. xstart' \in [Threads -> Epoch]
    BY <1>27, <1>b DEF enterCSExclusive
  <2>6. QED
    BY <1>27, <2>2, <2>4, <2>5 DEF TypeOK, enterCSExclusive, shared, entryVars,
       callVars, locals, aux
<1>28. CASE storeExclusive1(t)
  <2>1. exclusiveFutex' \in 0..1
    BY <1>28 DEF TypeOK, storeExclusive1
  <2>2. pc' \in [Threads -> PCs]
    BY <1>28 DEF TypeOK, storeExclusive1, PCs
  <2>3. QED
    BY <1>28, <2>1, <2>2 DEF TypeOK, storeExclusive1, shared, entryVars,
       callVars, locals, aux
<1>29. CASE exclusiveEntered(t)
  <2>1. xstart[t] % 2 \in 0..1
    BY <1>b, RingLemma
  <2>2. inEpoch' \in [Threads -> -1..1]
    BY <1>29, <1>b, <2>1 DEF exclusiveEntered
  <2>3. writeLocked' \in [Threads -> Nat]
    BY <1>29, <2>1 DEF TypeOK, exclusiveEntered, Add
  <2>4. pc' \in [Threads -> PCs]
    BY <1>29 DEF TypeOK, exclusiveEntered, Add, PCs
  <2>5. QED
    BY <1>29, <2>2, <2>3, <2>4 DEF TypeOK, exclusiveEntered, shared,
       entryVars, callVars, locals, aux
<1>30. CASE exitCSExclusive(t)
  <2>1. WithExclusive(atomic, FALSE) \in Word
    BY WordLemma DEF TypeOK
  <2>2. atomic' \in Word
    BY <1>30, <2>1 DEF TypeOK, exitCSExclusive
  <2>3. pc' \in [Threads -> PCs]
    BY <1>30 DEF TypeOK, exitCSExclusive, PCs
  <2>4. QED
    BY <1>30, <2>2, <2>3 DEF TypeOK, exitCSExclusive, shared, entryVars,
       callVars, locals, aux
<1>31. CASE storeExclusive0(t)
  <2>1. exclusiveFutex' \in 0..1
    BY <1>31 DEF TypeOK, storeExclusive0
  <2>2. pc' \in [Threads -> PCs]
    BY <1>31 DEF TypeOK, storeExclusive0, PCs
  <2>3. QED
    BY <1>31, <2>1, <2>2 DEF TypeOK, storeExclusive0, shared, entryVars,
       callVars, locals, aux
<1>32. CASE wakeExclusive(t)
  <2>1. pc' \in [Threads -> PCs]
    BY <1>32 DEF TypeOK, wakeExclusive, PCs
  <2>2. QED
    BY <1>32, <2>1 DEF TypeOK, wakeExclusive, shared, entryVars, callVars,
       locals, aux
<1>33. CASE visibleBarrierDone(t)
  <2>1. pc' \in [Threads -> PCs]
    BY <1>33 DEF TypeOK, visibleBarrierDone, PCs
  <2>2. QED
    BY <1>33, <2>1 DEF TypeOK, visibleBarrierDone, shared, entryVars,
       callVars, locals, aux
<1>34. CASE barrierRound(t)
  <2>1. round' \in [Threads -> 0..2]
    <3>1. round \in [Threads -> 0..2]
      BY DEF TypeOK
    <3>2. round' = IF round[t] < 2 THEN [round EXCEPT ![t] = @ + 1] ELSE round
      BY <1>34 DEF barrierRound, Add
    <3>3. QED
      BY <3>1, <3>2
  <2>2. item' \in [Threads -> Items]
    BY <1>34 DEF TypeOK, barrierRound, Add, Items
  <2>3. barrierLock' \in [Threads -> Int]
    BY <1>34 DEF TypeOK, barrierRound, Add
  <2>4. blockers' \in [Items -> SUBSET Threads]
    <3>1. Readers \in SUBSET Threads /\ t \in Items
          /\ blockers \in [Items -> SUBSET Threads]
      BY DEF Readers, Items, TypeOK
    <3>2. blockers' = [blockers EXCEPT ![t] = Readers] \/ blockers' = blockers
      BY <1>34 DEF barrierRound
    <3>3. QED
      BY <3>1, <3>2
  <2>5. pc' = pc \/ \E x \in PCs : pc' = [pc EXCEPT ![t] = x]
    BY <1>34 DEF barrierRound, Add, PCs
  <2>6. pc' \in [Threads -> PCs]
    BY <1>a, <2>5
  <2>7. QED
    BY <1>34, <2>1, <2>2, <2>3, <2>4, <2>6 DEF TypeOK, barrierRound, shared,
       entryVars, callVars, locals, aux
<1>35. CASE barrierDec(t)
  <2>1. barrierLock' \in [Threads -> Int]
    BY <1>35 DEF TypeOK, barrierDec
  <2>2. pc' \in [Threads -> PCs]
    BY <1>35 DEF TypeOK, barrierDec, PCs
  <2>3. QED
    BY <1>35, <2>1, <2>2 DEF TypeOK, barrierDec, shared, entryVars, callVars,
       locals, aux
<1>36. CASE barrierLockWait(t)
  <2>1. pc' \in [Threads -> PCs]
    BY <1>36 DEF TypeOK, barrierLockWait, PCs
  <2>2. QED
    BY <1>36, <2>1 DEF TypeOK, barrierLockWait, shared, entryVars, callVars,
       locals, aux
<1>37. CASE return(t)
  <2>1. inEpoch' \in [Threads -> -1..1]
    BY <1>37 DEF TypeOK, return, Add, Invoke
  <2>2. readLocked' \in [Threads -> Nat]
    BY <1>37 DEF TypeOK, return, Add, Invoke
  <2>3. specLocked' \in [Threads -> Nat]
    BY <1>37 DEF TypeOK, return, Add, Invoke
  <2>4. specUnlocked' \in [Threads -> Nat]
    BY <1>37 DEF TypeOK, return, Add, Invoke
  <2>5. pc' \in [Threads -> PCs]
    BY <1>37 DEF TypeOK, return, Add, Invoke, PCs
  <2>6. op' \in [Threads -> Ops]
    BY <1>37 DEF TypeOK, return, Add, Invoke, Ops, callVars
  <2>7. rd' \in [Threads -> BOOLEAN]
    BY <1>37 DEF TypeOK, return, Add, Invoke, callVars
  <2>8. start' \in [Threads -> Epoch]
    BY <1>37, QuarterAssumption DEF TypeOK, return, Add, Invoke, Epoch,
       Modulus
  <2>9. val' \in [Threads -> Epoch]
    BY <1>37, QuarterAssumption DEF TypeOK, return, Add, Invoke, Epoch,
       Modulus
  <2>10. newest' \in [Threads -> Epoch]
    BY <1>37, QuarterAssumption DEF TypeOK, return, Add, Invoke, Epoch,
       Modulus
  <2>11. item' \in [Threads -> Items]
    BY <1>37 DEF TypeOK, return, Add, Invoke, Items
  <2>12. parity' \in [Threads -> 0..1]
    BY <1>37 DEF TypeOK, return, Add, Invoke
  <2>13. inner' \in [Threads -> BOOLEAN]
    BY <1>37 DEF TypeOK, return, Add, Invoke
  <2>14. round' \in [Threads -> 0..2]
    BY <1>37 DEF TypeOK, return, Add, Invoke
  <2>15. owed' \in [Threads -> SUBSET Work]
    BY <1>37 DEF TypeOK, return, Add, Invoke
  <2>16. QED
    BY <1>37, <2>1, <2>2, <2>3, <2>4, <2>5, <2>6, <2>7, <2>8, <2>9, <2>10,
       <2>11, <2>12, <2>13, <2>14, <2>15 DEF TypeOK, return, shared,
       entryVars, callVars, locals, aux
<1>38. QED
  BY <1>1, <1>2, <1>3, <1>4, <1>5, <1>6, <1>7, <1>8, <1>9, <1>10, <1>11,
     <1>12, <1>13, <1>14, <1>15, <1>16, <1>17, <1>18, <1>19, <1>20, <1>21,
     <1>22, <1>23, <1>24, <1>25, <1>26, <1>27, <1>28, <1>29, <1>30, <1>31,
     <1>32, <1>33, <1>34, <1>35, <1>36, <1>37 DEF Calls, Releases, Steps

=============================================================================
