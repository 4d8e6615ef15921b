---------------------------- MODULE GcLockProofs ----------------------------
(***************************************************************************)
(* Proofs about GcLock, for any number of threads and any epoch width:     *)
(* the word counts the readers, an exclusive section excludes everyone     *)
(* else, a sleeper on exclusiveFutex is never forgotten, a barrier         *)
(* outlives the readers it found, and deferBarrier clears the lists of     *)
(* what was on them.                                                       *)
(***************************************************************************)
EXTENDS GcLockInvariant

-----------------------------------------------------------------------------
(* The counters of the word.                                               *)

\* enterCS keeps the counters right.
LEMMA AccountingEnter ==
    ASSUME TypeOK, EpochAccounting, NEW t \in Threads, CallInv(t), enterCS(t)
    PROVE  EpochAccounting'
<1>1. section[t] = -1 /\ section \in [Threads -> Epoch \cup {-1}]
  BY DEF TypeOK, enterCS, CallInv, ReadLockOps, ReadUnlockOps, Settled, UpdatePCs,
         CheckPCs, DeferPCs, BarrierPCs, Ops
<1> DEFINE e == atomic.epoch
<1>2. /\ e \in Epoch /\ After(e) \in Epoch /\ atomic.in \in [0..1 -> Nat]
      /\ e % 2 \in 0..1 /\ After(e) % 2 \in 0..1 /\ After(e) % 2 # e % 2
      /\ After(e) % 2 = (e + 1) % 2 /\ Before(e) % 2 = (e + 1) % 2
      /\ Before(After(e)) = e /\ e # -1 /\ After(e) # -1
  <2>1. e \in Epoch /\ atomic.in \in [0..1 -> Nat]
    BY DEF TypeOK, Word
  <2>2. -1 \notin Epoch
    BY QuarterAssumption DEF Epoch, Modulus
  <2>3. QED
    BY <2>1, <2>2, RingLemma
<1>3. CASE exclusive(atomic)
  BY <1>3 DEF enterCS, EpochAccounting
<1>4. CASE ~exclusive(atomic) /\ ~AnyInOld(atomic)
  <2>1. /\ atomic'.epoch = After(e)
        /\ atomic'.in = [atomic.in EXCEPT ![After(e) % 2] = 1]
        /\ section' = [section EXCEPT ![t] = After(e)]
    BY <1>4 DEF enterCS, updateAtomic, Entered
  <2>2. \A u \in Threads : section[u] \in {-1, e}
    <3>1. \A u \in Threads : section[u] = -1 \/ section[u] % 2 # (e + 1) % 2
      BY <1>2, <1>4, CountLemma DEF AnyInOld
    <3>2. QED
      BY <1>2, <3>1 DEF EpochAccounting
  <2>3. SectionsOf(section', After(e) % 2) = {t}
    BY <1>1, <1>2, <2>1, <2>2 DEF SectionsOf
  <2>4. SectionsOf(section', e % 2) = SectionsOf(section, e % 2)
    BY <1>1, <1>2, <2>1, <2>2 DEF SectionsOf
  <2>5. Cardinality({t}) = 1
    BY FS_Singleton
  <2>6. atomic.in[e % 2] = Cardinality(SectionsOf(section, e % 2))
    BY <1>2 DEF EpochAccounting, SectionsOf
  <2>7. \A p \in 0..1 : atomic'.in[p] = Cardinality(SectionsOf(section', p))
    <3>1. \A p \in 0..1 : p = e % 2 \/ p = After(e) % 2
      BY <1>2
    <3>2. /\ atomic'.in[e % 2] = Cardinality(SectionsOf(section', e % 2))
          /\ atomic'.in[After(e) % 2] = Cardinality(SectionsOf(section', After(e) % 2))
      BY <1>2, <2>1, <2>3, <2>4, <2>5, <2>6
    <3>3. QED
      BY <3>1, <3>2
  <2>8. \A u \in Threads : section'[u] \in {-1, atomic'.epoch, Before(atomic'.epoch)}
    BY <1>1, <1>2, <2>1, <2>2
  <2>9. QED
    BY <2>7, <2>8 DEF EpochAccounting, SectionsOf
<1>5. CASE ~exclusive(atomic) /\ AnyInOld(atomic)
  <2>1. /\ atomic'.epoch = e
        /\ atomic'.in = [atomic.in EXCEPT ![e % 2] = @ + 1]
        /\ section' = [section EXCEPT ![t] = e]
    BY <1>5 DEF enterCS, updateAtomic, Entered
  <2>2. /\ SectionsOf(section', e % 2) = SectionsOf(section, e % 2) \cup {t}
        /\ t \notin SectionsOf(section, e % 2)
    BY <1>1, <1>2, <2>1 DEF SectionsOf
  <2>3. Cardinality(SectionsOf(section', e % 2)) = Cardinality(SectionsOf(section, e % 2)) + 1
    BY <2>2, SectionsFinite, FS_AddElement
  <2>4. SectionsOf(section', After(e) % 2) = SectionsOf(section, After(e) % 2)
    BY <1>1, <1>2, <2>1 DEF SectionsOf
  <2>5. \A p \in 0..1 : atomic.in[p] = Cardinality(SectionsOf(section, p))
    BY DEF EpochAccounting, SectionsOf
  <2>6. \A p \in 0..1 : atomic'.in[p] = Cardinality(SectionsOf(section', p))
    <3>1. \A p \in 0..1 : p = e % 2 \/ p = After(e) % 2
      BY <1>2
    <3>2. /\ atomic'.in[e % 2] = Cardinality(SectionsOf(section', e % 2))
          /\ atomic'.in[After(e) % 2] = Cardinality(SectionsOf(section', After(e) % 2))
      BY <1>2, <2>1, <2>3, <2>4, <2>5
    <3>3. QED
      BY <3>1, <3>2
  <2>7. \A u \in Threads : section'[u] \in {-1, atomic'.epoch, Before(atomic'.epoch)}
    BY <1>1, <1>2, <2>1 DEF EpochAccounting
  <2>8. QED
    BY <2>6, <2>7 DEF EpochAccounting, SectionsOf
<1>6. QED
  BY <1>3, <1>4, <1>5

\* exitCS keeps the counters right.
LEMMA AccountingExit ==
    ASSUME TypeOK, EpochAccounting, NEW t \in Threads, CallInv(t), exitCS(t)
    PROVE  EpochAccounting'
<1> DEFINE p == section[t] % 2
<1>1. /\ section[t] # -1 /\ inEpoch[t] = p /\ p \in 0..1
      /\ section \in [Threads -> Epoch \cup {-1}] /\ atomic.in \in [0..1 -> Nat]
  BY CountLemma DEF TypeOK, Word, exitCS, CallInv, ReadLockOps, ReadUnlockOps,
     Settled, UpdatePCs,
         CheckPCs, DeferPCs, BarrierPCs, Ops
<1>2. /\ atomic'.epoch = atomic.epoch
      /\ atomic'.in = [atomic.in EXCEPT ![p] = @ - 1]
      /\ section' = [section EXCEPT ![t] = -1]
  BY <1>1 DEF exitCS, updateAtomic, Exited
<1>3. /\ SectionsOf(section', p) = SectionsOf(section, p) \ {t}
      /\ t \in SectionsOf(section, p)
  BY <1>1, <1>2 DEF SectionsOf
<1>4. Cardinality(SectionsOf(section', p)) = Cardinality(SectionsOf(section, p)) - 1
  BY <1>3, SectionsFinite, FS_RemoveElement
<1>5. \A q \in 0..1 : q # p => SectionsOf(section', q) = SectionsOf(section, q)
  BY <1>1, <1>2 DEF SectionsOf
<1>6. \A q \in 0..1 : atomic.in[q] = Cardinality(SectionsOf(section, q))
  BY DEF EpochAccounting, SectionsOf
<1>7. \A q \in 0..1 : atomic'.in[q] = Cardinality(SectionsOf(section', q))
  BY <1>1, <1>2, <1>4, <1>5, <1>6
<1>8. \A u \in Threads : section'[u] \in {-1, atomic'.epoch, Before(atomic'.epoch)}
  BY <1>1, <1>2 DEF EpochAccounting
<1>9. QED
  BY <1>7, <1>8 DEF EpochAccounting, SectionsOf

\* No other step touches the counters, the epoch or the sections.
LEMMA AccountingFrame ==
    ASSUME EpochAccounting, atomic'.epoch = atomic.epoch, atomic'.in = atomic.in,
           section' = section
    PROVE  EpochAccounting'
  BY DEF EpochAccounting

\* Every step of a thread keeps the counters right.
LEMMA AccountingStep ==
    ASSUME TypeOK, EpochAccounting, NEW t \in Threads, CallInv(t),
           Calls(t) \/ Releases(t) \/ Steps(t)
    PROVE  EpochAccounting'
<1>1. CASE enterCS(t)
  BY <1>1, AccountingEnter
<1>2. CASE exitCS(t)
  BY <1>2, AccountingExit
<1>3. CASE enterCSExclusive(t) \/ exitCSExclusive(t)
  <2>1. atomic'.epoch = atomic.epoch /\ atomic'.in = atomic.in /\ section' = section
    BY <1>3 DEF enterCSExclusive, exitCSExclusive, WithExclusive, aux
  <2>2. QED
    BY <2>1, AccountingFrame
<1>4. CASE Calls(t) \/ Releases(t)
  <2>1. atomic' = atomic /\ section' = section
    BY <1>4 DEF Calls, Releases, lockShared, lockSpeculative, lockExclusive,
       defer, visibleBarrier, deferBarrier, unlockShared, unlockSpeculative,
       forceUnlock, unlockExclusive, shared, aux
  <2>2. QED
    BY <2>1, AccountingFrame
<1>5. CASE ~(enterCS(t) \/ exitCS(t) \/ enterCSExclusive(t) \/ exitCSExclusive(t)) /\ Steps(t)
  <2>1. atomic' = atomic /\ section' = section
    BY <1>5 DEF Steps, exitCSThrows, waitExclusive, bumpVisible, wakeVisible,
       runDefers, loadEpoch, loadIn, checkDefers, runAll, deferLoad,
       deferInsert, runInline, barrierLoad, barrierWait, storeExclusive1,
       exclusiveEntered, storeExclusive0, wakeExclusive, visibleBarrierDone,
       barrierRound, barrierDec, barrierLockWait, return, shared, aux
  <2>2. QED
    BY <2>1, AccountingFrame
<1>6. QED
  BY <1>1, <1>2, <1>3, <1>4, <1>5

-----------------------------------------------------------------------------
(* The thread entries and the calls in progress.                           *)

\* lockSpeculative either enters a section, one more time, or nests.
LEMMA CallSpeculative ==
    ASSUME TypeOK, NEW t \in Threads, NEW r \in RunDefers, lockSpeculative(t, r),
           NEW u \in Threads, CallInv(u), CallInv(t), SpecInv(u)
    PROVE  (CallInv(u) /\ SpecInv(u))'
<1>1. CASE u # t
  BY <1>1 DEF TypeOK, lockSpeculative, AcquireRead, Invoke, Add, CallInv,
     SpecInv, Settled, shared, entryVars, callVars, aux
<1>2. CASE u = t /\ specLocked[t] = 0 /\ specUnlocked[t] = 0 /\ readLocked[t] = 0 /\ writeLocked[t] = 0
  <2>1. /\ op'[t] = "lockSpeculative"
        /\ pc'[t] = "enter"
        /\ UNCHANGED <<section, inEpoch, readLocked, writeLocked, specLocked, specUnlocked>>
    BY <1>2 DEF TypeOK, lockSpeculative, AcquireRead, Invoke, aux
  <2>2. section[t] = -1 /\ inEpoch[t] = -1
    BY <1>2 DEF TypeOK, lockSpeculative, CallInv, Settled
  <2>3. QED
    BY <1>2, <2>1, <2>2 DEF CallInv, SpecInv, ReadLockOps, ReadUnlockOps
<1>3. CASE u = t /\ ~(specLocked[t] = 0 /\ specUnlocked[t] = 0 /\ readLocked[t] = 0 /\ writeLocked[t] = 0)
  <2>1. /\ op' = op
        /\ pc' = pc
        /\ UNCHANGED <<section, inEpoch, writeLocked>>
        /\ readLocked'[t] \in {readLocked[t], readLocked[t] + 1}
    BY <1>3 DEF TypeOK, lockSpeculative, AcquireRead, Add, callVars, aux
  <2>2. pc[t] = "idle" /\ op[t] = "none" /\ Settled(t)
    BY DEF lockSpeculative, CallInv
  <2>3. Settled(t)'
    BY <2>1, <2>2 DEF TypeOK, Settled
  <2>4. readLocked'[t] > 0
    BY <1>3, <2>1, <2>2 DEF TypeOK, lockSpeculative, AcquireRead, Add, SpecInv
  <2>5. QED
    BY <1>3, <2>1, <2>2, <2>3, <2>4 DEF CallInv, SpecInv, ReadLockOps, ReadUnlockOps
<1>4. QED
  BY <1>1, <1>2, <1>3

\* A thread that passes enterCS is in the section its entry names.
LEMMA CallEnter ==
    ASSUME TypeOK, NEW t \in Threads, enterCS(t),
           NEW u \in Threads, CallInv(u), CallInv(t), SpecInv(u)
    PROVE  (CallInv(u) /\ SpecInv(u))'
<1>1. CASE u # t
  BY <1>1 DEF TypeOK, enterCS, updateAtomic, CallInv, SpecInv, Settled, callVars
<1>2. CASE u = t
  <2>1. /\ op[t] \in ReadLockOps
        /\ section[t] = -1
        /\ inEpoch[t] = -1
        /\ readLocked[t] = 0
        /\ writeLocked[t] = 0
    BY DEF TypeOK, enterCS, CallInv, Settled, Ops, ReadLockOps, ReadUnlockOps,
       CheckPCs, UpdatePCs, DeferPCs, BarrierPCs
  <2>2. UNCHANGED <<op, readLocked, writeLocked, specLocked, specUnlocked>>
    BY DEF enterCS, callVars
  <2>3. CASE exclusive(atomic)
    <3>1. pc'[t] = "enterWait" /\ section' = section /\ inEpoch' = inEpoch
      BY <2>3 DEF TypeOK, enterCS
    <3>2. QED
      BY <1>2, <2>1, <2>2, <3>1 DEF CallInv, SpecInv, ReadLockOps, ReadUnlockOps
  <2>4. CASE ~exclusive(atomic)
    <3>1. /\ pc'[t] \in {"bump", "return"}
          /\ section'[t] # -1
          /\ inEpoch'[t] = section'[t] % 2
      <4>1. Entered(atomic).epoch \in Epoch
        BY WordLemma DEF TypeOK
      <4>2. Entered(atomic).epoch # -1
        BY <4>1, QuarterAssumption DEF Epoch, Modulus
      <4>3. QED
        BY <2>4, <4>2 DEF TypeOK, enterCS, updateAtomic
    <3>2. QED
      BY <1>2, <2>1, <2>2, <3>1 DEF CallInv, SpecInv, ReadLockOps,
         ReadUnlockOps, UpdatePCs
  <2>5. QED
    BY <2>3, <2>4
<1>3. QED
  BY <1>1, <1>2

\* enterCSExclusive leaves the entry alone until the barrier is over.
LEMMA CallEnterX ==
    ASSUME TypeOK, NEW t \in Threads, enterCSExclusive(t),
           NEW u \in Threads, CallInv(u), CallInv(t), SpecInv(u)
    PROVE  (CallInv(u) /\ SpecInv(u))'
<1>1. /\ UNCHANGED <<op, section, inEpoch, readLocked, writeLocked, specLocked, specUnlocked>>
      /\ \A v \in Threads \ {t} : pc'[v] = pc[v]
      /\ pc[t] = "xenter" /\ pc'[t] \in {"xenterWait", "xstore1"}
  BY DEF TypeOK, enterCSExclusive, entryVars, callVars, aux
<1>2. op[t] = "lockExclusive"
  BY <1>1 DEF TypeOK, CallInv, Settled, Ops, ReadLockOps, ReadUnlockOps,
     CheckPCs, UpdatePCs, DeferPCs, BarrierPCs
<1>3. CASE u = t
  BY <1>1, <1>2, <1>3 DEF CallInv, SpecInv, ReadLockOps, ReadUnlockOps, BarrierPCs
<1>4. CASE u # t
  BY <1>1, <1>4 DEF CallInv, SpecInv, Settled
<1>5. QED
  BY <1>3, <1>4

\* The end of enterCSExclusive sets the entry and the depth together.
LEMMA CallXEntered ==
    ASSUME TypeOK, NEW t \in Threads, exclusiveEntered(t),
           NEW u \in Threads, CallInv(u), CallInv(t), SpecInv(u)
    PROVE  (CallInv(u) /\ SpecInv(u))'
<1>1. CASE u # t
  BY <1>1 DEF TypeOK, exclusiveEntered, Add, CallInv, SpecInv, Settled, shared,
     callVars, aux
<1>2. CASE u = t
  <2>1. /\ op'[t] = "lockExclusive"
        /\ pc'[t] = "return"
        /\ UNCHANGED <<section, readLocked, specLocked, specUnlocked>>
    BY DEF TypeOK, exclusiveEntered, callVars, aux
  <2>2. section[t] = -1 /\ inEpoch[t] = -1 /\ writeLocked[t] = 0
    BY DEF TypeOK, exclusiveEntered, CallInv
  <2>3. writeLocked'[t] = 1
    BY <2>2 DEF TypeOK, exclusiveEntered, Add
  <2>4. inEpoch'[t] \in 0..1
    BY RingLemma DEF TypeOK, exclusiveEntered
  <2>5. Settled(t)'
    BY <2>1, <2>2, <2>3, <2>4 DEF Settled
  <2>6. op[t] = "lockExclusive"
    BY DEF exclusiveEntered
  <2>7. QED
    BY <1>2, <2>1, <2>2, <2>3, <2>5, <2>6 DEF CallInv, SpecInv, ReadLockOps,
       ReadUnlockOps
<1>3. QED
  BY <1>1, <1>2

\* The entry is settled again when a call returns to its client.
LEMMA CallReturn ==
    ASSUME TypeOK, NEW t \in Threads, return(t),
           NEW u \in Threads, CallInv(u), CallInv(t), SpecInv(u)
    PROVE  (CallInv(u) /\ SpecInv(u))'
<1>1. CASE u # t
  BY <1>1 DEF TypeOK, return, Invoke, Add, CallInv, SpecInv, Settled
<1>2. CASE u = t
  <2>1. /\ op'[t] = "none"
        /\ pc'[t] = "idle"
        /\ UNCHANGED <<section, writeLocked>>
        /\ pc[t] = "return"
    BY DEF TypeOK, return, Invoke
  <2>2. CASE op[t] \in ReadLockOps
    <3>1. section[t] # -1 /\ inEpoch[t] = section[t] % 2 /\ writeLocked[t] = 0
      BY <2>1, <2>2 DEF CallInv, ReadLockOps
    <3>2. inEpoch'[t] = inEpoch[t] /\ readLocked'[t] > 0
      BY <2>1, <2>2 DEF TypeOK, return, Add, ReadLockOps
    <3>3. section[t] % 2 # -1
      <4>1. section[t] \in Epoch
        BY <3>1 DEF TypeOK
      <4>2. QED
        BY <4>1, RingLemma
    <3>4. QED
      BY <1>2, <2>1, <3>1, <3>2, <3>3 DEF CallInv, SpecInv, Settled,
         ReadLockOps, ReadUnlockOps
  <2>3. CASE op[t] \in ReadUnlockOps \cup {"unlockExclusive"}
    <3>1. section[t] = -1 /\ writeLocked[t] = 0
      BY <2>1, <2>3 DEF CallInv, ReadUnlockOps
    <3>2. /\ inEpoch'[t] = -1
          /\ readLocked'[t] = readLocked[t]
          /\ specLocked'[t] = specLocked[t]
      BY <2>1, <2>3 DEF TypeOK, return, Add, ReadUnlockOps
    <3>3. SpecInv(t)'
      BY <1>2, <2>1, <2>3, <3>1, <3>2 DEF TypeOK, return, SpecInv, CallInv,
         ReadUnlockOps
    <3>4. QED
      BY <1>2, <2>1, <3>1, <3>2, <3>3 DEF CallInv, Settled, ReadLockOps,
         ReadUnlockOps
  <2>4. CASE op[t] \in Ops \ (ReadLockOps \cup ReadUnlockOps \cup {"unlockExclusive"})
    <3>1. Settled(t)
      BY <2>1, <2>4 DEF CallInv, Ops, ReadLockOps, ReadUnlockOps, BarrierPCs
    <3>2. /\ inEpoch'[t] = inEpoch[t]
          /\ readLocked'[t] = readLocked[t]
          /\ specLocked'[t] = specLocked[t]
          /\ specUnlocked'[t] = specUnlocked[t]
      BY <2>1, <2>4 DEF TypeOK, return, Add, ReadLockOps, ReadUnlockOps
    <3>3. QED
      BY <1>2, <2>1, <2>4, <3>1, <3>2 DEF CallInv, SpecInv, Settled,
         ReadLockOps, ReadUnlockOps
  <2>5. QED
    BY <2>2, <2>3, <2>4 DEF TypeOK
<1>3. QED
  BY <1>1, <1>2

\* Every step of a thread keeps what CallInv and SpecInv say of a thread u.
LEMMA CallStep ==
    ASSUME TypeOK, NEW t \in Threads, CallInv(t), NEW u \in Threads, CallInv(u), SpecInv(u),
           Calls(t) \/ Releases(t) \/ Steps(t)
    PROVE  (CallInv(u) /\ SpecInv(u))'
<1> USE GcLockAssumption DEF TypeOK, SpecInv, CallInv, Settled, ReadLockOps, ReadUnlockOps,
         CheckPCs, UpdatePCs, DeferPCs, BarrierPCs, shared,
         entryVars, callVars, locals, aux
<1>1. ASSUME NEW r \in RunDefers, lockShared(t, r) PROVE (CallInv(u) /\ SpecInv(u))'
  BY <1>1 DEF lockShared, AcquireRead, Invoke, Add
<1>2. ASSUME NEW r \in RunDefers, lockSpeculative(t, r)
      PROVE  (CallInv(u) /\ SpecInv(u))'
  BY <1>2, CallSpeculative
<1>3. CASE lockExclusive(t)
  BY <1>3 DEF lockExclusive, Invoke, Add
<1>4. ASSUME NEW w \in Work, defer(t, w) PROVE (CallInv(u) /\ SpecInv(u))'
  BY <1>4 DEF defer, Invoke
<1>5. CASE visibleBarrier(t)
  BY <1>5 DEF visibleBarrier, Invoke
<1>6. CASE deferBarrier(t)
  BY <1>6 DEF deferBarrier, Invoke
<1>7. ASSUME NEW r \in RunDefers, unlockShared(t, r)
      PROVE  (CallInv(u) /\ SpecInv(u))'
  BY <1>7 DEF unlockShared, ReleaseRead, Invoke, Add, SharedGuards
<1>8. ASSUME NEW r \in RunDefers, unlockSpeculative(t, r)
      PROVE  (CallInv(u) /\ SpecInv(u))'
  BY <1>8 DEF unlockSpeculative, ReleaseRead, Invoke, Add
<1>9. ASSUME NEW r \in RunDefers, forceUnlock(t, r)
      PROVE  (CallInv(u) /\ SpecInv(u))'
  BY <1>9 DEF forceUnlock, ReleaseRead, Invoke, Add
<1>10. CASE unlockExclusive(t)
  BY <1>10 DEF unlockExclusive, Invoke, Add, SharedGuards
<1>11. CASE enterCS(t)
  BY <1>11, CallEnter
<1>12. CASE exitCS(t)
  BY <1>12 DEF exitCS, updateAtomic
<1>13. CASE exitCSThrows(t)
  BY <1>13 DEF exitCSThrows
<1>14. CASE waitExclusive(t)
  BY <1>14 DEF waitExclusive
<1>15. CASE bumpVisible(t)
  BY <1>15 DEF bumpVisible
<1>16. CASE wakeVisible(t)
  BY <1>16 DEF wakeVisible
<1>17. CASE runDefers(t)
  BY <1>17 DEF runDefers
<1>18. CASE loadEpoch(t)
  BY <1>18 DEF loadEpoch
<1>19. CASE loadIn(t)
  BY <1>19 DEF loadIn
<1>20. CASE checkDefers(t)
  BY <1>20 DEF checkDefers
<1>21. CASE runAll(t)
  BY <1>21 DEF runAll, RunItem
<1>22. CASE deferLoad(t)
  BY <1>22 DEF deferLoad
<1>23. CASE deferInsert(t)
  BY <1>23 DEF deferInsert, AfterDefer
<1>24. CASE runInline(t)
  BY <1>24 DEF runInline, RunItem, AfterDefer
<1>25. CASE barrierLoad(t)
  BY <1>25 DEF barrierLoad
<1>26. CASE barrierWait(t)
  BY <1>26 DEF barrierWait
<1>27. CASE enterCSExclusive(t)
  BY <1>27, CallEnterX
<1>28. CASE storeExclusive1(t)
  BY <1>28 DEF storeExclusive1
<1>29. CASE exclusiveEntered(t)
  BY <1>29, CallXEntered
<1>30. CASE exitCSExclusive(t)
  BY <1>30 DEF exitCSExclusive
<1>31. CASE storeExclusive0(t)
  BY <1>31 DEF storeExclusive0
<1>32. CASE wakeExclusive(t)
  BY <1>32 DEF wakeExclusive
<1>33. CASE visibleBarrierDone(t)
  BY <1>33 DEF visibleBarrierDone
<1>34. CASE barrierRound(t)
  BY <1>34 DEF barrierRound, Add
<1>35. CASE barrierDec(t)
  BY <1>35 DEF barrierDec
<1>36. CASE barrierLockWait(t)
  BY <1>36 DEF barrierLockWait
<1>37. CASE return(t)
  BY <1>37, CallReturn
<1>38. QED
  BY <1>1, <1>2, <1>3, <1>4, <1>5, <1>6, <1>7, <1>8, <1>9, <1>10, <1>11,
     <1>12, <1>13, <1>14, <1>15, <1>16, <1>17, <1>18, <1>19, <1>20, <1>21,
     <1>22, <1>23, <1>24, <1>25, <1>26, <1>27, <1>28, <1>29, <1>30, <1>31,
     <1>32, <1>33, <1>34, <1>35, <1>36, <1>37 DEF Calls, Releases, Steps

-----------------------------------------------------------------------------
(* The exclusive bit.                                                      *)

\* A step keeps BitInv when nobody gains the bit, enters a section, or has
\* the start of its barrier changed, and the bit and the epoch stay.
LEMMA BitFrame ==
    ASSUME BitInv, section \in [Threads -> Epoch \cup {-1}],
           atomic'.exclusive = atomic.exclusive, atomic'.epoch = atomic.epoch,
           \A u \in Threads : section'[u] \in {section[u], -1},
           \A u \in Threads : OwnsBit(u)' => OwnsBit(u),
           \A u \in Threads : InExclusive(u)' => InExclusive(u),
           \A u \in Threads : (op[u] = "lockExclusive" /\ pc[u] \in BarrierPCs \ {"barrier"})'
               => start'[u] = start[u] /\ op[u] = "lockExclusive" /\ pc[u] \in BarrierPCs \ {"barrier"}
    PROVE  BitInv'
  BY DEF BitInv

\* A barrier that ends in the epoch it started in has found both counters
\* zero: nobody is inside.  In a ring of two epochs this would fail, as the
\* epoch two before would be the current one.
LEMMA Emptied ==
    ASSUME TypeOK, EpochAccounting, BarrierOver(atomic, atomic.epoch)
    PROVE  \A u \in Threads : section[u] = -1
<1> DEFINE e == atomic.epoch
<1>1. e \in Epoch
  BY DEF TypeOK, Word
<1>2. ~AnyInCurrent(atomic) /\ ~AnyInOld(atomic)
  BY <1>1, RingLemma, TwoBeforeLemma DEF BarrierOver, visibleEpoch
<1>3. atomic.in[e % 2] = 0 /\ atomic.in[(e + 1) % 2] = 0
  BY <1>2 DEF AnyInCurrent, AnyInOld
<1>4. e % 2 \in 0..1 /\ (e + 1) % 2 \in 0..1 /\ e % 2 # (e + 1) % 2
  BY <1>1, RingLemma
<1>5. ASSUME NEW u \in Threads, section[u] # -1 PROVE FALSE
  BY <1>3, <1>4, <1>5, CountLemma
<1>6. QED
  BY <1>5

\* The barrier of enterCSExclusive ends only when nobody is inside.
LEMMA BitBarrierLoad ==
    ASSUME TypeOK, EpochAccounting, NEW t \in Threads, barrierLoad(t),
           \A u \in Threads : CallInv(u), BitInv
    PROVE  BitInv'
<1>1. /\ atomic' = atomic /\ section' = section /\ op' = op /\ writeLocked' = writeLocked
      /\ \A u \in Threads \ {t} : pc'[u] = pc[u] /\ start'[u] = start[u]
      /\ pc[t] \in {"barrier", "barrierAgain"}
      /\ pc'[t] \in {"barrierWait", "barrierDone"}
      /\ start'[t] = IF pc[t] = "barrier" THEN atomic.epoch ELSE start[t]
      /\ pc'[t] = "barrierDone" => BarrierOver(atomic, start'[t])
  BY DEF TypeOK, barrierLoad, shared, entryVars, callVars
<1>2. \A u \in Threads : OwnsBit(u)' => OwnsBit(u)
  BY <1>1 DEF OwnsBit, BarrierPCs
<1>3. op[t] = "lockExclusive" => start'[t] = atomic.epoch
  BY <1>1 DEF BitInv, BarrierPCs
<1>4. ASSUME NEW u \in Threads, InExclusive(u)'
      PROVE  \A v \in Threads : section'[v] = -1
  <2>1. CASE InExclusive(u)
    BY <1>1, <2>1 DEF BitInv
  <2>2. CASE ~InExclusive(u)
    <3>1. u = t /\ pc'[t] = "barrierDone" /\ op[t] = "lockExclusive"
      BY <1>1, <1>4, <2>2 DEF InExclusive
    <3>2. BarrierOver(atomic, atomic.epoch)
      BY <1>1, <1>3, <3>1
    <3>3. QED
      BY <1>1, <3>2, Emptied
  <2>3. QED
    BY <2>1, <2>2
<1>5. ASSUME NEW u \in Threads, (op[u] = "lockExclusive" /\ pc[u] \in BarrierPCs \ {"barrier"})'
      PROVE  start'[u] = atomic'.epoch
  BY <1>1, <1>3, <1>5 DEF BitInv
<1>6. QED
  BY <1>1, <1>2, <1>4, <1>5 DEF BitInv

\* lockExclusive gives the bit to nobody: it nests, or goes to enterCSExclusive.
LEMMA BitLockX ==
    ASSUME TypeOK, NEW t \in Threads, lockExclusive(t), BitInv
    PROVE  BitInv'
<1>1. UNCHANGED <<atomic, section, start>>
  BY DEF lockExclusive, shared, locals, aux
<1>2. /\ pc[t] = "idle" /\ pc'[t] \in {"idle", "xenter"}
      /\ \A u \in Threads \ {t} : pc'[u] = pc[u] /\ op'[u] = op[u]
      /\ \A u \in Threads : writeLocked'[u] > 0 => writeLocked[u] > 0
  <2>1. CASE writeLocked[t] = 0
    BY <2>1 DEF TypeOK, lockExclusive, Invoke
  <2>2. CASE writeLocked[t] # 0
    BY <2>2 DEF TypeOK, lockExclusive, Add, callVars
  <2>3. QED
    BY <2>1, <2>2
<1>3. \A u \in Threads : (OwnsBit(u)' => OwnsBit(u)) /\ (InExclusive(u)' => InExclusive(u))
  BY <1>2 DEF OwnsBit, InExclusive, BarrierPCs
<1>4. \A u \in Threads : (op[u] = "lockExclusive" /\ pc[u] \in BarrierPCs \ {"barrier"})'
          => start'[u] = start[u] /\ op[u] = "lockExclusive" /\ pc[u] \in BarrierPCs \ {"barrier"}
  BY <1>1, <1>2 DEF BarrierPCs
<1>5. QED
  BY <1>1, <1>3, <1>4, BitFrame DEF TypeOK

\* enterCSExclusive takes the bit only when nobody has it.
LEMMA BitEnterX ==
    ASSUME TypeOK, NEW t \in Threads, enterCSExclusive(t),
           \A u \in Threads : CallInv(u), BitInv
    PROVE  BitInv'
<1>1. CASE exclusive(atomic)
  <2>1. /\ UNCHANGED <<atomic, section, op, start, writeLocked>>
        /\ pc' = [pc EXCEPT ![t] = "xenterWait"] /\ pc[t] = "xenter"
    BY <1>1 DEF enterCSExclusive, shared, entryVars, callVars, locals, aux
  <2>2. \A u \in Threads : (OwnsBit(u)' => OwnsBit(u)) /\ (InExclusive(u)' => InExclusive(u))
    BY <2>1 DEF TypeOK, OwnsBit, InExclusive, BarrierPCs
  <2>3. QED
    BY <2>1, <2>2, BitFrame DEF TypeOK, BarrierPCs
<1>2. CASE ~exclusive(atomic)
  <2>1. /\ UNCHANGED <<section, op, start, writeLocked>>
        /\ pc' = [pc EXCEPT ![t] = "xstore1"] /\ pc[t] = "xenter"
        /\ atomic'.exclusive = TRUE /\ atomic'.epoch = atomic.epoch
    BY <1>2 DEF enterCSExclusive, entryVars, callVars, locals, aux, WithExclusive
  <2>2. \A u \in Threads : ~OwnsBit(u)
    BY <1>2 DEF BitInv, exclusive
  <2>3. \A u \in Threads : OwnsBit(u)' => u = t
    BY <2>1, <2>2 DEF TypeOK, OwnsBit, BarrierPCs
  <2>4. \A u \in Threads : ~InExclusive(u)'
    BY <2>1, <2>2 DEF TypeOK, OwnsBit, InExclusive, BarrierPCs
  <2>5. QED
    BY <2>1, <2>3, <2>4 DEF TypeOK, BitInv, BarrierPCs
<1>3. QED
  BY <1>1, <1>2

\* exitCSExclusive resets the bit of the only thread that has it.
LEMMA BitExitX ==
    ASSUME TypeOK, NEW t \in Threads, exitCSExclusive(t),
           \A u \in Threads : CallInv(u), BitInv
    PROVE  BitInv'
<1>1. /\ UNCHANGED <<section, op, start, writeLocked>>
      /\ pc' = [pc EXCEPT ![t] = "xstore0"] /\ pc[t] = "xexit"
      /\ atomic'.epoch = atomic.epoch
  BY DEF exitCSExclusive, entryVars, callVars, locals, aux, WithExclusive
<1>2. \A u \in Threads : OwnsBit(u) => u = t
  BY <1>1 DEF BitInv, OwnsBit
<1>3. writeLocked[t] = 0 /\ op[t] # "lockExclusive"
  BY <1>1 DEF TypeOK, CallInv, Settled, Ops, ReadLockOps, ReadUnlockOps, CheckPCs,
         UpdatePCs, DeferPCs, BarrierPCs
<1>4. \A u \in Threads : ~OwnsBit(u)' /\ ~InExclusive(u)'
  BY <1>1, <1>2, <1>3 DEF TypeOK, OwnsBit, InExclusive, BarrierPCs
<1>5. QED
  BY <1>1, <1>4 DEF TypeOK, BitInv, BarrierPCs

\* Every step of a thread keeps BitInv.
LEMMA BitStep ==
    ASSUME TypeOK, EpochAccounting, NEW t \in Threads, \A u \in Threads : CallInv(u), BitInv,
           Calls(t) \/ Releases(t) \/ Steps(t)
    PROVE  BitInv'
<1> USE GcLockAssumption DEF TypeOK, OwnsBit, InExclusive, CallInv, Settled, ReadLockOps,
         ReadUnlockOps, CheckPCs, UpdatePCs, DeferPCs,
         BarrierPCs, shared, entryVars, callVars, locals, aux
<1>1. ASSUME NEW r \in RunDefers, lockShared(t, r) PROVE BitInv'
  <2>1. \A u \in Threads : OwnsBit(u)' => OwnsBit(u)
    BY <1>1 DEF lockShared, AcquireRead, Invoke, Add
  <2>2. \A u \in Threads : InExclusive(u)' => InExclusive(u)
    BY <1>1 DEF lockShared, AcquireRead, Invoke, Add
  <2>3. \A u \in Threads :
          (op[u] = "lockExclusive" /\ pc[u] \in BarrierPCs \ {"barrier"})' =>
              /\ start'[u] = start[u]
              /\ op[u] = "lockExclusive" /\ pc[u] \in BarrierPCs \ {"barrier"}
    BY <1>1 DEF lockShared, AcquireRead, Invoke, Add
  <2>4. /\ atomic'.exclusive = atomic.exclusive /\ atomic'.epoch = atomic.epoch
        /\ \A u \in Threads : section'[u] \in {section[u], -1}
    BY <1>1 DEF lockShared, AcquireRead, Invoke, Add
  <2>5. QED
    BY <2>1, <2>2, <2>3, <2>4, BitFrame
<1>2. ASSUME NEW r \in RunDefers, lockSpeculative(t, r) PROVE BitInv'
  <2>1. \A u \in Threads : OwnsBit(u)' => OwnsBit(u)
    BY <1>2 DEF lockSpeculative, AcquireRead, Invoke, Add
  <2>2. \A u \in Threads : InExclusive(u)' => InExclusive(u)
    BY <1>2 DEF lockSpeculative, AcquireRead, Invoke, Add
  <2>3. \A u \in Threads :
          (op[u] = "lockExclusive" /\ pc[u] \in BarrierPCs \ {"barrier"})' =>
              /\ start'[u] = start[u]
              /\ op[u] = "lockExclusive" /\ pc[u] \in BarrierPCs \ {"barrier"}
    BY <1>2 DEF lockSpeculative, AcquireRead, Invoke, Add
  <2>4. /\ atomic'.exclusive = atomic.exclusive /\ atomic'.epoch = atomic.epoch
        /\ \A u \in Threads : section'[u] \in {section[u], -1}
    BY <1>2 DEF lockSpeculative, AcquireRead, Invoke, Add
  <2>5. QED
    BY <2>1, <2>2, <2>3, <2>4, BitFrame
<1>3. CASE lockExclusive(t)
  BY <1>3, BitLockX
<1>4. ASSUME NEW w \in Work, defer(t, w) PROVE BitInv'
  BY <1>4 DEF defer, Invoke, BitInv
<1>5. CASE visibleBarrier(t)
  BY <1>5 DEF visibleBarrier, Invoke, BitInv
<1>6. CASE deferBarrier(t)
  BY <1>6 DEF deferBarrier, Invoke, BitInv
<1>7. ASSUME NEW r \in RunDefers, unlockShared(t, r) PROVE BitInv'
  <2>1. \A u \in Threads : OwnsBit(u)' => OwnsBit(u)
    BY <1>7 DEF unlockShared, ReleaseRead, Invoke, Add, SharedGuards
  <2>2. \A u \in Threads : InExclusive(u)' => InExclusive(u)
    BY <1>7 DEF unlockShared, ReleaseRead, Invoke, Add, SharedGuards
  <2>3. \A u \in Threads :
          (op[u] = "lockExclusive" /\ pc[u] \in BarrierPCs \ {"barrier"})' =>
              /\ start'[u] = start[u]
              /\ op[u] = "lockExclusive" /\ pc[u] \in BarrierPCs \ {"barrier"}
    BY <1>7 DEF unlockShared, ReleaseRead, Invoke, Add, SharedGuards
  <2>4. /\ atomic'.exclusive = atomic.exclusive /\ atomic'.epoch = atomic.epoch
        /\ \A u \in Threads : section'[u] \in {section[u], -1}
    BY <1>7 DEF unlockShared, ReleaseRead, Invoke, Add, SharedGuards
  <2>5. QED
    BY <2>1, <2>2, <2>3, <2>4, BitFrame
<1>8. ASSUME NEW r \in RunDefers, unlockSpeculative(t, r) PROVE BitInv'
  <2>1. \A u \in Threads : OwnsBit(u)' => OwnsBit(u)
    BY <1>8 DEF unlockSpeculative, ReleaseRead, Invoke, Add
  <2>2. \A u \in Threads : InExclusive(u)' => InExclusive(u)
    BY <1>8 DEF unlockSpeculative, ReleaseRead, Invoke, Add
  <2>3. \A u \in Threads :
          (op[u] = "lockExclusive" /\ pc[u] \in BarrierPCs \ {"barrier"})' =>
              /\ start'[u] = start[u]
              /\ op[u] = "lockExclusive" /\ pc[u] \in BarrierPCs \ {"barrier"}
    BY <1>8 DEF unlockSpeculative, ReleaseRead, Invoke, Add
  <2>4. /\ atomic'.exclusive = atomic.exclusive /\ atomic'.epoch = atomic.epoch
        /\ \A u \in Threads : section'[u] \in {section[u], -1}
    BY <1>8 DEF unlockSpeculative, ReleaseRead, Invoke, Add
  <2>5. QED
    BY <2>1, <2>2, <2>3, <2>4, BitFrame
<1>9. ASSUME NEW r \in RunDefers, forceUnlock(t, r) PROVE BitInv'
  <2>1. \A u \in Threads : OwnsBit(u)' => OwnsBit(u)
    BY <1>9 DEF forceUnlock, ReleaseRead, Invoke, Add
  <2>2. \A u \in Threads : InExclusive(u)' => InExclusive(u)
    BY <1>9 DEF forceUnlock, ReleaseRead, Invoke, Add
  <2>3. \A u \in Threads :
          (op[u] = "lockExclusive" /\ pc[u] \in BarrierPCs \ {"barrier"})' =>
              /\ start'[u] = start[u]
              /\ op[u] = "lockExclusive" /\ pc[u] \in BarrierPCs \ {"barrier"}
    BY <1>9 DEF forceUnlock, ReleaseRead, Invoke, Add
  <2>4. /\ atomic'.exclusive = atomic.exclusive /\ atomic'.epoch = atomic.epoch
        /\ \A u \in Threads : section'[u] \in {section[u], -1}
    BY <1>9 DEF forceUnlock, ReleaseRead, Invoke, Add
  <2>5. QED
    BY <2>1, <2>2, <2>3, <2>4, BitFrame
<1>10. CASE unlockExclusive(t)
  BY <1>10 DEF unlockExclusive, Invoke, Add, SharedGuards, BitInv
<1>11. CASE enterCS(t)
  BY <1>11 DEF enterCS, updateAtomic, exclusive, BitInv
<1>12. CASE exitCS(t)
  <2>1. \A u \in Threads : OwnsBit(u)' => OwnsBit(u)
    BY <1>12 DEF exitCS, updateAtomic
  <2>2. \A u \in Threads : InExclusive(u)' => InExclusive(u)
    BY <1>12 DEF exitCS, updateAtomic
  <2>3. \A u \in Threads :
          (op[u] = "lockExclusive" /\ pc[u] \in BarrierPCs \ {"barrier"})' =>
              /\ start'[u] = start[u]
              /\ op[u] = "lockExclusive" /\ pc[u] \in BarrierPCs \ {"barrier"}
    BY <1>12 DEF exitCS, updateAtomic
  <2>4. /\ atomic'.exclusive = atomic.exclusive /\ atomic'.epoch = atomic.epoch
        /\ \A u \in Threads : section'[u] \in {section[u], -1}
    BY <1>12 DEF exitCS, updateAtomic, Exited
  <2>5. QED
    BY <2>1, <2>2, <2>3, <2>4, BitFrame
<1>13. CASE exitCSThrows(t)
  BY <1>13 DEF exitCSThrows, BitInv
<1>14. CASE waitExclusive(t)
  <2>1. \A u \in Threads : OwnsBit(u)' => OwnsBit(u)
    BY <1>14 DEF waitExclusive
  <2>2. \A u \in Threads : InExclusive(u)' => InExclusive(u)
    BY <1>14 DEF waitExclusive
  <2>3. \A u \in Threads :
          (op[u] = "lockExclusive" /\ pc[u] \in BarrierPCs \ {"barrier"})' =>
              /\ start'[u] = start[u]
              /\ op[u] = "lockExclusive" /\ pc[u] \in BarrierPCs \ {"barrier"}
    BY <1>14 DEF waitExclusive
  <2>4. /\ atomic'.exclusive = atomic.exclusive /\ atomic'.epoch = atomic.epoch
        /\ \A u \in Threads : section'[u] \in {section[u], -1}
    BY <1>14 DEF waitExclusive
  <2>5. QED
    BY <2>1, <2>2, <2>3, <2>4, BitFrame
<1>15. CASE bumpVisible(t)
  BY <1>15 DEF bumpVisible, BitInv
<1>16. CASE wakeVisible(t)
  BY <1>16 DEF wakeVisible, BitInv
<1>17. CASE runDefers(t)
  <2>1. \A u \in Threads : OwnsBit(u)' => OwnsBit(u)
    BY <1>17 DEF runDefers
  <2>2. \A u \in Threads : InExclusive(u)' => InExclusive(u)
    BY <1>17 DEF runDefers
  <2>3. \A u \in Threads :
          (op[u] = "lockExclusive" /\ pc[u] \in BarrierPCs \ {"barrier"})' =>
              /\ start'[u] = start[u]
              /\ op[u] = "lockExclusive" /\ pc[u] \in BarrierPCs \ {"barrier"}
    BY <1>17 DEF runDefers
  <2>4. /\ atomic'.exclusive = atomic.exclusive /\ atomic'.epoch = atomic.epoch
        /\ \A u \in Threads : section'[u] \in {section[u], -1}
    BY <1>17 DEF runDefers
  <2>5. QED
    BY <2>1, <2>2, <2>3, <2>4, BitFrame
<1>18. CASE loadEpoch(t)
  <2>1. \A u \in Threads : OwnsBit(u)' => OwnsBit(u)
    BY <1>18 DEF loadEpoch
  <2>2. \A u \in Threads : InExclusive(u)' => InExclusive(u)
    BY <1>18 DEF loadEpoch
  <2>3. \A u \in Threads :
          (op[u] = "lockExclusive" /\ pc[u] \in BarrierPCs \ {"barrier"})' =>
              /\ start'[u] = start[u]
              /\ op[u] = "lockExclusive" /\ pc[u] \in BarrierPCs \ {"barrier"}
    BY <1>18 DEF loadEpoch
  <2>4. /\ atomic'.exclusive = atomic.exclusive /\ atomic'.epoch = atomic.epoch
        /\ \A u \in Threads : section'[u] \in {section[u], -1}
    BY <1>18 DEF loadEpoch
  <2>5. QED
    BY <2>1, <2>2, <2>3, <2>4, BitFrame
<1>19. CASE loadIn(t)
  <2>1. \A u \in Threads : OwnsBit(u)' => OwnsBit(u)
    BY <1>19 DEF loadIn
  <2>2. \A u \in Threads : InExclusive(u)' => InExclusive(u)
    BY <1>19 DEF loadIn
  <2>3. \A u \in Threads :
          (op[u] = "lockExclusive" /\ pc[u] \in BarrierPCs \ {"barrier"})' =>
              /\ start'[u] = start[u]
              /\ op[u] = "lockExclusive" /\ pc[u] \in BarrierPCs \ {"barrier"}
    BY <1>19 DEF loadIn
  <2>4. /\ atomic'.exclusive = atomic.exclusive /\ atomic'.epoch = atomic.epoch
        /\ \A u \in Threads : section'[u] \in {section[u], -1}
    BY <1>19 DEF loadIn
  <2>5. QED
    BY <2>1, <2>2, <2>3, <2>4, BitFrame
<1>20. CASE checkDefers(t)
  BY <1>20 DEF checkDefers, BitInv
<1>21. CASE runAll(t)
  BY <1>21 DEF runAll, RunItem, BitInv
<1>22. CASE deferLoad(t)
  BY <1>22 DEF deferLoad, BitInv
<1>23. CASE deferInsert(t)
  <2>1. \A u \in Threads : OwnsBit(u)' => OwnsBit(u)
    BY <1>23 DEF deferInsert, AfterDefer
  <2>2. \A u \in Threads : InExclusive(u)' => InExclusive(u)
    BY <1>23 DEF deferInsert, AfterDefer
  <2>3. \A u \in Threads :
          (op[u] = "lockExclusive" /\ pc[u] \in BarrierPCs \ {"barrier"})' =>
              /\ start'[u] = start[u]
              /\ op[u] = "lockExclusive" /\ pc[u] \in BarrierPCs \ {"barrier"}
    BY <1>23 DEF deferInsert, AfterDefer
  <2>4. /\ atomic'.exclusive = atomic.exclusive /\ atomic'.epoch = atomic.epoch
        /\ \A u \in Threads : section'[u] \in {section[u], -1}
    BY <1>23 DEF deferInsert, AfterDefer
  <2>5. QED
    BY <2>1, <2>2, <2>3, <2>4, BitFrame
<1>24. CASE runInline(t)
  BY <1>24 DEF runInline, RunItem, AfterDefer, BitInv
<1>25. CASE barrierLoad(t)
  BY <1>25, BitBarrierLoad
<1>26. CASE barrierWait(t)
  BY <1>26 DEF barrierWait, BitInv
<1>27. CASE enterCSExclusive(t)
  BY <1>27, BitEnterX
<1>28. CASE storeExclusive1(t)
  BY <1>28 DEF storeExclusive1, BitInv
<1>29. CASE exclusiveEntered(t)
  BY <1>29 DEF exclusiveEntered, Add, BitInv
<1>30. CASE exitCSExclusive(t)
  BY <1>30, BitExitX
<1>31. CASE storeExclusive0(t)
  BY <1>31 DEF storeExclusive0, BitInv
<1>32. CASE wakeExclusive(t)
  BY <1>32 DEF wakeExclusive, BitInv
<1>33. CASE visibleBarrierDone(t)
  BY <1>33 DEF visibleBarrierDone, BitInv
<1>34. CASE barrierRound(t)
  BY <1>34 DEF barrierRound, Add, BitInv
<1>35. CASE barrierDec(t)
  BY <1>35 DEF barrierDec, BitInv
<1>36. CASE barrierLockWait(t)
  BY <1>36 DEF barrierLockWait, BitInv
<1>37. CASE return(t)
  BY <1>37 DEF return, Add, Invoke, BitInv
<1>38. QED
  BY <1>1, <1>2, <1>3, <1>4, <1>5, <1>6, <1>7, <1>8, <1>9, <1>10, <1>11,
     <1>12, <1>13, <1>14, <1>15, <1>16, <1>17, <1>18, <1>19, <1>20, <1>21,
     <1>22, <1>23, <1>24, <1>25, <1>26, <1>27, <1>28, <1>29, <1>30, <1>31,
     <1>32, <1>33, <1>34, <1>35, <1>36, <1>37 DEF Calls, Releases, Steps

-----------------------------------------------------------------------------
(* The startEpoch of enterCSExclusive.                                     *)

\* The thread is in enterCSExclusive and has set the bit.
Claims(t) == op[t] = "lockExclusive" /\ pc[t] \in BarrierPCs \cup {"xstore1"}

\* The epoch has not moved since the bit was set.
StartInv == \A t \in Threads : Claims(t) => xstart[t] = atomic.epoch

\* A step that lets nobody claim the bit and leaves the epoch alone.
Kept ==
    /\ atomic'.epoch = atomic.epoch
    /\ \A u \in Threads : Claims(u)' => Claims(u) /\ xstart'[u] = xstart[u]

\* Such a step keeps StartInv.
LEMMA StartFrame ==
    ASSUME StartInv, Kept
    PROVE  StartInv'
  BY DEF StartInv, Kept

\* enterCS moves the epoch only when the bit is clear, that is, when nobody
\* claims it.
LEMMA StartEnter ==
    ASSUME TypeOK, BitInv, StartInv, NEW t \in Threads, enterCS(t)
    PROVE  StartInv'
<1>1. /\ UNCHANGED <<op, xstart>> /\ pc[t] = "enter"
      /\ \A u \in Threads \ {t} : pc'[u] = pc[u]
      /\ pc'[t] \in {"enterWait", "bump", "return"}
  BY DEF TypeOK, enterCS, updateAtomic, callVars, locals
<1>2. \A u \in Threads : Claims(u)' => Claims(u)
  BY <1>1 DEF Claims, BarrierPCs
<1>3. CASE exclusive(atomic)
  BY <1>1, <1>2, <1>3 DEF enterCS, StartInv
<1>4. CASE ~exclusive(atomic)
  <2>1. \A u \in Threads : ~Claims(u)
    BY <1>4 DEF BitInv, OwnsBit, Claims, exclusive
  <2>2. QED
    BY <1>2, <2>1 DEF StartInv
<1>5. QED
  BY <1>3, <1>4

\* enterCSExclusive keeps the epoch of the word whose bit it sets.
LEMMA StartEnterX ==
    ASSUME TypeOK, StartInv, NEW t \in Threads, enterCSExclusive(t)
    PROVE  StartInv'
<1>1. /\ op' = op /\ pc[t] = "xenter" /\ atomic'.epoch = atomic.epoch
      /\ \A u \in Threads \ {t} : pc'[u] = pc[u] /\ xstart'[u] = xstart[u]
      /\ pc'[t] = "xenterWait" \/ xstart'[t] = atomic.epoch
  BY DEF TypeOK, enterCSExclusive, callVars, WithExclusive
<1>2. QED
  BY <1>1 DEF StartInv, Claims, BarrierPCs

\* Every step of a thread keeps StartInv.
LEMMA StartStep ==
    ASSUME TypeOK, NEW t \in Threads, BitInv, StartInv,
           Calls(t) \/ Releases(t) \/ Steps(t)
    PROVE  StartInv'
<1> USE DEF TypeOK, Kept, Claims, BarrierPCs, shared, callVars, locals
<1>1. ASSUME NEW r \in RunDefers, lockShared(t, r) PROVE Kept
  BY <1>1 DEF lockShared, AcquireRead, Invoke
<1>2. ASSUME NEW r \in RunDefers, lockSpeculative(t, r) PROVE Kept
  BY <1>2 DEF lockSpeculative, AcquireRead, Invoke
<1>3. CASE lockExclusive(t)
  <2>1. Kept
    BY <1>3 DEF lockExclusive, Invoke
  <2>2. QED
    BY <2>1, StartFrame
<1>4. ASSUME NEW w \in Work, defer(t, w) PROVE Kept
  BY <1>4 DEF defer, Invoke
<1>5. CASE visibleBarrier(t)
  <2>1. Kept
    BY <1>5 DEF visibleBarrier, Invoke
  <2>2. QED
    BY <2>1, StartFrame
<1>6. CASE deferBarrier(t)
  <2>1. Kept
    BY <1>6 DEF deferBarrier, Invoke
  <2>2. QED
    BY <2>1, StartFrame
<1>7. ASSUME NEW r \in RunDefers, unlockShared(t, r) PROVE Kept
  BY <1>7 DEF unlockShared, ReleaseRead, Invoke
<1>8. ASSUME NEW r \in RunDefers, unlockSpeculative(t, r) PROVE Kept
  BY <1>8 DEF unlockSpeculative, ReleaseRead, Invoke
<1>9. ASSUME NEW r \in RunDefers, forceUnlock(t, r) PROVE Kept
  BY <1>9 DEF forceUnlock, ReleaseRead, Invoke
<1>10. CASE unlockExclusive(t)
  <2>1. Kept
    BY <1>10 DEF unlockExclusive, Invoke
  <2>2. QED
    BY <2>1, StartFrame
<1>11. CASE exitCS(t)
  <2>1. Kept
    BY <1>11 DEF exitCS, updateAtomic, Exited
  <2>2. QED
    BY <2>1, StartFrame
<1>12. CASE exitCSThrows(t)
  <2>1. Kept
    BY <1>12 DEF exitCSThrows
  <2>2. QED
    BY <2>1, StartFrame
<1>13. CASE waitExclusive(t)
  <2>1. Kept
    BY <1>13 DEF waitExclusive
  <2>2. QED
    BY <2>1, StartFrame
<1>14. CASE bumpVisible(t)
  <2>1. Kept
    BY <1>14 DEF bumpVisible
  <2>2. QED
    BY <2>1, StartFrame
<1>15. CASE wakeVisible(t)
  <2>1. Kept
    BY <1>15 DEF wakeVisible
  <2>2. QED
    BY <2>1, StartFrame
<1>16. CASE runDefers(t)
  <2>1. Kept
    BY <1>16 DEF runDefers
  <2>2. QED
    BY <2>1, StartFrame
<1>17. CASE loadEpoch(t)
  <2>1. Kept
    BY <1>17 DEF loadEpoch
  <2>2. QED
    BY <2>1, StartFrame
<1>18. CASE loadIn(t)
  <2>1. Kept
    BY <1>18 DEF loadIn
  <2>2. QED
    BY <2>1, StartFrame
<1>19. CASE checkDefers(t)
  <2>1. Kept
    BY <1>19 DEF checkDefers
  <2>2. QED
    BY <2>1, StartFrame
<1>20. CASE runAll(t)
  <2>1. Kept
    BY <1>20 DEF runAll, RunItem
  <2>2. QED
    BY <2>1, StartFrame
<1>21. CASE deferLoad(t)
  <2>1. Kept
    BY <1>21 DEF deferLoad
  <2>2. QED
    BY <2>1, StartFrame
<1>22. CASE deferInsert(t)
  <2>1. Kept
    BY <1>22 DEF deferInsert, AfterDefer
  <2>2. QED
    BY <2>1, StartFrame
<1>23. CASE runInline(t)
  <2>1. Kept
    BY <1>23 DEF runInline, RunItem, AfterDefer
  <2>2. QED
    BY <2>1, StartFrame
<1>24. CASE barrierLoad(t)
  <2>1. Kept
    BY <1>24 DEF barrierLoad
  <2>2. QED
    BY <2>1, StartFrame
<1>25. CASE barrierWait(t)
  <2>1. Kept
    BY <1>25 DEF barrierWait
  <2>2. QED
    BY <2>1, StartFrame
<1>26. CASE storeExclusive1(t)
  <2>1. Kept
    BY <1>26 DEF storeExclusive1
  <2>2. QED
    BY <2>1, StartFrame
<1>27. CASE exclusiveEntered(t)
  <2>1. Kept
    BY <1>27 DEF exclusiveEntered
  <2>2. QED
    BY <2>1, StartFrame
<1>28. CASE exitCSExclusive(t)
  <2>1. Kept
    BY <1>28 DEF exitCSExclusive, WithExclusive
  <2>2. QED
    BY <2>1, StartFrame
<1>29. CASE storeExclusive0(t)
  <2>1. Kept
    BY <1>29 DEF storeExclusive0
  <2>2. QED
    BY <2>1, StartFrame
<1>30. CASE wakeExclusive(t)
  <2>1. Kept
    BY <1>30 DEF wakeExclusive
  <2>2. QED
    BY <2>1, StartFrame
<1>31. CASE visibleBarrierDone(t)
  <2>1. Kept
    BY <1>31 DEF visibleBarrierDone
  <2>2. QED
    BY <2>1, StartFrame
<1>32. CASE barrierRound(t)
  <2>1. Kept
    BY <1>32 DEF barrierRound
  <2>2. QED
    BY <2>1, StartFrame
<1>33. CASE barrierDec(t)
  <2>1. Kept
    BY <1>33 DEF barrierDec
  <2>2. QED
    BY <2>1, StartFrame
<1>34. CASE barrierLockWait(t)
  <2>1. Kept
    BY <1>34 DEF barrierLockWait
  <2>2. QED
    BY <2>1, StartFrame
<1>35. CASE return(t)
  <2>1. Kept
    BY <1>35 DEF return, Invoke
  <2>2. QED
    BY <2>1, StartFrame
<1>36. CASE enterCS(t)
  BY <1>36, StartEnter
<1>37. CASE enterCSExclusive(t)
  BY <1>37, StartEnterX
<1>38. QED
  BY StartFrame, <1>1, <1>2, <1>3, <1>4, <1>5, <1>6, <1>7, <1>8, <1>9, <1>10,
     <1>11, <1>12, <1>13, <1>14, <1>15, <1>16, <1>17, <1>18, <1>19, <1>20,
     <1>21, <1>22, <1>23, <1>24, <1>25, <1>26, <1>27, <1>28, <1>29, <1>30,
     <1>31, <1>32, <1>33, <1>34, <1>35, <1>36, <1>37 DEF Calls, Releases,
     Steps

-----------------------------------------------------------------------------
(* The exclusive futex.                                                    *)

\* Running a callback wakes nobody but the deferBarrier it unlocks.
LEMMA FutexRunAll ==
    ASSUME TypeOK, NEW t \in Threads, runAll(t), FutexInv
    PROVE  FutexInv'
<1>1. \E i \in toRun[t], x \in {"return", "runAll"} : RunItem(t, i, x)
  BY DEF runAll
<1>2. /\ UNCHANGED <<exclusiveFutex, op, writeLocked>>
      /\ \A u \in Threads : \/ pc'[u] = pc[u]
                            \/ u = t /\ pc'[u] \in {"return", "runAll"}
                            \/ pc[u] = "dbSleep" /\ pc'[u] = "dbNext"
      /\ pc[t] = "runAll"
  BY <1>1 DEF runAll, RunItem, shared, entryVars, callVars
<1>3. QED
  BY <1>2 DEF FutexInv, SetFutex, BarrierPCs

\* The bit is taken before the futex is set.
LEMMA FutexEnterX ==
    ASSUME TypeOK, NEW t \in Threads, enterCSExclusive(t), FutexInv
    PROVE  FutexInv'
<1>1. /\ UNCHANGED <<exclusiveFutex, op, writeLocked>>
      /\ \A u \in Threads \ {t} : pc'[u] = pc[u]
      /\ pc[t] = "xenter" /\ pc'[t] \in {"xenterWait", "xstore1"}
  BY DEF TypeOK, enterCSExclusive, entryVars, callVars
<1>2. QED
  BY <1>1 DEF FutexInv, SetFutex, BarrierPCs

\* The thread that sets the futex is the one that will clear it.
LEMMA FutexStore1 ==
    ASSUME TypeOK, NEW t \in Threads, CallInv(t), storeExclusive1(t), FutexInv
    PROVE  FutexInv'
<1>1. op[t] = "lockExclusive"
  BY DEF TypeOK, storeExclusive1, CallInv, Settled, Ops, ReadLockOps,
     ReadUnlockOps, CheckPCs, UpdatePCs, DeferPCs, BarrierPCs
<1>2. SetFutex(t)'
  BY <1>1 DEF TypeOK, storeExclusive1, SetFutex, callVars, BarrierPCs
<1>3. QED
  BY <1>2 DEF FutexInv

\* Every step of a thread keeps FutexInv.
LEMMA FutexStep ==
    ASSUME TypeOK, NEW t \in Threads, \A u \in Threads : CallInv(u), FutexInv,
           Calls(t) \/ Releases(t) \/ Steps(t)
    PROVE  FutexInv'
<1> USE GcLockAssumption DEF TypeOK, FutexInv, SetFutex, CallInv, Settled, ReadLockOps,
         ReadUnlockOps, CheckPCs, UpdatePCs, DeferPCs,
         BarrierPCs, shared, entryVars, callVars, locals, aux
<1>1. ASSUME NEW r \in RunDefers, lockShared(t, r) PROVE FutexInv'
  BY <1>1 DEF lockShared, AcquireRead, Invoke, Add
<1>2. ASSUME NEW r \in RunDefers, lockSpeculative(t, r) PROVE FutexInv'
  BY <1>2 DEF lockSpeculative, AcquireRead, Invoke, Add
<1>3. CASE lockExclusive(t)
  BY <1>3 DEF lockExclusive, Invoke, Add
<1>4. ASSUME NEW w \in Work, defer(t, w) PROVE FutexInv'
  BY <1>4 DEF defer, Invoke
<1>5. CASE visibleBarrier(t)
  BY <1>5 DEF visibleBarrier, Invoke
<1>6. CASE deferBarrier(t)
  BY <1>6 DEF deferBarrier, Invoke
<1>7. ASSUME NEW r \in RunDefers, unlockShared(t, r) PROVE FutexInv'
  BY <1>7 DEF unlockShared, ReleaseRead, Invoke, Add, SharedGuards
<1>8. ASSUME NEW r \in RunDefers, unlockSpeculative(t, r) PROVE FutexInv'
  BY <1>8 DEF unlockSpeculative, ReleaseRead, Invoke, Add
<1>9. ASSUME NEW r \in RunDefers, forceUnlock(t, r) PROVE FutexInv'
  BY <1>9 DEF forceUnlock, ReleaseRead, Invoke, Add
<1>10. CASE unlockExclusive(t)
  BY <1>10 DEF unlockExclusive, Invoke, Add, SharedGuards
<1>11. CASE enterCS(t)
  BY <1>11 DEF enterCS, updateAtomic, exclusive
<1>12. CASE exitCS(t)
  BY <1>12 DEF exitCS, updateAtomic
<1>13. CASE exitCSThrows(t)
  BY <1>13 DEF exitCSThrows
<1>14. CASE waitExclusive(t)
  BY <1>14 DEF waitExclusive
<1>15. CASE bumpVisible(t)
  BY <1>15 DEF bumpVisible
<1>16. CASE wakeVisible(t)
  BY <1>16 DEF wakeVisible
<1>17. CASE runDefers(t)
  BY <1>17 DEF runDefers
<1>18. CASE loadEpoch(t)
  BY <1>18 DEF loadEpoch
<1>19. CASE loadIn(t)
  BY <1>19 DEF loadIn
<1>20. CASE checkDefers(t)
  BY <1>20 DEF checkDefers
<1>21. CASE runAll(t)
  BY <1>21, FutexRunAll
<1>22. CASE deferLoad(t)
  BY <1>22 DEF deferLoad
<1>23. CASE deferInsert(t)
  BY <1>23 DEF deferInsert, AfterDefer
<1>24. CASE runInline(t)
  BY <1>24 DEF runInline, RunItem, AfterDefer
<1>25. CASE barrierLoad(t)
  BY <1>25 DEF barrierLoad
<1>26. CASE barrierWait(t)
  BY <1>26 DEF barrierWait
<1>27. CASE enterCSExclusive(t)
  BY <1>27, FutexEnterX
<1>28. CASE storeExclusive1(t)
  BY <1>28, FutexStore1
<1>29. CASE exclusiveEntered(t)
  BY <1>29 DEF exclusiveEntered, Add
<1>30. CASE exitCSExclusive(t)
  BY <1>30 DEF exitCSExclusive
<1>31. CASE storeExclusive0(t)
  BY <1>31 DEF storeExclusive0
<1>32. CASE wakeExclusive(t)
  BY <1>32 DEF wakeExclusive
<1>33. CASE visibleBarrierDone(t)
  BY <1>33 DEF visibleBarrierDone
<1>34. CASE barrierRound(t)
  BY <1>34 DEF barrierRound, Add
<1>35. CASE barrierDec(t)
  BY <1>35 DEF barrierDec
<1>36. CASE barrierLockWait(t)
  BY <1>36 DEF barrierLockWait
<1>37. CASE return(t)
  BY <1>37 DEF return, Add, Invoke
<1>38. QED
  BY <1>1, <1>2, <1>3, <1>4, <1>5, <1>6, <1>7, <1>8, <1>9, <1>10, <1>11,
     <1>12, <1>13, <1>14, <1>15, <1>16, <1>17, <1>18, <1>19, <1>20, <1>21,
     <1>22, <1>23, <1>24, <1>25, <1>26, <1>27, <1>28, <1>29, <1>30, <1>31,
     <1>32, <1>33, <1>34, <1>35, <1>36, <1>37 DEF Calls, Releases, Steps

-----------------------------------------------------------------------------
(* The grace period of a barrier.                                          *)

\* Between its first load and its end.
AwaitPCs == {"barrierAgain", "barrierWait", "barrierSleep"}

\* Whoever was inside at the first load and still is entered the epoch of that load
\* or the one before.  While there is anyone, at most one epoch has been opened
\* since: the next one would need the older epoch to be empty.
GraceInv ==
    \A t \in Threads :
        /\ pc[t] \in AwaitPCs => \A u \in blockers[t] :
              /\ section[u] \in {start[t], Before(start[t])}
              /\ atomic.epoch \in {start[t], After(start[t])}
        /\ pc[t] = "barrierDone" => blockers[t] = {}

\* A step that leaves the sections, the epoch and the barriers in progress alone.
Undisturbed ==
    /\ UNCHANGED section /\ atomic'.epoch = atomic.epoch
    /\ \A u \in Threads :
          /\ pc'[u] \in AwaitPCs =>
                pc[u] \in AwaitPCs /\ start'[u] = start[u] /\ blockers'[u] = blockers[u]
          /\ pc'[u] = "barrierDone" => pc[u] = "barrierDone" /\ blockers'[u] = blockers[u]

\* Such a step keeps GraceInv.
LEMMA GraceFrame ==
    ASSUME GraceInv, Undisturbed
    PROVE  GraceInv'
  BY DEF GraceInv, Undisturbed

\* Epochs next to each other on the ring are different.
LEMMA NeighboursDiffer ==
    ASSUME NEW e \in Epoch
    PROVE  /\ After(e) # e /\ Before(e) # e /\ After(e) # Before(e)
           /\ After(e) \in Epoch /\ Before(e) \in Epoch /\ e # -1 /\ Before(e) # -1
           /\ Before(After(e)) = e
           /\ Before(Before(e)) # e /\ Before(Before(After(e))) # e
  BY QuarterAssumption DEF Epoch, After, Before, Modulus

\* When nobody is in the old epoch, everybody inside is in the current one; when
\* nobody is in the current one either, nobody is inside.
LEMMA InsideCurrent ==
    ASSUME TypeOK, EpochAccounting, ~AnyInOld(atomic), NEW u \in Threads
    PROVE  /\ section[u] \in {-1, atomic.epoch}
           /\ ~AnyInCurrent(atomic) => section[u] = -1
<1> DEFINE e == atomic.epoch
<1>1. e \in Epoch
  BY DEF TypeOK, Word
<1>2. e % 2 \in 0..1 /\ (e + 1) % 2 \in 0..1 /\ Before(e) % 2 = (e + 1) % 2
  BY <1>1, RingLemma
<1>3. section[u] = -1 \/ section[u] % 2 # (e + 1) % 2
  BY <1>2, CountLemma DEF AnyInOld
<1>4. ~AnyInCurrent(atomic) => section[u] = -1 \/ section[u] % 2 # e % 2
  BY <1>2, CountLemma DEF AnyInCurrent
<1>5. QED
  BY <1>2, <1>3, <1>4 DEF EpochAccounting

\* enterCS opens a new epoch only over an empty old one, which no barrier awaits.
LEMMA GraceEnter ==
    ASSUME TypeOK, EpochAccounting, NEW t \in Threads, CallInv(t), GraceInv, enterCS(t)
    PROVE  GraceInv'
<1>1. section[t] = -1 /\ section \in [Threads -> Epoch \cup {-1}]
  BY DEF TypeOK, enterCS, CallInv, ReadLockOps, ReadUnlockOps, Settled, UpdatePCs,
         CheckPCs, DeferPCs, BarrierPCs, Ops
<1>2. /\ blockers' = blockers /\ start' = start
      /\ blockers \in [Items -> SUBSET Threads] /\ start \in [Threads -> Epoch]
      /\ pc'[t] \notin AwaitPCs \cup {"barrierDone"}
      /\ \A u \in Threads \ {t} : pc'[u] = pc[u]
  BY DEF enterCS, updateAtomic, locals, TypeOK, AwaitPCs
<1>3. \A v \in Threads \ {t} : section'[v] = section[v]
  BY <1>1 DEF enterCS
<1>4. atomic'.epoch = atomic.epoch \/ (~AnyInOld(atomic) /\ atomic'.epoch = After(atomic.epoch))
  BY DEF enterCS, updateAtomic, Entered
<1>5. ASSUME NEW u \in Threads, u # t, pc[u] \in AwaitPCs, NEW v \in blockers[u]
      PROVE  /\ section'[v] \in {start[u], Before(start[u])}
             /\ atomic'.epoch \in {start[u], After(start[u])}
  <2>1. /\ v \in Threads /\ start[u] \in Epoch
        /\ section[v] \in {start[u], Before(start[u])}
        /\ atomic.epoch \in {start[u], After(start[u])}
    BY <1>2, <1>5 DEF GraceInv, Items
  <2>2. section[v] # -1 /\ v # t
    BY <1>1, <2>1, NeighboursDiffer
  <2>3. section'[v] = section[v]
    BY <1>3, <2>1, <2>2
  <2>4. CASE ~AnyInOld(atomic) /\ atomic'.epoch = After(atomic.epoch)
    <3>1. section[v] = atomic.epoch
      BY <2>1, <2>2, <2>4, InsideCurrent
    <3>2. atomic.epoch = start[u]
      BY <2>1, <3>1, NeighboursDiffer
    <3>3. QED
      BY <2>1, <2>3, <2>4, <3>2
  <2>5. QED
    BY <1>4, <2>1, <2>3, <2>4
<1>6. QED
  BY <1>2, <1>5 DEF GraceInv

\* Nobody waits any longer for a thread that leaves.
LEMMA GraceExit ==
    ASSUME TypeOK, NEW t \in Threads, GraceInv, exitCS(t)
    PROVE  GraceInv'
<1>1. /\ start' = start /\ atomic'.epoch = atomic.epoch
      /\ pc'[t] \notin AwaitPCs \cup {"barrierDone"}
      /\ \A u \in Threads \ {t} : pc'[u] = pc[u] /\ section'[u] = section[u]
  BY DEF exitCS, updateAtomic, Exited, locals, TypeOK, AwaitPCs
<1>2. \A u \in Threads : blockers'[u] = blockers[u] \ {t} /\ blockers[u] \subseteq Threads
  BY DEF exitCS, Items, TypeOK
<1>3. QED
  BY <1>1, <1>2 DEF GraceInv

\* visibleBarrier returns only when nobody is left of those it waits for.
LEMMA GraceOver ==
    ASSUME TypeOK, EpochAccounting, NEW s \in Epoch, BarrierOver(atomic, s),
           NEW u \in Threads, section[u] \in {s, Before(s)},
           atomic.epoch \in {s, After(s)}
    PROVE  FALSE
<1>1. section[u] # -1
  BY NeighboursDiffer
<1>2. AnyInCurrent(atomic) \/ AnyInOld(atomic)
  BY <1>1, InsideCurrent
<1>3. visibleEpoch(atomic) = s
  BY <1>2 DEF BarrierOver
<1>4. CASE ~AnyInOld(atomic)
  <2>1. Before(atomic.epoch) = s
    BY <1>2, <1>3, <1>4 DEF visibleEpoch
  <2>2. atomic.epoch = After(s)
    BY <2>1, NeighboursDiffer
  <2>3. section[u] = After(s)
    BY <1>1, <1>4, <2>2, InsideCurrent
  <2>4. QED
    BY <2>3, NeighboursDiffer
<1>5. CASE AnyInOld(atomic)
  <2>1. Before(Before(atomic.epoch)) = s
    BY <1>3, <1>5 DEF visibleEpoch
  <2>2. QED
    BY <2>1, NeighboursDiffer
<1>6. QED
  BY <1>4, <1>5

\* One turn of the loop of visibleBarrier.
LEMMA GraceLoad ==
    ASSUME TypeOK, EpochAccounting, NEW t \in Threads, GraceInv, barrierLoad(t)
    PROVE  GraceInv'
<1>1. /\ atomic' = atomic /\ section' = section
      /\ pc[t] \in {"barrier", "barrierAgain"}
      /\ pc'[t] = IF BarrierOver(atomic, start'[t]) THEN "barrierDone" ELSE "barrierWait"
      /\ start'[t] = IF pc[t] = "barrier" THEN atomic.epoch ELSE start[t]
      /\ blockers'[t] = IF pc[t] = "barrier" THEN Readers ELSE blockers[t]
      /\ \A u \in Threads \ {t} :
            pc'[u] = pc[u] /\ start'[u] = start[u] /\ blockers'[u] = blockers[u]
  BY DEF barrierLoad, shared, TypeOK, Items
<1>2. start'[t] \in Epoch /\ blockers'[t] \subseteq Threads
  BY <1>1 DEF TypeOK, Word, Items, Readers
<1>3. ASSUME NEW u \in blockers'[t]
      PROVE  /\ section[u] \in {start'[t], Before(start'[t])}
             /\ atomic.epoch \in {start'[t], After(start'[t])}
  <2>1. CASE pc[t] = "barrier"
    BY <1>1, <1>3, <2>1 DEF Readers, InSection, EpochAccounting
  <2>2. CASE pc[t] = "barrierAgain"
    BY <1>1, <1>3, <2>2 DEF GraceInv, AwaitPCs
  <2>3. QED
    BY <1>1, <2>1, <2>2
<1>4. BarrierOver(atomic, start'[t]) => blockers'[t] = {}
  BY <1>2, <1>3, GraceOver
<1>5. QED
  BY <1>1, <1>3, <1>4 DEF GraceInv

\* Every step of a thread keeps GraceInv.
LEMMA GraceStep ==
    ASSUME TypeOK, EpochAccounting, NEW t \in Threads, CallInv(t), GraceInv,
           Calls(t) \/ Releases(t) \/ Steps(t)
    PROVE  GraceInv'
<1>1. /\ pc \in [Threads -> PCs] /\ start \in [Threads -> Epoch]
      /\ blockers \in [Items -> SUBSET Threads] /\ Threads \cap Work = {}
      /\ Threads \subseteq Items /\ Work \subseteq Items
  BY GcLockAssumption DEF TypeOK, Items
<1>2. ASSUME NEW r \in RunDefers, lockShared(t, r) PROVE GraceInv'
  <2>1. Undisturbed
    BY <1>1, <1>2 DEF Undisturbed, AwaitPCs, lockShared, AcquireRead, Invoke, shared, locals, aux
  <2>2. QED
    BY <2>1, GraceFrame
<1>3. ASSUME NEW r \in RunDefers, lockSpeculative(t, r) PROVE GraceInv'
  <2>1. Undisturbed
    BY <1>1, <1>3 DEF Undisturbed, AwaitPCs, lockSpeculative, AcquireRead, Invoke, shared, locals, aux
  <2>2. QED
    BY <2>1, GraceFrame
<1>4. ASSUME NEW r \in RunDefers, unlockShared(t, r) PROVE GraceInv'
  <2>1. Undisturbed
    BY <1>1, <1>4 DEF Undisturbed, AwaitPCs, unlockShared, ReleaseRead, Invoke, shared, locals, aux
  <2>2. QED
    BY <2>1, GraceFrame
<1>5. ASSUME NEW r \in RunDefers, unlockSpeculative(t, r) PROVE GraceInv'
  <2>1. Undisturbed
    BY <1>1, <1>5 DEF Undisturbed, AwaitPCs, unlockSpeculative, ReleaseRead, Invoke, shared, locals, aux
  <2>2. QED
    BY <2>1, GraceFrame
<1>6. ASSUME NEW r \in RunDefers, forceUnlock(t, r) PROVE GraceInv'
  <2>1. Undisturbed
    BY <1>1, <1>6 DEF Undisturbed, AwaitPCs, forceUnlock, ReleaseRead, Invoke, shared, locals, aux
  <2>2. QED
    BY <2>1, GraceFrame
<1>7. CASE lockExclusive(t)
  <2>1. Undisturbed
    BY <1>1, <1>7 DEF Undisturbed, AwaitPCs, lockExclusive, Invoke, shared, locals, aux
  <2>2. QED
    BY <2>1, GraceFrame
<1>8. CASE unlockExclusive(t)
  <2>1. Undisturbed
    BY <1>1, <1>8 DEF Undisturbed, AwaitPCs, unlockExclusive, Invoke, shared, locals, aux
  <2>2. QED
    BY <2>1, GraceFrame
<1>9. ASSUME NEW w \in Work, defer(t, w) PROVE GraceInv'
  <2>1. Undisturbed
    BY <1>1, <1>9 DEF Undisturbed, AwaitPCs, defer, Invoke, shared, locals, aux
  <2>2. QED
    BY <2>1, GraceFrame
<1>10. CASE visibleBarrier(t)
  <2>1. Undisturbed
    BY <1>1, <1>10 DEF Undisturbed, AwaitPCs, visibleBarrier, Invoke, shared, locals, aux
  <2>2. QED
    BY <2>1, GraceFrame
<1>11. CASE deferBarrier(t)
  <2>1. Undisturbed
    BY <1>1, <1>11 DEF Undisturbed, AwaitPCs, deferBarrier, Invoke, shared, locals, aux
  <2>2. QED
    BY <2>1, GraceFrame
<1>12. CASE exitCSThrows(t)
  <2>1. Undisturbed
    BY <1>1, <1>12 DEF Undisturbed, AwaitPCs, exitCSThrows, shared, locals, aux
  <2>2. QED
    BY <2>1, GraceFrame
<1>13. CASE waitExclusive(t)
  <2>1. Undisturbed
    BY <1>1, <1>13 DEF Undisturbed, AwaitPCs, waitExclusive, shared, locals, aux
  <2>2. QED
    BY <2>1, GraceFrame
<1>14. CASE bumpVisible(t)
  <2>1. Undisturbed
    BY <1>1, <1>14 DEF Undisturbed, AwaitPCs, bumpVisible, shared, locals, aux
  <2>2. QED
    BY <2>1, GraceFrame
<1>15. CASE wakeVisible(t)
  <2>1. Undisturbed
    BY <1>1, <1>15 DEF Undisturbed, AwaitPCs, wakeVisible, shared, locals, aux
  <2>2. QED
    BY <2>1, GraceFrame
<1>16. CASE runDefers(t)
  <2>1. Undisturbed
    BY <1>1, <1>16 DEF Undisturbed, AwaitPCs, runDefers, shared, locals, aux
  <2>2. QED
    BY <2>1, GraceFrame
<1>17. CASE loadEpoch(t)
  <2>1. Undisturbed
    BY <1>1, <1>17 DEF Undisturbed, AwaitPCs, loadEpoch, shared, locals, aux
  <2>2. QED
    BY <2>1, GraceFrame
<1>18. CASE loadIn(t)
  <2>1. Undisturbed
    BY <1>1, <1>18 DEF Undisturbed, AwaitPCs, loadIn, shared, locals, aux
  <2>2. QED
    BY <2>1, GraceFrame
<1>19. CASE checkDefers(t)
  <2>1. Undisturbed
    BY <1>1, <1>19 DEF Undisturbed, AwaitPCs, checkDefers, shared, locals, aux
  <2>2. QED
    BY <2>1, GraceFrame
<1>20. CASE runAll(t)
  <2>1. Undisturbed
    BY <1>1, <1>20 DEF Undisturbed, AwaitPCs, runAll, RunItem, shared, locals, aux
  <2>2. QED
    BY <2>1, GraceFrame
<1>21. CASE deferLoad(t)
  <2>1. Undisturbed
    BY <1>1, <1>21 DEF Undisturbed, AwaitPCs, deferLoad, shared, locals, aux
  <2>2. QED
    BY <2>1, GraceFrame
<1>22. CASE deferInsert(t)
  <2>1. Undisturbed
    BY <1>1, <1>22 DEF Undisturbed, AwaitPCs, deferInsert, AfterDefer, shared, locals, aux
  <2>2. QED
    BY <2>1, GraceFrame
<1>23. CASE runInline(t)
  <2>1. Undisturbed
    BY <1>1, <1>23 DEF Undisturbed, AwaitPCs, runInline, RunItem, AfterDefer, shared, locals, aux
  <2>2. QED
    BY <2>1, GraceFrame
<1>24. CASE barrierWait(t)
  <2>1. Undisturbed
    BY <1>1, <1>24 DEF Undisturbed, AwaitPCs, barrierWait, shared, locals, aux
  <2>2. QED
    BY <2>1, GraceFrame
<1>25. CASE enterCSExclusive(t)
  <2>1. Undisturbed
    BY <1>1, <1>25 DEF Undisturbed, AwaitPCs, enterCSExclusive, WithExclusive, shared, locals, aux
  <2>2. QED
    BY <2>1, GraceFrame
<1>26. CASE storeExclusive1(t)
  <2>1. Undisturbed
    BY <1>1, <1>26 DEF Undisturbed, AwaitPCs, storeExclusive1, shared, locals, aux
  <2>2. QED
    BY <2>1, GraceFrame
<1>27. CASE exclusiveEntered(t)
  <2>1. Undisturbed
    BY <1>1, <1>27 DEF Undisturbed, AwaitPCs, exclusiveEntered, shared, locals, aux
  <2>2. QED
    BY <2>1, GraceFrame
<1>28. CASE exitCSExclusive(t)
  <2>1. Undisturbed
    BY <1>1, <1>28 DEF Undisturbed, AwaitPCs, exitCSExclusive, WithExclusive, shared, locals, aux
  <2>2. QED
    BY <2>1, GraceFrame
<1>29. CASE storeExclusive0(t)
  <2>1. Undisturbed
    BY <1>1, <1>29 DEF Undisturbed, AwaitPCs, storeExclusive0, shared, locals, aux
  <2>2. QED
    BY <2>1, GraceFrame
<1>30. CASE wakeExclusive(t)
  <2>1. Undisturbed
    BY <1>1, <1>30 DEF Undisturbed, AwaitPCs, wakeExclusive, shared, locals, aux
  <2>2. QED
    BY <2>1, GraceFrame
<1>31. CASE visibleBarrierDone(t)
  <2>1. Undisturbed
    BY <1>1, <1>31 DEF Undisturbed, AwaitPCs, visibleBarrierDone, shared, locals, aux
  <2>2. QED
    BY <2>1, GraceFrame
<1>32. CASE barrierRound(t)
  <2>1. Undisturbed
    BY <1>1, <1>32 DEF Undisturbed, AwaitPCs, barrierRound, shared, locals, aux
  <2>2. QED
    BY <2>1, GraceFrame
<1>33. CASE barrierDec(t)
  <2>1. Undisturbed
    BY <1>1, <1>33 DEF Undisturbed, AwaitPCs, barrierDec, shared, locals, aux
  <2>2. QED
    BY <2>1, GraceFrame
<1>34. CASE barrierLockWait(t)
  <2>1. Undisturbed
    BY <1>1, <1>34 DEF Undisturbed, AwaitPCs, barrierLockWait, shared, locals, aux
  <2>2. QED
    BY <2>1, GraceFrame
<1>35. CASE return(t)
  <2>1. Undisturbed
    BY <1>1, <1>35 DEF Undisturbed, AwaitPCs, return, Invoke, shared, locals, aux
  <2>2. QED
    BY <2>1, GraceFrame
<1>36. CASE enterCS(t)
  BY <1>36, GraceEnter
<1>37. CASE exitCS(t)
  BY <1>37, GraceExit
<1>38. CASE barrierLoad(t)
  BY <1>38, GraceLoad
<1>39. QED
  BY <1>2, <1>3, <1>4, <1>5, <1>6, <1>7, <1>8, <1>9, <1>10, <1>11, <1>12, <1>13,
     <1>14, <1>15, <1>16, <1>17, <1>18, <1>19, <1>20, <1>21, <1>22, <1>23, <1>24,
     <1>25, <1>26, <1>27, <1>28, <1>29, <1>30, <1>31, <1>32, <1>33, <1>34, <1>35,
     <1>36, <1>37, <1>38
     DEF Calls, Releases, Steps

-----------------------------------------------------------------------------
(* The theorems.                                                           *)

\* The program starts in the invariant.
LEMMA InitIInv == Init => IInv
<1> SUFFICES ASSUME Init PROVE IInv
  OBVIOUS
<1> USE GcLockAssumption, QuarterAssumption
<1>1. TypeOK
  <2>1. atomic \in Word
    BY DEF Init, Word
  <2>2. 0 \in Epoch
    BY DEF Epoch, Modulus
  <2>3. QED
    BY <2>1, <2>2 DEF Init, TypeOK, Items, PCs, Ops
<1>2. EpochAccounting
  <2>1. \A p \in 0..1 : SectionsOf(section, p) = {}
    BY DEF Init, SectionsOf
  <2>2. \A p \in 0..1 : atomic.in[p] = Cardinality(SectionsOf(section, p))
    BY <2>1, FS_EmptySet DEF Init
  <2>3. QED
    BY <2>2 DEF Init, EpochAccounting, SectionsOf
<1>3. \A t \in Threads : CallInv(t) /\ SpecInv(t)
  BY DEF Init, CallInv, SpecInv, Settled, ReadLockOps, ReadUnlockOps
<1>4. BitInv
  BY DEF Init, BitInv, OwnsBit, InExclusive, BarrierPCs
<1>5. FutexInv
  BY DEF Init, FutexInv, SetFutex, BarrierPCs
<1>6. QED
  BY <1>1, <1>2, <1>3, <1>4, <1>5 DEF IInv

\* Every step of the program stays in the invariant.
LEMMA NextIInv == IInv /\ [Next]_vars => IInv'
<1> SUFFICES ASSUME IInv, [Next]_vars PROVE IInv'
  OBVIOUS
<1>1. TypeOK /\ EpochAccounting /\ BitInv /\ FutexInv
  BY DEF IInv
<1>2. \A t \in Threads : CallInv(t) /\ SpecInv(t)
  BY DEF IInv
<1>3. ASSUME NEW t \in Threads, Calls(t) \/ Releases(t) \/ Steps(t) PROVE IInv'
  <2>1. TypeOK'
    BY <1>1, <1>2, <1>3, TypeStep
  <2>2. EpochAccounting'
    BY <1>1, <1>2, <1>3, AccountingStep
  <2>3. \A u \in Threads : CallInv(u)' /\ SpecInv(u)'
    BY <1>1, <1>2, <1>3, CallStep
  <2>4. BitInv'
    BY <1>1, <1>2, <1>3, BitStep
  <2>5. FutexInv'
    BY <1>1, <1>2, <1>3, FutexStep
  <2>6. QED
    BY <2>1, <2>2, <2>3, <2>4, <2>5 DEF IInv
<1>4. CASE UNCHANGED vars
  <2>1. UNCHANGED <<shared, entryVars, pc, callVars, locals, aux>>
    BY <1>4 DEF vars
  <2> USE <2>1 DEF shared, entryVars, callVars, locals, aux
  <2>2. TypeOK' /\ EpochAccounting'
    BY <1>1 DEF TypeOK, EpochAccounting
  <2>3. \A u \in Threads : CallInv(u)' /\ SpecInv(u)'
    BY <1>2 DEF CallInv, SpecInv, Settled
  <2>4. BitInv'
    BY <1>1 DEF BitInv, OwnsBit, InExclusive
  <2>5. FutexInv'
    BY <1>1 DEF FutexInv, SetFutex
  <2>6. QED
    BY <2>2, <2>3, <2>4, <2>5 DEF IInv
<1>5. QED
  BY <1>3, <1>4 DEF Next, Quiet

\* The invariant holds in every behaviour of the program.
LEMMA Invariance == Spec => []IInv
  BY InitIInv, NextIInv, PTL DEF Spec

\* Whatever the number of threads and the width of the epoch, the state keeps
\* its shape; in particular the counters of the word never underflow and no
\* nesting depth of a ThreadGcInfoEntry becomes negative.
THEOREM TypeCorrect == Spec => []TypeOK
<1>1. IInv => TypeOK
  BY DEF IInv
<1>2. QED
  BY <1>1, Invariance, PTL

\* in[0] and in[1] always count the threads between their enterCS and their
\* exitCS, by parity of the epoch they entered, and those are the current
\* epoch and the one before it (arch/gc_lock.cc:574-585, 609-613).
THEOREM AccountingCorrect == Spec => []EpochAccounting
<1>1. IInv => EpochAccounting
  BY DEF IInv
<1>2. QED
  BY <1>1, Invariance, PTL

\* An exclusive section never overlaps another one, nor a shared section that
\* was entered with enterCS, however many threads, guards and epochs there are
\* (arch/gc_lock.cc:569-573, 653-657).
THEOREM ExclusionCorrect == Spec => []ExclusiveExcludes
<1>1. IInv => ExclusiveExcludes
  <2>1. SUFFICES ASSUME IInv, NEW t \in Threads, InExclusive(t), NEW u \in Threads
                 PROVE  section[u] = -1 /\ (InExclusive(u) => u = t)
    BY DEF ExclusiveExcludes
  <2>2. \A v \in Threads : InExclusive(v) => OwnsBit(v)
    BY DEF InExclusive, OwnsBit, BarrierPCs
  <2>3. QED
    BY <2>1, <2>2 DEF IInv, BitInv
<1>2. QED
  BY <1>1, Invariance, PTL

\* The assertions at the end of enterCSExclusive never fail: when its barrier
\* is over, the epoch is that of the word whose bit it set
\* (arch/gc_lock.cc:653, 657, 681).
THEOREM EpochStableCorrect == Spec => []ExclusiveEpochStable
<1>1. Init => StartInv
  BY DEF Init, StartInv, Claims
<1>2. IInv /\ StartInv /\ [Next]_vars => StartInv'
  <2> SUFFICES ASSUME IInv, StartInv, [Next]_vars PROVE StartInv'
    OBVIOUS
  <2>1. ASSUME NEW t \in Threads, Calls(t) \/ Releases(t) \/ Steps(t) PROVE StartInv'
    BY <2>1, StartStep DEF IInv
  <2>2. CASE UNCHANGED vars
    BY <2>2 DEF StartInv, Claims, vars, shared, callVars, locals
  <2>3. QED
    BY <2>1, <2>2 DEF Next, Quiet
<1>3. StartInv => ExclusiveEpochStable
  BY DEF StartInv, Claims, ExclusiveEpochStable, BarrierPCs
<1>4. QED
  BY <1>1, <1>2, <1>3, Invariance, PTL DEF Spec

\* No thread is left asleep on exclusiveFutex with nobody to wake it
\* (arch/gc_lock.cc:571, 634, 709-711).
THEOREM WakeupCorrect == Spec => []ExclusiveWakeupPending
<1>1. IInv => ExclusiveWakeupPending
  BY DEF IInv, FutexInv, SetFutex, ExclusiveWakeupPending, BarrierPCs
<1>2. QED
  BY <1>1, Invariance, PTL

\* The entry of a thread never disagrees with what the thread did to the
\* word, so that the assertions of enterCS and enterCSExclusive hold and
\* exitCS decrements the counter that enterCS incremented
\* (arch/gc_lock.cc:561, 609, 627).
THEOREM EntryCorrect == Spec => []EntryAgrees
<1>1. IInv => EntryAgrees
  <2>1. SUFFICES ASSUME IInv, NEW t \in Threads
                 PROVE  /\ pc[t] \in {"enter", "xenter"} => inEpoch[t] = -1
                        /\ section[t] # -1 => inEpoch[t] = section[t] % 2
                        /\ pc[t] = "idle" => (inEpoch[t] = -1 <=>
                              section[t] = -1 /\ writeLocked[t] = 0)
    BY DEF EntryAgrees
  <2>2. CallInv(t) /\ op[t] \in Ops
    BY <2>1 DEF IInv, TypeOK
  <2>3. QED
    BY <2>2 DEF CallInv, Settled, Ops, ReadLockOps, ReadUnlockOps, CheckPCs,
                UpdatePCs, DeferPCs, BarrierPCs
<1>2. QED
  BY <1>1, Invariance, PTL

\* visibleBarrier returns only when every reader that was inside at its first load has
\* left, whichever of its three conditions made it return and however often the epoch
\* has wrapped (arch/gc_lock.cc:716-757, arch/gc_lock.h:266).
THEOREM BarrierCorrect == Spec => []BarrierOutlivesReaders
<1>1. Init => GraceInv
  BY DEF Init, GraceInv, AwaitPCs
<1>2. IInv /\ GraceInv /\ [Next]_vars => GraceInv'
  <2> SUFFICES ASSUME IInv, GraceInv, [Next]_vars PROVE GraceInv'
    OBVIOUS
  <2>1. ASSUME NEW t \in Threads, Calls(t) \/ Releases(t) \/ Steps(t) PROVE GraceInv'
    BY <2>1, GraceStep DEF IInv
  <2>2. CASE UNCHANGED vars
    <3>1. Undisturbed
      BY <2>2 DEF vars, shared, locals, aux, Undisturbed
    <3>2. QED
      BY <3>1, GraceFrame
  <2>3. QED
    BY <2>1, <2>2 DEF Next, Quiet
<1>3. GraceInv => BarrierOutlivesReaders
  BY DEF GraceInv, BarrierOutlivesReaders
<1>4. QED
  BY <1>1, <1>2, <1>3, Invariance, PTL DEF Spec

-----------------------------------------------------------------------------
(* deferBarrier.                                                           *)

\* How far epoch b is ahead of epoch a on the ring.
Lead(a, b) == IF b >= a THEN b - a ELSE b - a + Modulus

\* The age of an epoch, counted from the one before the first.
Age(e) == Lead(Before(StartEpoch), e)

\* Fewer than Quarter epochs (2^30 in the program) have been opened: compareEpochs
\* still tells which of two of them is earlier.
FewEpochs == Age(atomic.epoch) <= Quarter

\* Within deferBarrier, after its first load, and after its visibleBarrier.
Started(t) == op[t] = "deferBarrier" /\ pc[t] # "barrier"
Waited(t) == op[t] = "deferBarrier" /\ pc[t] \notin {"barrier"} \cup AwaitPCs

\* doDefer is working on a callback.
Deferring(t) == op[t] = "defer" /\ pc[t] \in DeferPCs

\* A callback is in a list, or with a thread that has taken it off.
Listed(w) ==
    (\E k \in Epoch : w \in entries[k]) \/ (\E u \in Threads : w \in toRun[u])

\* No list is keyed with an epoch that has not begun.
KeyInv ==
    /\ Age(atomic.epoch) >= 1
    /\ \A k \in Epoch : entries[k] # {} => Age(k) <= Age(atomic.epoch)
    /\ \A t \in Threads :
          /\ pc[t] = "deferInsert" => Age(newest[t]) <= Age(atomic.epoch)
          /\ Started(t) => Age(start[t]) <= Age(atomic.epoch)

\* A callback is where its state says: with the one thread that defers it, listed, or
\* run.
PlaceInv ==
    /\ \A w \in Work :
          /\ work[w] = "pending" => Listed(w)
          /\ Listed(w) => work[w] \in {"pending", "ran"}
    /\ \A t \in Threads :
          /\ toRun[t] # {} => pc[t] \in CheckPCs \cup {"runAll"}
          /\ Deferring(t) => item[t] \in Work /\ work[item[t]] = "deferring"
          /\ op[t] = "deferBarrier" /\ pc[t] \in DeferPCs => item[t] = t
          /\ \A w \in owed[t] : work[w] \in {"pending", "ran"}
    /\ \A t, u \in Threads :
          Deferring(t) /\ Deferring(u) /\ item[t] = item[u] => t = u

\* What deferBarrier owes is in lists no later than the epoch of its first load.
OwedInv ==
    \A t \in Threads : Started(t) =>
        \A w \in owed[t], k \in Epoch : w \in entries[k] => Age(k) <= Age(start[t])

\* The epoch of that first load stays visible once visibleBarrier has returned, and
\* the loads of visibleEpoch() on the live word, torn as they are, do not miss it.
VisibleInv ==
    \A t \in Threads : Waited(t) =>
        /\ atomic.epoch = start[t] => atomic.in[0] = 0 /\ atomic.in[1] = 0
        /\ atomic.epoch = After(start[t]) => atomic.in[start[t] % 2] = 0
        /\ pc[t] \in {"old2.epoch", "old2.in", "visible-1", "visible-2"} =>
              atomic.epoch # start[t]
        /\ pc[t] = "old2.in" /\ atomic.epoch = After(start[t]) =>
              parity[t] = start[t] % 2
        /\ pc[t] = "visible-2" => atomic.epoch # After(start[t])

\* When the last runDefers of deferBarrier is through with the lists, a callback it
\* owes has been taken off them, unless the lists are out of order.
DoneInv ==
    \A t \in Threads : op[t] = "deferBarrier" /\ pc[t] \in {"runAll", "return"} =>
        \A w \in owed[t] :
            \/ work[w] = "ran"
            \/ \E u \in Threads : w \in toRun[u]
            \/ PastTheMiddle(w)

DrainInv == KeyInv /\ PlaceInv /\ OwedInv /\ VisibleInv /\ DoneInv

\* The age of epochs follows their order, as long as there are few of them.
LEMMA AgeLemma ==
    ASSUME NEW e \in Epoch
    PROVE  /\ Age(e) \in Int /\ Age(e) >= 0
           /\ Age(StartEpoch) = 1
           /\ Age(e) <= Quarter => Age(After(e)) = Age(e) + 1
           /\ Age(e) >= 1 => Age(Before(e)) = Age(e) - 1
           /\ \A f \in Epoch : Age(e) = Age(f) => e = f
<1>1. Quarter \in Int /\ Quarter > 1 /\ StartEpoch \in Epoch
  BY QuarterAssumption, GcLockAssumption
<1>2. QED
  BY <1>1 DEF Age, Lead, Before, After, Epoch, Modulus

\* An epoch no older than v is not due at v only if the map, ordered on int32_t, is
\* out of order: it comes before an older one, which then has a positive key while
\* the current epoch is negative.
LEMMA OutOfOrder ==
    ASSUME NEW k \in Epoch, NEW j \in Epoch, NEW v \in Epoch, NEW e \in Epoch,
           Age(j) <= Age(v), Age(v) <= Age(e), Age(k) <= Age(e), Age(e) <= Quarter,
           Signed(k) <= Signed(j), ~(compareEpochs(k, v) <= 0)
    PROVE  Signed(j) > Signed(e)
<1>1. Quarter \in Int /\ Quarter > 1 /\ StartEpoch \in Epoch
  BY QuarterAssumption, GcLockAssumption
<1>2. /\ Age(k) \in Int /\ Age(j) \in Int /\ Age(v) \in Int /\ Age(e) \in Int
      /\ Age(k) >= 0 /\ Age(j) >= 0
  BY AgeLemma
<1>3. ASSUME Age(k) <= Age(v) PROVE FALSE
  <2>1. (IF v >= k THEN v - k ELSE v - k + Modulus) = Age(v) - Age(k)
    BY <1>1, <1>3 DEF Age, Lead, Before, Epoch, Modulus
  <2>2. Age(v) - Age(k) \in 0..Quarter
    BY <1>1, <1>2, <1>3
  <2>3. compareEpochs(k, v) = -1 \/ compareEpochs(v, k) = 0
    BY <1>1, <2>1, <2>2, CompareTheorem
  <2>4. compareEpochs(v, k) = 0 => v = k
    BY <1>1 DEF compareEpochs
  <2>5. v = k => compareEpochs(k, v) = 0
    BY DEF compareEpochs
  <2>6. QED
    BY <2>3, <2>4, <2>5
<1>4. Age(j) < Age(k)
  BY <1>2, <1>3
<1>5. QED
  BY <1>1, <1>4 DEF Age, Lead, Before, Epoch, Modulus, Signed

\* A list that is out of order stays so when a new epoch begins.
LEMMA StaysPast ==
    ASSUME NEW j \in Epoch, NEW e \in Epoch, Age(j) <= Age(e), Age(e) <= Quarter,
           Signed(j) > Signed(e), Age(After(e)) <= Quarter
    PROVE  Signed(j) > Signed(After(e))
<1>1. Quarter \in Int /\ Quarter > 1 /\ StartEpoch \in Epoch
  BY QuarterAssumption, GcLockAssumption
<1>2. QED
  BY <1>1 DEF Age, Lead, Before, After, Epoch, Modulus, Signed

-----------------------------------------------------------------------------
(* Steps that leave a part of DrainInv alone.                              *)

KeyFrame ==
    /\ atomic'.epoch = atomic.epoch
    /\ \A k \in Epoch : entries'[k] # {} => entries[k] # {}
    /\ \A u \in Threads :
          /\ pc'[u] = "deferInsert" => pc[u] = "deferInsert" /\ newest'[u] = newest[u]
          /\ Started(u)' => Started(u) /\ start'[u] = start[u]

PlaceFrame ==
    /\ UNCHANGED <<entries, toRun, work>>
    /\ \A u \in Threads :
          /\ owed'[u] \subseteq owed[u]
          /\ pc[u] \in CheckPCs \cup {"runAll"} /\ toRun[u] # {} =>
                pc'[u] \in CheckPCs \cup {"runAll"}
          /\ Deferring(u)' => Deferring(u) /\ item'[u] = item[u]
          /\ op'[u] = "deferBarrier" /\ pc'[u] \in DeferPCs =>
                \/ item'[u] = u
                \/ op[u] = "deferBarrier" /\ pc[u] \in DeferPCs /\ item'[u] = item[u]

OwedFrame ==
    /\ \A k \in Epoch : entries'[k] \subseteq entries[k]
    /\ \A u \in Threads : Started(u)' =>
          Started(u) /\ start'[u] = start[u] /\ owed'[u] \subseteq owed[u]

VisibleFrame ==
    /\ atomic'.epoch = atomic.epoch /\ atomic'.in = atomic.in
    /\ \A u \in Threads : Waited(u)' =>
          /\ Waited(u) /\ start'[u] = start[u]
          /\ pc'[u] \in {"old2.epoch", "old2.in", "visible-1", "visible-2"} =>
                pc'[u] = pc[u] /\ parity'[u] = parity[u]

DoneFrame ==
    /\ atomic'.epoch = atomic.epoch
    /\ UNCHANGED <<entries, toRun>>
    /\ \A w \in Work : work[w] = "ran" => work'[w] = "ran"
    /\ \A u \in Threads :
          op'[u] = "deferBarrier" /\ pc'[u] \in {"runAll", "return"} =>
             /\ op[u] = "deferBarrier" /\ pc[u] \in {"runAll", "return"}
             /\ owed'[u] \subseteq owed[u]

Undrained == KeyFrame /\ PlaceFrame /\ OwedFrame /\ VisibleFrame /\ DoneFrame

\* Such a step keeps that part.
LEMMA DrainFrames ==
    ASSUME TypeOK
    PROVE  /\ KeyInv /\ KeyFrame => KeyInv'
           /\ PlaceInv /\ PlaceFrame => PlaceInv'
           /\ OwedInv /\ OwedFrame => OwedInv'
           /\ VisibleInv /\ VisibleFrame => VisibleInv'
           /\ DoneInv /\ DoneFrame => DoneInv'
<1>1. ASSUME KeyInv, KeyFrame PROVE KeyInv'
  BY <1>1 DEF KeyInv, KeyFrame, Age, Lead
<1>2. ASSUME PlaceInv, PlaceFrame PROVE PlaceInv'
  <2>1. /\ entries' = entries /\ toRun' = toRun /\ work' = work
    BY <1>2 DEF PlaceFrame
  <2>2. \A w \in Work : /\ work'[w] = "pending" => Listed(w)'
                        /\ Listed(w)' => work'[w] \in {"pending", "ran"}
    BY <1>2, <2>1 DEF PlaceInv, Listed
  <2>3. ASSUME NEW u \in Threads
        PROVE  /\ toRun'[u] # {} => pc'[u] \in CheckPCs \cup {"runAll"}
               /\ Deferring(u)' => item'[u] \in Work /\ work'[item'[u]] = "deferring"
               /\ op'[u] = "deferBarrier" /\ pc'[u] \in DeferPCs => item'[u] = u
               /\ \A w \in owed'[u] : work'[w] \in {"pending", "ran"}
    BY <1>2, <2>1 DEF PlaceInv, PlaceFrame
  <2>4. \A v, u \in Threads :
          Deferring(v)' /\ Deferring(u)' /\ item'[v] = item'[u] => v = u
    BY <1>2 DEF PlaceInv, PlaceFrame
  <2>5. QED
    BY <2>2, <2>3, <2>4 DEF PlaceInv
<1>3. ASSUME OwedInv, OwedFrame PROVE OwedInv'
  BY <1>3 DEF OwedInv, OwedFrame, Age, Lead
<1>4. ASSUME VisibleInv, VisibleFrame PROVE VisibleInv'
  BY <1>4 DEF VisibleInv, VisibleFrame
<1>5. ASSUME DoneInv, DoneFrame PROVE DoneInv'
  BY <1>5 DEF DoneInv, DoneFrame, PastTheMiddle, TypeOK
<1>6. QED
  BY <1>1, <1>2, <1>3, <1>4, <1>5

\* Most steps touch neither the lists nor a deferBarrier that is past its first load.
LEMMA UndrainedSteps ==
    ASSUME TypeOK, NEW t \in Threads, CallInv(t), PlaceInv
    PROVE  /\ \A r \in RunDefers :
                 /\ lockShared(t, r) => Undrained
                 /\ lockSpeculative(t, r) => Undrained
                 /\ unlockShared(t, r) => Undrained
                 /\ unlockSpeculative(t, r) => Undrained
                 /\ forceUnlock(t, r) => Undrained
           /\ lockExclusive(t) => Undrained
           /\ unlockExclusive(t) => Undrained
           /\ visibleBarrier(t) => Undrained
           /\ exitCSThrows(t) => Undrained
           /\ waitExclusive(t) => Undrained
           /\ bumpVisible(t) => Undrained
           /\ wakeVisible(t) => Undrained
           /\ barrierWait(t) => Undrained
           /\ enterCSExclusive(t) => Undrained
           /\ storeExclusive1(t) => Undrained
           /\ exclusiveEntered(t) => Undrained
           /\ exitCSExclusive(t) => Undrained
           /\ storeExclusive0(t) => Undrained
           /\ wakeExclusive(t) => Undrained
           /\ visibleBarrierDone(t) => Undrained
           /\ barrierRound(t) => Undrained
           /\ barrierDec(t) => Undrained
           /\ barrierLockWait(t) => Undrained
           /\ return(t) => Undrained
<1> USE DEF Undrained, KeyFrame, PlaceFrame, OwedFrame, VisibleFrame, DoneFrame, Started,
            Waited, Deferring, AwaitPCs, CheckPCs, DeferPCs, shared, callVars, locals, aux
<1>1. /\ pc \in [Threads -> PCs] /\ op \in [Threads -> Ops]
      /\ start \in [Threads -> Epoch] /\ newest \in [Threads -> Epoch]
      /\ item \in [Threads -> Items] /\ parity \in [Threads -> 0..1]
      /\ owed \in [Threads -> SUBSET Work] /\ toRun \in [Threads -> SUBSET Items]
  BY DEF TypeOK
<1>2. toRun[t] # {} => pc[t] \in CheckPCs \cup {"runAll"}
  BY DEF PlaceInv
<1>3. /\ pc[t] \in {"wakeVisible", "xwake"} => op[t] # "deferBarrier"
      /\ pc[t] = "dbNext" => op[t] = "deferBarrier"
  BY <1>1 DEF CallInv, ReadLockOps, ReadUnlockOps, UpdatePCs, BarrierPCs, Ops
<1>4. ASSUME NEW r \in RunDefers, lockShared(t, r) PROVE Undrained
  BY <1>1, <1>4 DEF lockShared, AcquireRead, Invoke
<1>5. ASSUME NEW r \in RunDefers, lockSpeculative(t, r) PROVE Undrained
  BY <1>1, <1>5 DEF lockSpeculative, AcquireRead, Invoke
<1>6. ASSUME NEW r \in RunDefers, unlockShared(t, r) PROVE Undrained
  BY <1>1, <1>6 DEF unlockShared, ReleaseRead, Invoke
<1>7. ASSUME NEW r \in RunDefers, unlockSpeculative(t, r) PROVE Undrained
  BY <1>1, <1>7 DEF unlockSpeculative, ReleaseRead, Invoke
<1>8. ASSUME NEW r \in RunDefers, forceUnlock(t, r) PROVE Undrained
  BY <1>1, <1>8 DEF forceUnlock, ReleaseRead, Invoke
<1>9. ASSUME lockExclusive(t) PROVE Undrained
  BY <1>1, <1>2, <1>3, <1>9 DEF lockExclusive, Invoke
<1>10. ASSUME unlockExclusive(t) PROVE Undrained
  BY <1>1, <1>2, <1>3, <1>10 DEF unlockExclusive, Invoke
<1>11. ASSUME visibleBarrier(t) PROVE Undrained
  BY <1>1, <1>2, <1>3, <1>11 DEF visibleBarrier, Invoke
<1>12. ASSUME exitCSThrows(t) PROVE Undrained
  BY <1>1, <1>2, <1>3, <1>12 DEF exitCSThrows
<1>13. ASSUME waitExclusive(t) PROVE Undrained
  BY <1>1, <1>2, <1>3, <1>13 DEF waitExclusive
<1>14. ASSUME bumpVisible(t) PROVE Undrained
  BY <1>1, <1>2, <1>3, <1>14 DEF bumpVisible
<1>15. ASSUME wakeVisible(t) PROVE Undrained
  BY <1>1, <1>2, <1>3, <1>15 DEF wakeVisible
<1>16. ASSUME barrierWait(t) PROVE Undrained
  BY <1>1, <1>2, <1>3, <1>16 DEF barrierWait
<1>17. ASSUME enterCSExclusive(t) PROVE Undrained
  BY <1>1, <1>2, <1>3, <1>17 DEF enterCSExclusive, WithExclusive
<1>18. ASSUME storeExclusive1(t) PROVE Undrained
  BY <1>1, <1>2, <1>3, <1>18 DEF storeExclusive1
<1>19. ASSUME exclusiveEntered(t) PROVE Undrained
  BY <1>1, <1>2, <1>3, <1>19 DEF exclusiveEntered
<1>20. ASSUME exitCSExclusive(t) PROVE Undrained
  BY <1>1, <1>2, <1>3, <1>20 DEF exitCSExclusive, WithExclusive
<1>21. ASSUME storeExclusive0(t) PROVE Undrained
  BY <1>1, <1>2, <1>3, <1>21 DEF storeExclusive0
<1>22. ASSUME wakeExclusive(t) PROVE Undrained
  BY <1>1, <1>2, <1>3, <1>22 DEF wakeExclusive
<1>23. ASSUME visibleBarrierDone(t) PROVE Undrained
  BY <1>1, <1>2, <1>3, <1>23 DEF visibleBarrierDone
<1>24. ASSUME barrierRound(t) PROVE Undrained
  BY <1>1, <1>2, <1>3, <1>24 DEF barrierRound
<1>25. ASSUME barrierDec(t) PROVE Undrained
  BY <1>1, <1>2, <1>3, <1>25 DEF barrierDec
<1>26. ASSUME barrierLockWait(t) PROVE Undrained
  BY <1>1, <1>2, <1>3, <1>26 DEF barrierLockWait
<1>27. ASSUME return(t) PROVE Undrained
  BY <1>1, <1>2, <1>3, <1>27 DEF return, Invoke
<1>28. QED
  BY <1>4, <1>5, <1>6, <1>7, <1>8, <1>9, <1>10, <1>11, <1>12, <1>13, <1>14, <1>15, <1>16, <1>17, <1>18, <1>19, <1>20, <1>21, <1>22, <1>23, <1>24, <1>25, <1>26, <1>27

\* The types the next lemmas use.
LEMMA DrainTypes ==
    ASSUME TypeOK
    PROVE  /\ pc \in [Threads -> PCs] /\ op \in [Threads -> Ops]
           /\ start \in [Threads -> Epoch] /\ newest \in [Threads -> Epoch]
           /\ item \in [Threads -> Items] /\ parity \in [Threads -> 0..1]
           /\ owed \in [Threads -> SUBSET Work] /\ toRun \in [Threads -> SUBSET Items]
           /\ work \in [Work -> {"new", "deferring", "pending", "ran"}]
           /\ entries \in [Epoch -> SUBSET Items]
           /\ atomic.epoch \in Epoch /\ atomic.in \in [0..1 -> Nat]
           /\ Threads \cap Work = {} /\ Items = Work \cup Threads
  BY GcLockAssumption DEF TypeOK, Word, Items

\* A callback that defer() is given is new: no list and no deferBarrier knows it.
LEMMA DrainDefer ==
    ASSUME TypeOK, NEW t \in Threads, NEW w \in Work, DrainInv, defer(t, w)
    PROVE  DrainInv'
<1> USE DEF Started, Waited, Deferring, AwaitPCs, CheckPCs, DeferPCs, shared, callVars,
            locals, aux, defer, Invoke
<1>1. KeyFrame /\ OwedFrame /\ VisibleFrame /\ DoneFrame
  BY DrainTypes DEF KeyFrame, OwedFrame, VisibleFrame, DoneFrame
<1>2. PlaceInv'
  <2>1. /\ entries' = entries /\ toRun' = toRun /\ owed' = owed
        /\ work[w] = "new" /\ work' = [work EXCEPT ![w] = "deferring"]
        /\ pc[t] = "idle" /\ pc'[t] = "defer" /\ op'[t] = "defer" /\ item'[t] = w
        /\ \A u \in Threads \ {t} : pc'[u] = pc[u] /\ op'[u] = op[u] /\ item'[u] = item[u]
    BY DrainTypes
  <2>2. PlaceInv
    BY DEF DrainInv
  <2>3. \A v \in Work : /\ work'[v] = "pending" => Listed(v)'
                        /\ Listed(v)' => work'[v] \in {"pending", "ran"}
    BY <2>1, <2>2, DrainTypes DEF PlaceInv, Listed
  <2>4. ASSUME NEW u \in Threads
        PROVE  /\ toRun'[u] # {} => pc'[u] \in CheckPCs \cup {"runAll"}
               /\ Deferring(u)' => item'[u] \in Work /\ work'[item'[u]] = "deferring"
               /\ op'[u] = "deferBarrier" /\ pc'[u] \in DeferPCs => item'[u] = u
               /\ \A v \in owed'[u] : work'[v] \in {"pending", "ran"}
    BY <2>1, <2>2, DrainTypes DEF PlaceInv
  <2>5. \A v, u \in Threads :
          Deferring(v)' /\ Deferring(u)' /\ item'[v] = item'[u] => v = u
    BY <2>1, <2>2, DrainTypes DEF PlaceInv
  <2>6. QED
    BY <2>3, <2>4, <2>5 DEF PlaceInv
<1>3. QED
  BY <1>1, <1>2, DrainFrames DEF DrainInv

\* deferBarrier owes what is pending when it is called.
LEMMA DrainDeferBarrier ==
    ASSUME TypeOK, NEW t \in Threads, DrainInv, deferBarrier(t)
    PROVE  DrainInv'
<1> USE DEF Started, Waited, Deferring, AwaitPCs, CheckPCs, DeferPCs, shared, callVars,
            locals, aux, deferBarrier, Invoke
<1>1. KeyFrame /\ OwedFrame /\ VisibleFrame /\ DoneFrame
  BY DrainTypes DEF KeyFrame, OwedFrame, VisibleFrame, DoneFrame
<1>2. PlaceInv'
  <2>1. /\ entries' = entries /\ toRun' = toRun /\ work' = work /\ item' = item
        /\ owed'[t] = {w \in Work : work[w] = "pending"}
        /\ pc[t] = "idle" /\ pc'[t] = "barrier" /\ op'[t] = "deferBarrier"
        /\ \A u \in Threads \ {t} : pc'[u] = pc[u] /\ op'[u] = op[u] /\ owed'[u] = owed[u]
    BY DrainTypes
  <2>2. PlaceInv
    BY DEF DrainInv
  <2>3. \A v \in Work : /\ work'[v] = "pending" => Listed(v)'
                        /\ Listed(v)' => work'[v] \in {"pending", "ran"}
    BY <2>1, <2>2, DrainTypes DEF PlaceInv, Listed
  <2>4. ASSUME NEW u \in Threads
        PROVE  /\ toRun'[u] # {} => pc'[u] \in CheckPCs \cup {"runAll"}
               /\ Deferring(u)' => item'[u] \in Work /\ work'[item'[u]] = "deferring"
               /\ op'[u] = "deferBarrier" /\ pc'[u] \in DeferPCs => item'[u] = u
               /\ \A v \in owed'[u] : work'[v] \in {"pending", "ran"}
    BY <2>1, <2>2, DrainTypes DEF PlaceInv
  <2>5. \A v, u \in Threads :
          Deferring(v)' /\ Deferring(u)' /\ item'[v] = item'[u] => v = u
    BY <2>1, <2>2, DrainTypes DEF PlaceInv
  <2>6. QED
    BY <2>3, <2>4, <2>5 DEF PlaceInv
<1>3. QED
  BY <1>1, <1>2, DrainFrames DEF DrainInv

\* enterCS opens the epoch after a start still visible only when nobody is left
\* before it.
LEMMA DrainEnter ==
    ASSUME TypeOK, NEW t \in Threads, CallInv(t), DrainInv, FewEpochs, FewEpochs',
           enterCS(t)
    PROVE  DrainInv'
<1> DEFINE e == atomic.epoch
           f == atomic'.epoch
<1>1. /\ op[t] \in ReadLockOps /\ op' = op /\ pc[t] = "enter"
      /\ pc'[t] \in {"enterWait", "bump", "return"}
      /\ entries' = entries /\ toRun' = toRun /\ owed' = owed /\ work' = work
      /\ start' = start /\ newest' = newest /\ item' = item /\ parity' = parity
      /\ \A u \in Threads \ {t} : pc'[u] = pc[u]
  BY DrainTypes DEF enterCS, updateAtomic, CallInv, ReadLockOps, ReadUnlockOps, UpdatePCs,
                    BarrierPCs, DeferPCs, CheckPCs, Ops, shared, callVars, locals, aux
<1>2. \/ f = e /\ atomic'.in = atomic.in
      \/ f = e /\ AnyInOld(atomic)
      \/ /\ f = After(e) /\ ~AnyInOld(atomic)
         /\ atomic'.in = [atomic.in EXCEPT ![After(e) % 2] = 1]
  BY DEF enterCS, updateAtomic, Entered
<1>3. /\ e \in Epoch /\ After(e) \in Epoch /\ e # After(e)
      /\ e % 2 \in 0..1 /\ (e + 1) % 2 \in 0..1
      /\ After(e) % 2 = (e + 1) % 2 /\ e % 2 # (e + 1) % 2
  BY DrainTypes, RingLemma
<1>4. /\ Age(e) \in Int /\ Age(f) \in Int /\ (f = e \/ Age(f) = Age(e) + 1)
      /\ Age(e) >= 1 /\ Age(e) <= Quarter /\ Age(f) <= Quarter
  BY <1>2, <1>3, AgeLemma DEF FewEpochs, DrainInv, KeyInv
<1>5. KeyInv'
  BY <1>1, <1>2, <1>4, AgeLemma, DrainTypes
     DEF DrainInv, KeyInv, Started, ReadLockOps, Age, Lead
<1>6. PlaceFrame /\ OwedFrame
  BY <1>1 DEF PlaceFrame, OwedFrame, Started, Deferring, CheckPCs, DeferPCs, ReadLockOps
<1>7. VisibleInv'
  <2>1. SUFFICES ASSUME NEW u \in Threads, u # t, Waited(u), pc'[u] = pc[u]
                 PROVE  /\ f = start[u] => atomic'.in[0] = 0 /\ atomic'.in[1] = 0
                        /\ f = After(start[u]) => atomic'.in[start[u] % 2] = 0
                        /\ pc[u] \in {"old2.epoch", "old2.in", "visible-1", "visible-2"} =>
                              f # start[u]
                        /\ pc[u] = "old2.in" /\ f = After(start[u]) =>
                              parity[u] = start[u] % 2
                        /\ pc[u] = "visible-2" => f # After(start[u])
    BY <1>1 DEF VisibleInv, Waited, ReadLockOps
  <2> DEFINE s == start[u]
  <2>2. /\ e = s => atomic.in[0] = 0 /\ atomic.in[1] = 0
        /\ e = After(s) => atomic.in[s % 2] = 0
        /\ pc[u] \in {"old2.epoch", "old2.in", "visible-1", "visible-2"} => e # s
        /\ pc[u] = "old2.in" /\ e = After(s) => parity[u] = s % 2
        /\ pc[u] = "visible-2" => e # After(s)
    BY <2>1 DEF DrainInv, VisibleInv
  <2>3. /\ s \in Epoch /\ After(s) \in Epoch /\ s % 2 \in 0..1 /\ (s + 1) % 2 \in 0..1
        /\ After(s) % 2 = (s + 1) % 2 /\ s % 2 # (s + 1) % 2
    BY DrainTypes, RingLemma
  <2>4. Age(s) \in Int /\ Age(s) <= Age(e)
    BY <2>1, <2>3, AgeLemma DEF DrainInv, KeyInv, Waited, Started
  <2>5. CASE f = e /\ atomic'.in = atomic.in
    BY <2>2, <2>5
  <2>6. CASE f = e /\ AnyInOld(atomic)
    <3>1. e # s
      BY <1>3, <2>2, <2>6 DEF AnyInOld
    <3>2. e # After(s)
      <4>1. SUFFICES ASSUME e = After(s) PROVE FALSE
        OBVIOUS
      <4>2. (e + 1) % 2 = s % 2
        BY <1>3, <2>3, <4>1
      <4>3. QED
        BY <2>2, <2>6, <4>1, <4>2 DEF AnyInOld
    <3>3. QED
      BY <2>6, <3>1, <3>2
  <2>7. CASE /\ f = After(e) /\ ~AnyInOld(atomic)
             /\ atomic'.in = [atomic.in EXCEPT ![After(e) % 2] = 1]
    <3>1. Age(f) = Age(e) + 1
      BY <1>3, <1>4, <2>7
    <3>2. f # s
      BY <1>4, <2>4, <3>1
    <3>3. f = After(s) => e = s
      <4>1. SUFFICES ASSUME f = After(s) PROVE e = s
        OBVIOUS
      <4>2. Age(After(s)) = Age(s) + 1
        BY <1>4, <2>3, <2>4, AgeLemma, QuarterAssumption
      <4>3. Age(e) = Age(s)
        BY <1>4, <2>4, <3>1, <4>1, <4>2
      <4>4. QED
        BY <1>3, <2>3, <4>3, AgeLemma
    <3>4. e = s => atomic'.in[s % 2] = 0
      BY <1>3, <2>2, <2>3, <2>7, DrainTypes
    <3>5. QED
      BY <2>2, <3>2, <3>3, <3>4
  <2>8. QED
    BY <1>2, <2>5, <2>6, <2>7
<1>8. DoneInv'
  <2>1. SUFFICES ASSUME NEW w \in Work, PastTheMiddle(w) PROVE PastTheMiddle(w)'
    <3>1. \A u \in Threads : op'[u] = "deferBarrier" /\ pc'[u] \in {"runAll", "return"} =>
             op[u] = "deferBarrier" /\ pc[u] \in {"runAll", "return"}
      BY <1>1 DEF ReadLockOps
    <3>2. QED
      BY <1>1, <2>1, <3>1, DrainTypes DEF DoneInv, DrainInv
  <2>2. PICK k \in Epoch : w \in entries[k] /\ Signed(k) > Signed(e)
    BY <2>1 DEF PastTheMiddle
  <2>3. Age(k) <= Age(e)
    BY <2>2 DEF DrainInv, KeyInv
  <2>4. f = e \/ f = After(e)
    BY <1>2
  <2>5. Signed(k) > Signed(f)
    BY <1>3, <1>4, <2>2, <2>3, <2>4, StaysPast
  <2>6. QED
    BY <1>1, <2>2, <2>5 DEF PastTheMiddle
<1>9. QED
  BY <1>5, <1>6, <1>7, <1>8, DrainFrames DEF DrainInv

\* exitCS leaves a counter that was not zero.
LEMMA DrainExit ==
    ASSUME TypeOK, TypeOK', NEW t \in Threads, CallInv(t), DrainInv, exitCS(t)
    PROVE  DrainInv'
<1>1. /\ op[t] \in ReadUnlockOps /\ op' = op /\ pc[t] = "exit"
      /\ pc'[t] \in {"bump", "return"}
      /\ entries' = entries /\ toRun' = toRun /\ owed' = owed /\ work' = work
      /\ start' = start /\ newest' = newest /\ item' = item /\ parity' = parity
      /\ \A u \in Threads \ {t} : pc'[u] = pc[u]
      /\ atomic'.epoch = atomic.epoch
  BY DrainTypes DEF exitCS, updateAtomic, Exited, CallInv, ReadLockOps, ReadUnlockOps,
                    UpdatePCs, BarrierPCs, DeferPCs, CheckPCs, Ops, callVars, locals
<1>2. /\ inEpoch[t] \in 0..1
      /\ atomic'.in = [atomic.in EXCEPT ![inEpoch[t]] = atomic.in[inEpoch[t]] - 1]
  BY DEF exitCS, updateAtomic, Exited, TypeOK
<1>3. KeyFrame /\ PlaceFrame /\ OwedFrame /\ DoneFrame
  BY <1>1 DEF KeyFrame, PlaceFrame, OwedFrame, DoneFrame, Started, Deferring, CheckPCs,
              DeferPCs, ReadUnlockOps
<1>4. \A p \in 0..1 : atomic.in[p] = 0 => atomic'.in[p] = 0
  <2>1. /\ atomic.in \in [0..1 -> Nat] /\ atomic'.in \in [0..1 -> Nat]
    BY DEF TypeOK, Word
  <2>2. ASSUME NEW p \in 0..1, atomic.in[p] = 0 PROVE p # inEpoch[t]
    <3>1. SUFFICES ASSUME p = inEpoch[t] PROVE FALSE
      OBVIOUS
    <3>2. atomic'.in[p] = 0 - 1
      BY <1>2, <2>1, <2>2, <3>1
    <3>3. QED
      BY <2>1, <3>2
  <2>3. QED
    BY <1>2, <2>1, <2>2
<1>5. VisibleInv'
  <2>1. SUFFICES ASSUME NEW u \in Threads, u # t, Waited(u), pc'[u] = pc[u]
                 PROVE  /\ atomic.epoch = start[u] => atomic'.in[0] = 0 /\ atomic'.in[1] = 0
                        /\ atomic.epoch = After(start[u]) => atomic'.in[start[u] % 2] = 0
    BY <1>1 DEF VisibleInv, DrainInv, Waited, ReadUnlockOps
  <2>2. start[u] % 2 \in 0..1
    BY DrainTypes, RingLemma
  <2>3. QED
    BY <1>4, <2>1, <2>2 DEF DrainInv, VisibleInv
<1>6. QED
  BY <1>3, <1>5, DrainFrames DEF DrainInv

\* runDefers finds the lists empty, or starts to look at them.
LEMMA DrainRunDefers ==
    ASSUME TypeOK, NEW t \in Threads, DrainInv, runDefers(t)
    PROVE  DrainInv'
<1>1. /\ pc[t] = "runDefers" /\ pc'[t] = IF Pending = {} THEN "return" ELSE "current.epoch"
      /\ \A u \in Threads \ {t} : pc'[u] = pc[u]
      /\ UNCHANGED <<atomic, entries, op, start, newest, item, parity, toRun, work, owed>>
  BY DrainTypes DEF runDefers, callVars, aux
<1>2. toRun[t] = {}
  BY <1>1 DEF DrainInv, PlaceInv, CheckPCs
<1>3. KeyFrame /\ PlaceFrame /\ OwedFrame /\ VisibleFrame
  BY <1>1, <1>2 DEF KeyFrame, PlaceFrame, OwedFrame, VisibleFrame, Started, Waited,
                    Deferring, CheckPCs, DeferPCs, AwaitPCs
<1>4. DoneInv'
  <2>1. ASSUME Pending = {}, NEW w \in owed[t]
        PROVE  work[w] = "ran" \/ \E u \in Threads : w \in toRun[u]
    <3>1. w \in Work /\ work[w] \in {"pending", "ran"}
      BY <2>1, DrainTypes DEF DrainInv, PlaceInv
    <3>2. \A k \in Epoch : entries[k] = {}
      BY <2>1 DEF Pending
    <3>3. QED
      BY <3>1, <3>2 DEF DrainInv, PlaceInv, Listed
  <2>2. QED
    BY <1>1, <2>1 DEF DrainInv, DoneInv, PastTheMiddle
<1>5. QED
  BY <1>3, <1>4, DrainFrames DEF DrainInv

\* The counter that visibleEpoch() asks for last is the one of the epoch waited for,
\* as long as there is only one newer.
LEMMA DrainLoadEpoch ==
    ASSUME TypeOK, NEW t \in Threads, DrainInv, loadEpoch(t)
    PROVE  DrainInv'
<1>1. /\ \/ pc[t] = "current.epoch" /\ pc'[t] = "current.in"
         \/ pc[t] = "old.epoch" /\ pc'[t] = "old.in"
         \/ pc[t] = "old2.epoch" /\ pc'[t] = "old2.in"
      /\ pc[t] = "old2.epoch" => parity'[t] = (atomic.epoch + 1) % 2
      /\ \A u \in Threads \ {t} : pc'[u] = pc[u] /\ parity'[u] = parity[u]
      /\ UNCHANGED <<atomic, entries, op, start, newest, item, toRun, work, owed>>
  BY DrainTypes DEF loadEpoch, shared, callVars, aux
<1>2. KeyFrame /\ PlaceFrame /\ OwedFrame /\ DoneFrame
  BY <1>1 DEF KeyFrame, PlaceFrame, OwedFrame, DoneFrame, Started, Deferring, CheckPCs,
              DeferPCs
<1>3. VisibleInv'
  <2>1. start[t] \in Epoch
    BY DrainTypes
  <2>2. (After(start[t]) + 1) % 2 = start[t] % 2
    BY <2>1, QuarterAssumption DEF After, Epoch, Modulus
  <2>3. QED
    BY <1>1, <2>2 DEF DrainInv, VisibleInv, Waited, AwaitPCs
<1>4. QED
  BY <1>2, <1>3, DrainFrames DEF DrainInv

\* A counter that is not zero belongs to an epoch after the one waited for.
LEMMA DrainLoadIn ==
    ASSUME TypeOK, NEW t \in Threads, DrainInv, loadIn(t)
    PROVE  DrainInv'
<1>1. /\ \/ /\ pc[t] = "current.in"
            /\ pc'[t] = IF atomic.in[parity[t]] # 0 THEN "old2.epoch" ELSE "old.epoch"
         \/ /\ pc[t] = "old.in"
            /\ pc'[t] = IF atomic.in[parity[t]] # 0 THEN "old2.epoch" ELSE "visible"
         \/ /\ pc[t] = "old2.in"
            /\ pc'[t] = IF atomic.in[parity[t]] # 0 THEN "visible-2" ELSE "visible-1"
      /\ \A u \in Threads \ {t} : pc'[u] = pc[u]
      /\ UNCHANGED <<atomic, entries, op, start, newest, item, parity, toRun, work, owed>>
  BY DrainTypes DEF loadIn, shared, callVars, locals, aux
<1>2. KeyFrame /\ PlaceFrame /\ OwedFrame /\ DoneFrame
  BY <1>1 DEF KeyFrame, PlaceFrame, OwedFrame, DoneFrame, Started, Deferring, CheckPCs,
              DeferPCs
<1>3. VisibleInv'
  <2>1. parity[t] \in {0, 1}
    BY DrainTypes
  <2>2. QED
    BY <1>1, <2>1 DEF DrainInv, VisibleInv, Waited, AwaitPCs
<1>4. QED
  BY <1>2, <1>3, DrainFrames DEF DrainInv

\* The epoch waited for is visible to checkDefers.
LEMMA SeesStart ==
    ASSUME TypeOK, NEW t \in Threads, DrainInv, FewEpochs, Waited(t),
           pc[t] \in {"visible", "visible-1", "visible-2"}
    PROVE  /\ LoadedVisible(t) \in Epoch
           /\ Age(start[t]) <= Age(LoadedVisible(t))
           /\ Age(LoadedVisible(t)) <= Age(atomic.epoch)
<1> DEFINE e == atomic.epoch
           s == start[t]
<1>1. e \in Epoch /\ s \in Epoch /\ After(s) \in Epoch /\ Before(e) \in Epoch
      /\ Before(Before(e)) \in Epoch
  BY DrainTypes, RingLemma, TwoBeforeLemma
<1>2. /\ Age(e) \in Int /\ Age(s) \in Int /\ Age(s) >= 0 /\ Age(s) <= Age(e)
      /\ Age(e) <= Quarter /\ Quarter \in Int
  BY <1>1, AgeLemma, QuarterAssumption DEF DrainInv, KeyInv, Waited, Started, FewEpochs
<1>3. CASE pc[t] = "visible"
  BY <1>1, <1>2, <1>3 DEF LoadedVisible
<1>4. ASSUME pc[t] \in {"visible-1", "visible-2"}
      PROVE  Age(e) >= Age(s) + 1 /\ Age(Before(e)) = Age(e) - 1
  <2>1. e # s
    BY <1>4 DEF DrainInv, VisibleInv
  <2>2. Age(e) # Age(s)
    BY <1>1, <2>1, AgeLemma
  <2>3. QED
    BY <1>1, <1>2, <2>2, AgeLemma
<1>5. CASE pc[t] = "visible-1"
  BY <1>1, <1>2, <1>4, <1>5 DEF LoadedVisible
<1>6. CASE pc[t] = "visible-2"
  <2>1. e # After(s)
    BY <1>6 DEF DrainInv, VisibleInv
  <2>2. Age(After(s)) = Age(s) + 1
    BY <1>1, <1>2, AgeLemma
  <2>3. Age(e) >= Age(s) + 2
    BY <1>1, <1>2, <1>4, <1>6, <2>1, <2>2, AgeLemma
  <2>4. Age(Before(Before(e))) = Age(e) - 2
    BY <1>1, <1>2, <1>4, <1>6, <2>3, AgeLemma
  <2>5. QED
    BY <1>1, <1>2, <1>6, <2>3, <2>4 DEF LoadedVisible
<1>7. QED
  BY <1>3, <1>5, <1>6

\* checkDefers moves lists to the thread; it is through only when no list is left or
\* the first one is not due, and then what is owed is not behind it unless the lists
\* are out of order.
LEMMA DrainCheckDefers ==
    ASSUME TypeOK, NEW t \in Threads, CallInv(t), DrainInv, FewEpochs, checkDefers(t)
    PROVE  DrainInv'
<1>1. PICK k \in Epoch :
        LET due  == compareEpochs(k, LoadedVisible(t)) <= 0
            take == due /\ inner[t]
            all  == IF take THEN toRun[t] \cup entries[k] ELSE toRun[t]
            done == (take /\ Pending = {k}) \/ (~due /\ ~inner[t])
        IN  /\ IsBegin(k)
            /\ entries' = IF take THEN [entries EXCEPT ![k] = {}] ELSE entries
            /\ toRun' = [toRun EXCEPT ![t] = all]
            /\ pc' = [pc EXCEPT ![t] = IF ~done THEN "current.epoch"
                                       ELSE IF all = {} THEN "return" ELSE "runAll"]
  BY DEF checkDefers
<1> DEFINE due  == compareEpochs(k, LoadedVisible(t)) <= 0
           take == due /\ inner[t]
           all  == IF take THEN toRun[t] \cup entries[k] ELSE toRun[t]
           done == (take /\ Pending = {k}) \/ (~due /\ ~inner[t])
<1>2. /\ pc[t] \in {"visible", "visible-1", "visible-2"}
      /\ UNCHANGED <<atomic, op, start, newest, item, parity, work, owed>>
  BY DEF checkDefers, callVars, aux
<1>3. /\ toRun'[t] = all
      /\ pc'[t] = IF ~done THEN "current.epoch" ELSE IF all = {} THEN "return" ELSE "runAll"
      /\ \A u \in Threads \ {t} : pc'[u] = pc[u] /\ toRun'[u] = toRun[u]
  BY <1>1, DrainTypes
<1>4. /\ take => entries'[k] = {} /\ \A j \in Epoch \ {k} : entries'[j] = entries[j]
      /\ ~take => entries' = entries
  BY <1>1, DrainTypes
<1>5. IsBegin(k)
  BY <1>1
<1> HIDE DEF due, take, all, done
<1>6. /\ take => all = toRun[t] \cup entries[k]
      /\ ~take => all = toRun[t]
  BY DEF all
<1>7. /\ \A j \in Epoch : entries'[j] \subseteq entries[j]
      /\ \A u \in Threads : toRun[u] \subseteq toRun'[u]
      /\ \A j \in Epoch : \A w \in entries[j] : w \in entries'[j] \/ w \in toRun'[t]
      /\ \A w \in toRun'[t] : w \in toRun[t] \/ w \in entries[k]
  BY <1>3, <1>4, <1>6
<1>8. KeyFrame /\ OwedFrame /\ VisibleFrame
  BY <1>2, <1>3, <1>7 DEF KeyFrame, OwedFrame, VisibleFrame, Started, Waited, AwaitPCs
<1>9. PlaceInv'
  <2>1. PlaceInv
    BY DEF DrainInv
  <2>2. \A w \in Work : Listed(w)' <=> Listed(w)
    BY <1>3, <1>7 DEF Listed
  <2>3. \A w \in Work : /\ work'[w] = "pending" => Listed(w)'
                        /\ Listed(w)' => work'[w] \in {"pending", "ran"}
    BY <1>2, <2>1, <2>2 DEF PlaceInv
  <2>4. ASSUME NEW u \in Threads
        PROVE  /\ toRun'[u] # {} => pc'[u] \in CheckPCs \cup {"runAll"}
               /\ Deferring(u)' => item'[u] \in Work /\ work'[item'[u]] = "deferring"
               /\ op'[u] = "deferBarrier" /\ pc'[u] \in DeferPCs => item'[u] = u
               /\ \A w \in owed'[u] : work'[w] \in {"pending", "ran"}
    BY <1>2, <1>3, <2>1 DEF PlaceInv, Deferring, DeferPCs, CheckPCs
  <2>5. \A v, u \in Threads :
          Deferring(v)' /\ Deferring(u)' /\ item'[v] = item'[u] => v = u
    BY <1>2, <1>3, <2>1 DEF PlaceInv, Deferring, DeferPCs
  <2>6. QED
    BY <2>3, <2>4, <2>5 DEF PlaceInv
<1>10. DoneInv'
  <2>1. ASSUME NEW w, PastTheMiddle(w)
        PROVE  PastTheMiddle(w)' \/ w \in toRun'[t]
    BY <1>2, <1>7, <2>1 DEF PastTheMiddle
  <2>2. ASSUME op[t] = "deferBarrier", done, NEW w \in owed[t], work[w] # "ran"
        PROVE  (\E u \in Threads : w \in toRun'[u]) \/ PastTheMiddle(w)'
    <3>1. w \in Work /\ Listed(w)
      BY <2>2, DrainTypes DEF DrainInv, PlaceInv
    <3>2. CASE \E u \in Threads : w \in toRun[u]
      BY <1>7, <3>2
    <3>3. ASSUME NEW j \in Epoch, w \in entries[j]
          PROVE  w \in toRun'[t] \/ PastTheMiddle(w)'
      <4>1. j \in Pending /\ k \in Pending /\ Signed(k) <= Signed(j)
        BY <1>5, <3>3 DEF Pending, IsBegin
      <4>2. CASE take /\ Pending = {k}
        BY <1>3, <1>6, <3>3, <4>1, <4>2
      <4>3. CASE ~due
        <5>1. Waited(t) /\ Started(t)
          BY <1>2, <2>2 DEF Waited, Started, AwaitPCs
        <5>2. /\ LoadedVisible(t) \in Epoch
              /\ Age(start[t]) <= Age(LoadedVisible(t))
              /\ Age(LoadedVisible(t)) <= Age(atomic.epoch)
          BY <1>2, <5>1, SeesStart
        <5>3. Age(j) <= Age(start[t]) /\ Age(k) <= Age(atomic.epoch)
          BY <2>2, <3>3, <4>1, <5>1 DEF DrainInv, OwedInv, KeyInv, Pending
        <5>4. /\ Age(j) \in Int /\ Age(start[t]) \in Int /\ Age(LoadedVisible(t)) \in Int
              /\ atomic.epoch \in Epoch
          BY <5>2, DrainTypes, AgeLemma
        <5>5. Age(j) <= Age(LoadedVisible(t))
          BY <5>2, <5>3, <5>4
        <5>6. Signed(j) > Signed(atomic.epoch)
          BY <4>1, <4>3, <5>2, <5>3, <5>4, <5>5, OutOfOrder DEF FewEpochs, due
        <5>7. PastTheMiddle(w)
          BY <3>3, <5>6 DEF PastTheMiddle
        <5>8. QED
          BY <2>1, <5>7
      <4>4. QED
        BY <2>2, <4>2, <4>3 DEF done
    <3>4. QED
      BY <3>1, <3>2, <3>3 DEF Listed
  <2>3. SUFFICES ASSUME NEW u \in Threads, op'[u] = "deferBarrier",
                        pc'[u] \in {"runAll", "return"}, NEW w \in owed'[u]
                 PROVE  \/ work'[w] = "ran"
                        \/ \E v \in Threads : w \in toRun'[v]
                        \/ PastTheMiddle(w)'
    BY DEF DoneInv
  <2>4. CASE u = t
    BY <1>2, <1>3, <2>2, <2>3, <2>4
  <2>5. CASE u # t
    <3>1. \/ work[w] = "ran"
          \/ \E v \in Threads : w \in toRun[v]
          \/ PastTheMiddle(w)
      BY <1>2, <1>3, <2>3, <2>5 DEF DrainInv, DoneInv
    <3>2. QED
      BY <1>2, <1>7, <2>1, <3>1
  <2>6. QED
    BY <2>4, <2>5
<1>11. QED
  BY <1>8, <1>9, <1>10, DrainFrames DEF DrainInv

\* A callback is run by the thread that has taken it off the lists.
LEMMA DrainRunAll ==
    ASSUME TypeOK, NEW t \in Threads, CallInv(t), DrainInv, runAll(t)
    PROVE  DrainInv'
<1>1. PICK i \in toRun[t] : /\ RunItem(t, i, IF toRun[t] = {i} THEN "return" ELSE "runAll")
                            /\ toRun' = [toRun EXCEPT ![t] = @ \ {i}]
  BY DEF runAll
<1>2. /\ pc[t] = "runAll"
      /\ UNCHANGED <<atomic, entries, op, start, newest, item, parity, owed>>
  BY DEF runAll, shared, callVars
<1>3. /\ work' = IF i \in Work THEN [work EXCEPT ![i] = "ran"] ELSE work
      /\ pc'[t] = IF toRun[t] = {i} THEN "return" ELSE "runAll"
      /\ \A u \in Threads \ {t} : \/ pc'[u] = pc[u]
                                  \/ pc[u] = "dbSleep" /\ pc'[u] = "dbNext"
      /\ toRun'[t] = toRun[t] \ {i} /\ \A u \in Threads \ {t} : toRun'[u] = toRun[u]
  BY <1>1, DrainTypes DEF RunItem
<1>4. \A w \in Work : work'[w] = IF w = i THEN "ran" ELSE work[w]
  BY <1>3, DrainTypes
<1>5. KeyFrame /\ OwedFrame /\ VisibleFrame
  BY <1>2, <1>3 DEF KeyFrame, OwedFrame, VisibleFrame, Started, Waited, AwaitPCs
<1>6. PlaceInv'
  <2>1. PlaceInv
    BY DEF DrainInv
  <2>2. \A w \in Work \ {i} : Listed(w)' <=> Listed(w)
    BY <1>2, <1>3 DEF Listed
  <2>3. \A w \in Work : /\ work'[w] = "pending" => Listed(w)'
                        /\ Listed(w)' => work'[w] \in {"pending", "ran"}
    BY <1>4, <2>1, <2>2 DEF PlaceInv
  <2>4. i \in Work => work[i] \in {"pending", "ran"}
    BY <2>1 DEF PlaceInv, Listed
  <2>5. ASSUME NEW u \in Threads
        PROVE  /\ toRun'[u] # {} => pc'[u] \in CheckPCs \cup {"runAll"}
               /\ Deferring(u)' => item'[u] \in Work /\ work'[item'[u]] = "deferring"
               /\ op'[u] = "deferBarrier" /\ pc'[u] \in DeferPCs => item'[u] = u
               /\ \A w \in owed'[u] : work'[w] \in {"pending", "ran"}
    <3>1. toRun'[u] # {} => pc'[u] \in CheckPCs \cup {"runAll"}
      BY <1>3, <2>1 DEF PlaceInv, CheckPCs
    <3>2. Deferring(u)' => item'[u] \in Work /\ work'[item'[u]] = "deferring"
      BY <1>2, <1>3, <1>4, <2>1, <2>4 DEF PlaceInv, Deferring, DeferPCs
    <3>3. op'[u] = "deferBarrier" /\ pc'[u] \in DeferPCs => item'[u] = u
      BY <1>2, <1>3, <2>1 DEF PlaceInv, DeferPCs
    <3>4. \A w \in owed'[u] : work'[w] \in {"pending", "ran"}
      BY <1>2, <1>4, <2>1, DrainTypes DEF PlaceInv
    <3>5. QED
      BY <3>1, <3>2, <3>3, <3>4
  <2>6. \A v, u \in Threads :
          Deferring(v)' /\ Deferring(u)' /\ item'[v] = item'[u] => v = u
    BY <1>2, <1>3, <2>1 DEF PlaceInv, Deferring, DeferPCs
  <2>7. QED
    BY <2>3, <2>5, <2>6 DEF PlaceInv
<1>7. DoneInv'
  <2>1. SUFFICES ASSUME NEW u \in Threads, op'[u] = "deferBarrier",
                        pc'[u] \in {"runAll", "return"}, NEW w \in owed'[u]
                 PROVE  \/ work'[w] = "ran"
                        \/ \E v \in Threads : w \in toRun'[v]
                        \/ PastTheMiddle(w)'
    BY DEF DoneInv
  <2>2. op[u] = "deferBarrier" /\ pc[u] \in {"runAll", "return"} /\ w \in owed[u] /\ w \in Work
    BY <1>2, <1>3, <2>1, DrainTypes
  <2>3. \/ work[w] = "ran"
        \/ \E v \in Threads : w \in toRun[v]
        \/ PastTheMiddle(w)
    BY <2>2 DEF DrainInv, DoneInv
  <2>4. PastTheMiddle(w) => PastTheMiddle(w)'
    BY <1>2 DEF PastTheMiddle
  <2>5. QED
    BY <1>3, <1>4, <2>2, <2>3, <2>4
<1>8. QED
  BY <1>5, <1>6, <1>7, DrainFrames DEF DrainInv

\* The epoch that doDefer chooses for a callback has begun.
LEMMA DrainDeferLoad ==
    ASSUME TypeOK, NEW t \in Threads, DrainInv, deferLoad(t)
    PROVE  DrainInv'
<1>1. /\ pc[t] = "defer" /\ pc'[t] \in {"deferInsert", "runInline"}
      /\ newest'[t] = NewestVisibleEpoch(atomic)
      /\ \A u \in Threads \ {t} : pc'[u] = pc[u] /\ newest'[u] = newest[u]
      /\ UNCHANGED <<atomic, entries, op, start, item, parity, toRun, work, owed>>
  BY DrainTypes DEF deferLoad, shared, callVars, aux
<1>2. PlaceFrame /\ OwedFrame /\ VisibleFrame /\ DoneFrame
  BY <1>1 DEF PlaceFrame, OwedFrame, VisibleFrame, DoneFrame, Started, Waited, Deferring,
              CheckPCs, DeferPCs, AwaitPCs
<1>3. KeyInv'
  <2>1. atomic.epoch \in Epoch /\ Age(atomic.epoch) \in Int /\ Age(atomic.epoch) >= 1
    BY DrainTypes, AgeLemma DEF DrainInv, KeyInv
  <2>2. Age(NewestVisibleEpoch(atomic)) <= Age(atomic.epoch)
    BY <2>1, AgeLemma DEF NewestVisibleEpoch
  <2>3. QED
    BY <1>1, <2>2 DEF DrainInv, KeyInv, Started, Age, Lead
<1>4. QED
  BY <1>2, <1>3, DrainFrames DEF DrainInv

\* The item of doDefer is a new callback, or the unlock of a deferBarrier.
LEMMA ItemDeferred ==
    ASSUME TypeOK, NEW t \in Threads, CallInv(t), DrainInv, pc[t] \in DeferPCs
    PROVE  \/ Deferring(t) /\ item[t] \in Work /\ work[item[t]] = "deferring"
           \/ op[t] = "deferBarrier" /\ item[t] = t /\ t \notin Work
<1>1. op[t] \in {"defer", "deferBarrier"}
  BY DrainTypes DEF CallInv, ReadLockOps, ReadUnlockOps, UpdatePCs, CheckPCs, BarrierPCs,
                    DeferPCs, Ops
<1>2. QED
  BY <1>1, DrainTypes DEF DrainInv, PlaceInv, Deferring

\* doDefer puts a callback on a list that has begun; nobody is owed it yet.
LEMMA DrainDeferInsert ==
    ASSUME TypeOK, NEW t \in Threads, CallInv(t), DrainInv, deferInsert(t)
    PROVE  DrainInv'
<1>1. /\ pc[t] = "deferInsert"
      /\ \A u \in Threads \ {t} : pc'[u] = pc[u]
      /\ UNCHANGED <<atomic, op, start, newest, item, parity, toRun, owed>>
      /\ \/ pc'[t] = "runInline" /\ entries' = entries /\ work' = work
         \/ /\ pc'[t] = AfterDefer(t)
            /\ entries' = [entries EXCEPT ![newest[t]] = @ \cup {item[t]}]
            /\ work' = IF item[t] \in Work THEN [work EXCEPT ![item[t]] = "pending"]
                       ELSE work
  BY DrainTypes DEF deferInsert, callVars, locals
<1>2. \/ Deferring(t) /\ item[t] \in Work /\ work[item[t]] = "deferring"
      \/ op[t] = "deferBarrier" /\ item[t] = t /\ t \notin Work
  BY <1>1, ItemDeferred DEF DeferPCs
<1>3. CASE pc'[t] = "runInline" /\ entries' = entries /\ work' = work
  <2>1. Undrained
    BY <1>1, <1>3 DEF Undrained, KeyFrame, PlaceFrame, OwedFrame, VisibleFrame, DoneFrame,
                      Started, Waited, Deferring, CheckPCs, DeferPCs, AwaitPCs
  <2>2. QED
    BY <2>1, DrainFrames DEF DrainInv, Undrained
<1>4. CASE /\ pc'[t] = AfterDefer(t)
           /\ entries' = [entries EXCEPT ![newest[t]] = @ \cup {item[t]}]
           /\ work' = IF item[t] \in Work THEN [work EXCEPT ![item[t]] = "pending"]
                      ELSE work
  <2>1. pc'[t] = IF op[t] = "defer" THEN "return" ELSE "dbDec"
    BY <1>4 DEF AfterDefer
  <2>2. /\ newest[t] \in Epoch /\ entries'[newest[t]] = entries[newest[t]] \cup {item[t]}
        /\ \A k \in Epoch : k # newest[t] => entries'[k] = entries[k]
    BY <1>4, DrainTypes
  <2>3. \A w \in Work : work'[w] = IF w = item[t] THEN "pending" ELSE work[w]
    BY <1>4, DrainTypes
  <2>4. VisibleFrame
    BY <1>1, <2>1 DEF VisibleFrame, Waited, AwaitPCs
  <2>5. KeyInv'
    BY <1>1, <2>1, <2>2 DEF DrainInv, KeyInv, Started, Age, Lead
  <2>6. PlaceInv
    BY DEF DrainInv
  <2>7. \A u \in Threads : item[t] \notin owed[u]
    BY <1>2, <2>6, DrainTypes DEF PlaceInv
  <2>8. OwedInv'
    <3>1. \A u \in Threads, w \in Work, k \in Epoch :
             w \in owed[u] /\ w \in entries'[k] => w \in entries[k]
      BY <2>2, <2>7
    <3>2. QED
      BY <1>1, <2>1, <3>1, DrainTypes DEF DrainInv, OwedInv, Started, Age, Lead
  <2>9. PlaceInv'
    <3>1. \A w \in Work : Listed(w)' <=> Listed(w) \/ w = item[t]
      BY <1>1, <2>2 DEF Listed
    <3>2. \A w \in Work : /\ work'[w] = "pending" => Listed(w)'
                          /\ Listed(w)' => work'[w] \in {"pending", "ran"}
      BY <2>3, <2>6, <3>1 DEF PlaceInv
    <3>3. ~Deferring(t)'
      BY <2>1 DEF Deferring, DeferPCs
    <3>4. ASSUME NEW u \in Threads, Deferring(u)' PROVE Deferring(u) /\ u # t
      BY <1>1, <3>3, <3>4 DEF Deferring
    <3>5. ASSUME NEW u \in Threads
          PROVE  /\ toRun'[u] # {} => pc'[u] \in CheckPCs \cup {"runAll"}
                 /\ Deferring(u)' => item'[u] \in Work /\ work'[item'[u]] = "deferring"
                 /\ op'[u] = "deferBarrier" /\ pc'[u] \in DeferPCs => item'[u] = u
                 /\ \A w \in owed'[u] : work'[w] \in {"pending", "ran"}
      <4>1. toRun'[u] # {} => pc'[u] \in CheckPCs \cup {"runAll"}
        BY <1>1, <2>6 DEF PlaceInv, CheckPCs
      <4>2. ASSUME Deferring(u)' PROVE item'[u] \in Work /\ work'[item'[u]] = "deferring"
        <5>1. Deferring(u) /\ u # t
          BY <3>4, <4>2
        <5>2. item[u] \in Work /\ work[item[u]] = "deferring"
          BY <2>6, <5>1 DEF PlaceInv
        <5>3. item[u] # item[t]
          BY <1>2, <2>6, <5>1, <5>2 DEF PlaceInv
        <5>4. QED
          BY <1>1, <2>3, <5>2, <5>3
      <4>3. op'[u] = "deferBarrier" /\ pc'[u] \in DeferPCs => item'[u] = u
        BY <1>1, <2>1, <2>6 DEF PlaceInv, DeferPCs
      <4>4. \A w \in owed'[u] : work'[w] \in {"pending", "ran"}
        BY <1>1, <2>3, <2>6, DrainTypes DEF PlaceInv
      <4>5. QED
        BY <4>1, <4>2, <4>3, <4>4
    <3>6. \A v, u \in Threads :
            Deferring(v)' /\ Deferring(u)' /\ item'[v] = item'[u] => v = u
      BY <1>1, <2>6, <3>4 DEF PlaceInv
    <3>7. QED
      BY <3>2, <3>5, <3>6 DEF PlaceInv
  <2>10. DoneInv'
    <3>1. \A u \in Threads : op'[u] = "deferBarrier" /\ pc'[u] \in {"runAll", "return"} =>
             op[u] = "deferBarrier" /\ pc[u] \in {"runAll", "return"}
      BY <1>1, <2>1
    <3>2. \A w \in Work : work[w] = "ran" => work'[w] = "ran"
      BY <1>2, <2>3
    <3>3. \A w \in Work : PastTheMiddle(w) => PastTheMiddle(w)'
      BY <1>1, <2>2 DEF PastTheMiddle
    <3>4. QED
      BY <1>1, <3>1, <3>2, <3>3, DrainTypes DEF DrainInv, DoneInv
  <2>11. QED
    BY <2>4, <2>5, <2>8, <2>9, <2>10, DrainFrames DEF DrainInv
<1>5. QED
  BY <1>1, <1>3, <1>4

\* doDefer runs a callback at once: it was on no list.
LEMMA DrainRunInline ==
    ASSUME TypeOK, NEW t \in Threads, CallInv(t), DrainInv, runInline(t)
    PROVE  DrainInv'
<1>1. /\ pc[t] = "runInline"
      /\ UNCHANGED <<atomic, entries, op, start, newest, item, parity, toRun, owed>>
      /\ work' = IF item[t] \in Work THEN [work EXCEPT ![item[t]] = "ran"] ELSE work
      /\ pc'[t] = IF op[t] = "defer" THEN "return" ELSE "dbDec"
      /\ \A u \in Threads \ {t} : \/ pc'[u] = pc[u]
                                  \/ pc[u] = "dbSleep" /\ pc'[u] = "dbNext"
  BY DrainTypes DEF runInline, RunItem, AfterDefer, shared, callVars
<1>2. \A w \in Work : work'[w] = IF w = item[t] THEN "ran" ELSE work[w]
  BY <1>1, DrainTypes
<1>3. \/ Deferring(t) /\ item[t] \in Work /\ work[item[t]] = "deferring"
      \/ op[t] = "deferBarrier" /\ item[t] = t /\ t \notin Work
  BY <1>1, ItemDeferred DEF DeferPCs
<1>4. KeyFrame /\ OwedFrame /\ VisibleFrame /\ DoneFrame
  BY <1>1, <1>2 DEF KeyFrame, OwedFrame, VisibleFrame, DoneFrame, Started, Waited, AwaitPCs
<1>5. PlaceInv'
  <2>1. PlaceInv
    BY DEF DrainInv
  <2>2. \A w \in Work : Listed(w)' <=> Listed(w)
    BY <1>1 DEF Listed
  <2>3. \A w \in Work : /\ work'[w] = "pending" => Listed(w)'
                        /\ Listed(w)' => work'[w] \in {"pending", "ran"}
    BY <1>2, <2>1, <2>2 DEF PlaceInv
  <2>4. ASSUME NEW u \in Threads, Deferring(u)' PROVE Deferring(u) /\ u # t
    BY <1>1, <2>4 DEF Deferring, DeferPCs
  <2>5. ASSUME NEW u \in Threads
        PROVE  /\ toRun'[u] # {} => pc'[u] \in CheckPCs \cup {"runAll"}
               /\ Deferring(u)' => item'[u] \in Work /\ work'[item'[u]] = "deferring"
               /\ op'[u] = "deferBarrier" /\ pc'[u] \in DeferPCs => item'[u] = u
               /\ \A w \in owed'[u] : work'[w] \in {"pending", "ran"}
    <3>1. toRun'[u] # {} => pc'[u] \in CheckPCs \cup {"runAll"}
      BY <1>1, <2>1 DEF PlaceInv, CheckPCs
    <3>2. ASSUME Deferring(u)' PROVE item'[u] \in Work /\ work'[item'[u]] = "deferring"
      <4>1. Deferring(u) /\ u # t
        BY <2>4, <3>2
      <4>2. item[u] \in Work /\ work[item[u]] = "deferring"
        BY <2>1, <4>1 DEF PlaceInv
      <4>3. item[u] # item[t]
        BY <1>3, <2>1, <4>1, <4>2 DEF PlaceInv
      <4>4. QED
        BY <1>1, <1>2, <4>2, <4>3
    <3>3. op'[u] = "deferBarrier" /\ pc'[u] \in DeferPCs => item'[u] = u
      BY <1>1, <2>1 DEF PlaceInv, DeferPCs
    <3>4. \A w \in owed'[u] : work'[w] \in {"pending", "ran"}
      BY <1>1, <1>2, <2>1, DrainTypes DEF PlaceInv
    <3>5. QED
      BY <3>1, <3>2, <3>3, <3>4
  <2>6. \A v, u \in Threads :
          Deferring(v)' /\ Deferring(u)' /\ item'[v] = item'[u] => v = u
    BY <1>1, <2>1, <2>4 DEF PlaceInv
  <2>7. QED
    BY <2>3, <2>5, <2>6 DEF PlaceInv
<1>6. QED
  BY <1>4, <1>5, DrainFrames DEF DrainInv

\* visibleBarrier returns when the epoch it started in is visible.
LEMMA OverVisible ==
    ASSUME TypeOK, NEW s \in Epoch, BarrierOver(atomic, s)
    PROVE  /\ atomic.epoch = s => atomic.in[0] = 0 /\ atomic.in[1] = 0
           /\ atomic.epoch = After(s) => atomic.in[s % 2] = 0
<1> DEFINE e == atomic.epoch
<1>1. /\ s % 2 \in {0, 1} /\ (s + 1) % 2 \in {0, 1} /\ s % 2 # (s + 1) % 2
      /\ After(s) % 2 = (s + 1) % 2 /\ (After(s) + 1) % 2 = s % 2
  BY QuarterAssumption DEF Epoch, After, Modulus
<1>2. /\ Before(s) # s /\ Before(Before(s)) # s /\ After(s) # s /\ Before(Before(After(s))) # s
  BY NeighboursDiffer
<1>3. ASSUME e = s PROVE ~AnyInCurrent(atomic) /\ ~AnyInOld(atomic)
  BY <1>2, <1>3 DEF BarrierOver, visibleEpoch
<1>4. ASSUME e = After(s) PROVE ~AnyInOld(atomic)
  BY <1>2, <1>4 DEF BarrierOver, visibleEpoch
<1>5. QED
  BY <1>1, <1>3, <1>4 DEF AnyInCurrent, AnyInOld

\* The first load of the visibleBarrier of deferBarrier comes after everything it owes
\* was put on a list.
LEMMA DrainBarrierLoad ==
    ASSUME TypeOK, NEW t \in Threads, DrainInv, barrierLoad(t)
    PROVE  DrainInv'
<1>1. /\ pc[t] \in {"barrier", "barrierAgain"}
      /\ start'[t] = IF pc[t] = "barrier" THEN atomic.epoch ELSE start[t]
      /\ pc'[t] = IF BarrierOver(atomic, start'[t]) THEN "barrierDone" ELSE "barrierWait"
      /\ \A u \in Threads \ {t} : pc'[u] = pc[u] /\ start'[u] = start[u]
      /\ UNCHANGED <<atomic, entries, op, newest, item, parity, toRun, work, owed>>
  BY DrainTypes DEF barrierLoad, shared, callVars
<1>2. PlaceFrame /\ DoneFrame
  BY <1>1 DEF PlaceFrame, DoneFrame, Deferring, CheckPCs, DeferPCs
<1>3. start'[t] \in Epoch /\ Age(atomic.epoch) \in Int
  BY <1>1, DrainTypes, AgeLemma
<1>4. KeyInv'
  BY <1>1, <1>3 DEF DrainInv, KeyInv, Started, Age, Lead
<1>5. OwedInv'
  <2>1. ASSUME op[t] = "deferBarrier", NEW w \in owed[t], NEW k \in Epoch, w \in entries[k]
        PROVE  Age(k) <= Age(start'[t])
    BY <1>1, <2>1 DEF DrainInv, KeyInv, OwedInv, Started
  <2>2. QED
    BY <1>1, <2>1 DEF DrainInv, OwedInv, Started, Age, Lead
<1>6. VisibleInv'
  <2>1. pc'[t] = "barrierDone" =>
          /\ atomic.epoch = start'[t] => atomic.in[0] = 0 /\ atomic.in[1] = 0
          /\ atomic.epoch = After(start'[t]) => atomic.in[start'[t] % 2] = 0
    BY <1>1, <1>3, OverVisible
  <2>2. QED
    BY <1>1, <2>1 DEF DrainInv, VisibleInv, Waited, AwaitPCs
<1>7. QED
  BY <1>2, <1>4, <1>5, <1>6, DrainFrames DEF DrainInv

\* Every step of a thread keeps DrainInv while there are few epochs.
LEMMA DrainStep ==
    ASSUME TypeOK, TypeOK', NEW t \in Threads, CallInv(t), DrainInv, FewEpochs, FewEpochs',
           Calls(t) \/ Releases(t) \/ Steps(t)
    PROVE  DrainInv'
<1>1. ASSUME Undrained PROVE DrainInv'
  BY <1>1, DrainFrames DEF DrainInv, Undrained
<1>2. PlaceInv
  BY DEF DrainInv
<1>3. CASE Calls(t)
  <2>1. ASSUME NEW w \in Work, defer(t, w) PROVE DrainInv'
    BY <2>1, DrainDefer
  <2>2. ASSUME NEW r \in RunDefers, lockShared(t, r) \/ lockSpeculative(t, r) PROVE DrainInv'
    BY <1>1, <1>2, <2>2, UndrainedSteps
  <2>3. lockExclusive(t) \/ visibleBarrier(t) => DrainInv'
    BY <1>1, <1>2, UndrainedSteps
  <2>4. QED
    BY <1>3, <2>1, <2>2, <2>3, DrainDeferBarrier DEF Calls
<1>4. CASE Releases(t)
  <2>1. ASSUME NEW r \in RunDefers,
               unlockShared(t, r) \/ unlockSpeculative(t, r) \/ forceUnlock(t, r)
        PROVE  DrainInv'
    BY <1>1, <1>2, <2>1, UndrainedSteps
  <2>2. unlockExclusive(t) => DrainInv'
    BY <1>1, <1>2, UndrainedSteps
  <2>3. QED
    BY <1>4, <2>1, <2>2 DEF Releases
<1>5. CASE Steps(t)
  BY <1>1, <1>2, <1>5, UndrainedSteps, DrainEnter, DrainExit, DrainRunDefers, DrainLoadEpoch,
     DrainLoadIn, DrainCheckDefers, DrainRunAll, DrainDeferLoad, DrainDeferInsert,
     DrainRunInline, DrainBarrierLoad DEF Steps
<1>6. QED
  BY <1>3, <1>4, <1>5

\* As long as fewer than Quarter epochs (2^30 in the program) have been opened: when
\* deferBarrier returns, what was deferred before it was called has been run or is with
\* another thread that took it off the lists, unless the epoch has passed the middle of
\* the ring, although the loads of visibleEpoch() are torn and other threads enter,
\* defer and run callbacks all the while (arch/gc_lock.cc:507-551, 769-805).
THEOREM DeferBarrierCorrect == Spec /\ []FewEpochs => []DeferBarrierEmptiesList
<1>1. Init => DrainInv
  <2> SUFFICES ASSUME Init PROVE DrainInv
    OBVIOUS
  <2>1. Age(atomic.epoch) = 1
    BY AgeLemma, GcLockAssumption DEF Init
  <2>2. KeyInv
    BY <2>1 DEF Init, KeyInv, Started
  <2>3. PlaceInv
    BY DEF Init, PlaceInv, Listed, Deferring
  <2>4. OwedInv /\ VisibleInv /\ DoneInv
    BY DEF Init, OwedInv, VisibleInv, DoneInv, Started, Waited
  <2>5. QED
    BY <2>2, <2>3, <2>4 DEF DrainInv
<1>2. IInv /\ IInv' /\ FewEpochs /\ FewEpochs' /\ DrainInv /\ [Next]_vars => DrainInv'
  <2> SUFFICES ASSUME IInv, IInv', FewEpochs, FewEpochs', DrainInv, [Next]_vars
               PROVE  DrainInv'
    OBVIOUS
  <2>1. ASSUME NEW t \in Threads, Calls(t) \/ Releases(t) \/ Steps(t) PROVE DrainInv'
    BY <2>1, DrainStep DEF IInv
  <2>2. CASE UNCHANGED vars
    <3>1. Undrained
      BY <2>2 DEF vars, shared, callVars, locals, aux, Undrained, KeyFrame, PlaceFrame,
                  OwedFrame, VisibleFrame, DoneFrame, Started, Waited, Deferring
    <3>2. QED
      BY <3>1, DrainFrames DEF DrainInv, Undrained, IInv
  <2>3. QED
    BY <2>1, <2>2 DEF Next, Quiet
<1>3. DrainInv => DeferBarrierEmptiesList
  <2> SUFFICES ASSUME DrainInv, NEW t \in Threads, pc[t] = "return", op[t] = "deferBarrier",
                      NEW w \in owed[t]
               PROVE  \/ work[w] = "ran"
                      \/ \E u \in Threads \ {t} : w \in toRun[u]
                      \/ PastTheMiddle(w)
    BY DEF DeferBarrierEmptiesList
  <2>1. toRun[t] = {}
    BY DEF DrainInv, PlaceInv, CheckPCs
  <2>2. QED
    BY <2>1 DEF DrainInv, DoneInv
<1>4. QED
  BY <1>1, <1>2, <1>3, Invariance, PTL DEF Spec

=============================================================================
