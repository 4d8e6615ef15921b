------------------------------- MODULE GcLock -------------------------------
(***************************************************************************)
(* The epoch-based reader/writer lock with deferred reclamation of         *)
(* arch/gc_lock.{h,cc} and arch/gc_lock_impl.h.                            *)
(*                                                                         *)
(* One action is one access to shared memory together with the thread-local*)
(* code around it.  A compare-and-swap loop on the packed word             *)
(* data->atomic is one action: an attempt that fails writes nothing, and   *)
(* the one that succeeds computes the new value from the current one.      *)
(* What runs on the deferred list under Deferred::lock is merged where     *)
(* only that list is touched; the loads of visibleEpoch() on the live word *)
(* are separate steps, as they are separate atomic loads in the code.      *)
(*                                                                         *)
(* A thread between two API calls is "idle".  Clients nest their guards as *)
(* the RAII guard classes of gc_lock.h do.                                 *)
(***************************************************************************)
EXTENDS Epochs, FiniteSets

CONSTANTS
    Threads,
    Work,                  \* callbacks given to defer(), each at most once
    Can,                   \* Can[t]: the API calls thread t makes
    RunDefers,             \* values of the RunDefer argument in use
    StartEpoch,            \* gcLockStartingEpoch
    Horizon,               \* bound: no shared lock once epoch is Horizon on
    MaxNest,               \* bound: nesting depth of guards in a thread
    SpeculativeThreshold,
    NoThread

ASSUME GcLockAssumption ==
    /\ IsFiniteSet(Threads)
    /\ NoThread \notin Threads
    /\ Threads \cap Work = {}
    /\ RunDefers \subseteq BOOLEAN
    /\ StartEpoch \in Epoch
    /\ Horizon \in Nat
    /\ MaxNest \in Nat
    /\ SpeculativeThreshold \in Nat \ {0}
    /\ Quarter > 1

VARIABLES
    atomic,           \* Data::atomic: epoch, in[2] and the exclusive bit
    visibleFutex,     \* Data::visibleFutex
    exclusiveFutex,   \* Data::exclusiveFutex
    deferredLock,     \* holder of Deferred::lock
    entries,          \* Deferred::entries: the items queued under each epoch
    inEpoch,          \* ThreadGcInfoEntry of each thread: -1, 0 or 1,
    readLocked, writeLocked, specLocked, specUnlocked,   \* nesting depths
    pc,               \* where each thread is
    op, rd,           \* the API call it is in and its RunDefer argument
    xstart,           \* enterCSExclusive: startEpoch
    start, val,       \* visibleBarrier: startEpoch, value waited on
    newest, item,     \* doDefer: newestVisibleEpoch, the item
    parity, inner,    \* checkDefers: counter selected, in the inner loop
    toRun,            \* runDefers: items taken off the list
    round,            \* deferBarrier: turns of the loop
    barrierLock,      \* deferBarrier: the local futex "lock"
    work,             \* what has become of each callback
    section,          \* history: the epoch each thread entered, or -1
    blockers,         \* history: readers an item or a barrier must outlive
    owed              \* history: callbacks pending when deferBarrier() began

shared    == <<atomic, visibleFutex, exclusiveFutex, deferredLock, entries>>
entryVars == <<inEpoch, readLocked, writeLocked, specLocked, specUnlocked>>
callVars  == <<op, rd>>
locals    == <<xstart, start, val, newest, item, parity, inner, toRun, round, barrierLock>>
aux       == <<work, section, blockers, owed>>
vars      == <<shared, entryVars, pc, callVars, locals, aux>>

-----------------------------------------------------------------------------
(* The packed word (struct Atomic).                                        *)

Word == [epoch : Epoch, in : [0..1 -> Nat], exclusive : BOOLEAN]

AnyInCurrent(w) == w.in[w.epoch % 2] # 0

AnyInOld(w) == w.in[(w.epoch + 1) % 2] # 0

NeverExclusive(w) == FALSE  \* fault: the bit is not looked at

exclusive(w) == w.exclusive

visibleEpoch(w) ==
    IF ~AnyInCurrent(w) /\ ~AnyInOld(w) THEN w.epoch
    ELSE IF ~AnyInOld(w) THEN Before(w.epoch)
    ELSE Before(Before(w.epoch))

\* Fault: a new epoch is opened over an occupied old one.
EnteredAlwaysNew(w) ==
    [epoch |-> After(w.epoch), in |-> [w.in EXCEPT ![After(w.epoch) % 2] = 1],
     exclusive |-> w.exclusive]

\* The word after enterCS: a new epoch unless the old one is still occupied.
Entered(w) ==
    IF ~AnyInOld(w)
    THEN [epoch |-> After(w.epoch), in |-> [w.in EXCEPT ![After(w.epoch) % 2] = 1],
          exclusive |-> w.exclusive]
    ELSE [epoch |-> w.epoch, in |-> [w.in EXCEPT ![w.epoch % 2] = @ + 1],
          exclusive |-> w.exclusive]

\* Fault: the counter of the other epoch is decremented.
ExitedOther(w, p) ==
    [epoch |-> w.epoch, in |-> [w.in EXCEPT ![1 - p] = @ - 1],
     exclusive |-> w.exclusive]

\* The word after exitCS from the epoch of parity p (decrementInAtomic).
Exited(w, p) ==
    [epoch |-> w.epoch, in |-> [w.in EXCEPT ![p] = @ - 1],
     exclusive |-> w.exclusive]

\* setExclusive and resetExclusiveAtomic.
WithExclusive(w, x) == [epoch |-> w.epoch, in |-> w.in, exclusive |-> x]

\* Fault: the callbacks are looked at only when a new epoch begins.
updateAtomicNewEpoch(t, new) ==
    /\ atomic' = new
    /\ pc' = [pc EXCEPT ![t] = IF new.epoch # atomic.epoch THEN "bump" ELSE "return"]

\* compareExchange succeeded: wake and run deferred work only if the visible
\* epoch moved, otherwise the call is done.
updateAtomic(t, new) ==
    /\ atomic' = new
    /\ pc' = [pc EXCEPT ![t] = IF visibleEpoch(new) # visibleEpoch(atomic)
                               THEN "bump" ELSE "return"]

-----------------------------------------------------------------------------
(* Sections.  A thread is in a shared section from the return of the       *)
(* locking call that called enterCS until its exitCS has decremented the   *)
(* counter.  A guard taken while readLocked or writeLocked is not zero     *)
(* calls no enterCS and begins no section: it relies on the one the thread *)
(* is in, if there is one.                                                 *)

Locking(t) == pc[t] # "idle" /\ op[t] \in {"lockShared", "lockSpeculative"}

InSection(t) == section[t] # -1 /\ ~Locking(t)

Readers == {t \in Threads : InSection(t)}

\* The exclusive section lasts from the end of the barrier of
\* enterCSExclusive until exitCSExclusive resets the bit.
InExclusive(t) ==
    \/ pc[t] = "barrierDone" /\ op[t] = "lockExclusive"
    \/ writeLocked[t] > 0
    \/ pc[t] = "xexit"

\* Guards of its own a thread still has on the read side.
SharedGuards(t) ==
    readLocked[t] - (IF specLocked[t] > 0 \/ specUnlocked[t] > 0 THEN 1 ELSE 0)

Items == Work \cup Threads

\* Deferred::entries is empty exactly when no epoch has an item.
Pending == {k \in Epoch : entries[k] # {}}

\* entries.begin(): the map is ordered on int32_t.
IsBegin(k) == k \in Pending /\ \A j \in Pending : Signed(k) <= Signed(j)

-----------------------------------------------------------------------------
Init ==
    /\ atomic = [epoch |-> StartEpoch, in |-> [p \in 0..1 |-> 0], exclusive |-> FALSE]
    /\ visibleFutex = StartEpoch
    /\ exclusiveFutex = 0
    /\ deferredLock = NoThread
    /\ entries = [k \in Epoch |-> {}]
    /\ inEpoch = [t \in Threads |-> -1]
    /\ readLocked = [t \in Threads |-> 0]
    /\ writeLocked = [t \in Threads |-> 0]
    /\ specLocked = [t \in Threads |-> 0]
    /\ specUnlocked = [t \in Threads |-> 0]
    /\ pc = [t \in Threads |-> "idle"]
    /\ op = [t \in Threads |-> "none"]
    /\ rd = [t \in Threads |-> FALSE]
    /\ xstart = [t \in Threads |-> 0]
    /\ start = [t \in Threads |-> 0]
    /\ val = [t \in Threads |-> 0]
    /\ newest = [t \in Threads |-> 0]
    /\ item = [t \in Threads |-> t]
    /\ parity = [t \in Threads |-> 0]
    /\ inner = [t \in Threads |-> FALSE]
    /\ toRun = [t \in Threads |-> {}]
    /\ round = [t \in Threads |-> 0]
    /\ barrierLock = [t \in Threads |-> 0]
    /\ work = [w \in Work |-> "new"]
    /\ section = [t \in Threads |-> -1]
    /\ blockers = [i \in Items |-> {}]
    /\ owed = [t \in Threads |-> {}]

-----------------------------------------------------------------------------
(* API calls.                                                              *)

Invoke(t, o, r, first) ==
    /\ op' = [op EXCEPT ![t] = o]
    /\ rd' = [rd EXCEPT ![t] = r]
    /\ pc' = [pc EXCEPT ![t] = first]

Add(f, t, n) == [f EXCEPT ![t] = @ + n]

\* ThreadGcInfoEntry::lockShared, on behalf of call o.
AcquireRead(t, o, r) ==
    IF readLocked[t] = 0 /\ writeLocked[t] = 0
    THEN /\ (atomic.epoch - StartEpoch) % Modulus < Horizon
         /\ Invoke(t, o, r, "enter")
         /\ UNCHANGED <<readLocked, specLocked>>
    ELSE /\ readLocked' = Add(readLocked, t, 1)
         /\ specLocked' = Add(specLocked, t, IF o = "lockSpeculative" THEN 1 ELSE 0)
         /\ UNCHANGED <<pc, callVars>>

\* Fault: a read guard nested in a write guard leaves the section.
ReleaseReadAlways(t, o, r, n) ==
    /\ readLocked' = Add(readLocked, t, -1)
    /\ IF readLocked[t] = 1
       THEN /\ specUnlocked' = [specUnlocked EXCEPT ![t] = n]
            /\ Invoke(t, o, r, "exit")
       ELSE /\ specUnlocked' = [specUnlocked EXCEPT ![t] = IF o = "unlockShared" THEN n ELSE 0]
            /\ UNCHANGED <<pc, callVars>>

\* ThreadGcInfoEntry::unlockShared, on behalf of call o with n unlocked
\* speculative guards, which unlockSpeculative and forceUnlock then forget.
ReleaseRead(t, o, r, n) ==
    /\ readLocked' = Add(readLocked, t, -1)
    /\ IF readLocked[t] = 1 /\ writeLocked[t] = 0
       THEN /\ specUnlocked' = [specUnlocked EXCEPT ![t] = n]
            /\ Invoke(t, o, r, "exit")
       ELSE /\ specUnlocked' = [specUnlocked EXCEPT ![t] = IF o = "unlockShared" THEN n ELSE 0]
            /\ UNCHANGED <<pc, callVars>>

lockShared(t, r) ==
    /\ pc[t] = "idle" /\ "shared" \in Can[t]
    /\ readLocked[t] < MaxNest
    /\ AcquireRead(t, "lockShared", r)
    /\ UNCHANGED <<shared, inEpoch, writeLocked, specUnlocked, locals, aux>>

unlockShared(t, r) ==
    /\ pc[t] = "idle"
    /\ SharedGuards(t) > 0
    /\ ReleaseRead(t, "unlockShared", r, specUnlocked[t])
    /\ UNCHANGED <<shared, inEpoch, writeLocked, specLocked, locals, aux>>

lockSpeculative(t, r) ==
    /\ pc[t] = "idle" /\ "speculative" \in Can[t]
    /\ specLocked[t] < MaxNest
    /\ IF specLocked[t] = 0 /\ specUnlocked[t] = 0
       THEN AcquireRead(t, "lockSpeculative", r)
       ELSE /\ specLocked' = Add(specLocked, t, 1)
            /\ UNCHANGED <<readLocked, pc, callVars>>
    /\ UNCHANGED <<shared, inEpoch, writeLocked, specUnlocked, locals, aux>>

\* Leaving the outermost guard gives the read lock back only every
\* SpeculativeThreshold times.
unlockSpeculative(t, r) ==
    /\ pc[t] = "idle"
    /\ specLocked[t] > 0
    /\ specLocked' = Add(specLocked, t, -1)
    /\ LET outer == specLocked[t] = 1
           n == specUnlocked[t] + (IF outer THEN 1 ELSE 0)
       IN  IF outer /\ n = SpeculativeThreshold
           THEN ReleaseRead(t, "unlockSpeculative", r, n)
           ELSE /\ specUnlocked' = [specUnlocked EXCEPT ![t] = n]
                /\ UNCHANGED <<readLocked, pc, callVars>>
    /\ UNCHANGED <<shared, inEpoch, writeLocked, locals, aux>>

\* forceUnlock; the destructor of the entry of a thread that ends does the
\* same.
forceUnlock(t, r) ==
    /\ pc[t] = "idle"
    /\ specLocked[t] = 0 /\ specUnlocked[t] > 0
    /\ ReleaseRead(t, "forceUnlock", r, specUnlocked[t])
    /\ UNCHANGED <<shared, inEpoch, writeLocked, specLocked, locals, aux>>

lockExclusive(t) ==
    /\ pc[t] = "idle" /\ "exclusive" \in Can[t]
    /\ writeLocked[t] < MaxNest
    /\ IF writeLocked[t] = 0
       THEN /\ inEpoch[t] = -1
            /\ Invoke(t, "lockExclusive", TRUE, "xenter")
            /\ UNCHANGED writeLocked
       ELSE /\ writeLocked' = Add(writeLocked, t, 1)
            /\ UNCHANGED <<pc, callVars>>
    /\ UNCHANGED <<shared, inEpoch, readLocked, specLocked, specUnlocked, locals, aux>>

unlockExclusive(t) ==
    /\ pc[t] = "idle"
    /\ writeLocked[t] > 0
    /\ writeLocked[t] = 1 => /\ SharedGuards(t) = 0
                                   /\ specLocked[t] = 0
    /\ writeLocked' = Add(writeLocked, t, -1)
    /\ IF writeLocked[t] = 1
       THEN Invoke(t, "unlockExclusive", TRUE, "xexit")
       ELSE UNCHANGED <<pc, callVars>>
    /\ UNCHANGED <<shared, inEpoch, readLocked, specLocked, specUnlocked, locals, aux>>

defer(t, w) ==
    /\ pc[t] = "idle" /\ "defer" \in Can[t]
    /\ work[w] = "new"
    /\ work' = [work EXCEPT ![w] = "deferring"]
    /\ blockers' = [blockers EXCEPT ![w] = Readers]
    /\ item' = [item EXCEPT ![t] = w]
    /\ Invoke(t, "defer", TRUE, "defer")
    /\ UNCHANGED <<shared, entryVars, xstart, start, val, newest, parity, inner,
                   toRun, round, barrierLock, section, owed>>

visibleBarrier(t) ==
    /\ pc[t] = "idle" /\ "visibleBarrier" \in Can[t]
    /\ inEpoch[t] = -1
    /\ Invoke(t, "visibleBarrier", TRUE, "barrier")
    /\ UNCHANGED <<shared, entryVars, locals, aux>>

\* Fault: deferBarrier does not wait for the readers first.
deferBarrierAtOnce(t) ==
    /\ pc[t] = "idle" /\ "deferBarrier" \in Can[t]
    /\ inEpoch[t] = -1
    /\ Invoke(t, "deferBarrier", TRUE, "runDefers")
    /\ owed' = [owed EXCEPT ![t] = {w \in Work : work[w] = "pending"}]
    /\ UNCHANGED <<shared, entryVars, locals, work, section, blockers>>

deferBarrier(t) ==
    /\ pc[t] = "idle" /\ "deferBarrier" \in Can[t]
    /\ inEpoch[t] = -1
    /\ Invoke(t, "deferBarrier", TRUE, "barrier")
    /\ owed' = [owed EXCEPT ![t] = {w \in Work : work[w] = "pending"}]
    /\ UNCHANGED <<shared, entryVars, locals, work, section, blockers>>

-----------------------------------------------------------------------------
(* enterCS, exitCS.                                                        *)

enterCS(t) ==
    /\ pc[t] = "enter"
    /\ IF exclusive(atomic)
       THEN /\ pc' = [pc EXCEPT ![t] = "enterWait"]
            /\ UNCHANGED <<atomic, inEpoch, section>>
       ELSE LET new == Entered(atomic)
            IN  /\ updateAtomic(t, new)
                /\ inEpoch' = [inEpoch EXCEPT ![t] = new.epoch % 2]
                /\ section' = [section EXCEPT ![t] = new.epoch]
    /\ UNCHANGED <<visibleFutex, exclusiveFutex, deferredLock, entries,
                   readLocked, writeLocked, specLocked, specUnlocked, callVars,
                   locals, work, blockers, owed>>

exitCS(t) ==
    /\ pc[t] = "exit"
    /\ inEpoch[t] # -1
    /\ updateAtomic(t, Exited(atomic, inEpoch[t]))
    /\ section' = [section EXCEPT ![t] = -1]
    /\ blockers' = [i \in Items |-> blockers[i] \ {t}]
    /\ UNCHANGED <<visibleFutex, exclusiveFutex, deferredLock, entries,
                   entryVars, callVars, locals, work, owed>>

\* exitCS throws "not in a CS".
exitCSThrows(t) ==
    /\ pc[t] = "exit"
    /\ inEpoch[t] = -1
    /\ pc' = [pc EXCEPT ![t] = "threw"]
    /\ UNCHANGED <<shared, entryVars, callVars, locals, aux>>

\* wait_on_address(exclusiveFutex, 1): the kernel compares and sleeps in one
\* step.
waitExclusive(t) ==
    /\ \/ /\ pc[t] = "enterWait"
          /\ pc' = [pc EXCEPT ![t] = IF exclusiveFutex = 1
                                     THEN "enterSleep" ELSE "enter"]
       \/ /\ pc[t] = "xenterWait"
          /\ pc' = [pc EXCEPT ![t] = IF exclusiveFutex = 1
                                     THEN "xenterSleep" ELSE "xenter"]
    /\ UNCHANGED <<shared, entryVars, callVars, locals, aux>>

-----------------------------------------------------------------------------
(* The end of updateAtomic: publish that the visible epoch has changed.    *)

bumpVisible(t) ==
    /\ pc[t] = "bump"
    /\ visibleFutex' = After(visibleFutex)
    /\ pc' = [pc EXCEPT ![t] = "wakeVisible"]
    /\ UNCHANGED <<atomic, exclusiveFutex, deferredLock, entries,
                   entryVars, callVars, locals, aux>>

wakeVisible(t) ==
    /\ pc[t] = "wakeVisible"
    /\ pc' = [u \in Threads |->
                 IF u = t THEN IF rd[t] THEN "runDefers" ELSE "return"
                 ELSE IF pc[u] = "barrierSleep" THEN "barrierAgain"
                 ELSE pc[u]]
    /\ UNCHANGED <<shared, entryVars, callVars, locals, aux>>

-----------------------------------------------------------------------------
(* runDefers and checkDefers.                                              *)

\* Run item i: a callback, or the futex_unlock of a deferBarrier().
RunItem(t, i, next) ==
    /\ work' = IF i \in Work THEN [work EXCEPT ![i] = "ran"] ELSE work
    /\ barrierLock' = IF i \in Work THEN barrierLock
                      ELSE [barrierLock EXCEPT ![i] = @ + 1]
    /\ pc' = [u \in Threads |->
                 IF u = t THEN next
                 ELSE IF u = i /\ barrierLock[i] = -1 /\ pc[u] = "dbSleep"
                      THEN "dbNext"
                 ELSE pc[u]]

runDefers(t) ==
    /\ pc[t] = "runDefers"
    /\ deferredLock = NoThread
    /\ IF Pending = {}
       THEN /\ pc' = [pc EXCEPT ![t] = "return"]
            /\ UNCHANGED <<deferredLock, inner>>
       ELSE /\ pc' = [pc EXCEPT ![t] = "current.epoch"]
            /\ deferredLock' = t
            /\ inner' = [inner EXCEPT ![t] = FALSE]
    /\ UNCHANGED <<atomic, visibleFutex, exclusiveFutex, entries,
                   entryVars, callVars, xstart, start, val, newest, item, parity,
                   toRun, round, barrierLock, aux>>

\* anyInCurrent() and anyInOld() inside visibleEpoch() on the live word: a
\* load of the epoch, then a load of the counter it selects.
loadEpoch(t) ==
    /\ \/ pc[t] = "current.epoch" /\ pc' = [pc EXCEPT ![t] = "current.in"]
       \/ pc[t] = "old.epoch" /\ pc' = [pc EXCEPT ![t] = "old.in"]
       \/ pc[t] = "old2.epoch" /\ pc' = [pc EXCEPT ![t] = "old2.in"]
    /\ parity' = [parity EXCEPT ![t] =
                  IF pc[t] = "current.epoch" THEN atomic.epoch % 2
                  ELSE (atomic.epoch + 1) % 2]
    /\ UNCHANGED <<shared, entryVars, callVars, xstart, start, val, newest, item, inner,
                   toRun, round, barrierLock, aux>>

loadIn(t) ==
    LET any == atomic.in[parity[t]] # 0
        Goto(l) == pc' = [pc EXCEPT ![t] = l]
    IN  /\ \/ pc[t] = "current.in" /\ Goto(IF any THEN "old2.epoch" ELSE "old.epoch")
           \/ pc[t] = "old.in" /\ Goto(IF any THEN "old2.epoch" ELSE "visible")
           \/ pc[t] = "old2.in" /\ Goto(IF any THEN "visible-2" ELSE "visible-1")
        /\ UNCHANGED <<shared, entryVars, callVars, locals, aux>>

\* The result of visibleEpoch(), with the last load of the epoch.
LoadedVisible(t) ==
    IF pc[t] = "visible" THEN atomic.epoch
    ELSE IF pc[t] = "visible-1" THEN Before(atomic.epoch)
    ELSE Before(Before(atomic.epoch))

\* One comparison of checkDefers: the condition of the outer while, or the
\* test in the inner for, which moves the list of an epoch to the result.
checkDefers(t) ==
    /\ pc[t] \in {"visible", "visible-1", "visible-2"}
    /\ \E k \in Epoch :
         /\ IsBegin(k)
         /\ LET due  == compareEpochs(k, LoadedVisible(t)) <= 0
                take == due /\ inner[t]
                all  == IF take THEN toRun[t] \cup entries[k] ELSE toRun[t]
                done == (take /\ Pending = {k}) \/ (~due /\ ~inner[t])
            IN  /\ entries' = IF take THEN [entries EXCEPT ![k] = {}] ELSE entries
                /\ toRun' = [toRun EXCEPT ![t] = all]
                /\ inner' = [inner EXCEPT ![t] = due]
                /\ deferredLock' = IF done THEN NoThread ELSE deferredLock
                /\ pc' = [pc EXCEPT ![t] =
                             IF ~done THEN "current.epoch"
                             ELSE IF all = {} THEN "return" ELSE "runAll"]
    /\ UNCHANGED <<atomic, visibleFutex, exclusiveFutex, entryVars, callVars,
                   xstart, start, val, newest, item, parity, round, barrierLock, aux>>

runAll(t) ==
    /\ pc[t] = "runAll"
    /\ \E i \in toRun[t] :
         /\ RunItem(t, i, IF toRun[t] = {i} THEN "return" ELSE "runAll")
         /\ toRun' = [toRun EXCEPT ![t] = @ \ {i}]
    /\ UNCHANGED <<shared, entryVars, callVars, xstart, start, val, newest, item, parity,
                   inner, round, section, blockers, owed>>

-----------------------------------------------------------------------------
(* doDefer, on item[t].                                                *)

AfterDefer(t) == IF op[t] = "defer" THEN "return" ELSE "dbDec"

NewestVisibleEpoch(w) == IF AnyInCurrent(w) THEN w.epoch ELSE Before(w.epoch)

deferLoad(t) ==
    /\ pc[t] = "defer"
    /\ newest' = [newest EXCEPT ![t] = NewestVisibleEpoch(atomic)]
    /\ pc' = [pc EXCEPT ![t] = IF AnyInCurrent(atomic) \/ AnyInOld(atomic)
                               THEN "deferInsert" ELSE "runInline"]
    /\ UNCHANGED <<shared, entryVars, callVars, xstart, start, val, item, parity, inner,
                   toRun, round, barrierLock, aux>>

\* The int -1 of "no live epoch", as the epoch it is compared with.
NoLiveEpoch == Modulus - 1

OldestLiveEpoch(w) ==
    IF AnyInOld(w) THEN Before(w.epoch)
    ELSE IF AnyInCurrent(w) THEN w.epoch
    ELSE NoLiveEpoch

deferInsert(t) ==
    /\ pc[t] = "deferInsert"
    /\ deferredLock = NoThread
    /\ LET oldest == OldestLiveEpoch(atomic)
       IN  IF oldest = NoLiveEpoch \/ compareEpochs(oldest, newest[t]) > 0
           THEN /\ pc' = [pc EXCEPT ![t] = "runInline"]
                /\ UNCHANGED <<entries, work>>
           ELSE /\ entries' = [entries EXCEPT ![newest[t]] = @ \cup {item[t]}]
                /\ work' = IF item[t] \in Work THEN [work EXCEPT ![item[t]] = "pending"]
                           ELSE work
                /\ pc' = [pc EXCEPT ![t] = AfterDefer(t)]
    /\ UNCHANGED <<atomic, visibleFutex, exclusiveFutex, deferredLock, entryVars,
                   callVars, locals, section, blockers, owed>>

runInline(t) ==
    /\ pc[t] = "runInline"
    /\ RunItem(t, item[t], AfterDefer(t))
    /\ UNCHANGED <<shared, entryVars, callVars, xstart, start, val, newest, item, parity,
                   inner, toRun, round, section, blockers, owed>>

-----------------------------------------------------------------------------
(* visibleBarrier, enterCSExclusive, exitCSExclusive, deferBarrier.        *)

\* Fault: the barrier waits for the old epoch only.
BarrierOverEarly(w, s) == ~AnyInOld(w)

\* The three returns of visibleBarrier: two epochs on, nobody inside, or
\* everyone inside came after the epoch it started in.
BarrierOver(w, s) ==
    \/ w.epoch \notin {s, After(s)}
    \/ ~AnyInCurrent(w) /\ ~AnyInOld(w)
    \/ visibleEpoch(w) = s

\* One turn of the loop of visibleBarrier on a fresh copy of the word.
barrierLoad(t) ==
    /\ pc[t] \in {"barrier", "barrierAgain"}
    /\ start' = [start EXCEPT ![t] = IF pc[t] = "barrier" THEN atomic.epoch ELSE @]
    /\ val' = [val EXCEPT ![t] = visibleEpoch(atomic)]
    /\ blockers' = IF pc[t] = "barrier" THEN [blockers EXCEPT ![t] = Readers] ELSE blockers
    /\ pc' = [pc EXCEPT ![t] = IF BarrierOver(atomic, start'[t])
                               THEN "barrierDone" ELSE "barrierWait"]
    /\ UNCHANGED <<shared, entryVars, callVars, xstart, newest, item, parity, inner,
                   toRun, round, barrierLock, work, section, owed>>

\* wait_on_address(visibleFutex, current.visibleEpoch())
barrierWait(t) ==
    /\ pc[t] = "barrierWait"
    /\ pc' = [pc EXCEPT ![t] = IF visibleFutex = val[t]
                               THEN "barrierSleep" ELSE "barrierAgain"]
    /\ UNCHANGED <<shared, entryVars, callVars, locals, aux>>

enterCSExclusive(t) ==
    /\ pc[t] = "xenter"
    /\ IF exclusive(atomic)
       THEN pc' = [pc EXCEPT ![t] = "xenterWait"] /\ UNCHANGED <<atomic, xstart>>
       ELSE /\ atomic' = WithExclusive(atomic, TRUE)
            /\ xstart' = [xstart EXCEPT ![t] = atomic.epoch]
            /\ pc' = [pc EXCEPT ![t] = "xstore1"]
    /\ UNCHANGED <<visibleFutex, exclusiveFutex, deferredLock, entries,
                   entryVars, callVars, start, val, newest, item, parity, inner,
                   toRun, round, barrierLock, aux>>

storeExclusive1(t) ==
    /\ pc[t] = "xstore1"
    /\ exclusiveFutex' = 1
    /\ pc' = [pc EXCEPT ![t] = "barrier"]
    /\ UNCHANGED <<atomic, visibleFutex, deferredLock, entries,
                   entryVars, callVars, locals, aux>>

exclusiveEntered(t) ==
    /\ pc[t] = "barrierDone" /\ op[t] = "lockExclusive"
    /\ inEpoch' = [inEpoch EXCEPT ![t] = xstart[t] % 2]
    /\ writeLocked' = Add(writeLocked, t, 1)
    /\ pc' = [pc EXCEPT ![t] = "return"]
    /\ UNCHANGED <<shared, readLocked, specLocked, specUnlocked, callVars, locals, aux>>

exitCSExclusive(t) ==
    /\ pc[t] = "xexit"
    /\ atomic' = WithExclusive(atomic, FALSE)
    /\ pc' = [pc EXCEPT ![t] = "xstore0"]
    /\ UNCHANGED <<visibleFutex, exclusiveFutex, deferredLock, entries,
                   entryVars, callVars, locals, aux>>

\* Fault: nobody is woken after the store.
storeExclusive0NoWake(t) ==
    /\ pc[t] = "xstore0"
    /\ exclusiveFutex' = 0
    /\ pc' = [pc EXCEPT ![t] = "return"]
    /\ UNCHANGED <<atomic, visibleFutex, deferredLock, entries,
                   entryVars, callVars, locals, aux>>

storeExclusive0(t) ==
    /\ pc[t] = "xstore0"
    /\ exclusiveFutex' = 0
    /\ pc' = [pc EXCEPT ![t] = "xwake"]
    /\ UNCHANGED <<atomic, visibleFutex, deferredLock, entries,
                   entryVars, callVars, locals, aux>>

wakeExclusive(t) ==
    /\ pc[t] = "xwake"
    /\ pc' = [u \in Threads |->
                 IF u = t THEN "return"
                 ELSE IF pc[u] = "enterSleep" THEN "enter"
                 ELSE IF pc[u] = "xenterSleep" THEN "xenter"
                 ELSE pc[u]]
    /\ UNCHANGED <<shared, entryVars, callVars, locals, aux>>

visibleBarrierDone(t) ==
    /\ pc[t] = "barrierDone" /\ op[t] = "visibleBarrier"
    /\ pc' = [pc EXCEPT ![t] = "return"]
    /\ UNCHANGED <<shared, entryVars, callVars, locals, aux>>

\* The loop of deferBarrier: twice, defer an unlock of a local futex and
\* wait for it; then run what is left over.
barrierRound(t) ==
    /\ \/ pc[t] = "barrierDone" /\ op[t] = "deferBarrier"
       \/ pc[t] = "dbNext"
    /\ IF round[t] < 2
       THEN /\ round' = Add(round, t, 1)
            /\ item' = [item EXCEPT ![t] = t]
            /\ barrierLock' = [barrierLock EXCEPT ![t] = 0]
            /\ blockers' = [blockers EXCEPT ![t] = Readers]
            /\ pc' = [pc EXCEPT ![t] = "defer"]
       ELSE /\ pc' = [pc EXCEPT ![t] = "runDefers"]
            /\ UNCHANGED <<round, item, barrierLock, blockers>>
    /\ UNCHANGED <<shared, entryVars, callVars, xstart, start, val, newest, parity, inner,
                   toRun, work, section, owed>>

barrierDec(t) ==
    /\ pc[t] = "dbDec"
    /\ barrierLock' = [barrierLock EXCEPT ![t] = @ - 1]
    /\ pc' = [pc EXCEPT ![t] = "dbWait"]
    /\ UNCHANGED <<shared, entryVars, callVars, xstart, start, val, newest, item, parity,
                   inner, toRun, round, aux>>

barrierLockWait(t) ==
    /\ pc[t] = "dbWait"
    /\ pc' = [pc EXCEPT ![t] = IF barrierLock[t] = -1 THEN "dbSleep" ELSE "dbNext"]
    /\ UNCHANGED <<shared, entryVars, callVars, locals, aux>>

\* The call returns to the client.
return(t) ==
    /\ pc[t] = "return"
    /\ inEpoch' = [inEpoch EXCEPT ![t] =
          IF op[t] \in {"unlockShared", "unlockSpeculative", "forceUnlock",
                        "unlockExclusive"} THEN -1 ELSE @]
    /\ readLocked' = Add(readLocked, t,
          IF op[t] \in {"lockShared", "lockSpeculative"} THEN 1 ELSE 0)
    /\ specLocked' = Add(specLocked, t, IF op[t] = "lockSpeculative" THEN 1 ELSE 0)
    /\ specUnlocked' = [specUnlocked EXCEPT ![t] =
          IF op[t] \in {"unlockSpeculative", "forceUnlock"} THEN 0 ELSE @]
    /\ Invoke(t, "none", FALSE, "idle")
    /\ xstart' = [xstart EXCEPT ![t] = 0]
    /\ start' = [start EXCEPT ![t] = 0]
    /\ val' = [val EXCEPT ![t] = 0]
    /\ newest' = [newest EXCEPT ![t] = 0]
    /\ item' = [item EXCEPT ![t] = t]
    /\ parity' = [parity EXCEPT ![t] = 0]
    /\ inner' = [inner EXCEPT ![t] = FALSE]
    /\ round' = [round EXCEPT ![t] = 0]
    /\ owed' = [owed EXCEPT ![t] = {}]
    /\ UNCHANGED <<shared, writeLocked, toRun, barrierLock, work, section, blockers>>

-----------------------------------------------------------------------------
Calls(t) ==
    \/ \E r \in RunDefers : lockShared(t, r) \/ lockSpeculative(t, r)
    \/ lockExclusive(t)
    \/ \E w \in Work : defer(t, w)
    \/ visibleBarrier(t) \/ deferBarrier(t)

Releases(t) ==
    \/ \E r \in RunDefers :
          unlockShared(t, r) \/ unlockSpeculative(t, r) \/ forceUnlock(t, r)
    \/ unlockExclusive(t)

Steps(t) ==
    \/ enterCS(t) \/ exitCS(t) \/ exitCSThrows(t) \/ waitExclusive(t)
    \/ bumpVisible(t) \/ wakeVisible(t)
    \/ runDefers(t) \/ loadEpoch(t) \/ loadIn(t) \/ checkDefers(t) \/ runAll(t)
    \/ deferLoad(t) \/ deferInsert(t) \/ runInline(t)
    \/ barrierLoad(t) \/ barrierWait(t)
    \/ enterCSExclusive(t) \/ storeExclusive1(t) \/ exclusiveEntered(t)
    \/ exitCSExclusive(t) \/ storeExclusive0(t) \/ wakeExclusive(t)
    \/ visibleBarrierDone(t) \/ barrierRound(t) \/ barrierDec(t)
    \/ barrierLockWait(t) \/ return(t)

\* Every client has stopped calling.
Quiet == (\A t \in Threads : pc[t] \in {"idle", "threw"}) /\ UNCHANGED vars

Next == (\E t \in Threads : Calls(t) \/ Releases(t) \/ Steps(t)) \/ Quiet

Spec == Init /\ [][Next]_vars

\* Threads are scheduled, and clients leave the sections they are in.
Fairness == \A t \in Threads : WF_vars(Steps(t)) /\ WF_vars(Releases(t))

FairSpec == Spec /\ Fairness

-----------------------------------------------------------------------------
(* Properties.                                                             *)

Ops == {"none", "lockShared", "unlockShared", "lockSpeculative",
        "unlockSpeculative", "forceUnlock", "lockExclusive",
        "unlockExclusive", "defer", "visibleBarrier", "deferBarrier"}

PCs == {"idle", "threw", "return",
        "enter", "enterWait", "enterSleep", "exit", "bump", "wakeVisible",
        "runDefers", "current.epoch", "current.in", "old.epoch", "old.in",
        "old2.epoch", "old2.in", "visible", "visible-1", "visible-2", "runAll",
        "defer", "deferInsert", "runInline",
        "barrier", "barrierAgain", "barrierWait", "barrierSleep", "barrierDone",
        "xenter", "xenterWait", "xenterSleep", "xstore1",
        "xexit", "xstore0", "xwake",
        "dbDec", "dbWait", "dbSleep", "dbNext"}

\* The shape of the state of struct Data, struct Deferred, the thread entries
\* and the locals of the calls in progress.
TypeOK ==
    /\ atomic \in Word
    /\ visibleFutex \in Epoch
    /\ exclusiveFutex \in 0..1
    /\ deferredLock \in Threads \cup {NoThread}
    /\ entries \in [Epoch -> SUBSET Items]
    /\ inEpoch \in [Threads -> -1..1]
    /\ readLocked \in [Threads -> Nat]
    /\ writeLocked \in [Threads -> Nat]
    /\ specLocked \in [Threads -> Nat]
    /\ specUnlocked \in [Threads -> Nat]
    /\ pc \in [Threads -> PCs]
    /\ op \in [Threads -> Ops]
    /\ rd \in [Threads -> BOOLEAN]
    /\ xstart \in [Threads -> Epoch]
    /\ start \in [Threads -> Epoch]
    /\ val \in [Threads -> Epoch]
    /\ newest \in [Threads -> Epoch]
    /\ item \in [Threads -> Items]
    /\ parity \in [Threads -> 0..1]
    /\ inner \in [Threads -> BOOLEAN]
    /\ toRun \in [Threads -> SUBSET Items]
    /\ round \in [Threads -> 0..2]
    /\ barrierLock \in [Threads -> Int]
    /\ work \in [Work -> {"new", "deferring", "pending", "ran"}]
    /\ section \in [Threads -> Epoch \cup {-1}]
    /\ blockers \in [Items -> SUBSET Threads]
    /\ owed \in [Threads -> SUBSET Work]

\* The word tells the truth about the readers: in[p] is the number of threads
\* between the compare-and-swap of their enterCS and that of their exitCS
\* whose epoch has parity p, and every such thread is in the current or the
\* previous epoch (arch/gc_lock.cc:574-585, 609-613).  Everything that asks
\* "is anyone still in the old epoch?" relies on it.
EpochAccounting ==
    /\ \A p \in 0..1 : atomic.in[p] =
          Cardinality({t \in Threads : section[t] # -1 /\ section[t] % 2 = p})
    /\ \A t \in Threads :
          section[t] \in {-1, atomic.epoch, Before(atomic.epoch)}

\* Writer exclusion, of the sections that were entered: from the end of the
\* barrier of enterCSExclusive until exitCSExclusive resets the bit, no thread
\* is between the compare-and-swap of enterCS and that of exitCS, and no other
\* thread is exclusive (arch/gc_lock.cc:569-573, 653-657).  Of the guards that
\* are held this is not true, see GuardsExclude.
ExclusiveExcludes ==
    \A t \in Threads : InExclusive(t) =>
        \A u \in Threads : section[u] = -1 /\ (InExclusive(u) => u = t)

\* Writer exclusion, of the guards that are held: while one thread is
\* exclusive, no other thread has a shared or a speculative guard, as in the
\* read-write lock of arch/gc_lock.h:35.
GuardsExclude ==
    \A t \in Threads : InExclusive(t) =>
        \A u \in Threads \ {t} : SharedGuards(u) <= 0 /\ specLocked[u] = 0

\* The assertions after the barrier of enterCSExclusive
\* (arch/gc_lock.cc:657, 681): the epoch is still that of the word whose
\* exclusive bit the thread set (arch/gc_lock.cc:653).
ExclusiveEpochStable ==
    \A t \in Threads :
        pc[t] = "barrierDone" /\ op[t] = "lockExclusive"
            => atomic.epoch = xstart[t]

\* visibleBarrier returns only when every reader that was in a section at its
\* first load has left that section (arch/gc_lock.h:266).
BarrierOutlivesReaders ==
    \A t \in Threads : pc[t] = "barrierDone" => blockers[t] = {}

\* The INVARIANT of doDefer (arch/gc_lock.cc:835-838): a deferred callback
\* runs only when all threads that were in a section when it was deferred
\* have exited it.
DeferredOutlivesReaders ==
    \A w \in Work : work[w] = "ran" => blockers[w] = {}

\* A thread asleep on exclusiveFutex has someone who will still wake it: an
\* exclusive thread that has not yet done the wake of exitCSExclusive
\* (arch/gc_lock.cc:571, 634, 709-711).
ExclusiveWakeupPending ==
    (\E t \in Threads : pc[t] \in {"enterSleep", "xenterSleep"}) =>
        \E u \in Threads :
            \/ op[u] = "lockExclusive"
                  /\ pc[u] \in {"barrier", "barrierAgain", "barrierWait",
                                "barrierSleep", "barrierDone"}
            \/ writeLocked[u] > 0
            \/ pc[u] \in {"xexit", "xstore0", "xwake"}

\* The thread-local entry agrees with what the thread has done to the word:
\* the assertions on entry->inEpoch at the start of enterCS and
\* enterCSExclusive hold (arch/gc_lock.cc:561, 627), and exitCS will
\* decrement the counter that enterCS incremented.
EntryAgrees ==
    \A t \in Threads :
        /\ pc[t] \in {"enter", "xenter"} => inEpoch[t] = -1
        /\ section[t] # -1 => inEpoch[t] = section[t] % 2
        /\ pc[t] = "idle" => (inEpoch[t] = -1 <=>
                                 section[t] = -1 /\ writeLocked[t] = 0)

\* deferBarrier waits "until all defer functions that have been registered
\* have been run" (arch/gc_lock.h:274).
DeferBarrierComplete ==
    \A t \in Threads : pc[t] = "return" /\ op[t] = "deferBarrier" =>
        \A w \in owed[t] : work[w] = "ran"

\* Registered before the epoch passed the middle of the ring, and not run since: the
\* map, ordered on int32_t, has the lists of later epochs before it.
PastTheMiddle(w) ==
    \E k \in Epoch : w \in entries[k] /\ Signed(k) > Signed(atomic.epoch)

\* The part of that promise that is kept: of the functions registered when
\* deferBarrier was called, one that has not been run when it returns has been
\* taken off the list by another thread, which is about to run it
\* (arch/gc_lock.cc:510-519), unless the epoch has passed the middle of the ring and
\* checkDefers looks at the lists in the wrong order (arch/gc_lock.cc:232, 529-545).
DeferBarrierEmptiesList ==
    \A t \in Threads : pc[t] = "return" /\ op[t] = "deferBarrier" =>
        \A w \in owed[t] :
            \/ work[w] = "ran"
            \/ \E u \in Threads \ {t} : w \in toRun[u]
            \/ PastTheMiddle(w)

\* A barrier ends once the readers leave their sections (arch/gc_lock.h:266).
BarrierReturns ==
    \A t \in Threads : pc[t] = "barrierWait" ~> pc[t] = "barrierDone"

\* Asleep in its barrier with nobody inside and nobody about to wake it.
Stranded(t) ==
    /\ pc[t] = "barrierSleep"
    /\ \A u \in Threads : section[u] = -1 /\ pc[u] \notin {"bump", "wakeVisible"}

\* Once a thread has set the exclusive bit it gets the exclusive section, and
\* a thread asleep on exclusiveFutex is woken (arch/gc_lock.cc:571, 634,
\* 653-661, 711), although it may then lose the race to another writer: in
\* whatever order two writers store to the futex, nobody waits on it for ever.
\* The exception is a writer whose barrier has missed its wake-up, which is
\* what BarrierReturns is about.
ExclusiveProgress ==
    LET stranded == \E t \in Threads : Stranded(t)
    IN  /\ (\E t \in Threads : pc[t] = "xstore1") ~>
               (\E t \in Threads : InExclusive(t)) \/ stranded
        /\ (\E t \in Threads : pc[t] \in {"enterSleep", "xenterSleep"}) ~>
               (\A t \in Threads : pc[t] \notin {"enterSleep", "xenterSleep"}) \/ stranded

\* A callback that was queued is run once the readers are gone: no wake-up of
\* checkDefers is missed.
DeferredEventuallyRun ==
    \A w \in Work : work[w] = "pending" ~> work[w] = "ran"

=============================================================================
