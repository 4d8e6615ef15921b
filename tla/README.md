# MLDB: a TLA+ verification project

MLDB is a database server for machine learning: datasets, functions and
procedures are entities of REST collections, queries run on all cores, and
entities are created, replaced and deleted while other threads use them.  What
keeps that correct is a small concurrent core: an epoch-based lock with deferred
reclamation (`arch/gc_lock`), a work-stealing thread pool (`base/thread_pool`),
and the REST collections and background tasks built on them.  The project models
that core first and works outwards.

Paths are relative to the repository (`src/`).  The modules read bottom-up:

| module | models |
|---|---|
| `Epochs` | the 32-bit epoch, its arithmetic and `compareEpochs` |
| `GcLock`, `MCGcLock` | `arch/gc_lock.{h,cc}`, `arch/gc_lock_impl.h`; instances for TLC |
| `GcLockInvariant`, `GcLockProofs` | lemmas about epochs and the inductive invariant of `GcLock`; the theorems |
| `WorkDeque` | abstract: what a ThreadQueue promises, with what its calls return |
| `ThreadQueue`, `ThreadQueueProofs` | `base/thread_pool_impl.h`; the theorems |
| `ThreadPool`, `MCThreadPool`, `ThreadPoolProofs` | `base/thread_pool.{h,cc}`; instances for TLC; the theorems |
| `RestCollection`, `MCRestCollection`, `RestCollectionProofs` | `rest/rest_collection*`, `arch/rcu_protected.h`; instances for TLC; the theorems |
| `PeerRequests`, `PeerRequestsProofs` | requests of `rest/remote_peer.cc` over `rest/asio_peer_connection.cc`, with their timer; the theorems |
| `MessageSink` | `io/ring_buffer.h` (many writers) and `TypedMessageSink` of `io/typed_message_channel.h` |
| `MessageLoop`, `MCMessageLoop`, `MessageLoopProofs` | `io/message_loop.cc` with its queue of actions, running sinks; instances for TLC; the theorems about sinks and loop |
| `CommonLemmas` | facts about the range of a sequence and about least elements that several proofs need |

Definitions marked as a fault stand next to the definition they change. They are
no part of the specifications: each is a plausible mistake in the code, and the
property it belongs to (`mutants` in `PROJECT.json`) is violated when it takes the
place of the real one. Every module has a `TypeOK`; `GcLock`'s is an invariant of its
runs, the others are proved (`TypeCorrect` of each module of proofs). The inductive
invariants below were checked by TLC, as invariants of the runs' instances, before they
were proved.

The runs of `PROJECT.json` are the questions the project asks first. Where the code does
something else than its documentation says in one more place, or where one property needs
an instance of its own, there is a further configuration, and the section says what TLC
finds on it: these are `MCGcLock_{sentinel,guarded,stranded,dbarrier,writers}.cfg`,
`MCThreadPool_{lostexc,idle}.cfg`, `MCRestCollection_{deadlock,unstarted,lostcancel}.cfg`
and `MCMessageLoop_{early,stale,late,wrap,ring}.cfg`.

## 1. Inventory

**GcLock** (`arch/gc_lock.*`). State: one packed 64-bit word (epoch, two reader
counters, exclusive bit), two futexes, the list of deferred callbacks under a
spinlock, and per thread an entry with nesting depths. Operations: lock and
unlock shared, speculative and exclusive; `defer`; `visibleBarrier`;
`deferBarrier`. Everything except the list is lock-free, so the hard part is
interleaving: an epoch reuses the counter of the one before the previous one, a
barrier must outlast exactly the readers that were inside, sleepers must be
woken, callbacks must not run early and must run at last.

**RcuProtected** (`arch/rcu_protected.h`). A pointer behind a GcLock: readers
take a reference, writers exchange the pointer and defer the deletion. Its
correctness is that no reader holds a deleted value.

**ThreadQueue** (`base/thread_pool_impl.h`). State: `bottom_`, `top_`,
`num_queued_` and a ring of slots, each its own atomic. Operations: `push` and
`pop` by the owner, `steal` by anyone. Correct when it is a linearizable deque:
nothing lost, nothing handed out twice, no live slot overwritten.

**ThreadPool** (`base/thread_pool.cc`). State: a queue per thread, the published
list of queues and each thread's cached copy of it, `submitted` and `finished`,
the first exception, the number of sleepers, and for a child pool the number of
its jobs in the parent. Operations: `add`, `work`, `waitForAll`, the worker loop,
construction, destruction, a client thread's end. Jobs call back into the pool.
Hard: a job added while its helper goes to sleep or gives up, a count read in two
parts, a thread that ends with jobs in its queue, a full queue. `parallelMap` and
its relatives (`base/parallel.cc`) sit on top.

**REST collections and background tasks** (`rest/rest_collection*`). State: an
immutable table of entries behind an RcuProtected, watches, and for each entry
under construction a task with its state, progress and thread. Operations: add,
replace, delete, clear, cancel, look up, watch. Correct when a cancelled task
stays cancelled, an entry is promoted once, `clear` leaves nothing running, and
watches see each change. `poly_collection` and `collection_config_store` add
persistence and reloading at start-up.

**Watches and links** (`watch/`, `rest/link.cc`). Event delivery to subscribers
that may detach at the same time.

**Peers** (`rest/*peer*`). State: a queue of messages, the requests that await a
response, their deadlines and one timer under `messagesMutex`, and the connection's
write pump under a mutex of its own. Operations: send, write, receive, expire.
Correct when each request is called back once, by its answer or its deadline, no
message is left on the queue, and no thread waits for itself. Heartbeats and
connection set-up come on top.

**Messages** (`io/`). State: a ring of slots with two positions and a futex, an
eventfd, and for the loop a queue of actions, the sources, the epoll set.
Operations: push, pop, add, remove and run in the loop, shut down. Correct when
messages are handled once and in order, no sleeper and no readable ring is
forgotten, and a source that was removed is left alone. Asynchronous writers and
sockets are I/O.

**Runner** (`utils/runner.cc`): the states of a subprocess. **HTTP**:
an incremental parser and a client.

**Data and queries** (`sql/`, `core/`, `builtin/`, `plugins/`, `types/`, `vfs/`,
`block/`, `engine/`, `server/`). Mostly sequential computation over unbounded
data, formats, bindings to interpreters, wiring. `ext/` is vendored.

`PROJECT.json` lists all of these as components, and the hazards, line by line.

Interactions: the collections keep their tables in RcuProtected, which defers to
the GcLock; background tasks run in threads of their own and take the
collection's GcLock on the way; queries and procedures run their loops on the
ThreadPool, whose queues are ThreadQueues; REST requests arrive from the message
loops and call into the collections.

## 2. GcLock

### State and actions

One action is one access to shared memory with the thread-local code around it.
A compare-and-swap loop on `data->atomic` is one action: failed attempts write
nothing. `pc`, `op` and the locals are where a thread is in which API call.

| code | definitions |
|---|---|
| `Atomic::anyInCurrent, anyInOld, visibleEpoch, exclusive` | operators of the same names |
| `enterCS`, `exitCS`, `updateAtomic` | `enterCS` with `Entered`, `exitCS` with `Exited`, `updateAtomic`, then `bumpVisible`, `wakeVisible` |
| `runDefers`, `checkDefers` | `runDefers`, `loadEpoch`, `loadIn` (each load of the live word is a step), `checkDefers`, `runAll` |
| `doDefer` | `defer`, `deferLoad`, `deferInsert`, `runInline` |
| `visibleBarrier` | `visibleBarrier`, `barrierLoad` with `BarrierOver`, `barrierWait`, `visibleBarrierDone` |
| `enterCSExclusive`, `exitCSExclusive` | `enterCSExclusive`, `storeExclusive1`, `exclusiveEntered`; `exitCSExclusive`, `storeExclusive0`, `wakeExclusive` |
| `deferBarrier` | `deferBarrier`, `barrierRound`, `barrierDec`, `barrierLockWait` |
| `gc_lock_impl.h` | `lockShared` ... `forceUnlock`, with `AcquireRead`, `ReleaseRead` |

The futexes are modelled by what the code relies on: a thread sleeps only if the
value is the expected one, and a wake ends every sleep on that address.
`section`, `blockers` and `owed` are history variables that no guard reads. A section
lasts from the compare-and-swap of `enterCS` to that of `exitCS`; a guard taken while the
entry counts as locked begins none. `xstart` and `start` are the two locals `startEpoch`:
of `enterCSExclusive` (`gc_lock.cc:653`), which its assertions compare with, and of
`visibleBarrier` (`gc_lock.cc:729`).

One simplification: `futex_unlock` (`gc_lock.cc:761-767`) adds to the local futex of a
`deferBarrier` and wakes it in one step (`RunItem`). In the program the two are apart, and
as the futex of the second round may have the address of the first, a late wake-up of round
one can end the sleep of round two, which is in no loop, too early.
`DeferBarrierEmptiesList` does not rest on the rounds but on the `runDefers` after them.

Bounds: `Quarter = 2` gives a ring of 8 epochs in place of 2^32 with the four
quadrants of `compareEpochs` kept; `Horizon` stops new sections some epochs after
the start; each callback is deferred once; `MaxNest` is the nesting depth.
Three or four epochs suffice to reuse each counter, the distance beyond which the
code no longer tells epochs apart.

### Runs

* `gc_reclaim` (2 threads, 2 callbacks, 606,484 states): threads lock, defer and
  run `deferBarrier`, scheduled fairly, from an epoch two below the middle of the ring,
  where the map of callbacks (ordered on `int32_t`) and `compareEpochs` disagree.
  `DeferBarrierEmptiesList`: what a `deferBarrier` found registered has been run when
  it returns, or taken by a thread that is about to run it, or was registered before the
  epoch passed the middle. `BarrierOutlivesReaders`: a barrier is over only when the
  readers it found have left. `DeferredEventuallyRun`: every queued callback is run, though
  both threads enter and defer, `newestVisibleEpoch` is stale when the list is locked, and
  the oldest list is not always the first; that delays callbacks and loses none.
* `gc_guards` (2 threads, starting two epochs before the wrap, 140,421 states):
  one thread nests all three kinds of guard two deep and runs barriers beside a
  reader and writer. `EpochAccounting` (the counters are true), `ExclusiveExcludes` (an
  exclusive section overlaps no section that was entered), `ExclusiveEpochStable` (the
  assertions after the barrier of `enterCSExclusive`), `EntryAgrees`,
  `ExclusiveWakeupPending` (no sleeper on `exclusiveFutex` is forgotten). Deadlock is
  not checked here, because a writer really can be left asleep in its barrier (see
  *stranded* below).
* `gc_torn` shows a disagreement with the documentation, below.

`MCGcLock_writers.cfg` (two writers and two readers with fairness, 311,075 states) passes
with `ExclusiveProgress`: in whatever order two writers store to `exclusiveFutex`, a writer
that has set the bit gets in and nobody sleeps on the futex for ever, unless a writer is
stranded in its barrier. It has no speculative guards: a thread keeps one as long as it
likes, and a writer waits for it.

Fairness: every thread is scheduled (`WF` of its steps; the code spins or sleeps
in futexes, there is no priority), and clients leave the sections they are in
(`WF` of the releases; the guards are scoped objects). No client is made to call
anything.

### Where the code does not keep its promise

`gc_torn` is a run. The others have their configurations, on which TLC finds the property
named violated.

* `gc_torn` (`gc_lock.cc:540`). `checkDefers` computes `visibleEpoch()` from
  separate loads of the live word. If a thread opens a new epoch between the loads,
  the result is one too high and a callback runs under a reader it had to outlive.
  It takes three threads.
* *stranded* (`MCGcLock_stranded.cfg`, `BarrierReturns`; `gc_lock.cc:752`; `gc_lock.h:266` "Wait until everything that's currently
  visible is no longer accessible"). A barrier sleeps while `visibleFutex` equals
  the visible epoch it loaded, but the futex counts changes, and the visible epoch
  sometimes moves by two. The two drift apart, and a barrier can go to sleep after
  the last wake-up.
* *defer barrier* (`MCGcLock_dbarrier.cfg`, `DeferBarrierComplete`; `gc_lock.cc:787`; `gc_lock.h:274` "Wait until all defer functions that
  have been registered have been run"). `deferBarrier` returns while another thread has a
  callback off the list and not yet run. `DeferBarrierEmptiesList` says that there is one
  other way only, `PastTheMiddle`: the map of callbacks is ordered on `int32_t`
  (`gc_lock.cc:232`), so that at 2^31 a list that is not yet due comes before an older one
  that is, and the last `runDefers` of `deferBarrier` stops there. It takes a third thread
  that enters and defers meanwhile. Without the exception TLC finds the property violated
  for three threads (`StartEpoch = 2`, `Horizon = 2`, two callbacks, one thread that only
  calls `deferBarrier`); with it the same instance passes (6,216,365 states), and so does
  one that stays off the middle (`Quarter = 4`, `StartEpoch = 0`).

* *sentinel* (`MCGcLock_sentinel.cfg`, `DeferredOutlivesReaders`; `gc_lock.cc:872`; the
  comment is the one of `gc_torn`, `gc_lock.cc:836-838`). `doDefer` uses -1 for "no live
  epoch", which is also the epoch before the wrap: a callback deferred under a reader of
  that epoch is run at once. Two threads are enough, and in the program 2^32 epochs.
* *guarded* (`MCGcLock_guarded.cfg`, `GuardsExclude`; `gc_lock_impl.h:109`; `gc_lock.h:35`
  "Exclusive CS: Acts as the write op in a read-write lock with the shared CS"). A
  speculative guard taken and released inside an exclusive section leaves `readLocked` at
  1 without a section. The next shared guard of the thread enters none
  (`gc_lock_impl.h:43`), and another thread becomes exclusive while it is held.
  `ExclusiveExcludes` holds all the same: it is about sections.

### Theorems

`GcLockProofs` proves, for any finite set of threads, any callbacks, any ring of
at least 8 epochs (`Quarter > 1`), any nesting and horizon:

| theorem | says |
|---|---|
| `TypeCorrect` | `Spec => []TypeOK` |
| `AccountingCorrect` | `Spec => []EpochAccounting` |
| `ExclusionCorrect` | `Spec => []ExclusiveExcludes` |
| `EpochStableCorrect` | `Spec => []ExclusiveEpochStable` |
| `WakeupCorrect` | `Spec => []ExclusiveWakeupPending` |
| `EntryCorrect` | `Spec => []EntryAgrees` |
| `BarrierCorrect` | `Spec => []BarrierOutlivesReaders` |
| `DeferBarrierCorrect` | `Spec /\ []FewEpochs => []DeferBarrierEmptiesList` |

and `GcLockInvariant!CompareTheorem`: `compareEpochs` orders epochs at most a quadrant
apart by their distance on the ring, wrap included. The assumptions are
`QuarterAssumption` and `GcLockAssumption`.

The first six follow from one inductive invariant, `IInv`, the conjunction of

* `TypeOK`;
* `EpochAccounting`: `exitCS` decrements a natural number only because the thread
  is among those counted, so types and accounting need each other;
* `CallInv`, `SpecInv`: at which labels a thread can be in each call, and what its
  entry and its section are there. They tie `inEpoch`, which `exitCS` uses, to the
  epoch that was really entered;
* `BitInv`: at most one thread owns the exclusive bit, and it is set while one does;
  the epoch is still that of the word in which the owner set it (`xstart`), and that of
  the first load of its barrier; and once an owner is past its barrier nobody is inside.
  The barrier establishes the last part: the epoch cannot move while the bit is set, so
  of the three returns of `visibleBarrier` only "nobody inside" can apply.
  `ExclusiveExcludes` and `ExclusiveEpochStable` are instances;
* `FutexInv`: `exclusiveFutex` is 1 only while its setter has not cleared it, and a
  sleeper implies a thread that will still wake. It is stated about the threads
  rather than the bit, because bit and futex are stored separately.

`InitIInv` and `NextIInv` are the two halves, with one lemma per part of the
invariant and in it one step per action; cardinalities of the sets of readers are
handled once, in `CountLemma`.

`BarrierCorrect`, the grace period of a barrier, adds `GraceInv`: a reader that a barrier
still waits for is in the epoch of the barrier's first load or the one before, and while
there is one, at most one epoch has been opened since, because `enterCS` opens an epoch
only when the old one is empty. Each of the three returns of `visibleBarrier` then
contradicts such a reader (`GraceOver`); "two epochs on" would not be enough if the epoch
could go round the ring meanwhile.

`DeferBarrierCorrect` is about executions that open fewer than `Quarter` epochs, 2^30 in
the program (`FewEpochs`); beyond that a list nobody has looked at may be more than a
quadrant away, where `compareEpochs` is no order. Within it, the ages of epochs, counted
from the first, order keys and loads, whichever quadrant boundary or wrap lies between.
Its invariant, `DrainInv`, has five parts:

* `KeyInv`: no list is keyed with an epoch that has not begun;
* `PlaceInv`: a callback is with the one thread that defers it, on a list, with the
  thread that took it off, or run;
* `OwedInv`: what a `deferBarrier` owes is on lists no later than the epoch of the first
  load of its `visibleBarrier`;
* `VisibleInv`: once that barrier is over, the epoch of its first load stays visible, and
  although `visibleEpoch()` reads the live word in several loads, the value that the
  last `runDefers` compares with is never before it: a counter that is not zero belongs
  to a later epoch, and the last counter it asks for is the old one unless two epochs
  have been opened;
* `DoneInv`: the conclusion, from the moment `checkDefers` is through with the lists.

`checkDefers` stops at a first list that is not due; that list is then younger than the
one with the owed callback and yet before it in the map, so the keys have changed sign
between the two and the current epoch is past the middle (`OutOfOrder`). TLC checked the
five parts on two threads, two callbacks and a ring of 24 epochs that starts two epochs
before the middle.

Not proved: the grace period of callbacks, which does not hold (`gc_torn`, *sentinel*),
and liveness, which is out of the prover's reach.

Not modelled: weak memory (the accesses are sequentially consistent), the 15-bit
limit of the reader counters (`gc_lock.cc:354`: the 32,768th reader of an epoch would
set the exclusive bit), placement in shared memory (`shared_gc_lock`), the
content of callbacks.

## 3. ThreadQueue

Each access of `push`, `pop` and `steal` to an atomic is an action; a thief's
`top_`, `bottom_`, item and compare-and-swap are four. Run `queue` (two thieves, two
slots, four pushes, 483,503 states) checks that the queue implements `WorkDeque`
(`ImplementsDeque`: the mapping shows the slots from `top_` up to the bottom, where
a pop in progress has not moved the bottom until it wins, and the outputs: how often each
item was returned, `took`, and what thieves got, `stolen`, so that a call that returned
another item than the one it removed would be no step of the deque), `HandedOutOnce`,
`RoomWhenPushing` (the lagging count errs on the safe side), `NoWorkLeftBehind`
(when `pop` reports empty, it is), and `PopReturns` under fairness of calls in
progress. Two slots and four pushes reuse every slot while thieves hold stale tops.

The indexes wrap at `Width`, and the run stays below it. Beyond it
`topLessThanBottom` fails: with `top_ = bottom_ = 0` after the wrap a pop takes
`bottom_` to the greatest index, and the empty queue looks non-empty (hazard at
`thread_pool_impl.h:137`; `MaxPush = 8`, `Width = 6` shows it). In the program it
takes 2^w pushes to one queue.

`ThreadQueueProofs` proves, for any thieves, any number of slots and any
number of pushes below the wrap (`NoWrap`, `MaxPush < Width`, an explicit hypothesis of
each theorem since the paragraph above says that nothing holds without it):
`HandedOutOnceCorrect`, `RoomWhenPushingCorrect`, `NoWorkLeftBehindCorrect`, and
`ImplementsDequeCorrect`, the refinement of `WorkDeque`. The inductive invariant `QInv`
adds to the types:

* `IndexInv`: `top_` is at most the bottom, which lags by one while a pop is undecided;
* `ThiefInv`: a thief whose `top_` is still current has read the item that is there. This
  is what the compare-and-swap relies on, and it is where `NoWrap` is needed: without it
  `top_` could come round to a stale value;
* `CountInv`: `num_queued_` is the number of items in the queue plus those that were
  taken and not yet counted off, so it errs on the safe side for `push`;
* `ItemInv`: the slots from `top_` to the bottom hold items in the order of their pushes,
  none of them handed out. Items of the queue have slots of their own because there are
  at most `NUMBER_OF_ITEMS` of them (`SlotLemma`).

For the refinement, one lemma per kind of step (`QueuePush`, `QueuePop`, `QueueSteal`,
`QueueSame`) says what it does to the mapped sequence and to what was returned. `PopReturns` is liveness and
stays with TLC.

## 4. ThreadPool

A thread has a stack of frames, the innermost last, because jobs add jobs and a full
queue runs the job inside `add`. A frame has a label, the job at hand, and the loop state of
`stealWork` or the count loaded by `waitForAll`. The queues are sequences, as
`WorkDeque` allows; a thief sees a job and claims it in two steps. Root and child
pools are the same module: `HasParent` selects workers that sleep and are
notified, or workers of the parent that take parent jobs. A worker between counting
itself asleep and waiting (`doze`) misses notifications. Left open: the order of the
scan, and when the idle counter of `runWorker` reaches ten (a worker that found
nothing may sleep). Whether a queue is full is decided by its count, which may still
include what thieves took last (`Uncounted`). The parent pool is its queue of parent jobs
and the references to the child that they hold (`strong`); the caller's queue in the parent
may be full, whoever filled it, and then `add` runs the parent job itself. `job` is history; a job is one call of `add`, so that no two jobs
add the same one (`ThreadPoolAssumption`).

* `pool_root` (a client, a worker, three jobs of which two throw, a queue of one
  slot, 178,350 states): `JobInOnePlace`, `CountersExact` (jobs and sleepers),
  `NoOrphanedJobs`, `ThrowRecorded` (once a job has thrown, an exception is kept or a
  thread is on its way to keep one, only one thread ever stores it, and never over
  another); and with every thread scheduled, `JobEventuallyRun` and `DestroyEnds`, which
  rest on the timeout of `wait_for` alone.
* `pool_child` (a child pool limited to one parent job, two workers of the parent, a
  job that adds a job, 427,194 states): `OccupancyRespected`.
* `pool_early` shows a disagreement with the documentation.

Three promises of `thread_pool.h` are not kept. `pool_early` is a run, the others have
their configurations, on which TLC finds the property named violated:

* `pool_early`, `WaitedForAll` (`thread_pool.cc:190`; `thread_pool.h:73`
  "POST: no thread is running any work that was added to this thread pool."):
  `waitForAll` reads `submitted`, then `finished`; a job that adds a job and ends in
  between makes them equal.
* `MCThreadPool_lostexc.cfg`, `ExceptionRethrown` (`thread_pool.cc:456`;
  `thread_pool.h:70` "it will be rethrown from this function"): a job that throws is
  counted as finished before its exception is recorded, and `waitForAll` returns
  normally. `ThrowRecorded` says that nothing else loses an exception.
* `MCThreadPool_idle.cfg`, `JobEventuallyRun` (`thread_pool.cc:299`; `thread_pool.h:56`
  "the job WILL be eventually run"): a job added to a child pool between its helper's
  last look and the decrement of `parentJobs` is run by nobody.

Deadlock is not checked in these runs: a destroyed pool, or one whose clients
have gone, stops. Fairness: each thread is scheduled; clients call when they like.

### Theorems

`ThreadPoolProofs` proves `JobInOnePlaceCorrect`, `CountersExactCorrect`,
`ThrowRecordedCorrect`, `OccupancyRespectedCorrect` and `NoOrphanedJobsCorrect`, for root
and child pools, any clients and workers, any queue size, any jobs that add and throw
whatever they like (`ThreadPoolAssumption`), and `TypeCorrect`, for finitely many workers.

`PoolInvariant` is the induction. Its invariant `IInv` is the conjunction of

* `PoolType`, `FrameInv`: the types, and what each kind of frame holds;
* `ShapeInv`: which frames may lie on which. The lowest is the thread's own loop, all but
  the innermost are at a call, parent jobs and `waitForAll` are second. `At`, which the
  guards use, looks at the innermost frame only; this part says what is under it;
* `OwnerInv`, `QueueInv`: a job that is being added, run or counted has one frame that
  owns it (`Owning`), and the queues have no job twice or in common. A thief that has seen
  a job owns nothing: the claim compares it with the head of the queue again;
* `SpawnInv`: the jobs a job has yet to add are new, so that `bodyAdd` and `clientAdd`
  never add one twice;
* `ThrowInv`: a job that threw was recorded, or its frame is still at `finish` or
  `hasExc`; whoever found `hasExc = 0` is at `exc` until an exception is kept, and is the
  only one there (`FirstInv`);
* `FlightInv`, `SleepInv`: the counters are the sizes of finite sets, `InFlight` and
  `Sleepers`, which each step leaves alone or changes by one element;
* `ParentInv`: `strong` counts the frames of parent jobs, on workers of the parent and in
  `add` (`ParentRuns`); `parentJobs` is at least the parent jobs queued, being added, being undone
  and running, and those that are not being undone are at most `maxParentJobs`.
  `OccupancyRespected` alone is not inductive: what keeps `add` below the limit is that
  `parentJobs` is raised before it is compared and lowered only after the job is gone;
* `EndInv`: the pool is destroyed by the last client; until then a queue that is not
  published is empty, and so is the queue of a thread between the last `runMine` of
  `unpublishThread` and its end (`WithdrawingEmpty`): only a thread pushes to its queue.

The proof goes in three layers. The `Flows` lemmas say of each action which of three
things it does to the stack of its thread (replace the innermost frame, push one, pop
one; `addNotify` and `notifyAll` also wake sleepers). `JobStep` says which of nine things a
step does to one job (`Adds`, `Submits`, `Queues`, `RunsItself`, `Takes`, `Stops`,
`Counts`, `Catches`, `Keeps`), or to none (`Idle`). `OwnerStep`, `QueueStep`, `SpawnStep`,
`ThrowStep` and `FlightStep` need no more than that; `SleepStep`, `ParentStep` and
`EndStep` look at the few actions that matter to them.

`JobEventuallyRun` and `DestroyEnds` are liveness, and stay with TLC, as do the three
properties above that do not hold.

Not modelled: statistics, `handleExceptions = false` (the program aborts), wrap of
the 32-bit counters, the `abort()` of the header, which has no definition.

## 5. RestCollection and background tasks

### State and actions

The table of entries is immutable and behind a pointer (`entries`, `heap`). A table
gets an address when it is swapped in and loses it when it is freed, and addresses are
used again, so that a compare-and-swap of addresses can be fooled if it can be at all.
The `GcLock` is taken at its word:
`deferred` tables are freed as soon as the guards held at that time are released, and a
barrier is over then. (Section 2 says where the lock breaks its word; the collection
is not to blame for that.)

| code | definitions |
|---|---|
| `addEntryItl`, `replaceEntryItl`, `deleteEntry` | `call`, `lockMutate`, `useEntries` with `Refused`, `cmp_xchg` with `Edited`, `trigger`, `leave` |
| `addBackgroundJobInThread` | `call`, `readEntries`, `useEntries` with `Asks`, `cmp_xchg`, `startTask` or `threadFails`, `setHandle`, `leave` |
| `toRun`, the task's thread | `setProgress`, `storeExecuting`, `setError`, `catchCancellation`, `setFinished`, `loadState`, `storeFinished`, `finishedBackgroundJob`, then the steps of an addition or a replacement |
| `BackgroundTaskBase::cancel` | `cancel`, `cancelWait` |
| `clear` | `clearSwap`, `visibleBarrier`, `barrierWait`, `sweep`, `cancel`, `cancelWait`, `clearEnd` |
| `watchElements` | `watchElements`; `seen` is what a watch that folds its events has |

`replaceEntryItl` is called with `mustAlreadyExist` set (`replaceEntry`) or not
(`setEntry`). A job ends with an object, with null (`setFinished` chooses, and
`finishedBackgroundJob` promotes nothing then), with an error, or, if it was told of a
cancellation (`cancelled`), with a `CancellationException`. The thread of a task may fail
to start (`threadFails`), after the entry was published and `running` set.

Each load and store of a task's state is a step. A failed compare-and-swap goes back
to reading the table. What a task's thread throws nobody catches: `terminated`.

### Runs

`collection` (two clients, three calls in all, two tasks, one key, six addresses,
2.3 million states). Three calls are enough for a job, a second job or entry over it
and a clear or a deletion; one key, because the table is one value whatever is in it;
six addresses never run out, so that no step waits for one.

* `NoUseAfterFree`: `RcuProtected::operator()` loads the pointer before it locks, and is
  wrong on its own. The guards the collection takes around it, under a comment "NOTE:
  Should not be necessary... investigation needed" (`rest_collection_impl.h:528, 696`),
  are necessary: without the outer guard the run fails.
* `SwapsWhatItCopied`: with them, the address a writer compares is not used again
  before it has compared it.
* `WatchersAgree`: between mutations a watch has the values of the table, with one
  exception: `clear` says nothing of an entry that has a value and a task rebuilding it.
* `ClearStopsTasks`: `running` is set after the entry is published; that `clear` cannot
  see a published task that is not yet running is due to the guard held over both, for
  which the barrier waits.
* `NothingHangs`: where nothing can move, calls have returned and `onDone` functions
  have been called (at least once; that it is not twice is by construction). There are two
  exceptions, both real. `BarrierDeadlock`: `clear` holds `mutateMutex` and waits in its
  barrier for a job that is being added, which waits for the mutex of a task (in
  `setHandle`, or to see whether it is running), which is finishing and waits for
  `mutateMutex`. `NeverStarted`: a cancellation waits for a task that has no thread.

`collection_cleared` shows `ClearedStaysCleared` violated (`rest_collection.cc:735`).
`setFinished` clears `running`, loads the state and stores `FINISHED`; a `cancel` of
`clear` between load and store is overwritten, and the object appears in the cleared
collection.

Three more configurations show a property violated, each on a job beside one other call:

* `MCRestCollection_deadlock.cfg`, `ClearLetsTasksEnd` (`rest_collection_impl.h:154`;
  `rest_collection.h:323-324` "Guarantees that: - the onDone function is called exactly
  once"): the deadlock above.
* `MCRestCollection_unstarted.cfg`, `CancelWaitsForThread` (`rest_collection_impl.h:620`;
  `rest_collection.h:124-125` "will block until the cancellation is finished or the task has
  completed"): `running` is set before the constructor of `std::thread`, which may throw.
* `MCRestCollection_lostcancel.cfg`, `CancellationStays` (`rest_collection.cc:749`;
  `rest_collection.h:112` "CANCELLED, FINISHED and ERROR are final states"): `setProgress`
  loads the state and stores `EXECUTING` over a cancellation that `fn` was told of. If `fn`
  then throws `CancellationException`, the `ExcAssertEqual` at `rest_collection_impl.h:592`
  throws out of the detached thread.

Read on the way: `finishedBackgroundJob` passes `task->state` to `replaceEntry`, whose
third parameter is `bool mustAlreadyExist` (`rest_collection_impl.h:669`), so the check
for a cancellation is lost on that path, and a promotion after a deletion throws in a
detached thread. So does the promotion of a job that had to be new, if an entry was
added meanwhile. Both end the program (`terminated`). `cancel` and `deleteEntry` may
return before `running` is set.

### Theorems

`RestCollectionProofs` proves `NoUseAfterFreeCorrect`, `SwapsWhatItCopiedCorrect`,
`WatchersAgreeCorrect` and `ClearStopsTasksCorrect` for any clients, tasks, keys and
addresses and any number of calls. The only assumption is `RestCollectionAssumption`: the
actors are told apart, and `None` is no table. The inductive invariant `CInv` is

* `TypeOK`, `ControlInv` (the labels of each operation) and `MutateInv` (whoever changes
  values holds `mutateMutex`);
* `HeapInv`, `OwnInv`: the current table, the deferred ones and the one that `clear` has
  taken over are allocated and are different tables;
* `GuardInv`: a table at hand is current, or is deferred and its release waits for this
  thread, or is `clear`'s and its barrier has not begun or waits for this thread.
  `NoUseAfterFree` is a consequence. So is `SwapsWhatItCopied`: an address that waits
  for this guard cannot be used again;
* `FreshInv`, `TableTaskInv`, `ClearTaskInv`, `SweptInv`: each task in a table has begun,
  or a client that holds a guard is about to start it. Before the barrier of `clear` that
  may be any client inside, during it only one the barrier waits for, and after it nobody
  is left, so that every task swept has begun and `cancel` sees that it runs;
* `RebuiltInv`, `WatchInv`: a watch agrees with the table, or the thread that made the
  difference is about to tell it.

`NothingHangs` speaks of `ENABLED` and is checked by TLC only.

Not modelled: routes and JSON, `clearChildren` (the clear of another collection),
progress functions, `RcuProtected::replace` and the variants that wait for a barrier.

## 6. PeerRequests

A request is sent, queued, taken by the connection's write pump, put on record with
its deadline, and called back when the answer comes or the timer finds it late. A
critical section of `messagesMutex` is one action, except where a new timer is put in
place: `arm` replaces the watch of the old one, under the lock that the timer's
callback holds, and `bind` or `bindNonRecursive` attaches the callback, which is called
at once if the timer has fired. The write pump runs under the connection's own mutex
(`pump`), from `startWriting` or `onWriteDone`. Answers are posted as work and may be
handled in any order, or never come. A read or a write may fail (`fail`): after a read no
other read follows and writing goes on, after a write no other write and reading goes on.
`checkDeadlines` reads the clock (`readClock`) before it locks `messagesMutex`.
`handleResponse` reads the first deadline although the last one may be with
`checkDeadlines`; the model lets it read any date then (`BeginsWith`), and nothing is done
with it, as no timer is armed without a deadline. Time is a
counter of three dates, enough for an earlier, an equal and a later deadline.

`peer_requests` (three requests, 1,199,946 states):

* `CalledBackOnce`: an answer may come between the two critical sections of
  `checkDeadlines`, or after them;
* `NoneForgotten`: a request that was not called back is queued, on record, or in the
  hands of a thread;
* `TimerNotLate`: a timer that has yet to fire is not later than any deadline;
* `QueueServed`: a message queued while the writer gives up is not left there;
* `OnlyKnownHangs`: where nothing moves unless the peer answers, every request was called
  back, except in four cases, all real: the timer has fired with later deadlines on
  record (below); `getMessage` binds a timer that has already fired, which calls
  `checkDeadlines` with `messagesMutex` held (`SelfDeadlock`, `remote_peer.cc:392`; the
  comment at 562-566 explains why `handleResponse` avoids it); a thread that replaces
  the timer waits for a lock of the callback that waits for `messagesMutex`
  (`LockCycle`); and after a failed write `currentlyWriting` stays set, so that what is
  queued later is never looked at. A failed read is no exception: the deadlines go on.

`peer_expiry` shows `EveryRequestEnds` violated with every thread scheduled and time
passing (`WF` of the internal steps; nothing makes the peer answer, and the connection
does not fail): `checkDeadlines` returns the next expiry to a `std::bind` that drops it,
the timer has no period, and `getMessage` arms a new one only for an earlier deadline.

`PeerRequestsProofs` proves `CalledBackOnceCorrect`, `NoneForgottenCorrect`,
`TimerNotLateCorrect` and `QueueServedCorrect` for any requests and any dates
(`PeerRequestsAssumption`). The inductive invariant `PInv` is `TypeOK` with

* `MutexInv`: who holds `messagesMutex`, and what for;
* `StageInv`: a request is queued, awaits its answer, or was or is being called back, one
  at a time, except that the head of the queue is already on record while `getMessage`
  replaces the timer. What `checkDeadlines` has taken off the deadlines may still be
  answered: `CheckInv` says that it is not put on record again, and the second look at
  `awaitingResponse` keeps it from being called twice;
* `WriterInv`: while nobody writes, every queued request has its sender still to call
  `startWriting`; while a writer is on its way to the first write, every one but the one
  it is to take. That is what `stopWriting` needs, which looks at nothing;
* `LifeInv`, `TimerInv`: `NoneForgotten` and `TimerNotLate` themselves.

`OnlyKnownHangs` speaks of `ENABLED`, and `EveryRequestEnds` of fairness: TLC only.

Also met: `onError` is called with `messagesMutex` held (`remote_peer.cc:367, 642`), so
that a handler that sends a message deadlocks.

Not modelled: requests received from the peer and their responses, heartbeats, set-up
and shutdown of the connection, `notifyError` on errors other than a closed connection
(`abort()`).

## 7. MessageSink and MessageLoop

`MessageSink` is the ring with many writers and one reader: the writers' spinlock, the
futex on `readPosition`, the eventfd, and `processOne`. Positions are atomics, so each
access is a step. `MessageLoop` extends it: the clients' calls, the queue of actions
(`sourceActions_`, whose operations hold a lock and are one step each), the batch of
events that `epoll_wait` returned, and the pass over the sources that follows. An owner
destroys its source when `removeSourceSync` returns (`message_loop.h:121-123` "Useful in
the cases where you need to destroy the resources associated with the source").

`message_loop` (two clients, one sink with a ring of three slots, which holds two
messages, three messages or functions, 256,826 states), with the loop's thread and calls
in progress scheduled fairly (`FairSpec`; the sleep in `epoll` ends after a second, no
client need call anything):

* `InOrder`: what was handled, what the reader holds and what the slots hold add up to
  what the ring accepted, in order;
* `NoLostWakeup`: a writer sleeps only on the current position or has its wake-up
  coming (`SleepersWoken`), and when the loop's thread goes to sleep, a ring with a
  message has a readable eventfd or a writer about to signal (`ReaderTold`). It is said of
  the loop, and not of a sink alone: a sink answers "there is more" with its eventfd
  drained, the batch of events ignores the answer, and with two sources another one's
  answer comes after it. It is the pass over all sources after the batch, repeated until
  none has more, that finds the message;
* `ActionsNoticed`: the same for the queue of actions, which signals only its first;
* `RemovedForGood`: once `removeSourceSync` has returned for a source that had been added,
  the source is in neither the list nor the epoll set, nor is it in the pass under way or
  named by an action. What the loop may still do with it is below;
* `RemovalFound`: a removal finds its source in the list; the `ExcCheck` at
  `message_loop.cc:452` would end the program;
* `RemovalEnds`: the new state and the wake-up of whoever sleeps on it are two steps of the
  loop (`processRemoveSource`, `wakeRemoved`), and the removal ends whichever of them the
  sleeper meets, unless the loop is shut down meanwhile, when nobody processes the removal
  and `removeSourceSync` hangs;
* `PushEnds`: a push ends, however often it finds the ring full, unless `readPosition`
  comes back to the value it sleeps on (`SleepsOnOldPosition`; not with three messages).

`MCMessageLoop_ring.cfg` (five messages and no removal, so that slots are used again and
the positions come round, 533,728 states) passes with `InOrder`, `NoLostWakeup` and
`PushEnds`.

What the loop does against its documentation, each with a configuration on which TLC finds
the property violated:

* `MCMessageLoop_early.cfg`, `RemovalComplete` (`message_loop.cc:219`; `message_loop.h:121-122`
  "Remove the given source from the list of active sources and waits for the operation to
  complete"): a source whose addition is still queued is `DISCONNECTED`, so that
  `removeSourceSync` returns at once, and the loop adds the source afterwards.
* `MCMessageLoop_stale.cfg`, `NoStaleEvent` (`message_loop.cc:365`; `message_loop.h:122-123`
  "Useful in the cases where you need to destroy the resources associated with the source"):
  an event of the batch that removed the source is still to be handled.
* `MCMessageLoop_late.cfg`, `NoLateWake` (`message_loop.cc:472`; the same line): the loop
  wakes sleepers on a member of the source after the state that lets the owner return.
* `MCMessageLoop_wrap.cfg`, `PushReturns` (`ring_buffer.h:277`;
  `io/testing/message_channel_test.cc:65` "the expected behaviour is no deadlock"):
  `readPosition` goes round the ring between the comparison of a push and its sleep, and
  the push sleeps beside an empty ring.

Deadlock is not checked: a loop that was shut down stops.

`MessageLoopProofs` proves `InOrderCorrect`, `NoLostWakeupCorrect`,
`ActionsNoticedCorrect`, `RemovedForGoodCorrect` and `RemovalFoundCorrect` for any clients
and sources, rings of any size and any number of messages (`MessageSinkAssumption`,
`MessageLoopAssumption`). The inductive invariant `MInv` is `TypeOK` with

* `UseInv`, `LockInv`: who uses which ring, and that a writer that stores has the lock and
  room, so that only the reader can change what it saw, and only to its advantage;
* `HistoryInv`, `SlotInv`: what was accepted is what was handled, what the reader holds
  and what the slots between the positions hold. `InOrder` follows message by message;
  the remainders of the positions are dealt with once (`NextPosition`, `CountWrite`,
  `CountRead`);
* `SleepersWoken`, and `ToldInv`: a registered ring with a message is signalled, or the
  loop has yet to look at it. `Unfinished` says where it can be in its round: anywhere
  before the pass, or in the pass with the ring still to visit or something to make it
  go round again;
* `QueueInv`: a queue with actions counts as signalled, and the eventfd is readable or
  the loop about to pop;
* `LoopInv`, `ListInv`, `TodoInv`, `LifeInv`: the list of sources, the epoll set and the
  connection state agree; each source is added and removed at most once and in this
  order, and what is still queued agrees with what was done. `RemovedForGood` and
  `RemovalFound` are consequences of the last two.

A step that only falls asleep on a source's state or wakes those who did (`RemovalTurn`)
changes none of this and is treated once.

The attempt to prove `NoLostWakeup` sink by sink failed for the reason given above, and
TLC has the counterexample with two sources; the model was then changed to say it of the
loop. `RemovalEnds` and `PushEnds` are liveness, checked by TLC only.

Also met: `processRemoveSource` returns early for a source without a descriptor and
never marks it `DISCONNECTED` (`message_loop.cc:459`), so that `removeSourceSync` of one
hangs; a signal that comes after its message was popped leaves the eventfd readable with
nothing to read, and the loop wakes until the next message; the timed `tryPop` compares
the result of `wait_on_address` with -1, which returns the error itself, and so never
times out (`ring_buffer.h:365`).

Not modelled: the ring with one writer, blocking and timed pops, `tryPopMulti`, bounds of
a `TypedMessageQueue`, sources that poll or have no descriptor, nested loops, periodic
sources, asynchronous writers.

## 8. Not modelled

Components with status `not_modelled` in `PROJECT.json`, and why: most of the repository
is sequential computation over unbounded data (SQL, datasets, learning, formats, value
descriptions), bindings to interpreters, or input and output, where a small instance
shows little; `ext/` is vendored. What is left with a protocol worth modelling: the
configuration store of collections across a restart, `parallelMap` on the thread pool,
`AsyncWriterSource`, the commit of the tabular dataset, service discovery, the subprocess
runner.

## 9. Plan

1. `parallelMap` and `parallelMapHaltable` on `ThreadPool`: each index once, first
   exception rethrown, nothing left running.
2. Persistence of entries and reloading (`collection_config_store`).

Instances stay at two or three threads and two or three items, as here.
