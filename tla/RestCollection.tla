--------------------------- MODULE RestCollection ---------------------------
(***************************************************************************)
(* RestCollection of rest/rest_collection_impl.h with its background tasks *)
(* (rest/rest_collection.cc), on top of RcuProtected (arch/rcu_protected.h)*)
(*                                                                         *)
(* The entries are an immutable table behind a pointer.  A reader takes a  *)
(* guard of entriesLock, reads the pointer and uses the table; a writer    *)
(* copies the table, changes the copy and swaps the pointer.  The lock is  *)
(* taken at its word (gc_lock.h:262-276): a table given to defer is freed  *)
(* once every guard held at that time is released, and visibleBarrier      *)
(* returns then.                                                           *)
(*                                                                         *)
(* An object is named by the task that makes it.  One action is one access *)
(* to state shared between threads.  A new table gets its address when the *)
(* swap succeeds; addresses of freed tables are used again.                *)
(***************************************************************************)
EXTENDS Naturals, FiniteSets

CONSTANTS
    Clients,        \* threads that call the collection
    Tasks,          \* background tasks, each with its thread, and their objects
    Keys,
    Addrs,          \* addresses of tables
    Can,            \* Can[c]: the operations client c may call, each once
    MaxCalls,       \* bound: calls of all clients
    MustBeNew,      \* the values of mustBeNewEntry that jobs are added with
    None

Threads == Clients \cup Tasks
\* setEntry is replaceEntry with mustAlreadyExist = false.
Operations == {"addBackgroundJob", "addEntry", "replaceEntry", "setEntry", "deleteEntry",
               "clear", "cancel", "watchElements"}

ASSUME RestCollectionAssumption ==
    /\ Clients \cap Tasks = {}
    /\ None \notin Threads \cup Addrs
    /\ None \notin [Keys -> [value: Tasks \cup {None}, task: Tasks \cup {None}]]
    /\ IsFiniteSet(Addrs) /\ Addrs # {}
    /\ Can \in [Clients -> SUBSET Operations]
    /\ MustBeNew \subseteq BOOLEAN
    /\ MaxCalls \in Nat

VARIABLES
    entries,        \* Impl::entries: the address of the current table
    heap,           \* the table at each address, None where there is none
    deferred,       \* tables handed to GcLock::defer and not yet freed
    waits,          \* the guards a retired table or a barrier waits for
    inside,         \* threads that hold a guard of entriesLock
    mutateMutex,    \* its holder, or None
    mutex,          \* BackgroundTaskBase::mutex of each task
    running, state, \* of each task
    cancelled,      \* tasks whose fn was told so by cancelledWatches
    pc, op, key, obj, ptr, base, \* of each thread: where it is, and its locals
    calls,          \* what each client may still call
    seen,           \* the values a watch has been told of, None before it is there
    terminated,     \* an exception left a detached thread: std::terminate
    made,           \* history: objects that are or were created
    onDone,         \* history: tasks whose onDone functions were called
    rebuilt,        \* history: objects a later job was added over
    swept           \* history: tasks that clear has stopped

guardVars == <<deferred, waits, inside>>
tableVars == <<entries, heap>>
taskVars == <<mutex, running, state, cancelled>>
locals == <<op, key, obj, ptr, base, calls>>
history == <<made, onDone, rebuilt, swept>>
vars == <<tableVars, guardVars, mutateMutex, taskVars, pc, locals, seen,
          terminated, history>>

States == {"INITIALIZING", "EXECUTING", "CANCELLED", "FINISHED", "ERROR"}

\* Impl::Entry, and an entry that is not in the table.
Entry == [value: Tasks \cup {None}, task: Tasks \cup {None}]
Absent == [value |-> None, task |-> None]
Tables == [Keys -> Entry]
Empty == [k \in Keys |-> Absent]
Values(table) == [k \in Keys |-> table[k].value]

Init ==
    /\ entries = CHOOSE a \in Addrs : TRUE
    /\ heap = [a \in Addrs |-> IF a = entries THEN Empty ELSE None]
    /\ deferred = {}
    /\ waits = [a \in Addrs |-> {}]
    /\ inside = {}
    /\ mutateMutex = None
    /\ mutex = [t \in Tasks |-> None]
    /\ running = [t \in Tasks |-> FALSE]
    /\ state = [t \in Tasks |-> "INITIALIZING"]
    /\ cancelled = {}
    /\ pc = [t \in Threads |-> IF t \in Clients THEN "idle" ELSE "none"]
    /\ op = [t \in Threads |-> "none"]
    /\ key = [t \in Threads |-> None]
    /\ obj = [t \in Threads |-> None]
    /\ ptr = [t \in Threads |-> None]
    /\ base = [t \in Threads |-> Empty]
    /\ calls = Can
    /\ seen = None
    /\ terminated = FALSE
    /\ made = {} /\ onDone = {} /\ rebuilt = {} /\ swept = {}

-----------------------------------------------------------------------------
(* Guards of entriesLock and the freeing of tables.                        *)

Goto(t, label) == pc' = [pc EXCEPT ![t] = label]
At(t, label) == pc[t] = label /\ ~terminated

\* A guard is released, and every deferred table that waited for it alone is
\* freed: the earliest that the lock allows.
ReleaseGuard(t) ==
    LET freed == {a \in deferred : waits[a] \subseteq {t}} IN
    /\ inside' = inside \ {t}
    /\ waits' = [a \in Addrs |-> waits[a] \ {t}]
    /\ deferred' = deferred \ freed
    /\ heap' = [a \in Addrs |-> IF a \in freed THEN None ELSE heap[a]]

\* The address of a new table.  Free addresses are interchangeable, so one of
\* them is as good as another, as long as freed ones come back.
Free == {a \in Addrs : heap[a] = None}
Install(table) ==
    /\ Free # {}
    /\ entries' = CHOOSE a \in Free : TRUE
    /\ heap' = [heap EXCEPT ![entries'] = table]

\* Fault: the guard is held only while the table is looked at.
DeferReaders(a) ==
    /\ deferred' = deferred \cup {a}
    /\ waits' = [waits EXCEPT ![a] = {t \in inside : pc[t] = "use"}]

\* GcLock::defer(cleanup, table) of the table that was swapped out.
Defer(a) ==
    /\ deferred' = deferred \cup {a}
    /\ waits' = [waits EXCEPT ![a] = inside]

-----------------------------------------------------------------------------
(* Calls.                                                                  *)

MayCall(c, o) == /\ At(c, "idle") /\ o \in calls[c]
                 /\ Cardinality(UNION {{<<d, p>> : p \in Can[d] \ calls[d]} : d \in Clients}) < MaxCalls

\* A client calls an operation; the ones that create an object take a fresh
\* name for it.  A job and a cancellation do not take mutateMutex.  How the task
\* of a job will promote its object is settled by mustBeNewEntry.
call(c, o, k) ==
    /\ MayCall(c, o) /\ o # "watchElements"
    /\ calls' = [calls EXCEPT ![c] = @ \ {o}]
    /\ key' = [key EXCEPT ![c] = k]
    /\ \/ /\ o \in {"addBackgroundJob", "addEntry", "replaceEntry", "setEntry"}
          /\ Tasks \ made # {}
          /\ LET v == CHOOSE v \in Tasks \ made : TRUE IN \E new \in MustBeNew :
                /\ obj' = [obj EXCEPT ![c] = v]
                /\ made' = made \cup {v}
                /\ op' = [op EXCEPT ![c] = o,
                                    ![v] = IF new THEN "addEntry" ELSE "replaceEntry"]
       \/ /\ o \in {"deleteEntry", "clear", "cancel"}
          /\ op' = [op EXCEPT ![c] = o]
          /\ UNCHANGED <<obj, made>>
    /\ Goto(c, IF o \in {"addBackgroundJob", "cancel"} THEN "read" ELSE "lock")
    /\ UNCHANGED <<tableVars, guardVars, mutateMutex, taskVars, ptr, base, seen,
                   terminated, onDone, rebuilt, swept>>

\* watchElements with catchUp: under mutateMutex the new watch is told of every
\* value there is.
watchElements(c) ==
    /\ MayCall(c, "watchElements") /\ mutateMutex = None
    /\ calls' = [calls EXCEPT ![c] = @ \ {"watchElements"}]
    /\ seen' = Values(heap[entries])
    /\ UNCHANGED <<tableVars, guardVars, mutateMutex, taskVars, pc, op, key, obj,
                   ptr, base, terminated, history>>

\* addEntryItl gives up once it has the mutex if its task is cancelled.
Abandons(t) == t \in Tasks /\ op[t] = "addEntry" /\ state[t] = "CANCELLED"

\* Fault: deleteEntry does not take mutateMutex.
lockUnlessDelete(t) ==
    /\ At(t, "lock") /\ (mutateMutex = None \/ op[t] = "deleteEntry")
    /\ mutateMutex' = IF op[t] = "deleteEntry" THEN mutateMutex ELSE t
    /\ Goto(t, IF op[t] = "clear" THEN "swap" ELSE IF Abandons(t) THEN "leave" ELSE "read")
    /\ UNCHANGED <<tableVars, guardVars, taskVars, locals, seen, terminated, history>>

\* mutateMutex is taken, the cancellation looked at, and the table read as in
\* readEntries.
lockMutate(t) ==
    /\ At(t, "lock") /\ mutateMutex = None
    /\ mutateMutex' = t
    /\ IF op[t] = "clear" \/ Abandons(t)
       THEN /\ Goto(t, IF op[t] = "clear" THEN "swap" ELSE "leave")
            /\ UNCHANGED <<inside, ptr>>
       ELSE /\ inside' = inside \cup {t}
            /\ ptr' = [ptr EXCEPT ![t] = entries]
            /\ Goto(t, "use")
    /\ UNCHANGED <<tableVars, deferred, waits, taskVars, op, key, obj, base, calls,
                   seen, terminated, history>>

\* Fault: RcuProtected::operator() alone, which loads the pointer and then locks.
readUnguarded(t) ==
    /\ At(t, "read")
    /\ ptr' = [ptr EXCEPT ![t] = entries]
    /\ Goto(t, "use")
    /\ UNCHANGED <<tableVars, guardVars, mutateMutex, taskVars, op, key, obj,
                   base, calls, seen, terminated, history>>

\* The outer SharedGuard and the load of the pointer; a writer whose swap has
\* failed still holds its guard.
readEntries(t) ==
    /\ At(t, "read")
    /\ inside' = inside \cup {t}
    /\ ptr' = [ptr EXCEPT ![t] = entries]
    /\ Goto(t, "use")
    /\ UNCHANGED <<tableVars, deferred, waits, mutateMutex, taskVars, op, key, obj,
                   base, calls, seen, terminated, history>>

Found(t) == heap[ptr[t]][key[t]]
UnderConstruction(t) == Found(t).value = None /\ Found(t).task # None

\* What an operation throws on, or returns on without changing anything.
Refused(t) ==
    CASE op[t] = "addBackgroundJob" ->
            \/ Found(t) # Absent /\ op[obj[t]] = "addEntry"
            \/ UnderConstruction(t) /\ running[Found(t).task]
      [] op[t] = "addEntry" -> Found(t).value # None
      [] op[t] \in {"replaceEntry", "deleteEntry"} -> Found(t) = Absent
      [] op[t] = "setEntry" -> FALSE
      [] op[t] = "cancel" -> Found(t).task = None

\* A job over an entry under construction asks its task, under the task's mutex.
Asks(t) == /\ op[t] = "addBackgroundJob" /\ op[obj[t]] # "addEntry"
           /\ UnderConstruction(t)

\* The entry is looked up and the table copied (the inner guard of RcuLocked is
\* nested in the outer one).  What a task throws nobody catches.
useEntries(t) ==
    /\ At(t, "use")
    /\ Asks(t) => mutex[Found(t).task] = None
    /\ \/ /\ Refused(t)
          /\ Goto(t, "leave")
          /\ terminated' = (t \in Tasks)
          /\ inside' = inside \cup {t}
          /\ UNCHANGED <<obj, base, heap, deferred, waits>>
       \/ /\ ~Refused(t) /\ op[t] = "cancel"
          /\ obj' = [obj EXCEPT ![t] = Found(t).task]
          /\ ReleaseGuard(t)
          /\ Goto(t, "cancel")
          /\ UNCHANGED <<base, terminated>>
       \/ /\ ~Refused(t) /\ op[t] # "cancel"
          /\ base' = [base EXCEPT ![t] = heap[ptr[t]]]
          /\ inside' = inside \cup {t}
          /\ Goto(t, "cmp_xchg")
          /\ UNCHANGED <<obj, heap, deferred, waits, terminated>>
    /\ UNCHANGED <<entries, mutateMutex, taskVars, op, key, ptr, calls, seen, history>>

\* The table the operation wants in place of the one it copied.
Edited(t) ==
    [base[t] EXCEPT ![key[t]] =
        CASE op[t] = "addBackgroundJob" -> [@ EXCEPT !.task = obj[t]]
          [] op[t] = "deleteEntry" -> Absent
          [] OTHER -> [value |-> obj[t], task |-> None]]

\* RcuProtected::cmp_xchg: on success the old table is deferred, on failure the
\* operation starts again from the current one.
cmp_xchg(t) ==
    /\ At(t, "cmp_xchg")
    /\ \/ /\ entries = ptr[t]
          /\ Install(Edited(t))
          /\ Defer(ptr[t])
          /\ rebuilt' = IF op[t] = "addBackgroundJob"
                        THEN rebuilt \cup ({base[t][key[t]].value} \ {None}) ELSE rebuilt
          /\ Goto(t, IF op[t] = "addBackgroundJob" THEN "start" ELSE "event")
       \/ /\ entries # ptr[t]
          /\ Goto(t, "read")
          /\ UNCHANGED <<tableVars, deferred, waits, rebuilt>>
    /\ UNCHANGED <<inside, mutateMutex, taskVars, locals, seen, terminated, made,
                   onDone, swept>>

Told(k, v) == seen' = IF seen = None THEN None ELSE [seen EXCEPT ![k] = v]

\* childWatches.trigger: CE_NEW, CE_UPDATED or CE_DELETED.  A deletion goes on to
\* cancel the task of the entry.
trigger(t) ==
    /\ At(t, "event")
    /\ Told(key[t], IF op[t] = "deleteEntry" THEN None ELSE obj[t])
    /\ LET task == base[t][key[t]].task IN
       \/ /\ op[t] = "deleteEntry" /\ task # None
          /\ obj' = [obj EXCEPT ![t] = task]
          /\ Goto(t, "cancel")
       \/ /\ op[t] # "deleteEntry" \/ task = None
          /\ Goto(t, "leave")
          /\ UNCHANGED obj
    /\ UNCHANGED <<tableVars, guardVars, mutateMutex, taskVars, op, key, ptr, base,
                   calls, terminated, history>>

\* The operation returns or throws: its guard and mutateMutex are released.  A
\* task then calls its onDone functions and releases its own mutex.
leave(t) ==
    /\ At(t, "leave")
    /\ ReleaseGuard(t)
    /\ mutateMutex' = IF mutateMutex = t THEN None ELSE mutateMutex
    /\ \/ /\ t \in Clients
          /\ Goto(t, "idle")
          /\ UNCHANGED <<mutex, onDone>>
       \/ /\ t \in Tasks
          /\ onDone' = onDone \cup {t}
          /\ mutex' = [mutex EXCEPT ![t] = None]
          /\ Goto(t, "done")
    /\ ptr' = [ptr EXCEPT ![t] = None]
    /\ base' = [base EXCEPT ![t] = Empty]
    /\ op' = [op EXCEPT ![t] = "none"]
    /\ key' = [key EXCEPT ![t] = None]
    /\ obj' = [obj EXCEPT ![t] = None]
    /\ UNCHANGED <<entries, running, state, cancelled, calls, seen, terminated, made,
                   rebuilt, swept>>

-----------------------------------------------------------------------------
(* addBackgroundJobInThread, once its entry is published, and cancel.      *)

\* The commit has succeeded: running is set and the thread started.
startTask(c) ==
    /\ At(c, "start")
    /\ running' = [running EXCEPT ![obj[c]] = TRUE]
    /\ pc' = [pc EXCEPT ![c] = "setHandle", ![obj[c]] = "fn"]
    /\ key' = [key EXCEPT ![obj[c]] = key[c]]
    /\ obj' = [obj EXCEPT ![obj[c]] = obj[c]]
    /\ UNCHANGED <<tableVars, guardVars, mutateMutex, mutex, state, cancelled, op, ptr,
                   base, calls, seen, terminated, history>>

\* The constructor of std::thread throws (std::system_error), and the call with it;
\* the entry is published, running is set, and the task has no thread.
threadFails(c) ==
    /\ At(c, "start")
    /\ running' = [running EXCEPT ![obj[c]] = TRUE]
    /\ pc' = [pc EXCEPT ![c] = "leave", ![obj[c]] = "failed"]
    /\ UNCHANGED <<tableVars, guardVars, mutateMutex, mutex, state, cancelled, locals,
                   seen, terminated, history>>

\* setHandle takes the mutex of the task; then the call returns.
setHandle(c) ==
    /\ At(c, "setHandle") /\ mutex[obj[c]] = None
    /\ Goto(c, "leave")
    /\ UNCHANGED <<tableVars, guardVars, mutateMutex, taskVars, locals, seen,
                   terminated, history>>

\* The exchange of the state; the watches of the cancellation tell fn.
cancel(c) ==
    /\ At(c, "cancel")
    /\ state' = [state EXCEPT ![obj[c]] = "CANCELLED"]
    /\ cancelled' = IF state[obj[c]] \in {"CANCELLED", "FINISHED"} THEN cancelled
                    ELSE cancelled \cup {obj[c]}
    /\ Goto(c, "cancelWait")
    /\ UNCHANGED <<tableVars, guardVars, mutateMutex, mutex, running, locals,
                   seen, terminated, history>>

\* while (running) sleep; clear goes on with the next entry.
cancelWait(c) ==
    /\ At(c, "cancelWait") /\ ~running[obj[c]]
    /\ Goto(c, IF op[c] = "clear" THEN "sweep" ELSE "leave")
    /\ swept' = IF op[c] = "clear" THEN swept \cup {obj[c]} ELSE swept
    /\ UNCHANGED <<tableVars, guardVars, mutateMutex, taskVars, locals, seen,
                   terminated, made, onDone, rebuilt>>

-----------------------------------------------------------------------------
(* clear, under mutateMutex.                                               *)

\* replaceCustomCleanup(new Entries()).
clearSwap(c) ==
    /\ At(c, "swap")
    /\ Install(Empty)
    /\ ptr' = [ptr EXCEPT ![c] = entries]
    /\ base' = [base EXCEPT ![c] = heap[entries]]
    /\ Goto(c, "barrier")
    /\ UNCHANGED <<guardVars, mutateMutex, taskVars, op, key, obj, calls, seen,
                   terminated, history>>

\* Fault: the guard of a job is held until the entry is published, and no longer.
barrierReaders(c) ==
    /\ At(c, "barrier")
    /\ waits' = [waits EXCEPT ![ptr[c]] = {t \in inside : pc[t] \in {"use", "cmp_xchg"}}]
    /\ Goto(c, "barrierWait")
    /\ UNCHANGED <<tableVars, deferred, inside, mutateMutex, taskVars, locals, seen,
                   terminated, history>>

visibleBarrier(c) ==
    /\ At(c, "barrier")
    /\ waits' = [waits EXCEPT ![ptr[c]] = inside]
    /\ Goto(c, "barrierWait")
    /\ UNCHANGED <<tableVars, deferred, inside, mutateMutex, taskVars, locals, seen,
                   terminated, history>>

barrierWait(c) ==
    /\ At(c, "barrierWait") /\ waits[ptr[c]] = {}
    /\ Goto(c, "sweep")
    /\ UNCHANGED <<tableVars, guardVars, mutateMutex, taskVars, locals, seen,
                   terminated, history>>

\* One entry of the old table: its task is cancelled, or else the watches are
\* told that its value is gone.
sweep(c, k) ==
    /\ At(c, "sweep") /\ base[c][k] # Absent
    /\ base' = [base EXCEPT ![c][k] = Absent]
    /\ \/ /\ base[c][k].task # None
          /\ obj' = [obj EXCEPT ![c] = base[c][k].task]
          /\ Goto(c, "cancel")
          /\ UNCHANGED seen
       \/ /\ base[c][k].task = None
          /\ Told(k, None)
          /\ UNCHANGED <<obj, pc>>
    /\ UNCHANGED <<tableVars, guardVars, mutateMutex, taskVars, op, key, ptr, calls,
                   terminated, history>>

\* The old table is destroyed.
clearEnd(c) ==
    /\ At(c, "sweep") /\ base[c] = Empty
    /\ heap' = [heap EXCEPT ![ptr[c]] = None]
    /\ Goto(c, "leave")
    /\ UNCHANGED <<entries, guardVars, mutateMutex, taskVars, locals, seen, terminated,
                   history>>

-----------------------------------------------------------------------------
(* The thread of a task.  fn reports progress and returns an object or     *)
(* null, or throws; it throws CancellationException only once the watch    *)
(* has told it of a cancellation.  The object is obj[t], None if there is  *)
(* none.                                                                   *)

Final(t) == state[t] \in {"CANCELLED", "ERROR"}

\* onProgressFn, under the mutex of the task: setProgress loads the state...
setProgress(t) ==
    /\ At(t, "fn") /\ mutex[t] = None /\ ~Final(t)
    /\ mutex' = [mutex EXCEPT ![t] = t]
    /\ Goto(t, "storeExecuting")
    /\ UNCHANGED <<tableVars, guardVars, mutateMutex, running, state, cancelled, locals, seen,
                   terminated, history>>

\* ... and stores the new one.
storeExecuting(t) ==
    /\ At(t, "storeExecuting")
    /\ state' = [state EXCEPT ![t] = "EXECUTING"]
    /\ mutex' = [mutex EXCEPT ![t] = None]
    /\ Goto(t, "fn")
    /\ UNCHANGED <<tableVars, guardVars, mutateMutex, running, cancelled, locals, seen,
                   terminated, history>>

\* Fault: setFinished is not called after setError.
setErrorOnly(t) ==
    /\ At(t, "fn")
    /\ state' = [state EXCEPT ![t] = "ERROR"]
    /\ Goto(t, "loadState")
    /\ UNCHANGED <<tableVars, guardVars, mutateMutex, mutex, running, cancelled, locals, seen,
                   terminated, history>>

\* fn has thrown: setError, and setFinished up to its load of the state.
setError(t) ==
    /\ At(t, "fn")
    /\ state' = [state EXCEPT ![t] = "ERROR"]
    /\ running' = [running EXCEPT ![t] = FALSE]
    /\ obj' = [obj EXCEPT ![t] = None]
    /\ Goto(t, "loadState")
    /\ UNCHANGED <<tableVars, guardVars, mutateMutex, mutex, cancelled, op, key, ptr, base,
                   calls, seen, terminated, history>>

\* fn has thrown CancellationException: setFinished, unless the assertion on the
\* state fails, which nobody catches.
catchCancellation(t) ==
    /\ At(t, "fn") /\ t \in cancelled
    /\ \/ /\ state[t] = "CANCELLED"
          /\ obj' = [obj EXCEPT ![t] = None]
          /\ running' = [running EXCEPT ![t] = FALSE]
          /\ Goto(t, "loadState")
          /\ UNCHANGED terminated
       \/ /\ state[t] # "CANCELLED"
          /\ terminated' = TRUE
          /\ UNCHANGED <<obj, running, pc>>
    /\ UNCHANGED <<tableVars, guardVars, mutateMutex, mutex, state, cancelled, op, key, ptr,
                   base, calls, seen, history>>

\* fn has returned an object or null: running is cleared...
setFinished(t) ==
    /\ At(t, "fn")
    /\ \E value \in {t, None} : obj' = [obj EXCEPT ![t] = value]
    /\ running' = [running EXCEPT ![t] = FALSE]
    /\ Goto(t, "loadState")
    /\ UNCHANGED <<tableVars, guardVars, mutateMutex, mutex, state, cancelled, op, key, ptr,
                   base, calls, seen, terminated, history>>

\* ... the state loaded, and the new one stored.
loadState(t) ==
    /\ At(t, "loadState")
    /\ Goto(t, IF Final(t) THEN "finish" ELSE "storeFinished")
    /\ UNCHANGED <<tableVars, guardVars, mutateMutex, taskVars, locals, seen,
                   terminated, history>>

storeFinished(t) ==
    /\ At(t, "storeFinished")
    /\ state' = [state EXCEPT ![t] = "FINISHED"]
    /\ Goto(t, "finish")
    /\ UNCHANGED <<tableVars, guardVars, mutateMutex, mutex, running, cancelled, locals,
                   seen, terminated, history>>

\* finishedBackgroundJob, under the mutex of the task: if it was stopped or there is
\* no object the onDone functions are called, otherwise it is promoted first.
finishedBackgroundJob(t) ==
    /\ At(t, "finish") /\ mutex[t] = None
    /\ IF Final(t) \/ obj[t] = None
       THEN /\ onDone' = onDone \cup {t}
            /\ Goto(t, "done")
            /\ UNCHANGED mutex
       ELSE /\ mutex' = [mutex EXCEPT ![t] = t]
            /\ Goto(t, "lock")
            /\ UNCHANGED onDone
    /\ UNCHANGED <<tableVars, guardVars, mutateMutex, running, state, cancelled, locals,
                   seen, terminated, made, rebuilt, swept>>

-----------------------------------------------------------------------------
access(t) ==
    \/ lockMutate(t) \/ readEntries(t) \/ useEntries(t) \/ cmp_xchg(t) \/ trigger(t)
    \/ leave(t)

client(c) ==
    \/ access(c)
    \/ startTask(c) \/ threadFails(c) \/ setHandle(c) \/ cancel(c) \/ cancelWait(c)
    \/ clearSwap(c) \/ visibleBarrier(c) \/ barrierWait(c) \/ clearEnd(c)
    \/ \E k \in Keys : sweep(c, k)

task(t) ==
    \/ access(t)
    \/ setProgress(t) \/ storeExecuting(t) \/ setError(t) \/ catchCancellation(t)
    \/ setFinished(t) \/ loadState(t) \/ storeFinished(t) \/ finishedBackgroundJob(t)

Next ==
    \/ \E c \in Clients : \/ client(c) \/ watchElements(c)
                          \/ \E o \in Operations, k \in Keys : call(c, o, k)
    \/ \E t \in Tasks : task(t)

Spec == Init /\ [][Next]_vars

-----------------------------------------------------------------------------
(* Properties.                                                             *)

Labels == {"idle", "none", "lock", "read", "use", "cmp_xchg", "event", "leave",
           "start", "setHandle", "cancel", "cancelWait", "swap", "barrier",
           "barrierWait", "sweep", "fn", "storeExecuting",
           "loadState", "storeFinished", "finish", "done", "failed"}

\* Every variable has its type.
TypeOK ==
    /\ entries \in Addrs
    /\ heap \in [Addrs -> Tables \cup {None}]
    /\ deferred \subseteq Addrs
    /\ waits \in [Addrs -> SUBSET inside]
    /\ inside \subseteq Threads
    /\ mutateMutex \in Threads \cup {None}
    /\ mutex \in [Tasks -> Tasks \cup {None}]
    /\ running \in [Tasks -> BOOLEAN]
    /\ state \in [Tasks -> States]
    /\ pc \in [Threads -> Labels]
    /\ op \in [Threads -> Operations \cup {"none"}]
    /\ key \in [Threads -> Keys \cup {None}]
    /\ obj \in [Threads -> Tasks \cup {None}]
    /\ ptr \in [Threads -> Addrs \cup {None}]
    /\ base \in [Threads -> Tables]
    /\ calls \in [Clients -> SUBSET Operations]
    /\ seen \in [Keys -> Tasks \cup {None}] \cup {None}
    /\ terminated \in BOOLEAN
    /\ cancelled \cup made \cup onDone \cup rebuilt \cup swept \subseteq Tasks

\* RcuProtected::operator() reads the pointer before it locks
\* (arch/rcu_protected.h:156-160): with the guards that the collection takes
\* outside it, no thread uses a table that has been freed.  Nor is a table freed
\* twice or while it is current, although clear frees the one it took over itself
\* and the other writers defer it.
NoUseAfterFree ==
    /\ \A t \in Threads : pc[t] \in {"use", "sweep"} => heap[ptr[t]] # None
    /\ entries \notin deferred
    /\ \A a \in deferred \cup {entries} : heap[a] # None

\* The compare-and-swap compares addresses, and addresses are used again
\* (arch/rcu_protected.h:209): when it succeeds, the table it replaces is the
\* one that was copied, so no change made in between is lost.
SwapsWhatItCopied ==
    \A t \in Threads : pc[t] = "cmp_xchg" /\ entries = ptr[t] => heap[entries] = base[t]

\* "required so that the watch operations are serializable"
\* (rest/rest_collection_impl.h:79): between mutations, a watch that folds its
\* events has the values of the table.  The exception is what the code does:
\* clear says nothing of a value that a later job was rebuilding.
WatchersAgree ==
    mutateMutex = None /\ seen # None /\ ~terminated =>
        \A k \in Keys : LET v == heap[entries][k].value IN
            seen[k] = v \/ (v = None /\ seen[k] \in rebuilt)

\* ExcAssert(!e.second.underConstruction->running) in clear
\* (rest/rest_collection_impl.h:169), and what it is for: a task that clear has
\* stopped is not running afterwards either, although running is set after the
\* entry is published.
ClearStopsTasks == \A t \in swept : ~running[t]

\* "it will see that it was cancelled and the add will abort"
\* (rest/rest_collection_impl.h:171-175): the object of a task that clear has
\* stopped does not appear in the collection.
ClearedStaysCleared ==
    \A t \in swept, k \in Keys : heap[entries][k].value # t

\* clear waits for the guard of a thread that waits for the mutex of a task
\* that waits for the mutateMutex of clear.
BarrierDeadlock ==
    \E c, p \in Clients, t \in Tasks :
        /\ pc[c] = "barrierWait" /\ p \in waits[ptr[c]]
        /\ pc[t] = "lock"
        /\ \/ pc[p] = "setHandle" /\ obj[p] = t
           \/ pc[p] = "use" /\ Asks(p) /\ Found(p).task = t

\* cancel waits for a task whose thread could not be started.
NeverStarted == \E c \in Clients : pc[c] = "cancelWait" /\ pc[obj[c]] = "failed"

\* "the onDone function is called exactly once" (rest/rest_collection.h:324) and
\* cancel "will block until the cancellation is finished"
\* (rest/rest_collection.h:124): where nothing can move any more, every call has
\* returned and the onDone functions of every task have been called, unless the
\* program has ended, clear has deadlocked or a thread could not be started.  (Each
\* thread has one step that calls them, so no more than once is by construction.)
\* No thread moves for ever, except that fn may report progress as long as it runs.
NothingHangs ==
    \/ ENABLED Next
    \/ terminated
    \/ BarrierDeadlock
    \/ NeverStarted
    \/ /\ \A c \in Clients : pc[c] = "idle"
       /\ \A t \in Tasks : pc[t] \in {"none", "failed"} \/ t \in onDone

\* "Guarantees that: the onDone function is called exactly once"
\* (rest/rest_collection.h:323-324): a task that ends beside a clear gets to call its
\* onDone functions, as clear does not wait for a thread that waits for the task.
ClearLetsTasksEnd == ~BarrierDeadlock

\* cancel "will block until the cancellation is finished or the task has completed"
\* (rest/rest_collection.h:124-125): it does not wait for a task that nothing runs.
CancelWaitsForThread ==
    \A c \in Clients : pc[c] = "cancelWait" /\ running[obj[c]] => pc[obj[c]] # "failed"

\* "CANCELLED, FINISHED and ERROR are final states" (rest/rest_collection.h:112), and
\* ExcAssertEqual(task->state, CANCELLED) where fn throws CancellationException
\* (rest/rest_collection_impl.h:592): a cancellation that fn was told of is still
\* there when fn acts on it.
CancellationStays ==
    \A t \in cancelled : pc[t] = "fn" => state[t] = "CANCELLED"

=============================================================================
