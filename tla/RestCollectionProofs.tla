------------------------ MODULE RestCollectionProofs ------------------------
(***************************************************************************)
(* Proofs about RestCollection, for any number of clients, tasks, keys and *)
(* addresses: no table is used after it is freed, a swap replaces the table*)
(* that was copied, watches agree with the table, and clear stops the tasks*)
(* of the entries it removes.                                              *)
(***************************************************************************)
EXTENDS RestCollection, TLAPS

-----------------------------------------------------------------------------
(* The inductive invariant.                                                *)

Creators == {"addBackgroundJob", "addEntry", "replaceEntry", "setEntry"}
Mutators == {"addEntry", "replaceEntry", "setEntry", "deleteEntry", "clear"}

\* Where a thread can be in each operation.
Edits == {"lock", "read", "use", "cmp_xchg", "event", "leave"}
Cancels == {"cancel", "cancelWait"}
Sweeps == {"barrier", "barrierWait", "sweep"} \cup Cancels
Runs == {"fn", "storeExecuting", "loadState", "storeFinished", "finish"}

ControlInv ==
    /\ \A c \in Clients :
          /\ op[c] = "none" => pc[c] = "idle"
          /\ op[c] = "addBackgroundJob" =>
                pc[c] \in {"read", "use", "cmp_xchg", "start", "setHandle", "leave"}
          /\ op[c] \in {"addEntry", "replaceEntry", "setEntry"} => pc[c] \in Edits
          /\ op[c] = "deleteEntry" => pc[c] \in Edits \cup Cancels
          /\ op[c] = "clear" => pc[c] \in {"lock", "swap", "leave"} \cup Sweeps
          /\ op[c] = "cancel" => pc[c] \in {"read", "use", "leave"} \cup Cancels
          /\ op[c] # "watchElements"
          /\ op[c] # "none" => key[c] \in Keys
          /\ op[c] \in Creators \/ pc[c] \in Cancels => obj[c] \in Tasks
    /\ \A t \in Tasks :
          /\ op[t] \in {"none", "addEntry", "replaceEntry"}
          /\ pc[t] \in {"none", "done", "failed"} \cup Runs \cup Edits
          /\ op[t] = "none" => pc[t] \in {"none", "done"}
          /\ pc[t] \in Runs \cup Edits => key[t] \in Keys /\ obj[t] \in {t, None}
          /\ pc[t] \in {"fn", "storeExecuting"} \cup Edits => obj[t] = t

\* Whoever changes values holds mutateMutex.
MutateInv ==
    \A t \in Threads :
        op[t] \in Mutators /\ pc[t] \in (Edits \ {"lock"}) \cup {"swap"} \cup Sweeps
        => mutateMutex = t

\* clear has taken over the old table and has not yet destroyed it.
Owning(c) == op[c] = "clear" /\ pc[c] \in Sweeps

OwnInv ==
    \A c \in Clients : Owning(c) =>
        ptr[c] \in Addrs \ (deferred \cup {entries}) /\ heap[ptr[c]] # None

HeapInv ==
    /\ entries \notin deferred
    /\ \A a \in deferred \cup {entries} : heap[a] # None

\* The table at hand is current, or whoever frees it waits for this guard.
Guards(t) ==
    \/ ptr[t] = entries
    \/ ptr[t] \in deferred /\ t \in waits[ptr[t]]
    \/ \E c \in Clients : /\ op[c] = "clear" /\ ptr[c] = ptr[t]
                          /\ \/ pc[c] = "barrier"
                             \/ pc[c] = "barrierWait" /\ t \in waits[ptr[t]]

GuardInv ==
    \A t \in Threads :
        /\ pc[t] \in {"use", "cmp_xchg"} => t \in inside /\ ptr[t] \in Addrs /\ Guards(t)
        /\ pc[t] = "start" => t \in inside
        /\ pc[t] = "cmp_xchg" => heap[ptr[t]] = base[t]

\* A client that creates an object has one of its own, whose thread has not begun.
Creating(c) == op[c] \in Creators /\ pc[c] \in {"lock", "read", "use", "cmp_xchg", "start"}

FreshInv ==
    /\ \A c \in Clients : Creating(c) =>
          obj[c] \in made /\ pc[obj[c]] = "none" /\ op[obj[c]] \in {"addEntry", "replaceEntry"}
    /\ \A c, d \in Clients : Creating(c) /\ Creating(d) /\ c # d => obj[c] # obj[d]
    /\ \A v \in Tasks \ made : pc[v] = "none"

\* The thread of v has begun, or a client that holds one of the guards S is about
\* to start it.
Begun(v) == v = None \/ pc[v] # "none"
Starting(v, S) == Begun(v) \/ \E c \in Clients \cap S : pc[c] = "start" /\ obj[c] = v

\* The tasks in the tables, and those that clear goes through: once its barrier has
\* returned, each of them has begun.
TableTaskInv ==
    /\ \A a \in Addrs, k \in Keys : heap[a] # None => Starting(heap[a][k].task, inside)
    /\ \A t \in Threads, k \in Keys : Starting(base[t][k].task, inside)

ClearTaskInv ==
    \A c \in Clients : op[c] = "clear" =>
        /\ pc[c] = "barrierWait" => \A k \in Keys : Starting(base[c][k].task, waits[ptr[c]])
        /\ pc[c] \in {"sweep"} \cup Cancels => \A k \in Keys : Begun(base[c][k].task)
        /\ pc[c] \in Cancels => Begun(obj[c])

SweptInv == \A v \in swept : Begun(v) /\ ~running[v]

\* A value with a task next to it is one that a later job is rebuilding.
Rebuilding(table) ==
    \A k \in Keys : table[k].value # None /\ table[k].task # None => table[k].value \in rebuilt

RebuiltInv ==
    /\ \A a \in Addrs : heap[a] # None => Rebuilding(heap[a])
    /\ \A t \in Threads : Rebuilding(base[t])

\* A watch that was told x, of a key whose value is v.
Agrees(x, v) == x = v \/ (v = None /\ x \in rebuilt)

\* The watch is told of a change after it is made: t is about to, or clear has yet
\* to go through the entries of the old table.
WatchInv ==
    /\ \A c \in Clients, k \in Keys : Owning(c) => heap[entries][k].value = None
    /\ \A t \in Threads : pc[t] = "event" =>
          heap[entries][key[t]].value = IF op[t] = "deleteEntry" THEN None ELSE obj[t]
    /\ seen # None => \A k \in Keys :
          \/ Agrees(seen[k], heap[entries][k].value)
          \/ \E t \in Threads : pc[t] = "event" /\ key[t] = k
          \/ \E c \in Clients : Owning(c) /\ base[c][k] # Absent
                                /\ Agrees(seen[k], base[c][k].value)

CInv ==
    /\ TypeOK /\ ControlInv /\ MutateInv /\ HeapInv /\ OwnInv /\ GuardInv
    /\ FreshInv /\ TableTaskInv /\ ClearTaskInv /\ SweptInv /\ RebuiltInv /\ WatchInv

-----------------------------------------------------------------------------
(* Every step keeps the types and the control state.                       *)

\* An entry of a table, and the empty table.
LEMMA TableEntry ==
    ASSUME NEW table \in Tables, NEW k \in Keys
    PROVE  /\ table[k] \in Entry
           /\ table[k].value \in Tasks \cup {None}
           /\ table[k].task \in Tasks \cup {None}
           /\ table[k].value = None /\ table[k].task = None => table[k] = Absent
  BY DEF Tables, Entry, Absent

\* A table without entries is a table, and the absence of a table is not one.
LEMMA EmptyTable ==
    /\ Empty \in Tables
    /\ \A k \in Keys : Empty[k] = Absent /\ Empty[k].value = None /\ Empty[k].task = None
    /\ None \notin Tables
  BY RestCollectionAssumption DEF Empty, Tables, Entry, Absent

\* The thread that looks at or has copied a table finds one there.
LEMMA TableAtHand ==
    ASSUME TypeOK, HeapInv, OwnInv, GuardInv, NEW t \in Threads, pc[t] \in {"use", "cmp_xchg"}
    PROVE  ptr[t] \in Addrs /\ heap[ptr[t]] \in Tables
<1>1. ptr[t] \in Addrs /\ Guards(t)
  BY DEF GuardInv
<1>2. heap[ptr[t]] # None
  BY <1>1 DEF Guards, HeapInv, OwnInv, Owning, Sweeps
<1>3. QED
  BY <1>1, <1>2 DEF TypeOK

\* A new table is put at an address where there was none.
LEMMA NewTable ==
    ASSUME TypeOK, HeapInv, NEW table \in Tables, Install(table)
    PROVE  /\ entries' \in Addrs /\ heap[entries'] = None /\ entries' # entries
           /\ entries' \notin deferred
           /\ heap' = [heap EXCEPT ![entries'] = table]
           /\ heap' \in [Addrs -> Tables \cup {None}]
           /\ heap'[entries'] = table
<1>1. entries' \in Free
  BY DEF Install
<1>2. entries' \in Addrs /\ heap[entries'] = None
  BY <1>1 DEF Free
<1>3. QED
  BY <1>2 DEF TypeOK, HeapInv, Install

\* What the release of a guard frees was deferred, and no guard keeps it.
LEMMA Release ==
    ASSUME TypeOK, NEW t \in Threads, ReleaseGuard(t)
    PROVE  /\ inside' = inside \ {t} /\ inside' \subseteq Threads
           /\ waits' \in [Addrs -> SUBSET inside']
           /\ \A a \in Addrs : waits'[a] = waits[a] \ {t}
           /\ deferred' \subseteq deferred /\ deferred' \subseteq Addrs
           /\ heap' \in [Addrs -> Tables \cup {None}]
           /\ \A a \in Addrs : \/ heap'[a] = heap[a] /\ (a \in deferred => a \in deferred')
                               \/ a \in deferred \ deferred' /\ waits[a] \subseteq {t}
                                  /\ heap'[a] = None
  BY DEF ReleaseGuard, TypeOK

\* What an operation edits its copy of the table to.
LEMMA EditedTable ==
    ASSUME TypeOK, ControlInv, NEW t \in Threads, pc[t] = "cmp_xchg"
    PROVE  /\ key[t] \in Keys
           /\ op[t] \in Creators => obj[t] \in Tasks
           /\ op[t] \in Creators \cup {"deleteEntry"}
           /\ Edited(t) \in Tables
           /\ \A k \in Keys \ {key[t]} : Edited(t)[k] = base[t][k]
           /\ Edited(t)[key[t]] =
                IF op[t] = "addBackgroundJob" THEN [base[t][key[t]] EXCEPT !.task = obj[t]]
                ELSE IF op[t] = "deleteEntry" THEN Absent
                ELSE [value |-> obj[t], task |-> None]
<1>1. key[t] \in Keys /\ (op[t] \in Creators => obj[t] \in Tasks)
      /\ op[t] \in Creators \cup {"deleteEntry"}
  BY DEF TypeOK, ControlInv, Edits, Runs, Sweeps, Cancels, Creators, Threads, Operations
<1>2. base[t] \in Tables
  BY DEF TypeOK
<1>3. QED
  BY <1>1, <1>2 DEF Edited, Tables, Entry, Absent, Creators

\* Every step keeps the types.
LEMMA TypeStep ==
    ASSUME TypeOK, ControlInv, HeapInv, OwnInv, GuardInv, Next
    PROVE  TypeOK'
<1>1. ASSUME NEW c \in Clients, NEW o \in Operations, NEW k \in Keys, call(c, o, k)
      PROVE  TypeOK'
  <2>1. calls' \in [Clients -> SUBSET Operations] /\ key' \in [Threads -> Keys \cup {None}]
        /\ pc' \in [Threads -> Labels]
    BY <1>1 DEF call, Goto, TypeOK, Labels, Threads
  <2>2. /\ obj' \in [Threads -> Tasks \cup {None}] /\ made' \subseteq Tasks
        /\ op' \in [Threads -> Operations \cup {"none"}]
    BY <1>1 DEF call, TypeOK, Operations, Threads
  <2>3. QED
    BY <1>1, <2>1, <2>2 DEF call, tableVars, guardVars, taskVars, TypeOK
<1>2. ASSUME NEW c \in Clients, watchElements(c)
      PROVE  TypeOK'
  <2>1. seen' \in [Keys -> Tasks \cup {None}]
    <3>1. heap[entries] \in Tables
      BY DEF TypeOK, HeapInv
    <3>2. QED
      BY <1>2, <3>1, TableEntry DEF watchElements, Values
  <2>2. calls' \in [Clients -> SUBSET Operations]
    BY <1>2 DEF watchElements, TypeOK
  <2>3. QED
    BY <1>2, <2>1, <2>2 DEF watchElements, tableVars, guardVars, taskVars, history, TypeOK
<1>3. ASSUME NEW t \in Threads, lockMutate(t)
      PROVE  TypeOK'
  BY <1>3 DEF TypeOK, Labels, Threads, lockMutate, At, Goto, tableVars, taskVars, history
<1>4. ASSUME NEW t \in Threads, readEntries(t)
      PROVE  TypeOK'
  BY <1>4 DEF TypeOK, Labels, Threads, readEntries, At, Goto, tableVars, taskVars, history
<1>5. ASSUME NEW t \in Threads, useEntries(t)
      PROVE  TypeOK'
  <2>0. ptr[t] \in Addrs /\ heap[ptr[t]] \in Tables
    BY <1>5, TableAtHand DEF useEntries, At
  <2>1. pc' \in [Threads -> Labels] /\ terminated' \in BOOLEAN
    <3>1. pc' \in [Threads -> Labels]
      BY <1>5 DEF useEntries, Goto, TypeOK, Labels
    <3>2. (t \in Tasks) \in BOOLEAN
      OBVIOUS
    <3>3. terminated' = terminated \/ terminated' = (t \in Tasks)
      BY <1>5, Zenon DEF useEntries
    <3>4. QED
      BY <3>1, <3>2, <3>3, Zenon DEF TypeOK
  <2>2. CASE op[t] = "cancel" /\ ~Refused(t)
    <3>1. key[t] \in Keys
      BY <1>5, <2>2 DEF useEntries, At, ControlInv, Threads, Edits, Runs
    <3>2. obj' \in [Threads -> Tasks \cup {None}]
      BY <1>5, <2>0, <2>2, <3>1, TableEntry DEF useEntries, TypeOK, Found
    <3>3. QED
      BY <1>5, <2>1, <2>2, <3>2, Release DEF useEntries, taskVars, history, TypeOK
  <2>3. CASE op[t] # "cancel" \/ Refused(t)
    <3>1. /\ UNCHANGED <<obj, heap, deferred, waits>>
          /\ inside' = inside \cup {t}
          /\ base' = base \/ base' = [base EXCEPT ![t] = heap[ptr[t]]]
      BY <1>5, <2>3 DEF useEntries
    <3>2. QED
      BY <1>5, <2>0, <2>1, <3>1 DEF useEntries, taskVars, history, TypeOK
  <2>4. QED
    BY <2>2, <2>3
<1>6. ASSUME NEW t \in Threads, cmp_xchg(t)
      PROVE  TypeOK'
  <2>1. pc' \in [Threads -> Labels]
    BY <1>6 DEF cmp_xchg, Goto, TypeOK, Labels
  <2>2. Edited(t) \in Tables /\ key[t] \in Keys
    BY <1>6, EditedTable DEF cmp_xchg, At
  <2>3. CASE entries = ptr[t]
    <3>1. entries' \in Addrs /\ heap' \in [Addrs -> Tables \cup {None}]
      BY <1>6, <2>2, <2>3, NewTable DEF cmp_xchg
    <3>2. rebuilt' \subseteq Tasks
      <4>1. base[t][key[t]].value \in Tasks \cup {None}
        BY <2>2, TableEntry DEF TypeOK
      <4>2. QED
        BY <1>6, <2>3, <4>1 DEF cmp_xchg, TypeOK
    <3>3. deferred' \subseteq Addrs /\ waits' \in [Addrs -> SUBSET inside]
      BY <1>6, <2>3 DEF cmp_xchg, Defer, TypeOK
    <3>4. QED
      BY <1>6, <2>1, <3>1, <3>2, <3>3 DEF cmp_xchg, taskVars, locals, TypeOK
  <2>4. CASE entries # ptr[t]
    BY <1>6, <2>1, <2>4 DEF cmp_xchg, tableVars, taskVars, locals, TypeOK
  <2>5. QED
    BY <2>3, <2>4
<1>7. ASSUME NEW t \in Threads, trigger(t)
      PROVE  TypeOK'
  <2>1. pc' \in [Threads -> Labels]
    BY <1>7 DEF trigger, Goto, TypeOK, Labels
  <2>2. key[t] \in Keys
    BY <1>7 DEF trigger, At, ControlInv, Threads, Edits, Runs, Cancels
  <2>3. base[t][key[t]].task \in Tasks \cup {None}
    BY <2>2, TableEntry DEF TypeOK
  <2>4. obj' \in [Threads -> Tasks \cup {None}]
    BY <1>7, <2>3 DEF trigger, TypeOK
  <2>5. seen' \in [Keys -> Tasks \cup {None}] \cup {None}
    BY <1>7, <2>2 DEF trigger, Told, TypeOK
  <2>6. QED
    BY <1>7, <2>1, <2>4, <2>5 DEF trigger, tableVars, guardVars, taskVars, history, TypeOK
<1>8. ASSUME NEW t \in Threads, leave(t)
      PROVE  TypeOK'
  <2>1. pc' \in [Threads -> Labels] /\ mutex' \in [Tasks -> Tasks \cup {None}]
        /\ onDone' \subseteq Tasks
    BY <1>8 DEF leave, Goto, TypeOK, Labels
  <2>2. /\ op' \in [Threads -> Operations \cup {"none"}] /\ key' \in [Threads -> Keys \cup {None}]
        /\ obj' \in [Threads -> Tasks \cup {None}] /\ ptr' \in [Threads -> Addrs \cup {None}]
        /\ base' \in [Threads -> Tables]
    BY <1>8, EmptyTable DEF leave, TypeOK
  <2>3. mutateMutex' \in Threads \cup {None}
    BY <1>8 DEF leave, TypeOK
  <2>4. QED
    BY <1>8, <2>1, <2>2, <2>3, Release DEF leave, TypeOK
<1>9. ASSUME NEW c \in Clients, startTask(c)
      PROVE  TypeOK'
  BY <1>9 DEF TypeOK, Labels, Threads, startTask, At, tableVars, guardVars, history
<1>10. ASSUME NEW c \in Clients, setHandle(c)
      PROVE  TypeOK'
  BY <1>10 DEF TypeOK, Labels, Threads, setHandle, At, Goto, tableVars, guardVars, taskVars,
     locals, history
<1>11. ASSUME NEW c \in Clients, cancel(c)
      PROVE  TypeOK'
  <2>1. obj[c] \in Tasks
    BY <1>11 DEF cancel, At, ControlInv, Cancels
  <2>2. cancelled' \subseteq Tasks /\ state' \in [Tasks -> States]
    BY <1>11, <2>1 DEF cancel, TypeOK, States
  <2>3. QED
    BY <1>11, <2>2 DEF TypeOK, Labels, Threads, cancel, Goto, tableVars, guardVars,
       locals, history
<1>12. ASSUME NEW c \in Clients, cancelWait(c)
      PROVE  TypeOK'
  BY <1>12 DEF TypeOK, Labels, Threads, ControlInv, Cancels, cancelWait, At, Goto,
     tableVars, guardVars, taskVars, locals
<1>13. ASSUME NEW c \in Clients, clearSwap(c)
      PROVE  TypeOK'
  <2>1. entries' \in Addrs /\ heap' \in [Addrs -> Tables \cup {None}]
    BY <1>13, EmptyTable, NewTable DEF clearSwap
  <2>2. heap[entries] \in Tables
    BY DEF HeapInv, TypeOK
  <2>3. /\ pc' \in [Threads -> Labels] /\ ptr' \in [Threads -> Addrs \cup {None}]
        /\ base' \in [Threads -> Tables]
    BY <1>13, <2>2 DEF clearSwap, Goto, TypeOK, Labels
  <2>4. QED
    BY <1>13, <2>1, <2>3 DEF clearSwap, guardVars, taskVars, history, TypeOK
<1>14. ASSUME NEW c \in Clients, visibleBarrier(c)
      PROVE  TypeOK'
  BY <1>14 DEF TypeOK, Labels, Threads, visibleBarrier, At, Goto, tableVars, taskVars,
     locals, history
<1>15. ASSUME NEW c \in Clients, barrierWait(c)
      PROVE  TypeOK'
  BY <1>15 DEF TypeOK, Labels, Threads, barrierWait, At, Goto, tableVars, guardVars,
     taskVars, locals, history
<1>16. ASSUME NEW c \in Clients, NEW k \in Keys, sweep(c, k)
      PROVE  TypeOK'
  <2>1. base[c] \in Tables /\ Absent \in Entry
    BY DEF TypeOK, Threads, Absent, Entry
  <2>2. [base[c] EXCEPT ![k] = Absent] \in Tables
    BY <2>1 DEF Tables
  <2>3. base' \in [Threads -> Tables]
    BY <1>16, <2>2 DEF sweep, TypeOK
  <2>4. obj' \in [Threads -> Tasks \cup {None}] /\ pc' \in [Threads -> Labels]
    BY <1>16, <2>1, TableEntry DEF sweep, Goto, TypeOK, Labels
  <2>5. seen' \in [Keys -> Tasks \cup {None}] \cup {None}
    BY <1>16 DEF sweep, Told, TypeOK
  <2>6. QED
    BY <1>16, <2>3, <2>4, <2>5 DEF sweep, tableVars, guardVars, taskVars, history, TypeOK
<1>17. ASSUME NEW c \in Clients, clearEnd(c)
      PROVE  TypeOK'
  BY <1>17 DEF TypeOK, Labels, Threads, clearEnd, At, Empty, Absent, Goto, guardVars,
     taskVars, locals, history
<1>18. ASSUME NEW t \in Tasks, setProgress(t)
      PROVE  TypeOK'
  BY <1>18 DEF TypeOK, Labels, Threads, setProgress, At, Goto, tableVars, guardVars, locals,
     history
<1>19. ASSUME NEW t \in Tasks, storeExecuting(t)
      PROVE  TypeOK'
  BY <1>19 DEF TypeOK, Labels, Threads, States, storeExecuting, At, Goto, tableVars,
     guardVars, locals, history
<1>20. ASSUME NEW t \in Tasks, setError(t)
      PROVE  TypeOK'
  BY <1>20 DEF TypeOK, Labels, Threads, States, setError, At, Goto, tableVars, guardVars,
     locals, history
<1>21. ASSUME NEW t \in Tasks, setFinished(t)
      PROVE  TypeOK'
  BY <1>21 DEF TypeOK, Labels, Threads, setFinished, At, Goto, tableVars, guardVars, locals,
     history
<1>22. ASSUME NEW t \in Tasks, loadState(t)
      PROVE  TypeOK'
  BY <1>22 DEF TypeOK, Labels, Threads, loadState, At, Goto, tableVars, guardVars, taskVars,
     locals, history
<1>23. ASSUME NEW t \in Tasks, storeFinished(t)
      PROVE  TypeOK'
  BY <1>23 DEF TypeOK, Labels, Threads, States, storeFinished, At, Goto, tableVars,
     guardVars, locals, history
<1>24. ASSUME NEW t \in Tasks, finishedBackgroundJob(t)
      PROVE  TypeOK'
  BY <1>24 DEF TypeOK, Labels, Threads, finishedBackgroundJob, At, Goto, tableVars,
     guardVars, locals
<1>25. ASSUME NEW c \in Clients, threadFails(c)
      PROVE  TypeOK'
  BY <1>25 DEF TypeOK, Labels, Threads, threadFails, locals, At, tableVars, guardVars, history
<1>26. ASSUME NEW t \in Tasks, catchCancellation(t)
      PROVE  TypeOK'
  BY <1>26 DEF TypeOK, Labels, Threads, catchCancellation, At, Goto, tableVars, guardVars, locals,
     history
<1>27. QED
  BY <1>1, <1>2, <1>3, <1>4, <1>5, <1>6, <1>7, <1>8, <1>9, <1>10, <1>11, <1>12, <1>13,
     <1>14, <1>15, <1>16, <1>17, <1>18, <1>19, <1>20, <1>21, <1>22, <1>23, <1>24,
     <1>25, <1>26 DEF Next,
     client, task, access, Threads

\* Every step keeps each thread where its operation can be.
LEMMA ControlStep ==
    ASSUME TypeOK, ControlInv, HeapInv, OwnInv, GuardInv, FreshInv, Next
    PROVE  ControlInv'
<1>1. ASSUME NEW c \in Clients, NEW o \in Operations, NEW k \in Keys, call(c, o, k)
      PROVE  ControlInv'
  <2>1. /\ \A d \in Threads \ {c} : pc'[d] = pc[d] /\ key'[d] = key[d] /\ obj'[d] = obj[d]
        /\ key'[c] = k /\ op'[c] = o /\ o # "watchElements" /\ o \in Operations
        /\ pc'[c] = IF o \in {"addBackgroundJob", "cancel"} THEN "read" ELSE "lock"
    BY <1>1, RestCollectionAssumption DEF call, Goto, TypeOK, Threads
  <2>2. /\ \A d \in Clients \ {c} : op'[d] = op[d]
        /\ \A v \in Tasks : op'[v] = op[v] \/ op'[v] \in {"addEntry", "replaceEntry"}
        /\ o \in Creators => obj'[c] \in Tasks
    BY <1>1, RestCollectionAssumption DEF call, TypeOK, Threads, Creators
  <2>3. QED
    BY <2>1, <2>2, RestCollectionAssumption
       DEF ControlInv, Edits, Cancels, Sweeps, Runs, Creators, Threads, Operations
<1>2. ASSUME NEW c \in Clients, watchElements(c)
      PROVE  ControlInv'
  BY <1>2, RestCollectionAssumption DEF TypeOK, ControlInv, Edits, Cancels, Sweeps, Runs,
     Creators, Threads, watchElements, Values, tableVars, guardVars, taskVars, history
<1>3. ASSUME NEW t \in Threads, lockMutate(t)
      PROVE  ControlInv'
  BY <1>3, RestCollectionAssumption DEF TypeOK, ControlInv, Edits, Cancels, Sweeps, Runs,
     Creators, Threads, lockMutate, At, Goto, tableVars, taskVars, history
<1>4. ASSUME NEW t \in Threads, readEntries(t)
      PROVE  ControlInv'
  BY <1>4, RestCollectionAssumption DEF TypeOK, ControlInv, Edits, Cancels, Sweeps, Runs,
     Creators, Threads, readEntries, At, Goto, tableVars, taskVars, history
<1>5. ASSUME NEW t \in Threads, useEntries(t)
      PROVE  ControlInv'
  <2>1. /\ \A d \in Threads \ {t} : pc'[d] = pc[d] /\ obj'[d] = obj[d]
        /\ UNCHANGED <<op, key>> /\ pc[t] = "use"
    BY <1>5 DEF useEntries, Goto, TypeOK, At
  <2>2. CASE op[t] = "cancel" /\ ~Refused(t)
    <3>1. key[t] \in Keys /\ t \in Clients
      BY <1>5, <2>2 DEF useEntries, At, ControlInv, Threads, Edits, Runs
    <3>2. Found(t).task \in Tasks
      <4>1. Found(t).task # None
        BY <2>2 DEF Refused
      <4>2. QED
        BY <1>5, <2>1, <3>1, <4>1, TableAtHand, TableEntry DEF Found
    <3>3. obj'[t] \in Tasks /\ pc'[t] = "cancel"
      BY <1>5, <2>2, <3>2 DEF useEntries, Goto, TypeOK
    <3>4. QED
      BY <2>1, <2>2, <3>1, <3>3, RestCollectionAssumption
         DEF ControlInv, Edits, Cancels, Sweeps, Runs, Creators, Threads
  <2>3. CASE op[t] # "cancel" \/ Refused(t)
    <3>1. /\ obj' = obj /\ pc'[t] \in {"leave", "cmp_xchg"}
          /\ op[t] = "cancel" => pc'[t] = "leave"
      BY <1>5, <2>3 DEF useEntries, Goto, TypeOK
    <3>2. QED
      BY <2>1, <3>1, RestCollectionAssumption
         DEF ControlInv, Edits, Cancels, Sweeps, Runs, Creators, Threads
  <2>4. QED
    BY <2>2, <2>3
<1>6. ASSUME NEW t \in Threads, cmp_xchg(t)
      PROVE  ControlInv'
  BY <1>6, RestCollectionAssumption DEF TypeOK, ControlInv, Edits, Cancels, Sweeps, Runs,
     Creators, Threads, cmp_xchg, At, Edited, Absent, Goto, tableVars, taskVars, locals
<1>7. ASSUME NEW t \in Threads, trigger(t)
      PROVE  ControlInv'
  <2>1. /\ \A d \in Threads \ {t} : pc'[d] = pc[d] /\ obj'[d] = obj[d]
        /\ UNCHANGED <<op, key>> /\ pc[t] = "event"
        /\ \/ op[t] = "deleteEntry" /\ pc'[t] = "cancel"
              /\ obj'[t] = base[t][key[t]].task /\ obj'[t] # None
           \/ pc'[t] = "leave" /\ obj'[t] = obj[t]
    BY <1>7 DEF trigger, Goto, TypeOK, At
  <2>2. key[t] \in Keys
    BY <2>1 DEF ControlInv, Threads, Edits, Runs, Cancels, Sweeps
  <2>3. base[t][key[t]].task \in Tasks \cup {None}
    BY <2>2, TableEntry DEF TypeOK
  <2>4. QED
    BY <2>1, <2>3, RestCollectionAssumption
       DEF ControlInv, Edits, Cancels, Sweeps, Runs, Creators, Threads
<1>8. ASSUME NEW t \in Threads, leave(t)
      PROVE  ControlInv'
  <2>1. /\ \A d \in Threads \ {t} : /\ pc'[d] = pc[d] /\ obj'[d] = obj[d]
                                    /\ op'[d] = op[d] /\ key'[d] = key[d]
        /\ op'[t] = "none"
        /\ \/ t \in Clients /\ pc'[t] = "idle"
           \/ t \in Tasks /\ pc'[t] = "done"
    BY <1>8 DEF leave, Goto, TypeOK
  <2>2. QED
    BY <2>1, RestCollectionAssumption
       DEF ControlInv, Edits, Cancels, Sweeps, Runs, Creators, Threads
<1>9. ASSUME NEW c \in Clients, startTask(c)
      PROVE  ControlInv'
  <2>1. op[c] = "addBackgroundJob" /\ pc[c] = "start" /\ key[c] \in Keys /\ obj[c] \in Tasks
    BY <1>9 DEF startTask, At, ControlInv, Edits, Cancels, Sweeps, Creators, TypeOK, Threads,
                Operations
  <2>2. op[obj[c]] \in {"addEntry", "replaceEntry"}
    BY <2>1 DEF FreshInv, Creating, Creators
  <2>3. /\ \A d \in Threads \ {c, obj[c]} : /\ pc'[d] = pc[d] /\ obj'[d] = obj[d]
                                            /\ key'[d] = key[d]
        /\ pc'[c] = "setHandle" /\ obj'[c] = obj[c] /\ key'[c] = key[c]
        /\ pc'[obj[c]] = "fn" /\ obj'[obj[c]] = obj[c] /\ key'[obj[c]] = key[c]
        /\ op' = op
    BY <1>9, <2>1, RestCollectionAssumption DEF startTask, TypeOK, Threads
  <2>4. QED
    BY <2>1, <2>2, <2>3, RestCollectionAssumption
       DEF ControlInv, Edits, Cancels, Sweeps, Runs, Creators, Threads
<1>10. ASSUME NEW c \in Clients, setHandle(c)
      PROVE  ControlInv'
  BY <1>10, RestCollectionAssumption DEF TypeOK, ControlInv, Edits, Cancels, Sweeps, Runs,
     Creators, Threads, setHandle, At, Goto, tableVars, guardVars, taskVars, locals, history
<1>11. ASSUME NEW c \in Clients, cancel(c)
      PROVE  ControlInv'
  BY <1>11, RestCollectionAssumption DEF TypeOK, ControlInv, Edits, Cancels, Sweeps, Runs,
     Creators, Threads, cancel, At, Goto, tableVars, guardVars, locals, history
<1>12. ASSUME NEW c \in Clients, cancelWait(c)
      PROVE  ControlInv'
  BY <1>12, RestCollectionAssumption DEF TypeOK, ControlInv, Edits, Cancels, Sweeps, Runs,
     Creators, Threads, cancelWait, At, Goto, tableVars, guardVars, taskVars, locals
<1>13. ASSUME NEW c \in Clients, clearSwap(c)
      PROVE  ControlInv'
  BY <1>13, RestCollectionAssumption DEF TypeOK, ControlInv, Edits, Cancels, Sweeps, Runs,
     Creators, Threads, clearSwap, At, Empty, Absent, Goto, guardVars, taskVars, history
<1>14. ASSUME NEW c \in Clients, visibleBarrier(c)
      PROVE  ControlInv'
  BY <1>14, RestCollectionAssumption DEF TypeOK, ControlInv, Edits, Cancels, Sweeps, Runs,
     Creators, Threads, visibleBarrier, At, Goto, tableVars, taskVars, locals, history
<1>15. ASSUME NEW c \in Clients, barrierWait(c)
      PROVE  ControlInv'
  BY <1>15, RestCollectionAssumption DEF TypeOK, ControlInv, Edits, Cancels, Sweeps, Runs,
     Creators, Threads, barrierWait, At, Goto, tableVars, guardVars, taskVars, locals,
     history
<1>16. ASSUME NEW c \in Clients, NEW k \in Keys, sweep(c, k)
      PROVE  ControlInv'
  <2>1. op[c] = "clear"
    BY <1>16 DEF sweep, At, ControlInv, Edits, Cancels, TypeOK, Threads, Operations
  <2>2. base[c][k].task \in Tasks \cup {None}
    BY TableEntry DEF TypeOK, Threads
  <2>3. /\ \A d \in Threads \ {c} : pc'[d] = pc[d] /\ obj'[d] = obj[d]
        /\ UNCHANGED <<op, key>>
        /\ \/ pc'[c] = "cancel" /\ obj'[c] = base[c][k].task /\ obj'[c] # None
           \/ pc'[c] = "sweep" /\ obj'[c] = obj[c]
    BY <1>16 DEF sweep, Goto, TypeOK, Threads, At
  <2>4. QED
    BY <2>1, <2>2, <2>3, RestCollectionAssumption
       DEF ControlInv, Edits, Cancels, Sweeps, Runs, Creators, Threads
<1>17. ASSUME NEW c \in Clients, clearEnd(c)
      PROVE  ControlInv'
  BY <1>17, RestCollectionAssumption DEF TypeOK, ControlInv, Edits, Cancels, Sweeps, Runs,
     Creators, Threads, clearEnd, At, Empty, Absent, Goto, guardVars, taskVars, locals,
     history
<1>18. ASSUME NEW t \in Tasks, setProgress(t)
      PROVE  ControlInv'
  BY <1>18, RestCollectionAssumption DEF TypeOK, ControlInv, Edits, Cancels, Sweeps, Runs,
     Creators, Threads, setProgress, At, Goto, tableVars, guardVars, locals, history
<1>19. ASSUME NEW t \in Tasks, storeExecuting(t)
      PROVE  ControlInv'
  BY <1>19, RestCollectionAssumption DEF TypeOK, ControlInv, Edits, Cancels, Sweeps, Runs,
     Creators, Threads, storeExecuting, At, Goto, tableVars, guardVars, locals, history
<1>20. ASSUME NEW t \in Tasks, setError(t)
      PROVE  ControlInv'
  BY <1>20, RestCollectionAssumption DEF TypeOK, ControlInv, Edits, Cancels, Sweeps, Runs,
     Creators, Threads, setError, At, Goto, tableVars, guardVars, locals, history
<1>21. ASSUME NEW t \in Tasks, setFinished(t)
      PROVE  ControlInv'
  BY <1>21, RestCollectionAssumption DEF TypeOK, ControlInv, Edits, Cancels, Sweeps, Runs,
     Creators, Threads, setFinished, At, Goto, tableVars, guardVars, locals, history
<1>22. ASSUME NEW t \in Tasks, loadState(t)
      PROVE  ControlInv'
  BY <1>22, RestCollectionAssumption DEF TypeOK, ControlInv, Edits, Cancels, Sweeps, Runs,
     Creators, Threads, loadState, At, Goto, tableVars, guardVars, taskVars, locals, history
<1>23. ASSUME NEW t \in Tasks, storeFinished(t)
      PROVE  ControlInv'
  BY <1>23, RestCollectionAssumption DEF TypeOK, ControlInv, Edits, Cancels, Sweeps, Runs,
     Creators, Threads, storeFinished, At, Goto, tableVars, guardVars, locals, history
<1>24. ASSUME NEW t \in Tasks, finishedBackgroundJob(t)
      PROVE  ControlInv'
  BY <1>24, RestCollectionAssumption DEF TypeOK, ControlInv, Edits, Cancels, Sweeps, Runs,
     Creators, Threads, finishedBackgroundJob, At, Goto, tableVars, guardVars, locals
<1>25. ASSUME NEW c \in Clients, threadFails(c)
      PROVE  ControlInv'
  <2>1. op[c] = "addBackgroundJob" /\ pc[c] = "start" /\ key[c] \in Keys /\ obj[c] \in Tasks
    BY <1>25 DEF threadFails, At, ControlInv, Edits, Cancels, Sweeps, Creators, TypeOK, Threads,
                Operations
  <2>2. op[obj[c]] \in {"addEntry", "replaceEntry"}
    BY <2>1 DEF FreshInv, Creating, Creators
  <2>3. /\ \A d \in Threads \ {c, obj[c]} : /\ pc'[d] = pc[d] /\ obj'[d] = obj[d]
                                            /\ key'[d] = key[d]
        /\ pc'[c] = "leave" /\ obj'[c] = obj[c] /\ key'[c] = key[c]
        /\ pc'[obj[c]] = "failed" /\ obj'[obj[c]] = obj[obj[c]]
        /\ key'[obj[c]] = key[obj[c]] /\ op' = op
    BY <1>25, <2>1, RestCollectionAssumption DEF threadFails, locals, TypeOK, Threads
  <2>4. QED
    BY <2>1, <2>2, <2>3, RestCollectionAssumption
       DEF ControlInv, Edits, Cancels, Sweeps, Runs, Creators, Threads
<1>26. ASSUME NEW t \in Tasks, catchCancellation(t)
      PROVE  ControlInv'
  <2>1. /\ \A d \in Threads \ {t} : pc'[d] = pc[d] /\ obj'[d] = obj[d]
        /\ UNCHANGED <<op, key>> /\ pc[t] = "fn"
        /\ \/ pc'[t] = "loadState" /\ obj'[t] = None
           \/ pc'[t] = "fn" /\ obj'[t] = t
    BY <1>26 DEF catchCancellation, At, Goto, TypeOK, Threads, ControlInv
  <2>2. QED
    BY <2>1, RestCollectionAssumption
       DEF ControlInv, Edits, Cancels, Sweeps, Runs, Creators, Threads
<1>27. QED
  BY <1>1, <1>2, <1>3, <1>4, <1>5, <1>6, <1>7, <1>8, <1>9, <1>10, <1>11, <1>12, <1>13,
     <1>14, <1>15, <1>16, <1>17, <1>18, <1>19, <1>20, <1>21, <1>22, <1>23, <1>24,
     <1>25, <1>26 DEF Next,
     client, task, access, Threads

\* Only the holder of mutateMutex changes values.
LEMMA MutateStep ==
    ASSUME TypeOK, ControlInv, MutateInv, FreshInv, Next
    PROVE  MutateInv'
<1>1. ASSUME NEW c \in Clients, NEW o \in Operations, NEW k \in Keys, call(c, o, k)
      PROVE  MutateInv'
  <2>1. /\ mutateMutex' = mutateMutex
        /\ pc'[c] \in {"read", "lock"} /\ \A t \in Threads \ {c} : pc'[t] = pc[t]
    BY <1>1 DEF TypeOK, Threads, call, Goto
  <2>2. op'[c] = o /\ (o \in Mutators => pc'[c] = "lock")
    BY <1>1, RestCollectionAssumption DEF TypeOK, Threads, call, Goto, Mutators
  <2>3. \A t \in Threads \ {c} : op'[t] = op[t] \/ pc[t] = "none"
    BY <1>1, RestCollectionAssumption DEF TypeOK, Threads, call, FreshInv
  <2>4. QED
    BY <2>1, <2>2, <2>3 DEF MutateInv, Edits, Sweeps, Cancels
<1>2. ASSUME NEW c \in Clients, watchElements(c)
      PROVE  MutateInv'
  BY <1>2, RestCollectionAssumption DEF TypeOK, ControlInv, MutateInv, Mutators, Edits,
     Cancels, Sweeps, Runs, Threads, watchElements, Values, tableVars, guardVars, taskVars,
     history
<1>3. ASSUME NEW t \in Threads, lockMutate(t)
      PROVE  MutateInv'
  BY <1>3, RestCollectionAssumption DEF TypeOK, ControlInv, MutateInv, Mutators, Edits,
     Cancels, Sweeps, Runs, Threads, lockMutate, At, Goto, tableVars, taskVars, history
<1>4. ASSUME NEW t \in Threads, readEntries(t)
      PROVE  MutateInv'
  BY <1>4, RestCollectionAssumption DEF TypeOK, ControlInv, MutateInv, Mutators, Edits,
     Cancels, Sweeps, Runs, Threads, readEntries, At, Goto, tableVars, taskVars, history
<1>5. ASSUME NEW t \in Threads, useEntries(t)
      PROVE  MutateInv'
  BY <1>5, RestCollectionAssumption DEF TypeOK, ControlInv, MutateInv, Mutators, Edits,
     Cancels, Sweeps, Runs, Threads, useEntries, At, Goto, taskVars, history
<1>6. ASSUME NEW t \in Threads, cmp_xchg(t)
      PROVE  MutateInv'
  BY <1>6, RestCollectionAssumption DEF TypeOK, ControlInv, MutateInv, Mutators, Edits,
     Cancels, Sweeps, Runs, Threads, cmp_xchg, At, Edited, Absent, Goto, tableVars,
     taskVars, locals
<1>7. ASSUME NEW t \in Threads, trigger(t)
      PROVE  MutateInv'
  BY <1>7, RestCollectionAssumption DEF TypeOK, ControlInv, MutateInv, Mutators, Edits,
     Cancels, Sweeps, Runs, Threads, trigger, At, Goto, tableVars, guardVars, taskVars,
     history
<1>8. ASSUME NEW t \in Threads, leave(t)
      PROVE  MutateInv'
  BY <1>8, RestCollectionAssumption DEF TypeOK, ControlInv, MutateInv, Mutators, Edits,
     Cancels, Sweeps, Runs, Threads, leave, At, Goto, Empty, Absent
<1>9. ASSUME NEW c \in Clients, startTask(c)
      PROVE  MutateInv'
  BY <1>9, RestCollectionAssumption DEF TypeOK, ControlInv, MutateInv, Mutators, Edits,
     Cancels, Sweeps, Runs, Threads, startTask, At, tableVars, guardVars, history
<1>10. ASSUME NEW c \in Clients, setHandle(c)
      PROVE  MutateInv'
  BY <1>10, RestCollectionAssumption DEF TypeOK, ControlInv, MutateInv, Mutators, Edits,
     Cancels, Sweeps, Runs, Threads, setHandle, At, Goto, tableVars, guardVars, taskVars,
     locals, history
<1>11. ASSUME NEW c \in Clients, cancel(c)
      PROVE  MutateInv'
  BY <1>11, RestCollectionAssumption DEF TypeOK, ControlInv, MutateInv, Mutators, Edits,
     Cancels, Sweeps, Runs, Threads, cancel, At, Goto, tableVars, guardVars, locals, history
<1>12. ASSUME NEW c \in Clients, cancelWait(c)
      PROVE  MutateInv'
  BY <1>12, RestCollectionAssumption DEF TypeOK, ControlInv, MutateInv, Mutators, Edits,
     Cancels, Sweeps, Runs, Threads, cancelWait, At, Goto, tableVars, guardVars, taskVars,
     locals
<1>13. ASSUME NEW c \in Clients, clearSwap(c)
      PROVE  MutateInv'
  BY <1>13, RestCollectionAssumption DEF TypeOK, ControlInv, MutateInv, Mutators, Edits,
     Cancels, Sweeps, Runs, Threads, clearSwap, At, Empty, Absent, Goto, guardVars,
     taskVars, history
<1>14. ASSUME NEW c \in Clients, visibleBarrier(c)
      PROVE  MutateInv'
  BY <1>14, RestCollectionAssumption DEF TypeOK, ControlInv, MutateInv, Mutators, Edits,
     Cancels, Sweeps, Runs, Threads, visibleBarrier, At, Goto, tableVars, taskVars, locals,
     history
<1>15. ASSUME NEW c \in Clients, barrierWait(c)
      PROVE  MutateInv'
  BY <1>15, RestCollectionAssumption DEF TypeOK, ControlInv, MutateInv, Mutators, Edits,
     Cancels, Sweeps, Runs, Threads, barrierWait, At, Goto, tableVars, guardVars, taskVars,
     locals, history
<1>16. ASSUME NEW c \in Clients, NEW k \in Keys, sweep(c, k)
      PROVE  MutateInv'
  BY <1>16, RestCollectionAssumption DEF TypeOK, ControlInv, MutateInv, Mutators, Edits,
     Cancels, Sweeps, Runs, Threads, sweep, At, Absent, Goto, tableVars, guardVars,
     taskVars, history
<1>17. ASSUME NEW c \in Clients, clearEnd(c)
      PROVE  MutateInv'
  BY <1>17, RestCollectionAssumption DEF TypeOK, ControlInv, MutateInv, Mutators, Edits,
     Cancels, Sweeps, Runs, Threads, clearEnd, At, Empty, Absent, Goto, guardVars, taskVars,
     locals, history
<1>18. ASSUME NEW t \in Tasks, setProgress(t)
      PROVE  MutateInv'
  BY <1>18, RestCollectionAssumption DEF TypeOK, ControlInv, MutateInv, Mutators, Edits,
     Cancels, Sweeps, Runs, Threads, setProgress, At, Goto, tableVars, guardVars, locals,
     history
<1>19. ASSUME NEW t \in Tasks, storeExecuting(t)
      PROVE  MutateInv'
  BY <1>19, RestCollectionAssumption DEF TypeOK, ControlInv, MutateInv, Mutators, Edits,
     Cancels, Sweeps, Runs, Threads, storeExecuting, At, Goto, tableVars, guardVars, locals,
     history
<1>20. ASSUME NEW t \in Tasks, setError(t)
      PROVE  MutateInv'
  BY <1>20, RestCollectionAssumption DEF TypeOK, ControlInv, MutateInv, Mutators, Edits,
     Cancels, Sweeps, Runs, Threads, setError, At, Goto, tableVars, guardVars, locals,
     history
<1>21. ASSUME NEW t \in Tasks, setFinished(t)
      PROVE  MutateInv'
  BY <1>21, RestCollectionAssumption DEF TypeOK, ControlInv, MutateInv, Mutators, Edits,
     Cancels, Sweeps, Runs, Threads, setFinished, At, Goto, tableVars, guardVars, locals,
     history
<1>22. ASSUME NEW t \in Tasks, loadState(t)
      PROVE  MutateInv'
  BY <1>22, RestCollectionAssumption DEF TypeOK, ControlInv, MutateInv, Mutators, Edits,
     Cancels, Sweeps, Runs, Threads, loadState, At, Goto, tableVars, guardVars, taskVars,
     locals, history
<1>23. ASSUME NEW t \in Tasks, storeFinished(t)
      PROVE  MutateInv'
  BY <1>23, RestCollectionAssumption DEF TypeOK, ControlInv, MutateInv, Mutators, Edits,
     Cancels, Sweeps, Runs, Threads, storeFinished, At, Goto, tableVars, guardVars, locals,
     history
<1>24. ASSUME NEW t \in Tasks, finishedBackgroundJob(t)
      PROVE  MutateInv'
  BY <1>24, RestCollectionAssumption DEF TypeOK, ControlInv, MutateInv, Mutators, Edits,
     Cancels, Sweeps, Runs, Threads, finishedBackgroundJob, At, Goto, tableVars, guardVars,
     locals
<1>25. ASSUME NEW c \in Clients, threadFails(c)
      PROVE  MutateInv'
  BY <1>25, RestCollectionAssumption DEF TypeOK, ControlInv, MutateInv, Mutators, Edits,
     Cancels, Sweeps, Runs, Threads, threadFails, locals, At, tableVars, guardVars, history
<1>26. ASSUME NEW t \in Tasks, catchCancellation(t)
      PROVE  MutateInv'
  BY <1>26, RestCollectionAssumption DEF TypeOK, ControlInv, MutateInv, Mutators, Edits,
     Cancels, Sweeps, Runs, Threads, catchCancellation, At, Goto, tableVars, guardVars, locals,
     history
<1>27. QED
  BY <1>1, <1>2, <1>3, <1>4, <1>5, <1>6, <1>7, <1>8, <1>9, <1>10, <1>11, <1>12, <1>13,
     <1>14, <1>15, <1>16, <1>17, <1>18, <1>19, <1>20, <1>21, <1>22, <1>23, <1>24,
     <1>25, <1>26 DEF Next,
     client, task, access, Threads

\* The current table and the deferred ones stay in place.
LEMMA HeapStep ==
    ASSUME TypeOK, ControlInv, HeapInv, OwnInv, Next
    PROVE  HeapInv'
<1>1. ASSUME NEW c \in Clients, NEW o \in Operations, NEW k \in Keys, call(c, o, k)
      PROVE  HeapInv'
  BY <1>1 DEF HeapInv, call, tableVars, guardVars, taskVars
<1>2. ASSUME NEW c \in Clients, watchElements(c)
      PROVE  HeapInv'
  BY <1>2 DEF HeapInv, watchElements, tableVars, guardVars, taskVars, history
<1>3. ASSUME NEW t \in Threads, lockMutate(t)
      PROVE  HeapInv'
  BY <1>3 DEF HeapInv, lockMutate, At, tableVars, taskVars, history
<1>4. ASSUME NEW t \in Threads, readEntries(t)
      PROVE  HeapInv'
  BY <1>4 DEF HeapInv, readEntries, At, tableVars, taskVars, history
<1>5. ASSUME NEW t \in Threads, useEntries(t)
      PROVE  HeapInv'
  <2>1. CASE op[t] = "cancel" /\ ~Refused(t)
    <3>1. ReleaseGuard(t) /\ entries' = entries
      BY <1>5, <2>1 DEF useEntries
    <3>2. QED
      BY <3>1, Release DEF HeapInv, TypeOK
  <2>2. CASE op[t] # "cancel" \/ Refused(t)
    BY <1>5, <2>2 DEF useEntries, HeapInv
  <2>3. QED
    BY <2>1, <2>2
<1>6. ASSUME NEW t \in Threads, cmp_xchg(t)
      PROVE  HeapInv'
  <2>1. CASE entries = ptr[t]
    <3>1. Edited(t) \in Tables
      BY <1>6, EditedTable DEF cmp_xchg, At
    <3>2. Install(Edited(t)) /\ deferred' = deferred \cup {entries}
      BY <1>6, <2>1 DEF cmp_xchg, Defer
    <3>3. QED
      BY <3>1, <3>2, NewTable, EmptyTable DEF HeapInv, TypeOK
  <2>2. CASE entries # ptr[t]
    BY <1>6, <2>2 DEF cmp_xchg, tableVars, HeapInv
  <2>3. QED
    BY <2>1, <2>2
<1>7. ASSUME NEW t \in Threads, trigger(t)
      PROVE  HeapInv'
  BY <1>7 DEF HeapInv, trigger, At, tableVars, guardVars, taskVars, history
<1>8. ASSUME NEW t \in Threads, leave(t)
      PROVE  HeapInv'
  <2>1. ReleaseGuard(t) /\ entries' = entries
    BY <1>8 DEF leave
  <2>2. QED
    BY <2>1, Release DEF HeapInv, TypeOK
<1>9. ASSUME NEW c \in Clients, startTask(c)
      PROVE  HeapInv'
  BY <1>9 DEF HeapInv, startTask, At, tableVars, guardVars, history
<1>10. ASSUME NEW c \in Clients, setHandle(c)
      PROVE  HeapInv'
  BY <1>10 DEF HeapInv, setHandle, At, tableVars, guardVars, taskVars, locals, history
<1>11. ASSUME NEW c \in Clients, cancel(c)
      PROVE  HeapInv'
  BY <1>11 DEF HeapInv, cancel, At, tableVars, guardVars, locals, history
<1>12. ASSUME NEW c \in Clients, cancelWait(c)
      PROVE  HeapInv'
  BY <1>12 DEF HeapInv, cancelWait, At, tableVars, guardVars, taskVars, locals
<1>13. ASSUME NEW c \in Clients, clearSwap(c)
      PROVE  HeapInv'
  <2>1. Install(Empty) /\ deferred' = deferred
    BY <1>13 DEF clearSwap, guardVars
  <2>2. QED
    BY <2>1, NewTable, EmptyTable DEF HeapInv, TypeOK
<1>14. ASSUME NEW c \in Clients, visibleBarrier(c)
      PROVE  HeapInv'
  BY <1>14 DEF HeapInv, visibleBarrier, At, tableVars, taskVars, locals, history
<1>15. ASSUME NEW c \in Clients, barrierWait(c)
      PROVE  HeapInv'
  BY <1>15 DEF HeapInv, barrierWait, At, tableVars, guardVars, taskVars, locals, history
<1>16. ASSUME NEW c \in Clients, NEW k \in Keys, sweep(c, k)
      PROVE  HeapInv'
  BY <1>16 DEF HeapInv, sweep, At, Absent, tableVars, guardVars, taskVars, history
<1>17. ASSUME NEW c \in Clients, clearEnd(c)
      PROVE  HeapInv'
  <2>1. Owning(c)
    BY <1>17 DEF clearEnd, At, Owning, ControlInv, Edits, Cancels, Sweeps, TypeOK, Operations,
                Threads
  <2>2. QED
    BY <1>17, <2>1 DEF clearEnd, guardVars, HeapInv, OwnInv, TypeOK
<1>18. ASSUME NEW t \in Tasks, setProgress(t)
      PROVE  HeapInv'
  BY <1>18 DEF HeapInv, setProgress, At, tableVars, guardVars, locals, history
<1>19. ASSUME NEW t \in Tasks, storeExecuting(t)
      PROVE  HeapInv'
  BY <1>19 DEF HeapInv, storeExecuting, At, tableVars, guardVars, locals, history
<1>20. ASSUME NEW t \in Tasks, setError(t)
      PROVE  HeapInv'
  BY <1>20 DEF HeapInv, setError, At, tableVars, guardVars, locals, history
<1>21. ASSUME NEW t \in Tasks, setFinished(t)
      PROVE  HeapInv'
  BY <1>21 DEF HeapInv, setFinished, At, tableVars, guardVars, locals, history
<1>22. ASSUME NEW t \in Tasks, loadState(t)
      PROVE  HeapInv'
  BY <1>22 DEF HeapInv, loadState, At, tableVars, guardVars, taskVars, locals, history
<1>23. ASSUME NEW t \in Tasks, storeFinished(t)
      PROVE  HeapInv'
  BY <1>23 DEF HeapInv, storeFinished, At, tableVars, guardVars, locals, history
<1>24. ASSUME NEW t \in Tasks, finishedBackgroundJob(t)
      PROVE  HeapInv'
  BY <1>24 DEF HeapInv, finishedBackgroundJob, At, tableVars, guardVars, locals
<1>25. ASSUME NEW c \in Clients, threadFails(c)
      PROVE  HeapInv'
  BY <1>25 DEF HeapInv, threadFails, locals, At, tableVars, guardVars, history
<1>26. ASSUME NEW t \in Tasks, catchCancellation(t)
      PROVE  HeapInv'
  BY <1>26 DEF HeapInv, catchCancellation, At, tableVars, guardVars, locals, history
<1>27. QED
  BY <1>1, <1>2, <1>3, <1>4, <1>5, <1>6, <1>7, <1>8, <1>9, <1>10, <1>11, <1>12, <1>13,
     <1>14, <1>15, <1>16, <1>17, <1>18, <1>19, <1>20, <1>21, <1>22, <1>23, <1>24,
     <1>25, <1>26 DEF Next,
     client, task, access, Threads

\* Nobody else frees or reuses the table that clear has taken over.
LEMMA OwnStep ==
    ASSUME TypeOK, ControlInv, MutateInv, HeapInv, OwnInv, Next
    PROVE  OwnInv'
<1>1. ASSUME NEW c \in Clients, NEW o \in Operations, NEW k \in Keys, call(c, o, k)
      PROVE  OwnInv'
  BY <1>1, RestCollectionAssumption DEF OwnInv, Owning, TypeOK, ControlInv, Threads, Edits,
     Cancels, Sweeps, Runs, call, Goto, tableVars, guardVars, taskVars
<1>2. ASSUME NEW c \in Clients, watchElements(c)
      PROVE  OwnInv'
  BY <1>2, RestCollectionAssumption DEF OwnInv, Owning, TypeOK, ControlInv, Threads, Edits,
     Cancels, Sweeps, Runs, watchElements, tableVars, guardVars, taskVars, history
<1>3. ASSUME NEW t \in Threads, lockMutate(t)
      PROVE  OwnInv'
  BY <1>3, RestCollectionAssumption DEF OwnInv, Owning, TypeOK, ControlInv, Threads, Edits,
     Cancels, Sweeps, Runs, lockMutate, At, Goto, tableVars, taskVars, history
<1>4. ASSUME NEW t \in Threads, readEntries(t)
      PROVE  OwnInv'
  BY <1>4, RestCollectionAssumption DEF OwnInv, Owning, TypeOK, ControlInv, Threads, Edits,
     Cancels, Sweeps, Runs, readEntries, At, Goto, tableVars, taskVars, history
<1>5. ASSUME NEW t \in Threads, useEntries(t)
      PROVE  OwnInv'
  <2>1. /\ UNCHANGED <<entries, ptr, op>> /\ \A d \in Threads \ {t} : pc'[d] = pc[d]
        /\ op[t] # "clear"
    BY <1>5 DEF useEntries, At, Goto, TypeOK, Threads, ControlInv, Sweeps, Cancels
  <2>2. \/ ReleaseGuard(t)
        \/ UNCHANGED <<heap, deferred>>
    BY <1>5 DEF useEntries
  <2>3. QED
    BY <2>1, <2>2, Release DEF OwnInv, Owning, TypeOK, Threads
<1>6. ASSUME NEW t \in Threads, cmp_xchg(t)
      PROVE  OwnInv'
  <2>1. /\ UNCHANGED <<ptr, op>> /\ \A d \in Threads \ {t} : pc'[d] = pc[d]
        /\ op[t] # "clear"
    BY <1>6 DEF cmp_xchg, At, Goto, TypeOK, Threads, ControlInv, Sweeps, Cancels, locals
  <2>2. CASE entries = ptr[t]
    <3>1. Edited(t) \in Tables
      BY <1>6, EditedTable DEF cmp_xchg, At
    <3>2. Install(Edited(t)) /\ deferred' = deferred \cup {entries}
      BY <1>6, <2>2 DEF cmp_xchg, Defer
    <3>3. QED
      BY <2>1, <3>1, <3>2, NewTable DEF OwnInv, Owning, TypeOK, Threads
  <2>3. CASE entries # ptr[t]
    BY <1>6, <2>1, <2>3 DEF cmp_xchg, tableVars, OwnInv, Owning, Threads
  <2>4. QED
    BY <2>2, <2>3
<1>7. ASSUME NEW t \in Threads, trigger(t)
      PROVE  OwnInv'
  BY <1>7, RestCollectionAssumption DEF OwnInv, Owning, TypeOK, ControlInv, Threads, Edits,
     Cancels, Sweeps, Runs, trigger, At, Goto, tableVars, guardVars, taskVars, history
<1>8. ASSUME NEW t \in Threads, leave(t)
      PROVE  OwnInv'
  <2>1. /\ ReleaseGuard(t) /\ entries' = entries /\ op'[t] # "clear"
        /\ \A d \in Threads \ {t} : pc'[d] = pc[d] /\ ptr'[d] = ptr[d] /\ op'[d] = op[d]
    BY <1>8 DEF leave, Goto, TypeOK
  <2>2. QED
    BY <2>1, Release DEF OwnInv, Owning, TypeOK, Threads
<1>9. ASSUME NEW c \in Clients, startTask(c)
      PROVE  OwnInv'
  BY <1>9, RestCollectionAssumption DEF OwnInv, Owning, TypeOK, ControlInv, Threads, Edits,
     Cancels, Sweeps, Runs, startTask, At, tableVars, guardVars, history
<1>10. ASSUME NEW c \in Clients, setHandle(c)
      PROVE  OwnInv'
  BY <1>10, RestCollectionAssumption DEF OwnInv, Owning, TypeOK, ControlInv, Threads, Edits,
     Cancels, Sweeps, Runs, setHandle, At, Goto, tableVars, guardVars, taskVars, locals,
     history
<1>11. ASSUME NEW c \in Clients, cancel(c)
      PROVE  OwnInv'
  BY <1>11, RestCollectionAssumption DEF OwnInv, Owning, TypeOK, ControlInv, Threads, Edits,
     Cancels, Sweeps, Runs, cancel, At, Goto, tableVars, guardVars, locals, history
<1>12. ASSUME NEW c \in Clients, cancelWait(c)
      PROVE  OwnInv'
  BY <1>12, RestCollectionAssumption DEF OwnInv, Owning, TypeOK, ControlInv, Threads, Edits,
     Cancels, Sweeps, Runs, cancelWait, At, Goto, tableVars, guardVars, taskVars, locals
<1>13. ASSUME NEW c \in Clients, clearSwap(c)
      PROVE  OwnInv'
  <2>1. Install(Empty) /\ UNCHANGED <<deferred, op>> /\ ptr'[c] = entries
        /\ \A d \in Clients \ {c} : pc'[d] = pc[d] /\ ptr'[d] = ptr[d]
    BY <1>13 DEF clearSwap, guardVars, Goto, TypeOK, Threads
  <2>2. QED
    BY <2>1, NewTable, EmptyTable DEF OwnInv, Owning, HeapInv, TypeOK, Threads
<1>14. ASSUME NEW c \in Clients, visibleBarrier(c)
      PROVE  OwnInv'
  BY <1>14, RestCollectionAssumption DEF OwnInv, Owning, TypeOK, ControlInv, Threads, Edits,
     Cancels, Sweeps, Runs, visibleBarrier, At, Goto, tableVars, taskVars, locals, history
<1>15. ASSUME NEW c \in Clients, barrierWait(c)
      PROVE  OwnInv'
  BY <1>15, RestCollectionAssumption DEF OwnInv, Owning, TypeOK, ControlInv, Threads, Edits,
     Cancels, Sweeps, Runs, barrierWait, At, Goto, tableVars, guardVars, taskVars, locals,
     history
<1>16. ASSUME NEW c \in Clients, NEW k \in Keys, sweep(c, k)
      PROVE  OwnInv'
  BY <1>16, RestCollectionAssumption DEF OwnInv, Owning, TypeOK, ControlInv, Threads, Edits,
     Cancels, Sweeps, Runs, sweep, At, Absent, Goto, tableVars, guardVars, taskVars, history
<1>17. ASSUME NEW c \in Clients, clearEnd(c)
      PROVE  OwnInv'
  <2>1. /\ \A d \in Clients : Owning(d) => d = c
        /\ ~Owning(c)' /\ \A d \in Clients : Owning(d)' => Owning(d)
    BY <1>17 DEF clearEnd, At, Goto, Owning, ControlInv, Edits, Cancels, Sweeps, TypeOK,
       Operations,
                Threads, MutateInv, Mutators, locals
  <2>2. QED
    BY <2>1 DEF OwnInv
<1>18. ASSUME NEW t \in Tasks, setProgress(t)
      PROVE  OwnInv'
  BY <1>18, RestCollectionAssumption DEF OwnInv, Owning, TypeOK, ControlInv, Threads, Edits,
     Cancels, Sweeps, Runs, setProgress, At, Goto, tableVars, guardVars, locals, history
<1>19. ASSUME NEW t \in Tasks, storeExecuting(t)
      PROVE  OwnInv'
  BY <1>19, RestCollectionAssumption DEF OwnInv, Owning, TypeOK, ControlInv, Threads, Edits,
     Cancels, Sweeps, Runs, storeExecuting, At, Goto, tableVars, guardVars, locals, history
<1>20. ASSUME NEW t \in Tasks, setError(t)
      PROVE  OwnInv'
  BY <1>20, RestCollectionAssumption DEF OwnInv, Owning, TypeOK, ControlInv, Threads, Edits,
     Cancels, Sweeps, Runs, setError, At, Goto, tableVars, guardVars, locals, history
<1>21. ASSUME NEW t \in Tasks, setFinished(t)
      PROVE  OwnInv'
  BY <1>21, RestCollectionAssumption DEF OwnInv, Owning, TypeOK, ControlInv, Threads, Edits,
     Cancels, Sweeps, Runs, setFinished, At, Goto, tableVars, guardVars, locals, history
<1>22. ASSUME NEW t \in Tasks, loadState(t)
      PROVE  OwnInv'
  BY <1>22, RestCollectionAssumption DEF OwnInv, Owning, TypeOK, ControlInv, Threads, Edits,
     Cancels, Sweeps, Runs, loadState, At, Goto, tableVars, guardVars, taskVars, locals,
     history
<1>23. ASSUME NEW t \in Tasks, storeFinished(t)
      PROVE  OwnInv'
  BY <1>23, RestCollectionAssumption DEF OwnInv, Owning, TypeOK, ControlInv, Threads, Edits,
     Cancels, Sweeps, Runs, storeFinished, At, Goto, tableVars, guardVars, locals, history
<1>24. ASSUME NEW t \in Tasks, finishedBackgroundJob(t)
      PROVE  OwnInv'
  BY <1>24, RestCollectionAssumption DEF OwnInv, Owning, TypeOK, ControlInv, Threads, Edits,
     Cancels, Sweeps, Runs, finishedBackgroundJob, At, Goto, tableVars, guardVars, locals
<1>25. ASSUME NEW c \in Clients, threadFails(c)
      PROVE  OwnInv'
  BY <1>25, RestCollectionAssumption DEF OwnInv, Owning, TypeOK, ControlInv, Threads, Edits,
     Cancels, Sweeps, Runs, threadFails, locals, At, tableVars, guardVars, history
<1>26. ASSUME NEW t \in Tasks, catchCancellation(t)
      PROVE  OwnInv'
  BY <1>26, RestCollectionAssumption DEF OwnInv, Owning, TypeOK, ControlInv, Threads, Edits,
     Cancels, Sweeps, Runs, catchCancellation, At, Goto, tableVars, guardVars, locals, history
<1>27. QED
  BY <1>1, <1>2, <1>3, <1>4, <1>5, <1>6, <1>7, <1>8, <1>9, <1>10, <1>11, <1>12, <1>13,
     <1>14, <1>15, <1>16, <1>17, <1>18, <1>19, <1>20, <1>21, <1>22, <1>23, <1>24,
     <1>25, <1>26 DEF Next,
     client, task, access, Threads

\* The release of a guard does not free a table that another thread looks at.
LEMMA ReleaseKeepsGuards ==
    ASSUME TypeOK, HeapInv, OwnInv, GuardInv, NEW t \in Threads, ReleaseGuard(t),
           entries' = entries, pc[t] \notin {"barrier", "barrierWait"},
           pc'[t] \notin {"use", "cmp_xchg", "start"},
           \A d \in Threads \ {t} : /\ pc'[d] = pc[d] /\ ptr'[d] = ptr[d] /\ op'[d] = op[d]
                                    /\ base'[d] = base[d]
    PROVE  GuardInv'
<1>1. ASSUME NEW u \in Threads \ {t}, pc[u] \in {"use", "cmp_xchg"}
      PROVE  Guards(u)' /\ heap'[ptr[u]] = heap[ptr[u]]
  <2>1. ptr[u] \in Addrs /\ Guards(u) /\ u \in inside
    BY <1>1 DEF GuardInv
  <2>2. CASE ptr[u] = entries
    BY <2>1, <2>2, <1>1, Release DEF Guards, HeapInv
  <2>3. CASE ptr[u] \in deferred /\ u \in waits[ptr[u]]
    BY <2>1, <2>3, <1>1, Release DEF Guards
  <2>4. CASE \E c \in Clients : /\ op[c] = "clear" /\ ptr[c] = ptr[u]
                                /\ \/ pc[c] = "barrier"
                                   \/ pc[c] = "barrierWait" /\ u \in waits[ptr[u]]
    <3>1. PICK c \in Clients : /\ op[c] = "clear" /\ ptr[c] = ptr[u]
                               /\ \/ pc[c] = "barrier"
                                  \/ pc[c] = "barrierWait" /\ u \in waits[ptr[u]]
      BY <2>4
    <3>2. ptr[c] \notin deferred /\ c # t
      BY <3>1 DEF OwnInv, Owning, Sweeps
    <3>3. QED
      BY <1>1, <2>1, <3>1, <3>2, Release DEF Guards, Threads
  <2>5. QED
    BY <2>1, <2>2, <2>3, <2>4 DEF Guards
<1>2. QED
  BY <1>1, Release DEF GuardInv

\* Whoever frees a table waits for the guards of those that look at it.
LEMMA GuardStep ==
    ASSUME TypeOK, ControlInv, MutateInv, HeapInv, OwnInv, GuardInv, FreshInv, Next
    PROVE  GuardInv'
<1>1. ASSUME NEW c \in Clients, NEW o \in Operations, NEW k \in Keys, call(c, o, k)
      PROVE  GuardInv'
  <2>1. /\ UNCHANGED <<entries, heap, deferred, waits, inside, ptr, base>>
        /\ pc[c] = "idle" /\ pc'[c] \in {"read", "lock"}
        /\ \A d \in Threads \ {c} : pc'[d] = pc[d]
        /\ \A d \in Clients \ {c} : op'[d] = op[d]
    BY <1>1, RestCollectionAssumption
       DEF call, MayCall, At, Goto, tableVars, guardVars, TypeOK, Threads
  <2>2. QED
    BY <2>1 DEF GuardInv, Guards, Threads
<1>2. ASSUME NEW c \in Clients, watchElements(c)
      PROVE  GuardInv'
  BY <1>2, RestCollectionAssumption DEF GuardInv, Guards, TypeOK, ControlInv, Threads,
     Edits, Cancels, Sweeps, Runs, watchElements, tableVars, guardVars, taskVars, history
<1>3. ASSUME NEW t \in Threads, lockMutate(t)
      PROVE  GuardInv'
  BY <1>3, RestCollectionAssumption DEF GuardInv, Guards, TypeOK, ControlInv, Threads,
     Edits, Cancels, Sweeps, Runs, lockMutate, At, Goto, tableVars, taskVars, history
<1>4. ASSUME NEW t \in Threads, readEntries(t)
      PROVE  GuardInv'
  BY <1>4, RestCollectionAssumption DEF GuardInv, Guards, TypeOK, ControlInv, Threads,
     Edits, Cancels, Sweeps, Runs, readEntries, At, Goto, tableVars, taskVars, history
<1>5. ASSUME NEW t \in Threads, useEntries(t)
      PROVE  GuardInv'
  <2>1. /\ UNCHANGED <<entries, ptr, op>> /\ pc[t] = "use"
        /\ \A d \in Threads \ {t} : pc'[d] = pc[d] /\ base'[d] = base[d]
        /\ op[t] # "clear" /\ t \in inside /\ ptr[t] \in Addrs /\ Guards(t)
    BY <1>5 DEF useEntries, At, Goto, TypeOK, Threads, ControlInv, Sweeps, Cancels, GuardInv
  <2>2. CASE op[t] = "cancel" /\ ~Refused(t)
    <3>1. ReleaseGuard(t) /\ pc'[t] = "cancel"
      BY <1>5, <2>2 DEF useEntries, Goto, TypeOK
    <3>2. QED
      BY <2>1, <3>1, ReleaseKeepsGuards
  <2>3. CASE op[t] # "cancel" \/ Refused(t)
    <3>1. /\ UNCHANGED <<heap, deferred, waits>> /\ inside' = inside \cup {t}
          /\ \/ pc' = [pc EXCEPT ![t] = "leave"] /\ base' = base
             \/ /\ pc' = [pc EXCEPT ![t] = "cmp_xchg"]
                /\ base' = [base EXCEPT ![t] = heap[ptr[t]]]
      BY <1>5, <2>3 DEF useEntries, Goto
    <3>2. \/ pc'[t] = "leave" /\ base'[t] = base[t]
          \/ pc'[t] = "cmp_xchg" /\ base'[t] = heap[ptr[t]]
      BY <3>1 DEF TypeOK
    <3>3. QED
      BY <2>1, <3>1, <3>2 DEF GuardInv, Guards, Threads
  <2>4. QED
    BY <2>2, <2>3
<1>6. ASSUME NEW t \in Threads, cmp_xchg(t)
      PROVE  GuardInv'
  <2>1. /\ UNCHANGED <<ptr, op, inside, base>> /\ pc[t] = "cmp_xchg" /\ op[t] # "clear"
        /\ \A d \in Threads \ {t} : pc'[d] = pc[d]
        /\ t \in inside
    BY <1>6 DEF cmp_xchg, At, Goto, TypeOK, Threads, ControlInv, Sweeps, Cancels, locals,
       GuardInv
  <2>2. CASE entries = ptr[t]
    <3>1. Edited(t) \in Tables
      BY <1>6, EditedTable DEF cmp_xchg, At
    <3>2. /\ Install(Edited(t)) /\ deferred' = deferred \cup {entries}
          /\ waits' = [waits EXCEPT ![entries] = inside]
          /\ pc'[t] \in {"start", "event"}
      BY <1>6, <2>2 DEF cmp_xchg, Defer, Goto, TypeOK
    <3>3. /\ entries' # entries /\ heap[entries'] = None
          /\ heap' = [heap EXCEPT ![entries'] = Edited(t)]
      BY <3>1, <3>2, NewTable
    <3>4. ASSUME NEW u \in Threads \ {t}, pc[u] \in {"use", "cmp_xchg"}
          PROVE  Guards(u)'
      <4>1. ptr[u] \in Addrs /\ Guards(u) /\ u \in inside
        BY <3>4 DEF GuardInv
      <4>2. CASE ptr[u] = entries
        BY <2>1, <3>2, <4>1, <4>2 DEF Guards, TypeOK
      <4>3. CASE ptr[u] \in deferred /\ u \in waits[ptr[u]]
        BY <2>1, <3>2, <4>1, <4>3 DEF Guards, TypeOK, HeapInv
      <4>4. CASE \E c \in Clients : /\ op[c] = "clear" /\ ptr[c] = ptr[u]
                                    /\ \/ pc[c] = "barrier"
                                       \/ pc[c] = "barrierWait" /\ u \in waits[ptr[u]]
        <5>1. PICK c \in Clients : /\ op[c] = "clear" /\ ptr[c] = ptr[u]
                                   /\ \/ pc[c] = "barrier"
                                      \/ pc[c] = "barrierWait" /\ u \in waits[ptr[u]]
          BY <4>4
        <5>2. ptr[c] # entries /\ c # t
          BY <2>1, <5>1 DEF OwnInv, Owning, Sweeps
        <5>3. QED
          BY <2>1, <3>2, <4>1, <5>1, <5>2 DEF Guards, TypeOK, Threads
      <4>5. QED
        BY <4>1, <4>2, <4>3, <4>4 DEF Guards
    <3>5. ASSUME NEW u \in Threads \ {t}, pc[u] = "cmp_xchg"
          PROVE  heap'[ptr[u]] = base[u]
      <4>1. heap[ptr[u]] # None
        BY <3>5, TableAtHand, EmptyTable
      <4>2. QED
        BY <3>3, <3>5, <4>1 DEF GuardInv, TypeOK
    <3>6. QED
      BY <2>1, <3>2, <3>4, <3>5 DEF GuardInv
  <2>3. CASE entries # ptr[t]
    <3>1. UNCHANGED <<entries, heap, deferred, waits>> /\ pc'[t] = "read"
      BY <1>6, <2>3 DEF cmp_xchg, tableVars, Goto, TypeOK
    <3>2. QED
      BY <2>1, <3>1 DEF GuardInv, Guards, Threads
  <2>4. QED
    BY <2>2, <2>3
<1>7. ASSUME NEW t \in Threads, trigger(t)
      PROVE  GuardInv'
  BY <1>7, RestCollectionAssumption DEF GuardInv, Guards, TypeOK, ControlInv, Threads,
     Edits, Cancels, Sweeps, Runs, trigger, At, Goto, tableVars, guardVars, taskVars,
     history
<1>8. ASSUME NEW t \in Threads, leave(t)
      PROVE  GuardInv'
  <2>1. /\ ReleaseGuard(t) /\ entries' = entries /\ pc[t] = "leave"
        /\ pc'[t] \in {"idle", "done"}
        /\ \A d \in Threads \ {t} : /\ pc'[d] = pc[d] /\ ptr'[d] = ptr[d] /\ op'[d] = op[d]
                                    /\ base'[d] = base[d]
    BY <1>8 DEF leave, At, Goto, TypeOK
  <2>2. QED
    BY <2>1, ReleaseKeepsGuards
<1>9. ASSUME NEW c \in Clients, startTask(c)
      PROVE  GuardInv'
  <2>1. /\ UNCHANGED <<entries, heap, deferred, waits, inside, ptr, op, base>>
        /\ pc'[c] = "setHandle" /\ pc'[obj[c]] = "fn" /\ pc[c] = "start"
        /\ pc[obj[c]] = "none"
        /\ \A d \in Threads \ {c, obj[c]} : pc'[d] = pc[d]
    <3>1. op[c] = "addBackgroundJob" /\ obj[c] \in Tasks /\ pc[c] = "start"
      BY <1>9 DEF startTask, At, ControlInv, Edits, Cancels, Sweeps, Creators, TypeOK, Threads,
                  Operations
    <3>2. QED
      BY <1>9, <3>1, RestCollectionAssumption
         DEF startTask, tableVars, guardVars, TypeOK, Threads, FreshInv, Creating, Creators
  <2>2. QED
    BY <2>1 DEF GuardInv, Guards, Threads
<1>10. ASSUME NEW c \in Clients, setHandle(c)
      PROVE  GuardInv'
  BY <1>10, RestCollectionAssumption DEF GuardInv, Guards, TypeOK, ControlInv, Threads,
     Edits, Cancels, Sweeps, Runs, setHandle, At, Goto, tableVars, guardVars, taskVars,
     locals, history
<1>11. ASSUME NEW c \in Clients, cancel(c)
      PROVE  GuardInv'
  BY <1>11, RestCollectionAssumption DEF GuardInv, Guards, TypeOK, ControlInv, Threads,
     Edits, Cancels, Sweeps, Runs, cancel, At, Goto, tableVars, guardVars, locals, history
<1>12. ASSUME NEW c \in Clients, cancelWait(c)
      PROVE  GuardInv'
  BY <1>12, RestCollectionAssumption DEF GuardInv, Guards, TypeOK, ControlInv, Threads,
     Edits, Cancels, Sweeps, Runs, cancelWait, At, Goto, tableVars, guardVars, taskVars,
     locals
<1>13. ASSUME NEW c \in Clients, clearSwap(c)
      PROVE  GuardInv'
  <2>1. /\ Install(Empty) /\ UNCHANGED <<deferred, op, waits, inside>> /\ ptr'[c] = entries
        /\ pc[c] = "swap" /\ pc'[c] = "barrier" /\ op[c] = "clear"
        /\ \A d \in Threads \ {c} : pc'[d] = pc[d] /\ ptr'[d] = ptr[d] /\ base'[d] = base[d]
    BY <1>13 DEF clearSwap, guardVars, At, Goto, TypeOK, Threads, ControlInv, Edits, Cancels,
                Operations
  <2>2. /\ entries' # entries /\ heap[entries'] = None
        /\ heap' = [heap EXCEPT ![entries'] = Empty]
    BY <2>1, NewTable, EmptyTable
  <2>3. ASSUME NEW u \in Threads, u # c, pc[u] \in {"use", "cmp_xchg"}
        PROVE  Guards(u)'
    BY <2>1, <2>3 DEF GuardInv, Guards, Threads
  <2>4. ASSUME NEW u \in Threads, u # c, pc[u] = "cmp_xchg"
        PROVE  heap'[ptr[u]] = base[u]
    <3>1. heap[ptr[u]] # None
      BY <2>4, TableAtHand, EmptyTable
    <3>2. QED
      BY <2>2, <2>4, <3>1 DEF GuardInv, TypeOK
  <2>5. QED
    BY <2>1, <2>3, <2>4 DEF GuardInv
<1>14. ASSUME NEW c \in Clients, visibleBarrier(c)
      PROVE  GuardInv'
  <2>1. /\ UNCHANGED <<entries, heap, deferred, inside, ptr, op, base>>
        /\ pc[c] = "barrier" /\ pc'[c] = "barrierWait" /\ op[c] = "clear"
        /\ waits' = [waits EXCEPT ![ptr[c]] = inside]
        /\ \A d \in Threads \ {c} : pc'[d] = pc[d]
    BY <1>14 DEF visibleBarrier, tableVars, locals, At, Goto, TypeOK, Threads, ControlInv,
       Edits,
                Cancels, Operations
  <2>2. ptr[c] \in Addrs /\ ptr[c] \notin deferred
    BY <2>1 DEF OwnInv, Owning, Sweeps
  <2>3. QED
    BY <2>1, <2>2 DEF GuardInv, Guards, TypeOK, Threads
<1>15. ASSUME NEW c \in Clients, barrierWait(c)
      PROVE  GuardInv'
  <2>1. /\ UNCHANGED <<entries, heap, deferred, waits, inside, ptr, op, base>>
        /\ pc[c] = "barrierWait" /\ pc'[c] = "sweep" /\ waits[ptr[c]] = {}
        /\ \A d \in Threads \ {c} : pc'[d] = pc[d]
    BY <1>15 DEF barrierWait, tableVars, guardVars, locals, At, Goto, TypeOK, Threads
  <2>2. QED
    BY <2>1 DEF GuardInv, Guards, Threads
<1>16. ASSUME NEW c \in Clients, NEW k \in Keys, sweep(c, k)
      PROVE  GuardInv'
  BY <1>16, RestCollectionAssumption DEF GuardInv, Guards, TypeOK, ControlInv, Threads,
     Edits, Cancels, Sweeps, Runs, sweep, At, Absent, Goto, tableVars, guardVars, taskVars,
     history
<1>17. ASSUME NEW c \in Clients, clearEnd(c)
      PROVE  GuardInv'
  <2>1. /\ UNCHANGED <<entries, deferred, waits, inside, ptr, op, base>>
        /\ pc[c] = "sweep" /\ pc'[c] = "leave" /\ op[c] = "clear"
        /\ heap' = [heap EXCEPT ![ptr[c]] = None]
        /\ \A d \in Threads \ {c} : pc'[d] = pc[d]
    BY <1>17 DEF clearEnd, guardVars, locals, At, Goto, TypeOK, Threads, ControlInv, Edits,
                Cancels, Operations
  <2>2. \A d \in Clients \ {c} : ~Owning(d)
    BY <2>1 DEF Owning, MutateInv, Mutators, Sweeps, Threads
  <2>3. ASSUME NEW u \in Threads, pc[u] \in {"use", "cmp_xchg"}
        PROVE  Guards(u)' /\ ptr[u] # ptr[c]
    BY <2>1, <2>2, <2>3 DEF GuardInv, Guards, OwnInv, Owning, Sweeps, Threads
  <2>4. QED
    BY <2>1, <2>3 DEF GuardInv, TypeOK
<1>18. ASSUME NEW t \in Tasks, setProgress(t)
      PROVE  GuardInv'
  BY <1>18, RestCollectionAssumption DEF GuardInv, Guards, TypeOK, ControlInv, Threads,
     Edits, Cancels, Sweeps, Runs, setProgress, At, Goto, tableVars, guardVars, locals,
     history
<1>19. ASSUME NEW t \in Tasks, storeExecuting(t)
      PROVE  GuardInv'
  BY <1>19, RestCollectionAssumption DEF GuardInv, Guards, TypeOK, ControlInv, Threads,
     Edits, Cancels, Sweeps, Runs, storeExecuting, At, Goto, tableVars, guardVars, locals,
     history
<1>20. ASSUME NEW t \in Tasks, setError(t)
      PROVE  GuardInv'
  BY <1>20, RestCollectionAssumption DEF GuardInv, Guards, TypeOK, ControlInv, Threads,
     Edits, Cancels, Sweeps, Runs, setError, At, Goto, tableVars, guardVars, locals, history
<1>21. ASSUME NEW t \in Tasks, setFinished(t)
      PROVE  GuardInv'
  BY <1>21, RestCollectionAssumption DEF GuardInv, Guards, TypeOK, ControlInv, Threads,
     Edits, Cancels, Sweeps, Runs, setFinished, At, Goto, tableVars, guardVars, locals,
     history
<1>22. ASSUME NEW t \in Tasks, loadState(t)
      PROVE  GuardInv'
  BY <1>22, RestCollectionAssumption DEF GuardInv, Guards, TypeOK, ControlInv, Threads,
     Edits, Cancels, Sweeps, Runs, loadState, At, Goto, tableVars, guardVars, taskVars,
     locals, history
<1>23. ASSUME NEW t \in Tasks, storeFinished(t)
      PROVE  GuardInv'
  BY <1>23, RestCollectionAssumption DEF GuardInv, Guards, TypeOK, ControlInv, Threads,
     Edits, Cancels, Sweeps, Runs, storeFinished, At, Goto, tableVars, guardVars, locals,
     history
<1>24. ASSUME NEW t \in Tasks, finishedBackgroundJob(t)
      PROVE  GuardInv'
  BY <1>24, RestCollectionAssumption DEF GuardInv, Guards, TypeOK, ControlInv, Threads,
     Edits, Cancels, Sweeps, Runs, finishedBackgroundJob, At, Goto, tableVars, guardVars,
     locals
<1>25. ASSUME NEW c \in Clients, threadFails(c)
      PROVE  GuardInv'
  <2>1. /\ UNCHANGED <<entries, heap, deferred, waits, inside, ptr, op, base>>
        /\ pc'[c] = "leave" /\ pc'[obj[c]] = "failed" /\ pc[c] = "start"
        /\ pc[obj[c]] = "none"
        /\ \A d \in Threads \ {c, obj[c]} : pc'[d] = pc[d]
    <3>1. op[c] = "addBackgroundJob" /\ obj[c] \in Tasks /\ pc[c] = "start"
      BY <1>25 DEF threadFails, At, ControlInv, Edits, Cancels, Sweeps, Creators, TypeOK, Threads,
                  Operations
    <3>2. QED
      BY <1>25, <3>1, RestCollectionAssumption
         DEF threadFails, locals, tableVars, guardVars, TypeOK, Threads, FreshInv, Creating, Creators
  <2>2. QED
    BY <2>1 DEF GuardInv, Guards, Threads
<1>26. ASSUME NEW t \in Tasks, catchCancellation(t)
      PROVE  GuardInv'
  BY <1>26, RestCollectionAssumption DEF GuardInv, Guards, TypeOK, ControlInv, Threads,
     Edits, Cancels, Sweeps, Runs, catchCancellation, At, Goto, tableVars, guardVars, locals,
     history
<1>27. QED
  BY <1>1, <1>2, <1>3, <1>4, <1>5, <1>6, <1>7, <1>8, <1>9, <1>10, <1>11, <1>12, <1>13,
     <1>14, <1>15, <1>16, <1>17, <1>18, <1>19, <1>20, <1>21, <1>22, <1>23, <1>24,
     <1>25, <1>26 DEF Next,
     client, task, access, Threads

\* An object has one creator until its thread begins.
LEMMA FreshStep ==
    ASSUME TypeOK, ControlInv, FreshInv, Next
    PROVE  FreshInv'
<1>1. ASSUME NEW c \in Clients, NEW o \in Operations, NEW k \in Keys, call(c, o, k)
      PROVE  FreshInv'
  BY <1>1, RestCollectionAssumption DEF FreshInv, Creating, Creators, TypeOK, ControlInv,
     Threads, Edits, Cancels, Sweeps, Runs, call, Goto, tableVars, guardVars, taskVars
<1>2. ASSUME NEW c \in Clients, watchElements(c)
      PROVE  FreshInv'
  BY <1>2, RestCollectionAssumption DEF FreshInv, Creating, Creators, TypeOK, ControlInv,
     Threads, Edits, Cancels, Sweeps, Runs, watchElements, tableVars, guardVars, taskVars,
     history
<1>3. ASSUME NEW t \in Threads, lockMutate(t)
      PROVE  FreshInv'
  BY <1>3, RestCollectionAssumption DEF FreshInv, Creating, Creators, TypeOK, ControlInv,
     Threads, Edits, Cancels, Sweeps, Runs, lockMutate, At, Goto, tableVars, taskVars,
     history
<1>4. ASSUME NEW t \in Threads, readEntries(t)
      PROVE  FreshInv'
  BY <1>4, RestCollectionAssumption DEF FreshInv, Creating, Creators, TypeOK, ControlInv,
     Threads, Edits, Cancels, Sweeps, Runs, readEntries, At, Goto, tableVars, taskVars,
     history
<1>5. ASSUME NEW t \in Threads, useEntries(t)
      PROVE  FreshInv'
  BY <1>5, RestCollectionAssumption DEF FreshInv, Creating, Creators, TypeOK, ControlInv,
     Threads, Edits, Cancels, Sweeps, Runs, useEntries, At, Goto, taskVars, history
<1>6. ASSUME NEW t \in Threads, cmp_xchg(t)
      PROVE  FreshInv'
  BY <1>6, RestCollectionAssumption DEF FreshInv, Creating, Creators, TypeOK, ControlInv,
     Threads, Edits, Cancels, Sweeps, Runs, cmp_xchg, At, Goto, tableVars, taskVars, locals
<1>7. ASSUME NEW t \in Threads, trigger(t)
      PROVE  FreshInv'
  <2>1. /\ op' = op /\ made' = made
        /\ pc[t] = "event" /\ pc'[t] \in {"cancel", "leave"}
        /\ \A u \in Threads \ {t} : pc'[u] = pc[u] /\ obj'[u] = obj[u]
    BY <1>7 DEF TypeOK, trigger, At, Goto, history
  <2>2. \A u \in Threads : pc[u] = "none" => pc'[u] = "none"
    BY <2>1
  <2>3. \A c \in Clients : Creating(c)' => Creating(c) /\ obj'[c] = obj[c]
    BY <2>1 DEF Creating, Threads
  <2>4. \A c \in Clients : Creating(c) => obj[c] \in Tasks
    BY DEF ControlInv, Creating
  <2>5. QED
    BY <2>1, <2>2, <2>3, <2>4 DEF FreshInv, Threads
<1>8. ASSUME NEW t \in Threads, leave(t)
      PROVE  FreshInv'
  BY <1>8, RestCollectionAssumption DEF FreshInv, Creating, Creators, TypeOK, ControlInv,
     Threads, Edits, Cancels, Sweeps, Runs, leave, At, Goto, Empty, Absent
<1>9. ASSUME NEW c \in Clients, startTask(c)
      PROVE  FreshInv'
  <2>1. op[c] = "addBackgroundJob" /\ obj[c] \in Tasks /\ pc[c] = "start"
    BY <1>9 DEF startTask, At, ControlInv, Edits, Cancels, Sweeps, Creators, TypeOK, Threads,
                Operations
  <2>2. /\ UNCHANGED <<op, made>> /\ pc'[c] = "setHandle"
        /\ \A d \in Threads \ {c, obj[c]} : pc'[d] = pc[d] /\ obj'[d] = obj[d]
    BY <1>9, <2>1, RestCollectionAssumption DEF startTask, history, TypeOK, Threads
  <2>3. QED
    BY <2>1, <2>2, RestCollectionAssumption DEF FreshInv, Creating, Creators, Threads,
       ControlInv
<1>10. ASSUME NEW c \in Clients, setHandle(c)
      PROVE  FreshInv'
  BY <1>10, RestCollectionAssumption DEF FreshInv, Creating, Creators, TypeOK, ControlInv,
     Threads, Edits, Cancels, Sweeps, Runs, setHandle, At, Goto, tableVars, guardVars,
     taskVars, locals, history
<1>11. ASSUME NEW c \in Clients, cancel(c)
      PROVE  FreshInv'
  BY <1>11, RestCollectionAssumption DEF FreshInv, Creating, Creators, TypeOK, ControlInv,
     Threads, Edits, Cancels, Sweeps, Runs, cancel, At, Goto, tableVars, guardVars, locals,
     history
<1>12. ASSUME NEW c \in Clients, cancelWait(c)
      PROVE  FreshInv'
  BY <1>12, RestCollectionAssumption DEF FreshInv, Creating, Creators, TypeOK, ControlInv,
     Threads, Edits, Cancels, Sweeps, Runs, cancelWait, At, Goto, tableVars, guardVars,
     taskVars, locals
<1>13. ASSUME NEW c \in Clients, clearSwap(c)
      PROVE  FreshInv'
  BY <1>13, RestCollectionAssumption DEF FreshInv, Creating, Creators, TypeOK, ControlInv,
     Threads, Edits, Cancels, Sweeps, Runs, clearSwap, At, Empty, Absent, Goto, guardVars,
     taskVars, history
<1>14. ASSUME NEW c \in Clients, visibleBarrier(c)
      PROVE  FreshInv'
  BY <1>14, RestCollectionAssumption DEF FreshInv, Creating, Creators, TypeOK, ControlInv,
     Threads, Edits, Cancels, Sweeps, Runs, visibleBarrier, At, Goto, tableVars, taskVars,
     locals, history
<1>15. ASSUME NEW c \in Clients, barrierWait(c)
      PROVE  FreshInv'
  BY <1>15, RestCollectionAssumption DEF FreshInv, Creating, Creators, TypeOK, ControlInv,
     Threads, Edits, Cancels, Sweeps, Runs, barrierWait, At, Goto, tableVars, guardVars,
     taskVars, locals, history
<1>16. ASSUME NEW c \in Clients, NEW k \in Keys, sweep(c, k)
      PROVE  FreshInv'
  <2>1. /\ op' = op /\ made' = made
        /\ pc[c] = "sweep" /\ pc'[c] \in {"sweep", "cancel"}
        /\ \A u \in Threads \ {c} : pc'[u] = pc[u] /\ obj'[u] = obj[u]
    BY <1>16 DEF TypeOK, sweep, At, Goto, history
  <2>2. \A u \in Threads : pc[u] = "none" => pc'[u] = "none"
    BY <2>1
  <2>3. \A d \in Clients : Creating(d)' => Creating(d) /\ obj'[d] = obj[d]
    BY <2>1 DEF Creating, Threads
  <2>4. \A d \in Clients : Creating(d) => obj[d] \in Tasks
    BY DEF ControlInv, Creating
  <2>5. QED
    BY <2>1, <2>2, <2>3, <2>4 DEF FreshInv, Threads
<1>17. ASSUME NEW c \in Clients, clearEnd(c)
      PROVE  FreshInv'
  BY <1>17, RestCollectionAssumption DEF FreshInv, Creating, Creators, TypeOK, ControlInv,
     Threads, Edits, Cancels, Sweeps, Runs, clearEnd, At, Empty, Absent, Goto, guardVars,
     taskVars, locals, history
<1>18. ASSUME NEW t \in Tasks, setProgress(t)
      PROVE  FreshInv'
  BY <1>18, RestCollectionAssumption DEF FreshInv, Creating, Creators, TypeOK, ControlInv,
     Threads, Edits, Cancels, Sweeps, Runs, setProgress, At, Goto, tableVars, guardVars,
     locals, history
<1>19. ASSUME NEW t \in Tasks, storeExecuting(t)
      PROVE  FreshInv'
  BY <1>19, RestCollectionAssumption DEF FreshInv, Creating, Creators, TypeOK, ControlInv,
     Threads, Edits, Cancels, Sweeps, Runs, storeExecuting, At, Goto, tableVars, guardVars,
     locals, history
<1>20. ASSUME NEW t \in Tasks, setError(t)
      PROVE  FreshInv'
  BY <1>20, RestCollectionAssumption DEF FreshInv, Creating, Creators, TypeOK, ControlInv,
     Threads, Edits, Cancels, Sweeps, Runs, setError, At, Goto, tableVars, guardVars,
     locals, history
<1>21. ASSUME NEW t \in Tasks, setFinished(t)
      PROVE  FreshInv'
  BY <1>21, RestCollectionAssumption DEF FreshInv, Creating, Creators, TypeOK, ControlInv,
     Threads, Edits, Cancels, Sweeps, Runs, setFinished, At, Goto, tableVars, guardVars,
     locals, history
<1>22. ASSUME NEW t \in Tasks, loadState(t)
      PROVE  FreshInv'
  BY <1>22, RestCollectionAssumption DEF FreshInv, Creating, Creators, TypeOK, ControlInv,
     Threads, Edits, Cancels, Sweeps, Runs, loadState, At, Goto, tableVars, guardVars,
     taskVars, locals, history
<1>23. ASSUME NEW t \in Tasks, storeFinished(t)
      PROVE  FreshInv'
  BY <1>23, RestCollectionAssumption DEF FreshInv, Creating, Creators, TypeOK, ControlInv,
     Threads, Edits, Cancels, Sweeps, Runs, storeFinished, At, Goto, tableVars, guardVars,
     locals, history
<1>24. ASSUME NEW t \in Tasks, finishedBackgroundJob(t)
      PROVE  FreshInv'
  BY <1>24, RestCollectionAssumption DEF FreshInv, Creating, Creators, TypeOK, ControlInv,
     Threads, Edits, Cancels, Sweeps, Runs, finishedBackgroundJob, At, Goto, tableVars,
     guardVars, locals
<1>25. ASSUME NEW c \in Clients, threadFails(c)
      PROVE  FreshInv'
  <2>1. op[c] = "addBackgroundJob" /\ obj[c] \in Tasks /\ pc[c] = "start"
    BY <1>25 DEF threadFails, At, ControlInv, Edits, Cancels, Sweeps, Creators, TypeOK, Threads,
                Operations
  <2>2. /\ UNCHANGED <<op, made>> /\ pc'[c] = "leave"
        /\ \A d \in Threads \ {c, obj[c]} : pc'[d] = pc[d] /\ obj'[d] = obj[d]
    BY <1>25, <2>1, RestCollectionAssumption DEF threadFails, locals, history, TypeOK, Threads
  <2>3. QED
    BY <2>1, <2>2, RestCollectionAssumption DEF FreshInv, Creating, Creators, Threads,
       ControlInv
<1>26. ASSUME NEW t \in Tasks, catchCancellation(t)
      PROVE  FreshInv'
  BY <1>26, RestCollectionAssumption DEF FreshInv, Creating, Creators, TypeOK, ControlInv,
     Threads, Edits, Cancels, Sweeps, Runs, catchCancellation, At, Goto, tableVars, guardVars,
     locals, history
<1>27. QED
  BY <1>1, <1>2, <1>3, <1>4, <1>5, <1>6, <1>7, <1>8, <1>9, <1>10, <1>11, <1>12, <1>13,
     <1>14, <1>15, <1>16, <1>17, <1>18, <1>19, <1>20, <1>21, <1>22, <1>23, <1>24,
     <1>25, <1>26 DEF Next,
     client, task, access, Threads

\* A thread that has begun never returns to where it was before.
LEMMA BegunStep ==
    ASSUME TypeOK, ControlInv, Next
    PROVE  \A v \in Tasks : pc[v] # "none" => pc'[v] # "none"
<1>1. ASSUME NEW c \in Clients, NEW o \in Operations, NEW k \in Keys, call(c, o, k)
      PROVE  \A v \in Tasks : pc[v] # "none" => pc'[v] # "none"
  BY <1>1, RestCollectionAssumption DEF TypeOK, Threads, call, Goto
<1>2. ASSUME NEW c \in Clients, watchElements(c)
      PROVE  \A v \in Tasks : pc[v] # "none" => pc'[v] # "none"
  BY <1>2, RestCollectionAssumption DEF TypeOK, Threads, watchElements
<1>3. ASSUME NEW t \in Threads, lockMutate(t)
      PROVE  \A v \in Tasks : pc[v] # "none" => pc'[v] # "none"
  BY <1>3, RestCollectionAssumption DEF TypeOK, Threads, lockMutate, At, Goto
<1>4. ASSUME NEW t \in Threads, readEntries(t)
      PROVE  \A v \in Tasks : pc[v] # "none" => pc'[v] # "none"
  BY <1>4, RestCollectionAssumption DEF TypeOK, Threads, readEntries, At, Goto
<1>5. ASSUME NEW t \in Threads, useEntries(t)
      PROVE  \A v \in Tasks : pc[v] # "none" => pc'[v] # "none"
  BY <1>5, RestCollectionAssumption DEF TypeOK, Threads, useEntries, At, Goto
<1>6. ASSUME NEW t \in Threads, cmp_xchg(t)
      PROVE  \A v \in Tasks : pc[v] # "none" => pc'[v] # "none"
  BY <1>6, RestCollectionAssumption DEF TypeOK, Threads, cmp_xchg, At, Goto
<1>7. ASSUME NEW t \in Threads, trigger(t)
      PROVE  \A v \in Tasks : pc[v] # "none" => pc'[v] # "none"
  BY <1>7, RestCollectionAssumption DEF TypeOK, Threads, trigger, At, Goto
<1>8. ASSUME NEW t \in Threads, leave(t)
      PROVE  \A v \in Tasks : pc[v] # "none" => pc'[v] # "none"
  BY <1>8, RestCollectionAssumption DEF TypeOK, Threads, leave, At, Goto, Empty, Absent
<1>9. ASSUME NEW c \in Clients, startTask(c)
      PROVE  \A v \in Tasks : pc[v] # "none" => pc'[v] # "none"
  <2>1. op[c] = "addBackgroundJob" /\ obj[c] \in Tasks
    BY <1>9 DEF startTask, At, ControlInv, Edits, Cancels, Sweeps, Creators, TypeOK, Threads,
                Operations
  <2>2. QED
    BY <1>9, <2>1, RestCollectionAssumption DEF startTask, TypeOK, Threads
<1>10. ASSUME NEW c \in Clients, setHandle(c)
      PROVE  \A v \in Tasks : pc[v] # "none" => pc'[v] # "none"
  BY <1>10, RestCollectionAssumption DEF TypeOK, Threads, setHandle, At, Goto
<1>11. ASSUME NEW c \in Clients, cancel(c)
      PROVE  \A v \in Tasks : pc[v] # "none" => pc'[v] # "none"
  BY <1>11, RestCollectionAssumption DEF TypeOK, Threads, cancel, At, Goto
<1>12. ASSUME NEW c \in Clients, cancelWait(c)
      PROVE  \A v \in Tasks : pc[v] # "none" => pc'[v] # "none"
  BY <1>12, RestCollectionAssumption DEF TypeOK, Threads, cancelWait, At, Goto
<1>13. ASSUME NEW c \in Clients, clearSwap(c)
      PROVE  \A v \in Tasks : pc[v] # "none" => pc'[v] # "none"
  BY <1>13, RestCollectionAssumption DEF TypeOK, Threads, clearSwap, At, Empty, Absent, Goto
<1>14. ASSUME NEW c \in Clients, visibleBarrier(c)
      PROVE  \A v \in Tasks : pc[v] # "none" => pc'[v] # "none"
  BY <1>14, RestCollectionAssumption DEF TypeOK, Threads, visibleBarrier, At, Goto
<1>15. ASSUME NEW c \in Clients, barrierWait(c)
      PROVE  \A v \in Tasks : pc[v] # "none" => pc'[v] # "none"
  BY <1>15, RestCollectionAssumption DEF TypeOK, Threads, barrierWait, At, Goto
<1>16. ASSUME NEW c \in Clients, NEW k \in Keys, sweep(c, k)
      PROVE  \A v \in Tasks : pc[v] # "none" => pc'[v] # "none"
  BY <1>16, RestCollectionAssumption DEF TypeOK, Threads, sweep, At, Absent, Goto
<1>17. ASSUME NEW c \in Clients, clearEnd(c)
      PROVE  \A v \in Tasks : pc[v] # "none" => pc'[v] # "none"
  BY <1>17, RestCollectionAssumption DEF TypeOK, Threads, clearEnd, At, Empty, Absent, Goto
<1>18. ASSUME NEW t \in Tasks, setProgress(t)
      PROVE  \A v \in Tasks : pc[v] # "none" => pc'[v] # "none"
  BY <1>18, RestCollectionAssumption DEF TypeOK, Threads, setProgress, At, Goto
<1>19. ASSUME NEW t \in Tasks, storeExecuting(t)
      PROVE  \A v \in Tasks : pc[v] # "none" => pc'[v] # "none"
  BY <1>19, RestCollectionAssumption DEF TypeOK, Threads, storeExecuting, At, Goto
<1>20. ASSUME NEW t \in Tasks, setError(t)
      PROVE  \A v \in Tasks : pc[v] # "none" => pc'[v] # "none"
  BY <1>20, RestCollectionAssumption DEF TypeOK, Threads, setError, At, Goto
<1>21. ASSUME NEW t \in Tasks, setFinished(t)
      PROVE  \A v \in Tasks : pc[v] # "none" => pc'[v] # "none"
  BY <1>21, RestCollectionAssumption DEF TypeOK, Threads, setFinished, At, Goto
<1>22. ASSUME NEW t \in Tasks, loadState(t)
      PROVE  \A v \in Tasks : pc[v] # "none" => pc'[v] # "none"
  BY <1>22, RestCollectionAssumption DEF TypeOK, Threads, loadState, At, Goto
<1>23. ASSUME NEW t \in Tasks, storeFinished(t)
      PROVE  \A v \in Tasks : pc[v] # "none" => pc'[v] # "none"
  BY <1>23, RestCollectionAssumption DEF TypeOK, Threads, storeFinished, At, Goto
<1>24. ASSUME NEW t \in Tasks, finishedBackgroundJob(t)
      PROVE  \A v \in Tasks : pc[v] # "none" => pc'[v] # "none"
  BY <1>24, RestCollectionAssumption DEF TypeOK, Threads, finishedBackgroundJob, At, Goto
<1>25. ASSUME NEW c \in Clients, threadFails(c)
      PROVE  \A v \in Tasks : pc[v] # "none" => pc'[v] # "none"
  <2>1. op[c] = "addBackgroundJob" /\ obj[c] \in Tasks
    BY <1>25 DEF threadFails, At, ControlInv, Edits, Cancels, Sweeps, Creators, TypeOK, Threads,
                Operations
  <2>2. QED
    BY <1>25, <2>1, RestCollectionAssumption DEF threadFails, locals, TypeOK, Threads
<1>26. ASSUME NEW t \in Tasks, catchCancellation(t)
      PROVE  \A v \in Tasks : pc[v] # "none" => pc'[v] # "none"
  BY <1>26, RestCollectionAssumption DEF TypeOK, Threads, catchCancellation, At, Goto
<1>27. QED
  BY <1>1, <1>2, <1>3, <1>4, <1>5, <1>6, <1>7, <1>8, <1>9, <1>10, <1>11, <1>12, <1>13,
     <1>14, <1>15, <1>16, <1>17, <1>18, <1>19, <1>20, <1>21, <1>22, <1>23, <1>24,
     <1>25, <1>26 DEF Next,
     client, task, access, Threads

\* A client about to start a thread keeps its guard, and whoever waits for that guard
\* goes on waiting, until the thread has begun.
LEMMA StartStep ==
    ASSUME TypeOK, ControlInv, GuardInv, FreshInv, Next
    PROVE  \A d \in Clients : pc[d] = "start" =>
              \/ pc'[obj[d]] # "none"
              \/ /\ pc'[d] = "start" /\ obj'[d] = obj[d] /\ d \in inside'
                 /\ \A a \in Addrs : d \in waits[a] => d \in waits'[a]
<1>1. ASSUME NEW c \in Clients, NEW o \in Operations, NEW k \in Keys, call(c, o, k)
      PROVE  \A d \in Clients : pc[d] = "start" =>
              \/ pc'[obj[d]] # "none"
              \/ /\ pc'[d] = "start" /\ obj'[d] = obj[d] /\ d \in inside'
                 /\ \A a \in Addrs : d \in waits[a] => d \in waits'[a]
  <2>1. /\ UNCHANGED <<inside, waits>> /\ pc[c] = "idle"
        /\ \A d \in Threads \ {c} : pc'[d] = pc[d] /\ obj'[d] = obj[d]
    BY <1>1 DEF call, MayCall, At, Goto, guardVars, TypeOK, Threads
  <2>2. QED
    BY <2>1 DEF GuardInv, Threads
<1>2. ASSUME NEW c \in Clients, watchElements(c)
      PROVE  \A d \in Clients : pc[d] = "start" =>
              \/ pc'[obj[d]] # "none"
              \/ /\ pc'[d] = "start" /\ obj'[d] = obj[d] /\ d \in inside'
                 /\ \A a \in Addrs : d \in waits[a] => d \in waits'[a]
  BY <1>2, RestCollectionAssumption DEF GuardInv, TypeOK, Threads, watchElements, tableVars,
     guardVars, taskVars, history
<1>3. ASSUME NEW t \in Threads, lockMutate(t)
      PROVE  \A d \in Clients : pc[d] = "start" =>
              \/ pc'[obj[d]] # "none"
              \/ /\ pc'[d] = "start" /\ obj'[d] = obj[d] /\ d \in inside'
                 /\ \A a \in Addrs : d \in waits[a] => d \in waits'[a]
  BY <1>3, RestCollectionAssumption DEF GuardInv, TypeOK, Threads, lockMutate, At, Goto,
     tableVars, taskVars, history
<1>4. ASSUME NEW t \in Threads, readEntries(t)
      PROVE  \A d \in Clients : pc[d] = "start" =>
              \/ pc'[obj[d]] # "none"
              \/ /\ pc'[d] = "start" /\ obj'[d] = obj[d] /\ d \in inside'
                 /\ \A a \in Addrs : d \in waits[a] => d \in waits'[a]
  BY <1>4, RestCollectionAssumption DEF GuardInv, TypeOK, Threads, readEntries, At, Goto,
     tableVars, taskVars, history
<1>5. ASSUME NEW t \in Threads, useEntries(t)
      PROVE  \A d \in Clients : pc[d] = "start" =>
              \/ pc'[obj[d]] # "none"
              \/ /\ pc'[d] = "start" /\ obj'[d] = obj[d] /\ d \in inside'
                 /\ \A a \in Addrs : d \in waits[a] => d \in waits'[a]
  <2>1. /\ pc[t] = "use" /\ \A d \in Threads \ {t} : pc'[d] = pc[d] /\ obj'[d] = obj[d]
    BY <1>5 DEF useEntries, At, Goto, TypeOK
  <2>2. ReleaseGuard(t) \/ (waits' = waits /\ inside' = inside \cup {t})
    <3>1. CASE op[t] = "cancel" /\ ~Refused(t)
      BY <1>5, <3>1 DEF useEntries
    <3>2. CASE op[t] # "cancel" \/ Refused(t)
      BY <1>5, <3>2 DEF useEntries
    <3>3. QED
      BY <3>1, <3>2
  <2>3. QED
    BY <2>1, <2>2, Release DEF GuardInv, Threads
<1>6. ASSUME NEW t \in Threads, cmp_xchg(t)
      PROVE  \A d \in Clients : pc[d] = "start" =>
              \/ pc'[obj[d]] # "none"
              \/ /\ pc'[d] = "start" /\ obj'[d] = obj[d] /\ d \in inside'
                 /\ \A a \in Addrs : d \in waits[a] => d \in waits'[a]
  <2>1. /\ UNCHANGED <<inside, obj>> /\ pc[t] = "cmp_xchg"
        /\ \A d \in Threads \ {t} : pc'[d] = pc[d]
        /\ waits' = waits \/ waits' = [waits EXCEPT ![ptr[t]] = inside]
    BY <1>6 DEF cmp_xchg, Defer, At, Goto, TypeOK, locals
  <2>2. QED
    BY <2>1 DEF GuardInv, TypeOK, Threads
<1>7. ASSUME NEW t \in Threads, trigger(t)
      PROVE  \A d \in Clients : pc[d] = "start" =>
              \/ pc'[obj[d]] # "none"
              \/ /\ pc'[d] = "start" /\ obj'[d] = obj[d] /\ d \in inside'
                 /\ \A a \in Addrs : d \in waits[a] => d \in waits'[a]
  BY <1>7, RestCollectionAssumption DEF GuardInv, TypeOK, Threads, trigger, At, Goto,
     tableVars, guardVars, taskVars, history
<1>8. ASSUME NEW t \in Threads, leave(t)
      PROVE  \A d \in Clients : pc[d] = "start" =>
              \/ pc'[obj[d]] # "none"
              \/ /\ pc'[d] = "start" /\ obj'[d] = obj[d] /\ d \in inside'
                 /\ \A a \in Addrs : d \in waits[a] => d \in waits'[a]
  <2>1. /\ pc[t] = "leave" /\ \A d \in Threads \ {t} : pc'[d] = pc[d] /\ obj'[d] = obj[d]
        /\ ReleaseGuard(t)
    BY <1>8 DEF leave, At, Goto, TypeOK
  <2>2. QED
    BY <2>1, Release DEF GuardInv, Threads
<1>9. ASSUME NEW c \in Clients, startTask(c)
      PROVE  \A d \in Clients : pc[d] = "start" =>
              \/ pc'[obj[d]] # "none"
              \/ /\ pc'[d] = "start" /\ obj'[d] = obj[d] /\ d \in inside'
                 /\ \A a \in Addrs : d \in waits[a] => d \in waits'[a]
  <2>1. op[c] = "addBackgroundJob" /\ obj[c] \in Tasks /\ pc[obj[c]] = "none"
    BY <1>9 DEF startTask, At, ControlInv, Edits, Cancels, Sweeps, Creators, TypeOK, Threads,
                Operations, FreshInv, Creating
  <2>2. /\ UNCHANGED <<inside, waits>> /\ pc'[obj[c]] # "none"
        /\ \A d \in Threads \ {c, obj[c]} : pc'[d] = pc[d] /\ obj'[d] = obj[d]
    BY <1>9, <2>1, RestCollectionAssumption DEF startTask, guardVars, TypeOK, Threads
  <2>3. QED
    BY <2>1, <2>2, RestCollectionAssumption DEF GuardInv, Threads
<1>10. ASSUME NEW c \in Clients, setHandle(c)
      PROVE  \A d \in Clients : pc[d] = "start" =>
              \/ pc'[obj[d]] # "none"
              \/ /\ pc'[d] = "start" /\ obj'[d] = obj[d] /\ d \in inside'
                 /\ \A a \in Addrs : d \in waits[a] => d \in waits'[a]
  BY <1>10, RestCollectionAssumption DEF GuardInv, TypeOK, Threads, setHandle, At, Goto,
     tableVars, guardVars, taskVars, locals, history
<1>11. ASSUME NEW c \in Clients, cancel(c)
      PROVE  \A d \in Clients : pc[d] = "start" =>
              \/ pc'[obj[d]] # "none"
              \/ /\ pc'[d] = "start" /\ obj'[d] = obj[d] /\ d \in inside'
                 /\ \A a \in Addrs : d \in waits[a] => d \in waits'[a]
  BY <1>11, RestCollectionAssumption DEF GuardInv, TypeOK, Threads, cancel, At, Goto,
     tableVars, guardVars, locals, history
<1>12. ASSUME NEW c \in Clients, cancelWait(c)
      PROVE  \A d \in Clients : pc[d] = "start" =>
              \/ pc'[obj[d]] # "none"
              \/ /\ pc'[d] = "start" /\ obj'[d] = obj[d] /\ d \in inside'
                 /\ \A a \in Addrs : d \in waits[a] => d \in waits'[a]
  BY <1>12, RestCollectionAssumption DEF GuardInv, TypeOK, Threads, cancelWait, At, Goto,
     tableVars, guardVars, taskVars, locals
<1>13. ASSUME NEW c \in Clients, clearSwap(c)
      PROVE  \A d \in Clients : pc[d] = "start" =>
              \/ pc'[obj[d]] # "none"
              \/ /\ pc'[d] = "start" /\ obj'[d] = obj[d] /\ d \in inside'
                 /\ \A a \in Addrs : d \in waits[a] => d \in waits'[a]
  BY <1>13, RestCollectionAssumption DEF GuardInv, TypeOK, Threads, clearSwap, At, Empty,
     Absent, Goto, guardVars, taskVars, history
<1>14. ASSUME NEW c \in Clients, visibleBarrier(c)
      PROVE  \A d \in Clients : pc[d] = "start" =>
              \/ pc'[obj[d]] # "none"
              \/ /\ pc'[d] = "start" /\ obj'[d] = obj[d] /\ d \in inside'
                 /\ \A a \in Addrs : d \in waits[a] => d \in waits'[a]
  <2>1. /\ UNCHANGED <<inside, obj>> /\ pc[c] = "barrier"
        /\ \A d \in Threads \ {c} : pc'[d] = pc[d]
        /\ waits' = [waits EXCEPT ![ptr[c]] = inside]
    BY <1>14 DEF visibleBarrier, At, Goto, TypeOK, locals, Threads
  <2>2. QED
    BY <2>1 DEF GuardInv, TypeOK, Threads
<1>15. ASSUME NEW c \in Clients, barrierWait(c)
      PROVE  \A d \in Clients : pc[d] = "start" =>
              \/ pc'[obj[d]] # "none"
              \/ /\ pc'[d] = "start" /\ obj'[d] = obj[d] /\ d \in inside'
                 /\ \A a \in Addrs : d \in waits[a] => d \in waits'[a]
  BY <1>15, RestCollectionAssumption DEF GuardInv, TypeOK, Threads, barrierWait, At, Goto,
     tableVars, guardVars, taskVars, locals, history
<1>16. ASSUME NEW c \in Clients, NEW k \in Keys, sweep(c, k)
      PROVE  \A d \in Clients : pc[d] = "start" =>
              \/ pc'[obj[d]] # "none"
              \/ /\ pc'[d] = "start" /\ obj'[d] = obj[d] /\ d \in inside'
                 /\ \A a \in Addrs : d \in waits[a] => d \in waits'[a]
  BY <1>16, RestCollectionAssumption DEF GuardInv, TypeOK, Threads, sweep, At, Absent, Goto,
     tableVars, guardVars, taskVars, history
<1>17. ASSUME NEW c \in Clients, clearEnd(c)
      PROVE  \A d \in Clients : pc[d] = "start" =>
              \/ pc'[obj[d]] # "none"
              \/ /\ pc'[d] = "start" /\ obj'[d] = obj[d] /\ d \in inside'
                 /\ \A a \in Addrs : d \in waits[a] => d \in waits'[a]
  BY <1>17, RestCollectionAssumption DEF GuardInv, TypeOK, Threads, clearEnd, At, Empty,
     Absent, Goto, guardVars, taskVars, locals, history
<1>18. ASSUME NEW t \in Tasks, setProgress(t)
      PROVE  \A d \in Clients : pc[d] = "start" =>
              \/ pc'[obj[d]] # "none"
              \/ /\ pc'[d] = "start" /\ obj'[d] = obj[d] /\ d \in inside'
                 /\ \A a \in Addrs : d \in waits[a] => d \in waits'[a]
  BY <1>18, RestCollectionAssumption DEF GuardInv, TypeOK, Threads, setProgress, At, Goto,
     tableVars, guardVars, locals, history
<1>19. ASSUME NEW t \in Tasks, storeExecuting(t)
      PROVE  \A d \in Clients : pc[d] = "start" =>
              \/ pc'[obj[d]] # "none"
              \/ /\ pc'[d] = "start" /\ obj'[d] = obj[d] /\ d \in inside'
                 /\ \A a \in Addrs : d \in waits[a] => d \in waits'[a]
  BY <1>19, RestCollectionAssumption DEF GuardInv, TypeOK, Threads, storeExecuting, At,
     Goto, tableVars, guardVars, locals, history
<1>20. ASSUME NEW t \in Tasks, setError(t)
      PROVE  \A d \in Clients : pc[d] = "start" =>
              \/ pc'[obj[d]] # "none"
              \/ /\ pc'[d] = "start" /\ obj'[d] = obj[d] /\ d \in inside'
                 /\ \A a \in Addrs : d \in waits[a] => d \in waits'[a]
  BY <1>20, RestCollectionAssumption DEF GuardInv, TypeOK, Threads, setError, At, Goto,
     tableVars, guardVars, locals, history
<1>21. ASSUME NEW t \in Tasks, setFinished(t)
      PROVE  \A d \in Clients : pc[d] = "start" =>
              \/ pc'[obj[d]] # "none"
              \/ /\ pc'[d] = "start" /\ obj'[d] = obj[d] /\ d \in inside'
                 /\ \A a \in Addrs : d \in waits[a] => d \in waits'[a]
  BY <1>21, RestCollectionAssumption DEF GuardInv, TypeOK, Threads, setFinished, At, Goto,
     tableVars, guardVars, locals, history
<1>22. ASSUME NEW t \in Tasks, loadState(t)
      PROVE  \A d \in Clients : pc[d] = "start" =>
              \/ pc'[obj[d]] # "none"
              \/ /\ pc'[d] = "start" /\ obj'[d] = obj[d] /\ d \in inside'
                 /\ \A a \in Addrs : d \in waits[a] => d \in waits'[a]
  BY <1>22, RestCollectionAssumption DEF GuardInv, TypeOK, Threads, loadState, At, Goto,
     tableVars, guardVars, taskVars, locals, history
<1>23. ASSUME NEW t \in Tasks, storeFinished(t)
      PROVE  \A d \in Clients : pc[d] = "start" =>
              \/ pc'[obj[d]] # "none"
              \/ /\ pc'[d] = "start" /\ obj'[d] = obj[d] /\ d \in inside'
                 /\ \A a \in Addrs : d \in waits[a] => d \in waits'[a]
  BY <1>23, RestCollectionAssumption DEF GuardInv, TypeOK, Threads, storeFinished, At, Goto,
     tableVars, guardVars, locals, history
<1>24. ASSUME NEW t \in Tasks, finishedBackgroundJob(t)
      PROVE  \A d \in Clients : pc[d] = "start" =>
              \/ pc'[obj[d]] # "none"
              \/ /\ pc'[d] = "start" /\ obj'[d] = obj[d] /\ d \in inside'
                 /\ \A a \in Addrs : d \in waits[a] => d \in waits'[a]
  BY <1>24, RestCollectionAssumption DEF GuardInv, TypeOK, Threads, finishedBackgroundJob,
     At, Goto, tableVars, guardVars, locals
<1>25. ASSUME NEW c \in Clients, threadFails(c)
      PROVE  \A d \in Clients : pc[d] = "start" =>
              \/ pc'[obj[d]] # "none"
              \/ /\ pc'[d] = "start" /\ obj'[d] = obj[d] /\ d \in inside'
                 /\ \A a \in Addrs : d \in waits[a] => d \in waits'[a]
  <2>1. op[c] = "addBackgroundJob" /\ obj[c] \in Tasks /\ pc[obj[c]] = "none"
    BY <1>25 DEF threadFails, At, ControlInv, Edits, Cancels, Sweeps, Creators, TypeOK, Threads,
                Operations, FreshInv, Creating
  <2>2. /\ UNCHANGED <<inside, waits>> /\ pc'[obj[c]] # "none"
        /\ \A d \in Threads \ {c, obj[c]} : pc'[d] = pc[d] /\ obj'[d] = obj[d]
    BY <1>25, <2>1, RestCollectionAssumption DEF threadFails, locals, guardVars, TypeOK, Threads
  <2>3. QED
    BY <2>1, <2>2, RestCollectionAssumption DEF GuardInv, Threads
<1>26. ASSUME NEW t \in Tasks, catchCancellation(t)
      PROVE  \A d \in Clients : pc[d] = "start" =>
              \/ pc'[obj[d]] # "none"
              \/ /\ pc'[d] = "start" /\ obj'[d] = obj[d] /\ d \in inside'
                 /\ \A a \in Addrs : d \in waits[a] => d \in waits'[a]
  BY <1>26, RestCollectionAssumption DEF GuardInv, TypeOK, Threads, catchCancellation, At, Goto,
     tableVars, guardVars, locals, history
<1>27. QED
  BY <1>1, <1>2, <1>3, <1>4, <1>5, <1>6, <1>7, <1>8, <1>9, <1>10, <1>11, <1>12, <1>13,
     <1>14, <1>15, <1>16, <1>17, <1>18, <1>19, <1>20, <1>21, <1>22, <1>23, <1>24,
     <1>25, <1>26 DEF Next,
     client, task, access, Threads

\* So a task that has begun or is about to stays that way.
LEMMA StartingStep ==
    ASSUME TypeOK, ControlInv, GuardInv, FreshInv, Next
    PROVE  \A v \in Tasks \cup {None} :
              /\ Begun(v) => Begun(v)'
              /\ Starting(v, inside) => Starting(v, inside)'
              /\ \A a \in Addrs : Starting(v, waits[a]) => Starting(v, waits[a])'
<1>1. \A v \in Tasks : pc[v] # "none" => pc'[v] # "none"
  BY BegunStep
<1>2. \A c \in Clients : pc[c] = "start" =>
              \/ pc'[obj[c]] # "none"
              \/ /\ pc'[c] = "start" /\ obj'[c] = obj[c] /\ c \in inside'
                 /\ \A a \in Addrs : c \in waits[a] => c \in waits'[a]
  BY StartStep
<1>3. QED
  BY <1>1, <1>2 DEF Starting, Begun

\* The entries of the tables at hand have their types.
LEMMA TasksTyped ==
    ASSUME TypeOK
    PROVE  /\ \A a \in Addrs, k \in Keys : heap[a] # None =>
                 /\ heap[a] \in Tables /\ heap[a][k] \in Entry
                 /\ heap[a][k].task \in Tasks \cup {None}
                 /\ heap[a][k].value \in Tasks \cup {None}
           /\ \A t \in Threads, k \in Keys :
                 /\ base[t] \in Tables /\ base[t][k] \in Entry
                 /\ base[t][k].task \in Tasks \cup {None}
                 /\ base[t][k].value \in Tasks \cup {None}
  BY TableEntry DEF TypeOK

\* A task in a table has begun, or its starter holds a guard.
LEMMA TableTaskStep ==
    ASSUME TypeOK, ControlInv, MutateInv, HeapInv, OwnInv, GuardInv, FreshInv, TableTaskInv, Next
    PROVE  TableTaskInv'
<1>1. ASSUME NEW c \in Clients, NEW o \in Operations, NEW k \in Keys, call(c, o, k)
      PROVE  TableTaskInv'
  BY <1>1, StartingStep, TasksTyped DEF TableTaskInv, Starting, Begun, call, tableVars
<1>2. ASSUME NEW c \in Clients, watchElements(c)
      PROVE  TableTaskInv'
  BY <1>2, StartingStep, TasksTyped DEF TableTaskInv, Starting, Begun, watchElements,
     tableVars
<1>3. ASSUME NEW t \in Threads, lockMutate(t)
      PROVE  TableTaskInv'
  BY <1>3, StartingStep, TasksTyped DEF TableTaskInv, Starting, Begun, lockMutate, tableVars
<1>4. ASSUME NEW t \in Threads, readEntries(t)
      PROVE  TableTaskInv'
  BY <1>4, StartingStep, TasksTyped DEF TableTaskInv, Starting, Begun, readEntries,
     tableVars
<1>5. ASSUME NEW t \in Threads, useEntries(t)
      PROVE  TableTaskInv'
  <2>1. /\ ptr[t] \in Addrs /\ heap[ptr[t]] # None
    BY <1>5, TableAtHand, EmptyTable DEF useEntries, At
  <2>2. \A a \in Addrs : heap'[a] # None => heap'[a] = heap[a]
    <3>1. ReleaseGuard(t) \/ heap' = heap
      BY <1>5, Zenon DEF useEntries
    <3>2. QED
      BY <3>1, Release
  <2>3. base' = base \/ base' = [base EXCEPT ![t] = heap[ptr[t]]]
    BY <1>5, Zenon DEF useEntries
  <2>4. \A u \in Threads : base'[u] = base[u] \/ base'[u] = heap[ptr[t]]
    BY <2>3 DEF TypeOK
  <2>5. QED
    BY <2>1, <2>2, <2>4, StartingStep, TasksTyped DEF TableTaskInv, Starting, Begun
<1>6. ASSUME NEW t \in Threads, cmp_xchg(t)
      PROVE  TableTaskInv'
  <2>1. base' = base /\ inside' = inside /\ obj' = obj
    BY <1>6 DEF cmp_xchg, locals
  <2>2. CASE entries = ptr[t]
    <3>1. /\ Edited(t) \in Tables /\ key[t] \in Keys
          /\ \A k \in Keys \ {key[t]} : Edited(t)[k].task = base[t][k].task
          /\ \/ Edited(t)[key[t]].task = None
             \/ op[t] = "addBackgroundJob" /\ Edited(t)[key[t]].task = obj[t]
      <4>1. base[t][key[t]] \in Entry
        BY <1>6, EditedTable, TasksTyped DEF cmp_xchg, At
      <4>2. [base[t][key[t]] EXCEPT !.task = obj[t]].task = obj[t]
        BY <4>1 DEF Entry
      <4>3. Absent.task = None /\ [value |-> obj[t], task |-> None].task = None
        BY DEF Absent
      <4>4. QED
        BY <1>6, <4>2, <4>3, EditedTable DEF cmp_xchg, At
    <3>2. Install(Edited(t))
      BY <1>6, <2>2 DEF cmp_xchg
    <3>3. heap' = [heap EXCEPT ![entries'] = Edited(t)]
      BY <3>1, <3>2, NewTable
    <3>4. \A a \in Addrs : heap'[a] = heap[a] \/ heap'[a] = Edited(t)
      BY <3>3 DEF TypeOK
    <3>5. op[t] = "addBackgroundJob" => t \in Clients /\ t \in inside /\ pc'[t] = "start"
      BY <1>6, <2>2 DEF cmp_xchg, At, Goto, TypeOK, ControlInv, Threads, GuardInv
    <3>6. Starting(None, inside) /\ \A k \in Keys : Starting(base[t][k].task, inside)
      BY DEF TableTaskInv, Starting, Begun
    <3>7. \A k \in Keys : \/ Starting(Edited(t)[k].task, inside)
                          \/ op[t] = "addBackgroundJob" /\ Edited(t)[k].task = obj[t]
      BY <3>1, <3>6 DEF Starting, Begun
    <3>8. \A k \in Keys : Edited(t)[k].task \in Tasks \cup {None}
      BY <3>1, TableEntry
    <3>9. QED
      BY <2>1, <3>4, <3>5, <3>7, <3>8, StartingStep, TasksTyped DEF TableTaskInv, Starting,
         Begun
  <2>3. CASE entries # ptr[t]
    BY <1>6, <2>1, <2>3, StartingStep, TasksTyped
       DEF cmp_xchg, tableVars, TableTaskInv, Starting, Begun
  <2>4. QED
    BY <2>2, <2>3
<1>7. ASSUME NEW t \in Threads, trigger(t)
      PROVE  TableTaskInv'
  BY <1>7, StartingStep, TasksTyped DEF TableTaskInv, Starting, Begun, trigger, tableVars
<1>8. ASSUME NEW t \in Threads, leave(t)
      PROVE  TableTaskInv'
  <2>1. \A a \in Addrs : heap'[a] # None => heap'[a] = heap[a]
    BY <1>8, Release DEF leave
  <2>2. \A u \in Threads : base'[u] = base[u] \/ base'[u] = Empty
    BY <1>8 DEF leave, TypeOK
  <2>3. QED
    BY <2>1, <2>2, StartingStep, TasksTyped, EmptyTable DEF TableTaskInv, Starting, Begun
<1>9. ASSUME NEW c \in Clients, startTask(c)
      PROVE  TableTaskInv'
  <2>1. base' = base /\ heap' = heap
    BY <1>9 DEF startTask, tableVars
  <2>2. QED
    BY <2>1, StartingStep, TasksTyped DEF TableTaskInv, Starting, Begun
<1>10. ASSUME NEW c \in Clients, setHandle(c)
      PROVE  TableTaskInv'
  BY <1>10, StartingStep, TasksTyped DEF TableTaskInv, Starting, Begun, setHandle,
     tableVars, locals
<1>11. ASSUME NEW c \in Clients, cancel(c)
      PROVE  TableTaskInv'
  BY <1>11, StartingStep, TasksTyped DEF TableTaskInv, Starting, Begun, cancel, tableVars,
     locals
<1>12. ASSUME NEW c \in Clients, cancelWait(c)
      PROVE  TableTaskInv'
  BY <1>12, StartingStep, TasksTyped DEF TableTaskInv, Starting, Begun, cancelWait,
     tableVars, locals
<1>13. ASSUME NEW c \in Clients, clearSwap(c)
      PROVE  TableTaskInv'
  <2>1. heap' = [heap EXCEPT ![entries'] = Empty]
    BY <1>13, NewTable, EmptyTable DEF clearSwap
  <2>2. entries \in Addrs /\ heap[entries] # None
    BY DEF HeapInv, TypeOK
  <2>3. /\ \A a \in Addrs : heap'[a] = heap[a] \/ heap'[a] = Empty
        /\ \A u \in Threads : base'[u] = base[u] \/ base'[u] = heap[entries]
    BY <1>13, <2>1 DEF clearSwap, TypeOK
  <2>4. QED
    BY <2>2, <2>3, StartingStep, TasksTyped, EmptyTable DEF TableTaskInv, Starting, Begun
<1>14. ASSUME NEW c \in Clients, visibleBarrier(c)
      PROVE  TableTaskInv'
  BY <1>14, StartingStep, TasksTyped DEF TableTaskInv, Starting, Begun, visibleBarrier,
     tableVars, locals
<1>15. ASSUME NEW c \in Clients, barrierWait(c)
      PROVE  TableTaskInv'
  BY <1>15, StartingStep, TasksTyped DEF TableTaskInv, Starting, Begun, barrierWait,
     tableVars, locals
<1>16. ASSUME NEW c \in Clients, NEW k \in Keys, sweep(c, k)
      PROVE  TableTaskInv'
  <2>1. heap' = heap
    BY <1>16 DEF sweep, tableVars
  <2>2. \A u \in Threads, i \in Keys : base'[u][i] = base[u][i] \/ base'[u][i] = Absent
    BY <1>16 DEF sweep, TypeOK, Tables
  <2>3. Absent.task = None
    BY DEF Absent
  <2>4. QED
    BY <2>1, <2>2, <2>3, StartingStep, TasksTyped DEF TableTaskInv, Starting, Begun
<1>17. ASSUME NEW c \in Clients, clearEnd(c)
      PROVE  TableTaskInv'
  <2>1. base' = base /\ \A a \in Addrs : heap'[a] = None \/ heap'[a] = heap[a]
    BY <1>17 DEF clearEnd, locals, TypeOK
  <2>2. QED
    BY <2>1, StartingStep, TasksTyped DEF TableTaskInv, Starting, Begun
<1>18. ASSUME NEW t \in Tasks, setProgress(t)
      PROVE  TableTaskInv'
  BY <1>18, StartingStep, TasksTyped DEF TableTaskInv, Starting, Begun, setProgress,
     tableVars, locals
<1>19. ASSUME NEW t \in Tasks, storeExecuting(t)
      PROVE  TableTaskInv'
  BY <1>19, StartingStep, TasksTyped DEF TableTaskInv, Starting, Begun, storeExecuting,
     tableVars, locals
<1>20. ASSUME NEW t \in Tasks, setError(t)
      PROVE  TableTaskInv'
  BY <1>20, StartingStep, TasksTyped DEF TableTaskInv, Starting, Begun, setError, tableVars,
     locals
<1>21. ASSUME NEW t \in Tasks, setFinished(t)
      PROVE  TableTaskInv'
  BY <1>21, StartingStep, TasksTyped DEF TableTaskInv, Starting, Begun, setFinished,
     tableVars, locals
<1>22. ASSUME NEW t \in Tasks, loadState(t)
      PROVE  TableTaskInv'
  BY <1>22, StartingStep, TasksTyped DEF TableTaskInv, Starting, Begun, loadState,
     tableVars, locals
<1>23. ASSUME NEW t \in Tasks, storeFinished(t)
      PROVE  TableTaskInv'
  BY <1>23, StartingStep, TasksTyped DEF TableTaskInv, Starting, Begun, storeFinished,
     tableVars, locals
<1>24. ASSUME NEW t \in Tasks, finishedBackgroundJob(t)
      PROVE  TableTaskInv'
  BY <1>24, StartingStep, TasksTyped DEF TableTaskInv, Starting, Begun,
     finishedBackgroundJob, tableVars, locals
<1>25. ASSUME NEW c \in Clients, threadFails(c)
      PROVE  TableTaskInv'
  <2>1. base' = base /\ heap' = heap
    BY <1>25 DEF threadFails, locals, tableVars
  <2>2. QED
    BY <2>1, StartingStep, TasksTyped DEF TableTaskInv, Starting, Begun
<1>26. ASSUME NEW t \in Tasks, catchCancellation(t)
      PROVE  TableTaskInv'
  BY <1>26, StartingStep, TasksTyped DEF TableTaskInv, Starting, Begun, catchCancellation,
     tableVars, locals
<1>27. QED
  BY <1>1, <1>2, <1>3, <1>4, <1>5, <1>6, <1>7, <1>8, <1>9, <1>10, <1>11, <1>12, <1>13,
     <1>14, <1>15, <1>16, <1>17, <1>18, <1>19, <1>20, <1>21, <1>22, <1>23, <1>24,
     <1>25, <1>26 DEF Next,
     client, task, access, Threads

\* Once the barrier of clear has returned, the tasks it stops have begun.
LEMMA ClearTaskStep ==
    ASSUME TypeOK, ControlInv, MutateInv, HeapInv, OwnInv, GuardInv, FreshInv, TableTaskInv, ClearTaskInv, Next
    PROVE  ClearTaskInv'
<1>0. /\ \A c \in Clients, k \in Keys :
            /\ Begun(base[c][k].task) =>
                  base[c][k].task = None \/ pc'[base[c][k].task] # "none"
            /\ op[c] = "clear" /\ pc[c] = "barrierWait" /\ Starting(base[c][k].task, waits[ptr[c]]) =>
                  \/ base[c][k].task = None \/ pc'[base[c][k].task] # "none"
                  \/ \E d \in Clients \cap waits'[ptr[c]] :
                        pc'[d] = "start" /\ obj'[d] = base[c][k].task
      /\ \A c \in Clients : pc[c] \in Cancels /\ Begun(obj[c]) => pc'[obj[c]] # "none"
  <2>1. \A c \in Clients, k \in Keys : base[c][k].task \in Tasks \cup {None}
    BY TasksTyped DEF Threads
  <2>2. \A c \in Clients : /\ pc[c] \in Cancels => obj[c] \in Tasks
                           /\ op[c] = "clear" /\ pc[c] = "barrierWait" => ptr[c] \in Addrs
    BY DEF ControlInv, OwnInv, Owning, Sweeps
  <2>3. None \notin Tasks
    BY RestCollectionAssumption DEF Threads
  <2>4. QED
    BY <2>1, <2>2, <2>3, StartingStep DEF Begun, Starting
<1>1. ASSUME NEW c \in Clients, NEW o \in Operations, NEW k \in Keys, call(c, o, k)
      PROVE  ClearTaskInv'
  <2>1. /\ UNCHANGED <<ptr, base>> /\ pc'[c] \in {"read", "lock"}
        /\ \A d \in Clients \ {c} : pc'[d] = pc[d] /\ obj'[d] = obj[d] /\ op'[d] = op[d]
    BY <1>1, RestCollectionAssumption DEF call, Goto, TypeOK, Threads
  <2>2. QED
    BY <2>1, <1>0 DEF ClearTaskInv, Starting, Begun, Cancels
<1>2. ASSUME NEW c \in Clients, watchElements(c)
      PROVE  ClearTaskInv'
  BY <1>2, <1>0, RestCollectionAssumption DEF ClearTaskInv, Starting, Begun, TypeOK,
     Threads, Cancels, watchElements
<1>3. ASSUME NEW t \in Threads, lockMutate(t)
      PROVE  ClearTaskInv'
  BY <1>3, <1>0, RestCollectionAssumption DEF ClearTaskInv, Starting, Begun, TypeOK,
     Threads, Cancels, lockMutate, At, Goto
<1>4. ASSUME NEW t \in Threads, readEntries(t)
      PROVE  ClearTaskInv'
  BY <1>4, <1>0, RestCollectionAssumption DEF ClearTaskInv, Starting, Begun, TypeOK,
     Threads, Cancels, readEntries, At, Goto
<1>5. ASSUME NEW t \in Threads, useEntries(t)
      PROVE  ClearTaskInv'
  <2>1. /\ UNCHANGED <<op, ptr>> /\ op[t] # "clear"
        /\ \A d \in Clients \ {t} : pc'[d] = pc[d] /\ base'[d] = base[d] /\ obj'[d] = obj[d]
    BY <1>5 DEF useEntries, At, Goto, TypeOK, Threads, ControlInv, Sweeps, Cancels
  <2>2. QED
    BY <2>1, <1>0 DEF ClearTaskInv, Starting, Begun
<1>6. ASSUME NEW t \in Threads, cmp_xchg(t)
      PROVE  ClearTaskInv'
  <2>1. /\ UNCHANGED <<op, ptr, base, obj>> /\ op[t] # "clear"
        /\ \A d \in Clients \ {t} : pc'[d] = pc[d]
    BY <1>6 DEF cmp_xchg, At, Goto, TypeOK, Threads, ControlInv, Sweeps, Cancels, locals
  <2>2. QED
    BY <2>1, <1>0 DEF ClearTaskInv, Starting, Begun
<1>7. ASSUME NEW t \in Threads, trigger(t)
      PROVE  ClearTaskInv'
  <2>1. t \in Clients => op[t] # "clear"
    BY <1>7 DEF trigger, At, ControlInv, Sweeps, Cancels
  <2>2. /\ UNCHANGED <<op, ptr, base>>
        /\ \A d \in Clients \ {t} : pc'[d] = pc[d] /\ obj'[d] = obj[d]
    BY <1>7 DEF trigger, At, Goto, TypeOK, Threads
  <2>3. QED
    BY <2>1, <2>2, <1>0 DEF ClearTaskInv, Starting, Begun
<1>8. ASSUME NEW t \in Threads, leave(t)
      PROVE  ClearTaskInv'
  <2>1. /\ op'[t] # "clear"
        /\ \A d \in Clients \ {t} : /\ pc'[d] = pc[d] /\ base'[d] = base[d] /\ obj'[d] = obj[d]
                                    /\ op'[d] = op[d] /\ ptr'[d] = ptr[d]
    BY <1>8 DEF leave, Goto, TypeOK, Threads
  <2>2. QED
    BY <2>1, <1>0 DEF ClearTaskInv, Starting, Begun
<1>9. ASSUME NEW c \in Clients, startTask(c)
      PROVE  ClearTaskInv'
  <2>1. obj[c] \in Tasks /\ op[c] # "clear"
    BY <1>9 DEF startTask, At, ControlInv, Edits, Cancels, Sweeps, Creators, TypeOK, Threads,
                Operations
  <2>2. /\ UNCHANGED <<op, ptr, base>>
        /\ \A d \in Clients \ {c} : pc'[d] = pc[d] /\ obj'[d] = obj[d]
    BY <1>9, <2>1, RestCollectionAssumption DEF startTask, TypeOK, Threads
  <2>3. QED
    BY <2>1, <2>2, <1>0 DEF ClearTaskInv, Starting, Begun
<1>10. ASSUME NEW c \in Clients, setHandle(c)
      PROVE  ClearTaskInv'
  BY <1>10, <1>0, RestCollectionAssumption DEF ClearTaskInv, Starting, Begun, TypeOK,
     Threads, Cancels, setHandle, At, Goto, locals
<1>11. ASSUME NEW c \in Clients, cancel(c)
      PROVE  ClearTaskInv'
  <2>1. /\ UNCHANGED <<op, base, obj, ptr>> /\ pc[c] = "cancel" /\ pc'[c] = "cancelWait"
        /\ \A d \in Clients \ {c} : pc'[d] = pc[d]
    BY <1>11 DEF cancel, locals, At, Goto, TypeOK, Threads
  <2>2. QED
    BY <2>1, <1>0 DEF ClearTaskInv, Starting, Begun, Cancels
<1>12. ASSUME NEW c \in Clients, cancelWait(c)
      PROVE  ClearTaskInv'
  <2>1. /\ UNCHANGED <<op, base, obj, ptr>> /\ pc[c] = "cancelWait"
        /\ pc'[c] \in {"sweep", "leave"}
        /\ \A d \in Clients \ {c} : pc'[d] = pc[d]
    BY <1>12 DEF cancelWait, locals, At, Goto, TypeOK, Threads
  <2>2. QED
    BY <2>1, <1>0 DEF ClearTaskInv, Starting, Begun, Cancels
<1>13. ASSUME NEW c \in Clients, clearSwap(c)
      PROVE  ClearTaskInv'
  <2>1. /\ op' = op /\ pc'[c] = "barrier"
        /\ \A d \in Clients \ {c} : /\ pc'[d] = pc[d] /\ base'[d] = base[d] /\ obj'[d] = obj[d]
                                    /\ ptr'[d] = ptr[d]
    BY <1>13 DEF clearSwap, Goto, TypeOK, Threads
  <2>2. QED
    BY <2>1, <1>0 DEF ClearTaskInv, Starting, Begun, Cancels
<1>14. ASSUME NEW c \in Clients, visibleBarrier(c)
      PROVE  ClearTaskInv'
  <2>1. /\ UNCHANGED <<op, base, obj, ptr>> /\ pc'[c] = "barrierWait" /\ op[c] = "clear"
        /\ \A d \in Clients \ {c} : pc'[d] = pc[d]
        /\ waits' = [waits EXCEPT ![ptr[c]] = inside] /\ inside' = inside
        /\ ptr[c] \in Addrs
    BY <1>14 DEF visibleBarrier, locals, At, Goto, TypeOK, Threads, ControlInv, Edits,
                Cancels, Operations, OwnInv, Owning, Sweeps
  <2>2. waits'[ptr[c]] = inside'
    BY <2>1 DEF TypeOK
  <2>3. \A k \in Keys : Starting(base[c][k].task, waits[ptr[c]])'
    <3>1. \A k \in Keys : Starting(base[c][k].task, inside)'
      BY <2>1, TableTaskStep DEF TableTaskInv, Threads
    <3>2. QED
      BY <2>1, <2>2, <3>1 DEF Starting
  <2>4. QED
    BY <2>1, <2>3, <1>0 DEF ClearTaskInv, Starting, Begun, Cancels
<1>15. ASSUME NEW c \in Clients, barrierWait(c)
      PROVE  ClearTaskInv'
  <2>1. /\ UNCHANGED <<op, base, obj, ptr>> /\ pc[c] = "barrierWait" /\ pc'[c] = "sweep"
        /\ \A d \in Clients \ {c} : pc'[d] = pc[d]
        /\ waits[ptr[c]] = {}
    BY <1>15 DEF barrierWait, locals, At, Goto, TypeOK, Threads
  <2>2. op[c] = "clear" => \A k \in Keys : Begun(base[c][k].task)
    BY <2>1 DEF ClearTaskInv, Starting
  <2>3. QED
    BY <2>1, <2>2, <1>0 DEF ClearTaskInv, Starting, Begun, Cancels
<1>16. ASSUME NEW c \in Clients, NEW k \in Keys, sweep(c, k)
      PROVE  ClearTaskInv'
  <2>1. /\ UNCHANGED <<op, ptr>> /\ pc[c] = "sweep"
        /\ \A d \in Clients \ {c} : pc'[d] = pc[d] /\ base'[d] = base[d] /\ obj'[d] = obj[d]
        /\ \A i \in Keys : base'[c][i] = base[c][i] \/ base'[c][i] = Absent
        /\ pc'[c] = "sweep" \/ (pc'[c] = "cancel" /\ obj'[c] = base[c][k].task)
    <3>1. /\ UNCHANGED <<op, ptr>> /\ pc[c] = "sweep"
          /\ \A d \in Clients \ {c} : pc'[d] = pc[d] /\ obj'[d] = obj[d]
          /\ \/ pc'[c] = "cancel" /\ obj'[c] = base[c][k].task /\ obj'[c] # None
             \/ pc'[c] = "sweep" /\ obj'[c] = obj[c]
      BY <1>16 DEF sweep, Goto, TypeOK, Threads, At
    <3>2. /\ \A d \in Clients \ {c} : base'[d] = base[d]
          /\ base'[c] = [base[c] EXCEPT ![k] = Absent]
      BY <1>16 DEF sweep, TypeOK, Threads
    <3>3. base[c] \in [Keys -> Entry]
      BY DEF TypeOK, Threads, Tables
    <3>4. QED
      BY <3>1, <3>2, <3>3
  <2>2. Absent.task = None
    BY DEF Absent
  <2>3. ASSUME op[c] = "clear"
        PROVE  /\ \A i \in Keys : Begun(base[c][i].task)'
               /\ pc'[c] = "cancel" => Begun(obj[c])'
    BY <2>1, <2>2, <2>3, <1>0 DEF ClearTaskInv, Begun
  <2>4. QED
    BY <2>1, <2>3, <1>0 DEF ClearTaskInv, Starting, Begun, Cancels
<1>17. ASSUME NEW c \in Clients, clearEnd(c)
      PROVE  ClearTaskInv'
  <2>1. /\ op' = op /\ base' = base /\ obj' = obj /\ ptr' = ptr /\ waits' = waits
        /\ pc[c] = "sweep" /\ pc'[c] = "leave"
        /\ \A u \in Threads \ {c} : pc'[u] = pc[u]
    BY <1>17 DEF TypeOK, Threads, clearEnd, At, Goto, locals, guardVars
  <2>2. \A d \in Clients : pc'[d] \in {"barrierWait", "sweep"} \cup Cancels => pc'[d] = pc[d]
    BY <2>1 DEF Threads, Cancels
  <2>3. QED
    BY <2>1, <2>2, <1>0 DEF ClearTaskInv, Starting, Begun, Cancels
<1>18. ASSUME NEW t \in Tasks, setProgress(t)
      PROVE  ClearTaskInv'
  <2>1. /\ op' = op /\ base' = base /\ obj' = obj /\ ptr' = ptr /\ waits' = waits
        /\ pc[t] = "fn" /\ pc'[t] = "storeExecuting"
        /\ \A u \in Threads \ {t} : pc'[u] = pc[u]
    BY <1>18 DEF TypeOK, Threads, setProgress, At, Goto, locals, guardVars
  <2>2. QED
    BY <2>1, <1>0, RestCollectionAssumption DEF ClearTaskInv, Starting, Begun, Threads, Cancels
<1>19. ASSUME NEW t \in Tasks, storeExecuting(t)
      PROVE  ClearTaskInv'
  BY <1>19, <1>0, RestCollectionAssumption DEF ClearTaskInv, Starting, Begun, TypeOK,
     Threads, Cancels, storeExecuting, At, Goto, locals
<1>20. ASSUME NEW t \in Tasks, setError(t)
      PROVE  ClearTaskInv'
  BY <1>20, <1>0, RestCollectionAssumption DEF ClearTaskInv, Starting, Begun, TypeOK,
     Threads, Cancels, setError, At, Goto, locals
<1>21. ASSUME NEW t \in Tasks, setFinished(t)
      PROVE  ClearTaskInv'
  BY <1>21, <1>0, RestCollectionAssumption DEF ClearTaskInv, Starting, Begun, TypeOK,
     Threads, Cancels, setFinished, At, Goto, locals
<1>22. ASSUME NEW t \in Tasks, loadState(t)
      PROVE  ClearTaskInv'
  BY <1>22, <1>0, RestCollectionAssumption DEF ClearTaskInv, Starting, Begun, TypeOK,
     Threads, Cancels, loadState, At, Goto, locals
<1>23. ASSUME NEW t \in Tasks, storeFinished(t)
      PROVE  ClearTaskInv'
  BY <1>23, <1>0, RestCollectionAssumption DEF ClearTaskInv, Starting, Begun, TypeOK,
     Threads, Cancels, storeFinished, At, Goto, locals
<1>24. ASSUME NEW t \in Tasks, finishedBackgroundJob(t)
      PROVE  ClearTaskInv'
  BY <1>24, <1>0, RestCollectionAssumption DEF ClearTaskInv, Starting, Begun, TypeOK,
     Threads, Cancels, finishedBackgroundJob, At, Goto, locals
<1>25. ASSUME NEW c \in Clients, threadFails(c)
      PROVE  ClearTaskInv'
  <2>1. obj[c] \in Tasks /\ op[c] # "clear"
    BY <1>25 DEF threadFails, At, ControlInv, Edits, Cancels, Sweeps, Creators, TypeOK, Threads,
                Operations
  <2>2. /\ UNCHANGED <<op, ptr, base>>
        /\ \A d \in Clients \ {c} : pc'[d] = pc[d] /\ obj'[d] = obj[d]
    BY <1>25, <2>1, RestCollectionAssumption DEF threadFails, locals, TypeOK, Threads
  <2>3. QED
    BY <2>1, <2>2, <1>0 DEF ClearTaskInv, Starting, Begun
<1>26. ASSUME NEW t \in Tasks, catchCancellation(t)
      PROVE  ClearTaskInv'
  <2>1. /\ UNCHANGED <<op, base, ptr, waits>>
        /\ \A d \in Clients : pc'[d] = pc[d] /\ obj'[d] = obj[d]
    BY <1>26, RestCollectionAssumption
       DEF catchCancellation, At, Goto, TypeOK, Threads, guardVars
  <2>2. QED
    BY <2>1, <1>0 DEF ClearTaskInv, Starting, Begun, Cancels
<1>27. QED
  BY <1>1, <1>2, <1>3, <1>4, <1>5, <1>6, <1>7, <1>8, <1>9, <1>10, <1>11, <1>12, <1>13,
     <1>14, <1>15, <1>16, <1>17, <1>18, <1>19, <1>20, <1>21, <1>22, <1>23, <1>24,
     <1>25, <1>26 DEF Next,
     client, task, access, Threads

\* What clear has stopped does not run again.
LEMMA SweptStep ==
    ASSUME TypeOK, ControlInv, FreshInv, ClearTaskInv, SweptInv, Next
    PROVE  SweptInv'
<1>0. \A v \in Tasks : pc[v] # "none" => pc'[v] # "none"
  BY BegunStep
<1>1. ASSUME NEW c \in Clients, NEW o \in Operations, NEW k \in Keys, call(c, o, k)
      PROVE  SweptInv'
  BY <1>1, <1>0 DEF SweptInv, Begun, TypeOK, call, taskVars
<1>2. ASSUME NEW c \in Clients, watchElements(c)
      PROVE  SweptInv'
  BY <1>2, <1>0 DEF SweptInv, Begun, TypeOK, watchElements, taskVars, history
<1>3. ASSUME NEW t \in Threads, lockMutate(t)
      PROVE  SweptInv'
  BY <1>3, <1>0 DEF SweptInv, Begun, TypeOK, lockMutate, taskVars, history
<1>4. ASSUME NEW t \in Threads, readEntries(t)
      PROVE  SweptInv'
  BY <1>4, <1>0 DEF SweptInv, Begun, TypeOK, readEntries, taskVars, history
<1>5. ASSUME NEW t \in Threads, useEntries(t)
      PROVE  SweptInv'
  BY <1>5, <1>0 DEF SweptInv, Begun, TypeOK, useEntries, taskVars, history
<1>6. ASSUME NEW t \in Threads, cmp_xchg(t)
      PROVE  SweptInv'
  BY <1>6, <1>0 DEF SweptInv, Begun, TypeOK, cmp_xchg, taskVars
<1>7. ASSUME NEW t \in Threads, trigger(t)
      PROVE  SweptInv'
  BY <1>7, <1>0 DEF SweptInv, Begun, TypeOK, trigger, taskVars, history
<1>8. ASSUME NEW t \in Threads, leave(t)
      PROVE  SweptInv'
  BY <1>8, <1>0 DEF SweptInv, Begun, TypeOK, leave, Empty, Absent
<1>9. ASSUME NEW c \in Clients, startTask(c)
      PROVE  SweptInv'
  <2>1. obj[c] \in Tasks /\ pc[obj[c]] = "none"
    BY <1>9 DEF startTask, At, ControlInv, Edits, Cancels, Sweeps, Creators, TypeOK, Threads,
                Operations, FreshInv, Creating
  <2>2. obj[c] \notin swept
    BY <2>1, RestCollectionAssumption DEF SweptInv, Begun, Threads
  <2>3. QED
    BY <1>9, <1>0, <2>1, <2>2 DEF startTask, history, TypeOK, SweptInv, Begun
<1>10. ASSUME NEW c \in Clients, setHandle(c)
      PROVE  SweptInv'
  BY <1>10, <1>0 DEF SweptInv, Begun, TypeOK, setHandle, taskVars, history
<1>11. ASSUME NEW c \in Clients, cancel(c)
      PROVE  SweptInv'
  BY <1>11, <1>0 DEF SweptInv, Begun, TypeOK, cancel, history
<1>12. ASSUME NEW c \in Clients, cancelWait(c)
      PROVE  SweptInv'
  <2>1. obj[c] \in Tasks
    BY <1>12 DEF cancelWait, At, ControlInv, Cancels
  <2>2. op[c] = "clear" => Begun(obj[c])
    BY <1>12 DEF cancelWait, At, ClearTaskInv, Cancels
  <2>3. QED
    BY <1>12, <1>0, <2>1, <2>2 DEF cancelWait, taskVars, TypeOK, SweptInv, Begun
<1>13. ASSUME NEW c \in Clients, clearSwap(c)
      PROVE  SweptInv'
  BY <1>13, <1>0 DEF SweptInv, Begun, TypeOK, clearSwap, Empty, Absent, taskVars, history
<1>14. ASSUME NEW c \in Clients, visibleBarrier(c)
      PROVE  SweptInv'
  BY <1>14, <1>0 DEF SweptInv, Begun, TypeOK, visibleBarrier, taskVars, history
<1>15. ASSUME NEW c \in Clients, barrierWait(c)
      PROVE  SweptInv'
  BY <1>15, <1>0 DEF SweptInv, Begun, TypeOK, barrierWait, taskVars, history
<1>16. ASSUME NEW c \in Clients, NEW k \in Keys, sweep(c, k)
      PROVE  SweptInv'
  BY <1>16, <1>0 DEF SweptInv, Begun, TypeOK, sweep, Absent, taskVars, history
<1>17. ASSUME NEW c \in Clients, clearEnd(c)
      PROVE  SweptInv'
  BY <1>17, <1>0 DEF SweptInv, Begun, TypeOK, clearEnd, Empty, Absent, taskVars, history
<1>18. ASSUME NEW t \in Tasks, setProgress(t)
      PROVE  SweptInv'
  BY <1>18, <1>0 DEF SweptInv, Begun, TypeOK, setProgress, history
<1>19. ASSUME NEW t \in Tasks, storeExecuting(t)
      PROVE  SweptInv'
  BY <1>19, <1>0 DEF SweptInv, Begun, TypeOK, storeExecuting, history
<1>20. ASSUME NEW t \in Tasks, setError(t)
      PROVE  SweptInv'
  BY <1>20, <1>0 DEF SweptInv, Begun, TypeOK, setError, history
<1>21. ASSUME NEW t \in Tasks, setFinished(t)
      PROVE  SweptInv'
  BY <1>21, <1>0 DEF SweptInv, Begun, TypeOK, setFinished, history
<1>22. ASSUME NEW t \in Tasks, loadState(t)
      PROVE  SweptInv'
  BY <1>22, <1>0 DEF SweptInv, Begun, TypeOK, loadState, taskVars, history
<1>23. ASSUME NEW t \in Tasks, storeFinished(t)
      PROVE  SweptInv'
  BY <1>23, <1>0 DEF SweptInv, Begun, TypeOK, storeFinished, history
<1>24. ASSUME NEW t \in Tasks, finishedBackgroundJob(t)
      PROVE  SweptInv'
  BY <1>24, <1>0 DEF SweptInv, Begun, TypeOK, finishedBackgroundJob
<1>25. ASSUME NEW c \in Clients, threadFails(c)
      PROVE  SweptInv'
  <2>1. obj[c] \in Tasks /\ pc[obj[c]] = "none"
    BY <1>25 DEF threadFails, At, ControlInv, Edits, Cancels, Sweeps, Creators, TypeOK, Threads,
                Operations, FreshInv, Creating
  <2>2. obj[c] \notin swept
    BY <2>1, RestCollectionAssumption DEF SweptInv, Begun, Threads
  <2>3. QED
    BY <1>25, <1>0, <2>1, <2>2 DEF threadFails, locals, history, TypeOK, SweptInv, Begun
<1>26. ASSUME NEW t \in Tasks, catchCancellation(t)
      PROVE  SweptInv'
  BY <1>26, <1>0 DEF SweptInv, Begun, TypeOK, catchCancellation, history
<1>27. QED
  BY <1>1, <1>2, <1>3, <1>4, <1>5, <1>6, <1>7, <1>8, <1>9, <1>10, <1>11, <1>12, <1>13,
     <1>14, <1>15, <1>16, <1>17, <1>18, <1>19, <1>20, <1>21, <1>22, <1>23, <1>24,
     <1>25, <1>26 DEF Next,
     client, task, access, Threads

\* A value that has a task next to it is known as one that is rebuilt.
LEMMA RebuiltStep ==
    ASSUME TypeOK, ControlInv, MutateInv, HeapInv, OwnInv, GuardInv, FreshInv, RebuiltInv, Next
    PROVE  RebuiltInv'
<1>1. ASSUME NEW c \in Clients, NEW o \in Operations, NEW k \in Keys, call(c, o, k)
      PROVE  RebuiltInv'
  BY <1>1 DEF RebuiltInv, Rebuilding, call, tableVars
<1>2. ASSUME NEW c \in Clients, watchElements(c)
      PROVE  RebuiltInv'
  BY <1>2 DEF RebuiltInv, Rebuilding, watchElements, tableVars, history
<1>3. ASSUME NEW t \in Threads, lockMutate(t)
      PROVE  RebuiltInv'
  BY <1>3 DEF RebuiltInv, Rebuilding, lockMutate, tableVars, history
<1>4. ASSUME NEW t \in Threads, readEntries(t)
      PROVE  RebuiltInv'
  BY <1>4 DEF RebuiltInv, Rebuilding, readEntries, tableVars, history
<1>5. ASSUME NEW t \in Threads, useEntries(t)
      PROVE  RebuiltInv'
  <2>1. /\ ptr[t] \in Addrs /\ heap[ptr[t]] # None
    BY <1>5, TableAtHand, EmptyTable DEF useEntries, At
  <2>2. \A a \in Addrs : heap'[a] # None => heap'[a] = heap[a]
    <3>1. ReleaseGuard(t) \/ heap' = heap
      BY <1>5, Zenon DEF useEntries
    <3>2. QED
      BY <3>1, Release
  <2>3. base' = base \/ base' = [base EXCEPT ![t] = heap[ptr[t]]]
    BY <1>5, Zenon DEF useEntries
  <2>4. \A u \in Threads : base'[u] = base[u] \/ base'[u] = heap[ptr[t]]
    BY <2>3 DEF TypeOK
  <2>5. QED
    BY <1>5, <2>1, <2>2, <2>4 DEF useEntries, history, RebuiltInv, Rebuilding
<1>6. ASSUME NEW t \in Threads, cmp_xchg(t)
      PROVE  RebuiltInv'
  <2>1. base' = base /\ rebuilt \subseteq rebuilt'
    BY <1>6 DEF cmp_xchg, locals
  <2>2. CASE entries = ptr[t]
    <3> DEFINE EditedRebuilding ==
                  \A k \in Keys : Edited(t)[k].value # None /\ Edited(t)[k].task # None
                                  => Edited(t)[k].value \in rebuilt'
    <3>1. base[t][key[t]] \in Entry /\ key[t] \in Keys /\ Edited(t) \in Tables
      BY <1>6, EditedTable, TasksTyped DEF cmp_xchg, At
    <3>2. ASSUME op[t] = "addBackgroundJob"
          PROVE  EditedRebuilding
      <4>1. Edited(t)[key[t]].value = base[t][key[t]].value
        BY <1>6, <3>1, <3>2, EditedTable DEF cmp_xchg, At, Entry
      <4>2. base[t][key[t]].value # None => base[t][key[t]].value \in rebuilt'
        BY <1>6, <2>2, <3>2 DEF cmp_xchg
      <4>3. \A k \in Keys \ {key[t]} : Edited(t)[k] = base[t][k]
        BY <1>6, EditedTable DEF cmp_xchg, At
      <4>4. QED
        BY <2>1, <4>1, <4>2, <4>3 DEF RebuiltInv, Rebuilding
    <3>3. ASSUME op[t] # "addBackgroundJob"
          PROVE  EditedRebuilding
      <4>1. Edited(t)[key[t]].task = None
        <5>1. Absent.task = None /\ [value |-> obj[t], task |-> None].task = None
          BY DEF Absent
        <5>2. QED
          BY <1>6, <3>3, <5>1, EditedTable DEF cmp_xchg, At
      <4>2. \A k \in Keys \ {key[t]} : Edited(t)[k] = base[t][k]
        BY <1>6, EditedTable DEF cmp_xchg, At
      <4>3. QED
        BY <2>1, <4>1, <4>2 DEF RebuiltInv, Rebuilding
    <3>4. \A a \in Addrs : heap'[a] = heap[a] \/ heap'[a] = Edited(t)
      <4>1. Install(Edited(t))
        BY <1>6, <2>2 DEF cmp_xchg
      <4>2. QED
        BY <3>1, <4>1, NewTable DEF TypeOK
    <3>5. QED
      BY <2>1, <3>2, <3>3, <3>4 DEF RebuiltInv, Rebuilding
  <2>3. CASE entries # ptr[t]
    BY <1>6, <2>1, <2>3 DEF cmp_xchg, tableVars, RebuiltInv, Rebuilding
  <2>4. QED
    BY <2>2, <2>3
<1>7. ASSUME NEW t \in Threads, trigger(t)
      PROVE  RebuiltInv'
  BY <1>7 DEF RebuiltInv, Rebuilding, trigger, tableVars, history
<1>8. ASSUME NEW t \in Threads, leave(t)
      PROVE  RebuiltInv'
  <2>1. \A a \in Addrs : heap'[a] # None => heap'[a] = heap[a]
    BY <1>8, Release DEF leave
  <2>2. \A u \in Threads : base'[u] = base[u] \/ base'[u] = Empty
    BY <1>8 DEF leave, TypeOK
  <2>3. QED
    BY <1>8, <2>1, <2>2, EmptyTable DEF leave, RebuiltInv, Rebuilding
<1>9. ASSUME NEW c \in Clients, startTask(c)
      PROVE  RebuiltInv'
  BY <1>9 DEF RebuiltInv, Rebuilding, startTask, tableVars, history
<1>10. ASSUME NEW c \in Clients, setHandle(c)
      PROVE  RebuiltInv'
  BY <1>10 DEF RebuiltInv, Rebuilding, setHandle, tableVars, locals, history
<1>11. ASSUME NEW c \in Clients, cancel(c)
      PROVE  RebuiltInv'
  BY <1>11 DEF RebuiltInv, Rebuilding, cancel, tableVars, locals, history
<1>12. ASSUME NEW c \in Clients, cancelWait(c)
      PROVE  RebuiltInv'
  BY <1>12 DEF RebuiltInv, Rebuilding, cancelWait, tableVars, locals
<1>13. ASSUME NEW c \in Clients, clearSwap(c)
      PROVE  RebuiltInv'
  <2>1. heap' = [heap EXCEPT ![entries'] = Empty]
    BY <1>13, NewTable, EmptyTable DEF clearSwap
  <2>2. entries \in Addrs /\ heap[entries] # None
    BY DEF HeapInv, TypeOK
  <2>3. /\ \A a \in Addrs : heap'[a] = heap[a] \/ heap'[a] = Empty
        /\ \A u \in Threads : base'[u] = base[u] \/ base'[u] = heap[entries]
    BY <1>13, <2>1 DEF clearSwap, TypeOK
  <2>4. QED
    BY <1>13, <2>2, <2>3, EmptyTable DEF clearSwap, history, RebuiltInv, Rebuilding
<1>14. ASSUME NEW c \in Clients, visibleBarrier(c)
      PROVE  RebuiltInv'
  BY <1>14 DEF RebuiltInv, Rebuilding, visibleBarrier, tableVars, locals, history
<1>15. ASSUME NEW c \in Clients, barrierWait(c)
      PROVE  RebuiltInv'
  BY <1>15 DEF RebuiltInv, Rebuilding, barrierWait, tableVars, locals, history
<1>16. ASSUME NEW c \in Clients, NEW k \in Keys, sweep(c, k)
      PROVE  RebuiltInv'
  <2>1. heap' = heap
    BY <1>16 DEF sweep, tableVars
  <2>2. \A u \in Threads, i \in Keys : base'[u][i] = base[u][i] \/ base'[u][i] = Absent
    BY <1>16 DEF sweep, TypeOK, Tables
  <2>3. Absent.task = None
    BY DEF Absent
  <2>4. QED
    BY <1>16, <2>1, <2>2, <2>3 DEF sweep, history, RebuiltInv, Rebuilding
<1>17. ASSUME NEW c \in Clients, clearEnd(c)
      PROVE  RebuiltInv'
  <2>1. base' = base /\ \A a \in Addrs : heap'[a] = None \/ heap'[a] = heap[a]
    BY <1>17 DEF clearEnd, locals, TypeOK
  <2>2. QED
    BY <1>17, <2>1 DEF clearEnd, history, RebuiltInv, Rebuilding
<1>18. ASSUME NEW t \in Tasks, setProgress(t)
      PROVE  RebuiltInv'
  BY <1>18 DEF RebuiltInv, Rebuilding, setProgress, tableVars, locals, history
<1>19. ASSUME NEW t \in Tasks, storeExecuting(t)
      PROVE  RebuiltInv'
  BY <1>19 DEF RebuiltInv, Rebuilding, storeExecuting, tableVars, locals, history
<1>20. ASSUME NEW t \in Tasks, setError(t)
      PROVE  RebuiltInv'
  BY <1>20 DEF RebuiltInv, Rebuilding, setError, tableVars, locals, history
<1>21. ASSUME NEW t \in Tasks, setFinished(t)
      PROVE  RebuiltInv'
  BY <1>21 DEF RebuiltInv, Rebuilding, setFinished, tableVars, locals, history
<1>22. ASSUME NEW t \in Tasks, loadState(t)
      PROVE  RebuiltInv'
  BY <1>22 DEF RebuiltInv, Rebuilding, loadState, tableVars, locals, history
<1>23. ASSUME NEW t \in Tasks, storeFinished(t)
      PROVE  RebuiltInv'
  BY <1>23 DEF RebuiltInv, Rebuilding, storeFinished, tableVars, locals, history
<1>24. ASSUME NEW t \in Tasks, finishedBackgroundJob(t)
      PROVE  RebuiltInv'
  BY <1>24 DEF RebuiltInv, Rebuilding, finishedBackgroundJob, tableVars, locals
<1>25. ASSUME NEW c \in Clients, threadFails(c)
      PROVE  RebuiltInv'
  BY <1>25 DEF RebuiltInv, Rebuilding, threadFails, locals, tableVars, history
<1>26. ASSUME NEW t \in Tasks, catchCancellation(t)
      PROVE  RebuiltInv'
  BY <1>26 DEF RebuiltInv, Rebuilding, catchCancellation, tableVars, locals, history
<1>27. QED
  BY <1>1, <1>2, <1>3, <1>4, <1>5, <1>6, <1>7, <1>8, <1>9, <1>10, <1>11, <1>12, <1>13,
     <1>14, <1>15, <1>16, <1>17, <1>18, <1>19, <1>20, <1>21, <1>22, <1>23, <1>24,
     <1>25, <1>26 DEF Next,
     client, task, access, Threads

\* While t holds mutateMutex, nobody else is between a change and its event, or
\* clears.
LEMMA OneMutator ==
    ASSUME TypeOK, ControlInv, MutateInv, NEW t \in Threads, mutateMutex = t
    PROVE  /\ \A u \in Threads \ {t} : pc[u] # "event"
           /\ \A c \in Clients \ {t} : ~Owning(c)
<1>1. \A u \in Threads : pc[u] = "event" => op[u] \in Mutators
  BY DEF ControlInv, TypeOK, Threads, Operations, Edits, Cancels, Sweeps, Mutators
<1>2. QED
  BY <1>1 DEF MutateInv, Owning, Mutators, Edits, Sweeps, Threads

\* A step that keeps the current values, the events to come and what clear has yet
\* to go through.
LEMMA WatchFrame ==
    ASSUME TypeOK, WatchInv, rebuilt \subseteq rebuilt', seen' = seen,
           \A k \in Keys : heap'[entries'][k].value = heap[entries][k].value,
           \A t \in Threads : pc'[t] = "event" => pc[t] = "event",
           \A t \in Threads : pc[t] = "event" =>
               /\ pc'[t] = "event" /\ key'[t] = key[t] /\ key[t] \in Keys
               /\ op'[t] = op[t] /\ obj'[t] = obj[t],
           \A c \in Clients : Owning(c)' => Owning(c),
           \A c \in Clients, k \in Keys : Owning(c) /\ base[c][k] # Absent =>
               Owning(c)' /\ base'[c][k] = base[c][k]
    PROVE  WatchInv'
<1>1. \A c \in Clients, k \in Keys : Owning(c)' => heap'[entries'][k].value = None
  BY DEF WatchInv
<1>2. \A t \in Threads : pc'[t] = "event" =>
          heap'[entries'][key'[t]].value = IF op'[t] = "deleteEntry" THEN None ELSE obj'[t]
  BY DEF WatchInv
<1>3. seen' # None => \A k \in Keys :
          \/ Agrees(seen[k], heap[entries][k].value)'
          \/ \E t \in Threads : pc'[t] = "event" /\ key'[t] = k
          \/ \E c \in Clients : Owning(c)' /\ base'[c][k] # Absent
                                /\ Agrees(seen[k], base[c][k].value)'
  <2>1. SUFFICES ASSUME seen' # None, NEW k \in Keys
                 PROVE  \/ Agrees(seen[k], heap[entries][k].value)'
                        \/ \E t \in Threads : pc'[t] = "event" /\ key'[t] = k
                        \/ \E c \in Clients : Owning(c)' /\ base'[c][k] # Absent
                                              /\ Agrees(seen[k], base[c][k].value)'
    OBVIOUS
  <2>2. CASE Agrees(seen[k], heap[entries][k].value)
    BY <2>2 DEF Agrees
  <2>3. CASE \E t \in Threads : pc[t] = "event" /\ key[t] = k
    BY <2>3
  <2>4. CASE \E c \in Clients : Owning(c) /\ base[c][k] # Absent
                                /\ Agrees(seen[k], base[c][k].value)
    BY <2>4 DEF Agrees
  <2>5. QED
    BY <2>1, <2>2, <2>3, <2>4 DEF WatchInv
<1>4. QED
  BY <1>1, <1>2, <1>3 DEF WatchInv

\* A watch is told of each change before the next one is made.
LEMMA WatchStep ==
    ASSUME TypeOK, ControlInv, MutateInv, HeapInv, OwnInv, GuardInv, FreshInv, RebuiltInv, WatchInv, Next
    PROVE  WatchInv'
<1>0. \A t \in Threads : pc[t] = "event" => key[t] \in Keys
  BY DEF ControlInv, Threads, Edits, Runs, Sweeps, Cancels
<1>1. ASSUME NEW c \in Clients, NEW o \in Operations, NEW k \in Keys, call(c, o, k)
      PROVE  WatchInv'
  <2>1. /\ UNCHANGED <<entries, heap, seen, rebuilt, base>> /\ pc[c] = "idle"
        /\ pc'[c] \in {"read", "lock"}
        /\ \A d \in Threads \ {c} : pc'[d] = pc[d] /\ key'[d] = key[d] /\ obj'[d] = obj[d]
        /\ \A d \in Clients \ {c} : op'[d] = op[d]
    BY <1>1, RestCollectionAssumption
       DEF call, MayCall, At, Goto, tableVars, TypeOK, Threads
  <2>2. \A v \in Tasks : pc[v] # "none" => op'[v] = op[v]
    <3>1. CASE o \in Creators
      <4> DEFINE new == CHOOSE v \in Tasks \ made : TRUE
      <4>1. new \in Tasks \ made
        BY <1>1, <3>1 DEF call, Creators
      <4>2. \A u \in Tasks \ {new} : op'[u] = op[u]
        BY <1>1, <3>1, RestCollectionAssumption DEF call, TypeOK, Threads, Creators
      <4> HIDE DEF new
      <4>3. QED
        BY <4>1, <4>2 DEF FreshInv
    <3>2. CASE o \notin Creators
      BY <1>1, <3>2, RestCollectionAssumption DEF call, TypeOK, Threads, Creators
    <3>3. QED
      BY <3>1, <3>2
  <2>3. \A d \in Clients : Owning(d)' <=> Owning(d)
    BY <2>1 DEF Owning, Sweeps, Cancels, Threads
  <2>4. QED
    BY <1>0, <2>1, <2>2, <2>3, WatchFrame DEF Threads
<1>2. ASSUME NEW c \in Clients, watchElements(c)
      PROVE  WatchInv'
  <2>1. /\ UNCHANGED <<entries, heap, pc, op, key, obj, rebuilt, base>>
        /\ seen' = Values(heap[entries])
    BY <1>2 DEF watchElements, tableVars, history
  <2>2. \A k \in Keys : seen'[k] = heap[entries][k].value
    BY <2>1 DEF Values
  <2>3. QED
    BY <2>1, <2>2 DEF WatchInv, Agrees, Owning
<1>3. ASSUME NEW t \in Threads, lockMutate(t)
      PROVE  WatchInv'
  <2>1. /\ UNCHANGED <<entries, heap, op, key, obj, base, seen, rebuilt>> /\ pc[t] = "lock"
        /\ pc'[t] \in {"swap", "leave", "use"} /\ \A d \in Threads \ {t} : pc'[d] = pc[d]
    BY <1>3 DEF lockMutate, tableVars, locals, history, At, Goto, TypeOK, Threads
  <2>2. \A d \in Clients : Owning(d)' <=> Owning(d)
    BY <2>1, RestCollectionAssumption
       DEF Owning, Sweeps, Cancels, Threads, ControlInv
  <2>3. QED
    BY <1>0, <2>1, <2>2, WatchFrame
<1>4. ASSUME NEW t \in Threads, readEntries(t)
      PROVE  WatchInv'
  <2>1. /\ UNCHANGED <<entries, heap, op, key, obj, base, seen, rebuilt>> /\ pc[t] = "read"
        /\ pc'[t] \in {"use"} /\ \A d \in Threads \ {t} : pc'[d] = pc[d]
    BY <1>4 DEF readEntries, tableVars, locals, history, At, Goto, TypeOK, Threads
  <2>2. \A d \in Clients : Owning(d)' <=> Owning(d)
    BY <2>1, RestCollectionAssumption
       DEF Owning, Sweeps, Cancels, Threads, ControlInv
  <2>3. QED
    BY <1>0, <2>1, <2>2, WatchFrame
<1>5. ASSUME NEW t \in Threads, useEntries(t)
      PROVE  WatchInv'
  <2>1. /\ UNCHANGED <<entries, op, key, seen, rebuilt>> /\ pc[t] = "use" /\ op[t] # "clear"
        /\ pc'[t] \in {"leave", "cancel", "cmp_xchg"}
        /\ \A d \in Threads \ {t} : pc'[d] = pc[d] /\ base'[d] = base[d] /\ obj'[d] = obj[d]
    BY <1>5 DEF useEntries, history, At, Goto, TypeOK, Threads, ControlInv, Sweeps, Cancels
  <2>2. heap'[entries] = heap[entries]
    <3>1. CASE op[t] = "cancel" /\ ~Refused(t)
      BY <1>5, <3>1, Release DEF useEntries, HeapInv, TypeOK
    <3>2. CASE op[t] # "cancel" \/ Refused(t)
      BY <1>5, <3>2 DEF useEntries
    <3>3. QED
      BY <3>1, <3>2
  <2>3. \A d \in Clients : /\ Owning(d)' <=> Owning(d)
                           /\ Owning(d) => base'[d] = base[d]
    BY <2>1 DEF Owning, Threads
  <2>4. QED
    BY <1>0, <2>1, <2>2, <2>3, WatchFrame
<1>6. ASSUME NEW t \in Threads, cmp_xchg(t)
      PROVE  WatchInv'
  <2>1. /\ UNCHANGED <<seen, op, key, obj, base>> /\ pc[t] = "cmp_xchg" /\ op[t] # "clear"
        /\ rebuilt \subseteq rebuilt' /\ \A d \in Threads \ {t} : pc'[d] = pc[d]
    BY <1>6 DEF cmp_xchg, At, Goto, TypeOK, Threads, ControlInv, Sweeps, Cancels, locals
  <2>2. \A d \in Clients : Owning(d)' <=> Owning(d)
    BY <2>1 DEF Owning, Threads
  <2>3. CASE entries # ptr[t]
    <3>1. UNCHANGED <<entries, heap>> /\ pc'[t] = "read"
      BY <1>6, <2>3 DEF cmp_xchg, tableVars, Goto, TypeOK
    <3>2. QED
      BY <1>0, <2>1, <2>2, <3>1, WatchFrame
  <2>4. CASE entries = ptr[t]
    <3>1. /\ Edited(t) \in Tables /\ key[t] \in Keys /\ op[t] \in Creators \cup {"deleteEntry"}
          /\ base[t][key[t]] \in Entry
          /\ \A k \in Keys \ {key[t]} : Edited(t)[k] = base[t][k]
      BY <2>1, EditedTable, TasksTyped
    <3>2. Install(Edited(t)) /\ pc' = [pc EXCEPT ![t] =
                                  IF op[t] = "addBackgroundJob" THEN "start" ELSE "event"]
      BY <1>6, <2>4 DEF cmp_xchg, Goto
    <3>3. heap'[entries'] = Edited(t)
      BY <3>1, <3>2, NewTable
    <3>4. heap[entries] = base[t]
      BY <2>1, <2>4 DEF GuardInv
    <3>5. CASE op[t] = "addBackgroundJob"
      <4>1. Edited(t)[key[t]].value = base[t][key[t]].value
        BY <2>1, <3>1, <3>5, EditedTable DEF Entry
      <4>2. pc'[t] = "start"
        BY <3>2, <3>5 DEF TypeOK
      <4>3. QED
        BY <1>0, <2>1, <2>2, <3>1, <3>3, <3>4, <4>1, <4>2, WatchFrame
    <3>6. CASE op[t] # "addBackgroundJob"
      <4>1. mutateMutex = t /\ pc'[t] = "event"
        BY <2>1, <3>1, <3>2, <3>6 DEF MutateInv, Mutators, Creators, Edits, TypeOK
      <4>2. /\ \A u \in Threads \ {t} : pc[u] # "event"
            /\ \A c \in Clients : ~Owning(c)
        BY <2>1, <4>1, OneMutator DEF Owning
      <4>3. Edited(t)[key[t]].value = IF op[t] = "deleteEntry" THEN None ELSE obj[t]
        <5>1. Absent.value = None /\ [value |-> obj[t], task |-> None].value = obj[t]
          BY DEF Absent
        <5>2. QED
          BY <2>1, <3>6, <5>1, EditedTable
      <4>4. \A u \in Threads : pc'[u] = "event" => u = t
        BY <2>1, <4>2
      <4>5. seen # None => \A k \in Keys \ {key[t]} : Agrees(seen[k], heap[entries][k].value)
        BY <2>1, <4>2 DEF WatchInv
      <4>6. seen' # None => \A k \in Keys \ {key[t]} : Agrees(seen[k], heap[entries][k].value)'
        BY <2>1, <3>1, <3>3, <3>4, <4>5 DEF Agrees
      <4>7. QED
        BY <2>1, <2>2, <3>3, <4>1, <4>2, <4>3, <4>4, <4>6 DEF WatchInv
    <3>7. QED
      BY <3>5, <3>6
  <2>5. QED
    BY <2>3, <2>4
<1>7. ASSUME NEW t \in Threads, trigger(t)
      PROVE  WatchInv'
  <2>1. /\ UNCHANGED <<entries, heap, op, key, base, rebuilt>> /\ pc[t] = "event"
        /\ op[t] # "clear" /\ pc'[t] \in {"cancel", "leave"}
        /\ \A d \in Threads \ {t} : pc'[d] = pc[d] /\ obj'[d] = obj[d]
        /\ Told(key[t], IF op[t] = "deleteEntry" THEN None ELSE obj[t])
    BY <1>7 DEF trigger, At, Goto, TypeOK, Threads, ControlInv, Sweeps, Cancels, tableVars,
       history
  <2>2. \A d \in Clients : Owning(d)' <=> Owning(d)
    BY <2>1 DEF Owning, Threads
  <2>3. /\ seen = None => seen' = None
        /\ seen # None => /\ \A k \in Keys \ {key[t]} : seen'[k] = seen[k]
                          /\ seen'[key[t]] = heap[entries][key[t]].value
    <3>1. key[t] \in Keys
      BY <1>0, <2>1
    <3>2. heap[entries][key[t]].value = IF op[t] = "deleteEntry" THEN None ELSE obj[t]
      BY <2>1 DEF WatchInv
    <3>3. QED
      BY <2>1, <3>1, <3>2 DEF Told, TypeOK
  <2>4. \A c \in Clients, k \in Keys : Owning(c)' => heap'[entries'][k].value = None
    BY <2>1, <2>2 DEF WatchInv
  <2>5. \A u \in Threads : pc'[u] = "event" =>
            heap'[entries'][key'[u]].value = IF op'[u] = "deleteEntry" THEN None ELSE obj'[u]
    BY <2>1 DEF WatchInv
  <2>6. ASSUME seen # None, NEW k \in Keys
        PROVE  \/ Agrees(seen[k], heap[entries][k].value)'
               \/ \E u \in Threads : pc'[u] = "event" /\ key'[u] = k
               \/ \E c \in Clients : Owning(c)' /\ base'[c][k] # Absent
                                     /\ Agrees(seen[k], base[c][k].value)'
    <3>1. CASE k = key[t]
      BY <2>1, <2>3, <2>6, <3>1 DEF Agrees
    <3>2. CASE k # key[t] /\ Agrees(seen[k], heap[entries][k].value)
      BY <2>1, <2>3, <2>6, <3>2 DEF Agrees
    <3>3. CASE k # key[t] /\ \E u \in Threads : pc[u] = "event" /\ key[u] = k
      BY <2>1, <3>3
    <3>4. CASE k # key[t] /\ \E c \in Clients : Owning(c) /\ base[c][k] # Absent
                                                /\ Agrees(seen[k], base[c][k].value)
      BY <2>1, <2>2, <2>3, <2>6, <3>4 DEF Agrees
    <3>5. QED
      BY <2>6, <3>1, <3>2, <3>3, <3>4 DEF WatchInv
  <2>7. QED
    BY <2>3, <2>4, <2>5, <2>6 DEF WatchInv
<1>8. ASSUME NEW t \in Threads, leave(t)
      PROVE  WatchInv'
  <2>1. /\ UNCHANGED <<entries, seen, rebuilt>> /\ pc[t] = "leave"
        /\ pc'[t] \in {"idle", "done"}
        /\ \A d \in Threads \ {t} : /\ pc'[d] = pc[d] /\ base'[d] = base[d] /\ obj'[d] = obj[d]
                                    /\ op'[d] = op[d] /\ key'[d] = key[d]
    BY <1>8 DEF leave, At, Goto, TypeOK
  <2>2. heap'[entries] = heap[entries]
    BY <1>8, Release DEF leave, HeapInv, TypeOK
  <2>3. \A d \in Clients : /\ Owning(d)' <=> Owning(d)
                           /\ Owning(d) => base'[d] = base[d]
    BY <2>1 DEF Owning, Sweeps, Cancels, Threads
  <2>4. QED
    BY <1>0, <2>1, <2>2, <2>3, WatchFrame
<1>9. ASSUME NEW c \in Clients, startTask(c)
      PROVE  WatchInv'
  <2>1. op[c] = "addBackgroundJob" /\ obj[c] \in Tasks /\ pc[obj[c]] = "none"
    BY <1>9 DEF startTask, At, ControlInv, Edits, Cancels, Sweeps, Creators, TypeOK, Threads,
                Operations, FreshInv, Creating
  <2>2. /\ UNCHANGED <<entries, heap, seen, rebuilt, base, op>> /\ pc[c] = "start"
        /\ pc'[c] = "setHandle" /\ pc'[obj[c]] = "fn"
        /\ \A d \in Threads \ {c, obj[c]} : /\ pc'[d] = pc[d] /\ obj'[d] = obj[d]
                                            /\ key'[d] = key[d]
    BY <1>9, <2>1, RestCollectionAssumption
       DEF startTask, At, tableVars, history, TypeOK, Threads
  <2>3. \A d \in Clients : Owning(d)' <=> Owning(d)
    BY <2>1, <2>2, RestCollectionAssumption DEF Owning, Sweeps, Cancels, Threads
  <2>4. QED
    BY <1>0, <2>1, <2>2, <2>3, WatchFrame
<1>10. ASSUME NEW c \in Clients, setHandle(c)
      PROVE  WatchInv'
  <2>1. /\ UNCHANGED <<entries, heap, op, key, obj, base, seen, rebuilt>> /\ pc[c] = "setHandle"
        /\ pc'[c] \in {"leave"} /\ \A d \in Threads \ {c} : pc'[d] = pc[d]
    BY <1>10 DEF setHandle, tableVars, locals, history, At, Goto, TypeOK, Threads
  <2>2. \A d \in Clients : Owning(d)' <=> Owning(d)
    BY <2>1, RestCollectionAssumption
       DEF Owning, Sweeps, Cancels, Threads, ControlInv
  <2>3. QED
    BY <1>0, <2>1, <2>2, WatchFrame
<1>11. ASSUME NEW c \in Clients, cancel(c)
      PROVE  WatchInv'
  <2>1. /\ UNCHANGED <<entries, heap, op, key, obj, base, seen, rebuilt>> /\ pc[c] = "cancel"
        /\ pc'[c] \in {"cancelWait"} /\ \A d \in Threads \ {c} : pc'[d] = pc[d]
    BY <1>11 DEF cancel, tableVars, locals, history, At, Goto, TypeOK, Threads
  <2>2. \A d \in Clients : Owning(d)' <=> Owning(d)
    BY <2>1, RestCollectionAssumption
       DEF Owning, Sweeps, Cancels, Threads, ControlInv
  <2>3. QED
    BY <1>0, <2>1, <2>2, WatchFrame
<1>12. ASSUME NEW c \in Clients, cancelWait(c)
      PROVE  WatchInv'
  <2>1. /\ UNCHANGED <<entries, heap, op, key, obj, base, seen, rebuilt>> /\ pc[c] = "cancelWait"
        /\ pc'[c] = (IF op[c] = "clear" THEN "sweep" ELSE "leave")
        /\ \A d \in Threads \ {c} : pc'[d] = pc[d]
    BY <1>12 DEF cancelWait, tableVars, locals, history, At, Goto, TypeOK, Threads
  <2>2. \A d \in Clients : Owning(d)' <=> Owning(d)
    BY <2>1, RestCollectionAssumption
       DEF Owning, Sweeps, Cancels, Threads, ControlInv
  <2>3. QED
    BY <1>0, <2>1, <2>2, WatchFrame
<1>13. ASSUME NEW c \in Clients, clearSwap(c)
      PROVE  WatchInv'
  <2>1. /\ UNCHANGED <<op, obj, key, seen, rebuilt>> /\ pc[c] = "swap" /\ op[c] = "clear"
        /\ pc'[c] = "barrier" /\ base'[c] = heap[entries]
        /\ \A d \in Threads \ {c} : pc'[d] = pc[d]
    BY <1>13 DEF clearSwap, history, At, Goto, TypeOK, Threads, ControlInv, Edits, Cancels,
                Operations
  <2>2. heap'[entries'] = Empty
    BY <1>13, NewTable, EmptyTable DEF clearSwap
  <2>3. /\ \A u \in Threads : pc[u] # "event" /\ pc'[u] # "event"
        /\ \A d \in Clients : ~Owning(d)
    <3>1. mutateMutex = c
      BY <2>1 DEF MutateInv, Mutators, Threads
    <3>2. QED
      BY <2>1, <3>1, OneMutator DEF Owning, Sweeps, Cancels, Threads
  <2>4. Owning(c)'
    BY <2>1 DEF Owning, Sweeps
  <2>5. seen # None => \A k \in Keys : Agrees(seen[k], heap[entries][k].value)
    BY <2>3 DEF WatchInv
  <2>6. \A k \in Keys : heap'[entries'][k].value = None
    BY <2>2, EmptyTable
  <2>7. ASSUME seen # None, NEW k \in Keys
        PROVE  \/ Agrees(seen[k], heap[entries][k].value)'
               \/ \E d \in Clients : Owning(d)' /\ base'[d][k] # Absent
                                     /\ Agrees(seen[k], base[d][k].value)'
    <3>1. CASE base'[c][k] = Absent
      <4>1. heap[entries][k].value = None
        BY <2>1, <3>1 DEF Absent
      <4>2. QED
        BY <2>1, <2>5, <2>6, <2>7, <4>1 DEF Agrees
    <3>2. CASE base'[c][k] # Absent
      BY <2>1, <2>4, <2>5, <2>7, <3>2 DEF Agrees
    <3>3. QED
      BY <3>1, <3>2
  <2>8. QED
    BY <2>1, <2>3, <2>6, <2>7 DEF WatchInv
<1>14. ASSUME NEW c \in Clients, visibleBarrier(c)
      PROVE  WatchInv'
  <2>1. /\ UNCHANGED <<entries, heap, op, key, obj, base, seen, rebuilt>> /\ pc[c] = "barrier"
        /\ pc'[c] \in {"barrierWait"} /\ \A d \in Threads \ {c} : pc'[d] = pc[d]
    BY <1>14 DEF visibleBarrier, tableVars, locals, history, At, Goto, TypeOK, Threads
  <2>2. \A d \in Clients : Owning(d)' <=> Owning(d)
    BY <2>1, RestCollectionAssumption
       DEF Owning, Sweeps, Cancels, Threads, ControlInv
  <2>3. QED
    BY <1>0, <2>1, <2>2, WatchFrame
<1>15. ASSUME NEW c \in Clients, barrierWait(c)
      PROVE  WatchInv'
  <2>1. /\ UNCHANGED <<entries, heap, op, key, obj, base, seen, rebuilt>> /\ pc[c] = "barrierWait"
        /\ pc'[c] \in {"sweep"} /\ \A d \in Threads \ {c} : pc'[d] = pc[d]
    BY <1>15 DEF barrierWait, tableVars, locals, history, At, Goto, TypeOK, Threads
  <2>2. \A d \in Clients : Owning(d)' <=> Owning(d)
    BY <2>1, RestCollectionAssumption
       DEF Owning, Sweeps, Cancels, Threads, ControlInv
  <2>3. QED
    BY <1>0, <2>1, <2>2, WatchFrame
<1>16. ASSUME NEW c \in Clients, NEW k \in Keys, sweep(c, k)
      PROVE  WatchInv'
  <2>1. /\ UNCHANGED <<entries, heap, op, key, rebuilt>> /\ pc[c] = "sweep" /\ op[c] = "clear"
        /\ pc'[c] \in {"sweep", "cancel"}
        /\ \A d \in Threads \ {c} : pc'[d] = pc[d] /\ obj'[d] = obj[d]
    BY <1>16 DEF sweep, tableVars, history, At, Goto, TypeOK, Threads, ControlInv, Edits,
       Cancels,
                Operations
  <2>2. /\ \A d \in Threads \ {c} : base'[d] = base[d]
        /\ \A i \in Keys \ {k} : base'[c][i] = base[c][i]
    <3>1. base[c] \in [Keys -> Entry]
      BY DEF TypeOK, Threads, Tables
    <3>2. QED
      BY <1>16, <3>1 DEF sweep, TypeOK, Threads
  <2>3. Owning(c) /\ \A d \in Clients : Owning(d)' <=> Owning(d)
    BY <2>1 DEF Owning, Sweeps, Cancels, Threads
  <2>4. heap[entries][k].value = None
    BY <2>3 DEF WatchInv
  <2>5. /\ seen = None => seen' = None
        /\ seen # None => /\ \A i \in Keys \ {k} : seen'[i] = seen[i]
                          /\ \/ seen'[k] = None
                             \/ seen'[k] = seen[k] /\ base[c][k].task # None
    BY <1>16 DEF sweep, Told, TypeOK
  <2>6. \A d \in Clients, i \in Keys : Owning(d)' => heap'[entries'][i].value = None
    BY <2>1, <2>3 DEF WatchInv
  <2>7. \A u \in Threads : pc'[u] = "event" =>
            heap'[entries'][key'[u]].value = IF op'[u] = "deleteEntry" THEN None ELSE obj'[u]
    BY <2>1 DEF WatchInv, Threads
  <2>8. ASSUME seen # None, NEW i \in Keys
        PROVE  \/ Agrees(seen[i], heap[entries][i].value)'
               \/ \E u \in Threads : pc'[u] = "event" /\ key'[u] = i
               \/ \E d \in Clients : Owning(d)' /\ base'[d][i] # Absent
                                     /\ Agrees(seen[i], base[d][i].value)'
    <3>1. CASE i = k /\ seen'[k] = None
      BY <2>1, <2>4, <3>1 DEF Agrees
    <3>2. CASE i = k /\ seen'[k] = seen[k] /\ base[c][k].task # None
      <4>1. base[c][k].value # None => base[c][k].value \in rebuilt
        BY <3>2 DEF RebuiltInv, Rebuilding, Threads
      <4>2. Agrees(seen[k], base[c][k].value) => Agrees(seen[k], None)
        BY <4>1 DEF Agrees
      <4>3. CASE Agrees(seen[k], heap[entries][k].value)
        BY <2>1, <3>2, <4>3 DEF Agrees
      <4>4. CASE \E u \in Threads : pc[u] = "event" /\ key[u] = k
        BY <2>1, <3>2, <4>4
      <4>5. CASE \E d \in Clients : Owning(d) /\ base[d][k] # Absent
                                    /\ Agrees(seen[k], base[d][k].value)
        <5>1. PICK d \in Clients : Owning(d) /\ base[d][k] # Absent
                                   /\ Agrees(seen[k], base[d][k].value)
          BY <4>5
        <5>2. CASE d = c
          BY <2>1, <2>4, <3>2, <4>2, <5>1, <5>2 DEF Agrees
        <5>3. CASE d # c
          <6>1. Owning(d)' /\ base'[d] = base[d]
            BY <2>2, <2>3, <5>1, <5>3 DEF Threads
          <6>2. QED
            BY <2>1, <3>2, <5>1, <6>1 DEF Agrees
        <5>4. QED
          BY <5>2, <5>3
      <4>6. QED
        BY <2>8, <4>3, <4>4, <4>5 DEF WatchInv
    <3>3. CASE i # k
      <4>1. seen'[i] = seen[i] /\ \A d \in Clients : base'[d][i] = base[d][i]
        BY <2>2, <2>5, <2>8, <3>3 DEF Threads
      <4>2. CASE Agrees(seen[i], heap[entries][i].value)
        BY <2>1, <4>1, <4>2 DEF Agrees
      <4>3. CASE \E u \in Threads : pc[u] = "event" /\ key[u] = i
        BY <2>1, <4>3
      <4>4. CASE \E d \in Clients : Owning(d) /\ base[d][i] # Absent
                                    /\ Agrees(seen[i], base[d][i].value)
        BY <2>1, <2>3, <4>1, <4>4 DEF Agrees
      <4>5. QED
        BY <2>8, <4>2, <4>3, <4>4 DEF WatchInv
    <3>4. QED
      BY <2>5, <2>8, <3>1, <3>2, <3>3
  <2>9. QED
    BY <2>5, <2>6, <2>7, <2>8 DEF WatchInv
<1>17. ASSUME NEW c \in Clients, clearEnd(c)
      PROVE  WatchInv'
  <2>1. /\ UNCHANGED <<entries, op, key, obj, base, seen, rebuilt>> /\ pc[c] = "sweep"
        /\ op[c] = "clear" /\ base[c] = Empty /\ heap' = [heap EXCEPT ![ptr[c]] = None]
        /\ pc'[c] = "leave" /\ \A d \in Threads \ {c} : pc'[d] = pc[d]
    BY <1>17 DEF clearEnd, locals, history, At, Goto, TypeOK, Threads, ControlInv, Edits,
       Cancels,
                Operations
  <2>2. heap'[entries] = heap[entries]
    BY <2>1 DEF OwnInv, Owning, Sweeps, TypeOK
  <2>3. \A d \in Clients : Owning(d)' => Owning(d)
    BY <2>1 DEF Owning, Sweeps, Cancels, Threads
  <2>4. \A d \in Clients, k \in Keys : Owning(d) /\ base[d][k] # Absent => Owning(d)'
    BY <2>1, EmptyTable DEF Owning, Threads
  <2>5. QED
    BY <1>0, <2>1, <2>2, <2>3, <2>4, WatchFrame
<1>18. ASSUME NEW t \in Tasks, setProgress(t)
      PROVE  WatchInv'
  <2>1. /\ UNCHANGED <<entries, heap, op, key, obj, base, seen, rebuilt>> /\ pc[t] = "fn"
        /\ pc'[t] \in {"storeExecuting"} /\ \A d \in Threads \ {t} : pc'[d] = pc[d]
    BY <1>18 DEF setProgress, tableVars, locals, history, At, Goto, TypeOK, Threads
  <2>2. \A d \in Clients : Owning(d)' <=> Owning(d)
    BY <2>1, RestCollectionAssumption
       DEF Owning, Sweeps, Cancels, Threads, ControlInv
  <2>3. QED
    BY <1>0, <2>1, <2>2, WatchFrame
<1>19. ASSUME NEW t \in Tasks, storeExecuting(t)
      PROVE  WatchInv'
  <2>1. /\ UNCHANGED <<entries, heap, op, key, obj, base, seen, rebuilt>> /\ pc[t] = "storeExecuting"
        /\ pc'[t] \in {"fn"} /\ \A d \in Threads \ {t} : pc'[d] = pc[d]
    BY <1>19 DEF storeExecuting, tableVars, locals, history, At, Goto, TypeOK, Threads
  <2>2. \A d \in Clients : Owning(d)' <=> Owning(d)
    BY <2>1, RestCollectionAssumption
       DEF Owning, Sweeps, Cancels, Threads, ControlInv
  <2>3. QED
    BY <1>0, <2>1, <2>2, WatchFrame
<1>20. ASSUME NEW t \in Tasks, setError(t)
      PROVE  WatchInv'
  <2>1. /\ UNCHANGED <<entries, heap, op, key, base, seen, rebuilt>> /\ pc[t] = "fn"
        /\ pc'[t] \in {"loadState"}
        /\ \A d \in Threads \ {t} : pc'[d] = pc[d] /\ obj'[d] = obj[d]
    BY <1>20 DEF setError, tableVars, history, At, Goto, TypeOK, Threads
  <2>2. \A d \in Clients : Owning(d)' <=> Owning(d)
    BY <2>1, RestCollectionAssumption
       DEF Owning, Sweeps, Cancels, Threads, ControlInv
  <2>3. QED
    BY <1>0, <2>1, <2>2, WatchFrame
<1>21. ASSUME NEW t \in Tasks, setFinished(t)
      PROVE  WatchInv'
  <2>1. /\ UNCHANGED <<entries, heap, op, key, base, seen, rebuilt>> /\ pc[t] = "fn"
        /\ pc'[t] \in {"loadState"}
        /\ \A d \in Threads \ {t} : pc'[d] = pc[d] /\ obj'[d] = obj[d]
    BY <1>21 DEF setFinished, tableVars, history, At, Goto, TypeOK, Threads
  <2>2. \A d \in Clients : Owning(d)' <=> Owning(d)
    BY <2>1, RestCollectionAssumption
       DEF Owning, Sweeps, Cancels, Threads, ControlInv
  <2>3. QED
    BY <1>0, <2>1, <2>2, WatchFrame
<1>22. ASSUME NEW t \in Tasks, loadState(t)
      PROVE  WatchInv'
  <2>1. /\ UNCHANGED <<entries, heap, op, key, obj, base, seen, rebuilt>> /\ pc[t] = "loadState"
        /\ pc'[t] \in {"finish", "storeFinished"} /\ \A d \in Threads \ {t} : pc'[d] = pc[d]
    BY <1>22 DEF loadState, tableVars, locals, history, At, Goto, TypeOK, Threads
  <2>2. \A d \in Clients : Owning(d)' <=> Owning(d)
    BY <2>1, RestCollectionAssumption
       DEF Owning, Sweeps, Cancels, Threads, ControlInv
  <2>3. QED
    BY <1>0, <2>1, <2>2, WatchFrame
<1>23. ASSUME NEW t \in Tasks, storeFinished(t)
      PROVE  WatchInv'
  <2>1. /\ UNCHANGED <<entries, heap, op, key, obj, base, seen, rebuilt>> /\ pc[t] = "storeFinished"
        /\ pc'[t] \in {"finish"} /\ \A d \in Threads \ {t} : pc'[d] = pc[d]
    BY <1>23 DEF storeFinished, tableVars, locals, history, At, Goto, TypeOK, Threads
  <2>2. \A d \in Clients : Owning(d)' <=> Owning(d)
    BY <2>1, RestCollectionAssumption
       DEF Owning, Sweeps, Cancels, Threads, ControlInv
  <2>3. QED
    BY <1>0, <2>1, <2>2, WatchFrame
<1>24. ASSUME NEW t \in Tasks, finishedBackgroundJob(t)
      PROVE  WatchInv'
  <2>1. /\ UNCHANGED <<entries, heap, op, key, obj, base, seen, rebuilt>> /\ pc[t] = "finish"
        /\ pc'[t] \in {"done", "lock"} /\ \A d \in Threads \ {t} : pc'[d] = pc[d]
    BY <1>24 DEF finishedBackgroundJob, tableVars, locals, history, At, Goto, TypeOK, Threads
  <2>2. \A d \in Clients : Owning(d)' <=> Owning(d)
    BY <2>1, RestCollectionAssumption
       DEF Owning, Sweeps, Cancels, Threads, ControlInv
  <2>3. QED
    BY <1>0, <2>1, <2>2, WatchFrame
<1>25. ASSUME NEW c \in Clients, threadFails(c)
      PROVE  WatchInv'
  <2>1. op[c] = "addBackgroundJob" /\ obj[c] \in Tasks /\ pc[obj[c]] = "none"
    BY <1>25 DEF threadFails, At, ControlInv, Edits, Cancels, Sweeps, Creators, TypeOK, Threads,
                Operations, FreshInv, Creating
  <2>2. /\ UNCHANGED <<entries, heap, seen, rebuilt, base, op>> /\ pc[c] = "start"
        /\ pc'[c] = "leave" /\ pc'[obj[c]] = "failed"
        /\ \A d \in Threads \ {c, obj[c]} : /\ pc'[d] = pc[d] /\ obj'[d] = obj[d]
                                            /\ key'[d] = key[d]
    BY <1>25, <2>1, RestCollectionAssumption
       DEF threadFails, locals, At, tableVars, history, TypeOK, Threads
  <2>3. \A d \in Clients : Owning(d)' <=> Owning(d)
    BY <2>1, <2>2, RestCollectionAssumption DEF Owning, Sweeps, Cancels, Threads
  <2>4. QED
    BY <1>0, <2>1, <2>2, <2>3, WatchFrame
<1>26. ASSUME NEW t \in Tasks, catchCancellation(t)
      PROVE  WatchInv'
  <2>1. /\ UNCHANGED <<entries, heap, op, key, base, seen, rebuilt>> /\ pc[t] = "fn"
        /\ pc'[t] \in {"loadState", "fn"}
        /\ \A d \in Threads \ {t} : pc'[d] = pc[d] /\ obj'[d] = obj[d]
    BY <1>26 DEF catchCancellation, tableVars, history, At, Goto, TypeOK, Threads
  <2>2. \A d \in Clients : Owning(d)' <=> Owning(d)
    BY <2>1, RestCollectionAssumption
       DEF Owning, Sweeps, Cancels, Threads, ControlInv
  <2>3. QED
    BY <1>0, <2>1, <2>2, WatchFrame
<1>27. QED
  BY <1>1, <1>2, <1>3, <1>4, <1>5, <1>6, <1>7, <1>8, <1>9, <1>10, <1>11, <1>12, <1>13,
     <1>14, <1>15, <1>16, <1>17, <1>18, <1>19, <1>20, <1>21, <1>22, <1>23, <1>24,
     <1>25, <1>26 DEF Next,
     client, task, access, Threads

-----------------------------------------------------------------------------
(* The inductive invariant holds, and with it the properties.              *)

\* The inductive invariant holds initially.
LEMMA CInvInit ==
    ASSUME Init
    PROVE  CInv
<1>1. entries \in Addrs
  BY RestCollectionAssumption DEF Init
<1>2. heap = [a \in Addrs |-> IF a = entries THEN Empty ELSE None] /\ heap[entries] = Empty
  BY <1>1 DEF Init
<1>3. TypeOK
  BY <1>1, <1>2, EmptyTable, RestCollectionAssumption
     DEF Init, TypeOK, Threads, States, Labels
<1>4. ControlInv /\ MutateInv /\ OwnInv
  BY RestCollectionAssumption
     DEF Init, ControlInv, MutateInv, OwnInv, Owning, Threads, Creators, Edits, Cancels, Sweeps,
         Runs, Mutators
<1>5. HeapInv
  BY <1>2, EmptyTable DEF Init, HeapInv
<1>6. GuardInv /\ FreshInv
  BY RestCollectionAssumption DEF Init, GuardInv, FreshInv, Creating, Creators, Threads
<1>7. TableTaskInv /\ RebuiltInv
  BY <1>2, EmptyTable DEF Init, TableTaskInv, RebuiltInv, Rebuilding, Starting, Begun
<1>8. ClearTaskInv /\ SweptInv
  BY DEF Init, ClearTaskInv, SweptInv, Threads
<1>9. WatchInv
  BY DEF Init, WatchInv, Owning, Threads
<1>10. QED
  BY <1>3, <1>4, <1>5, <1>6, <1>7, <1>8, <1>9 DEF CInv

\* Every step preserves the inductive invariant.
LEMMA CInvStep ==
    ASSUME CInv, [Next]_vars
    PROVE  CInv'
<1>1. CASE Next
  <2>1. TypeOK' /\ ControlInv' /\ MutateInv' /\ HeapInv' /\ OwnInv'
    BY <1>1, TypeStep, ControlStep, MutateStep, HeapStep, OwnStep DEF CInv
  <2>2. GuardInv' /\ FreshInv'
    BY <1>1, GuardStep, FreshStep DEF CInv
  <2>3. TableTaskInv' /\ ClearTaskInv' /\ SweptInv'
    BY <1>1, TableTaskStep, ClearTaskStep, SweptStep DEF CInv
  <2>4. RebuiltInv' /\ WatchInv'
    BY <1>1, RebuiltStep, WatchStep DEF CInv
  <2>5. QED
    BY <2>1, <2>2, <2>3, <2>4 DEF CInv
<1>2. CASE UNCHANGED vars
  <2>1. /\ UNCHANGED <<entries, heap, deferred, waits, inside, mutateMutex, mutex, running, state, cancelled>>
        /\ UNCHANGED <<pc, op, key, obj, ptr, base, calls, seen, terminated>>
        /\ UNCHANGED <<made, onDone, rebuilt, swept>>
    BY <1>2 DEF vars, tableVars, guardVars, taskVars, locals, history
  <2>2. TypeOK' /\ ControlInv' /\ MutateInv'
    BY <2>1 DEF CInv, TypeOK, ControlInv, MutateInv
  <2>3. HeapInv' /\ OwnInv' /\ GuardInv' /\ FreshInv'
    BY <2>1 DEF CInv, HeapInv, OwnInv, Owning, GuardInv, Guards, FreshInv, Creating
  <2>4. TableTaskInv' /\ ClearTaskInv' /\ SweptInv'
    BY <2>1 DEF CInv, TableTaskInv, ClearTaskInv, SweptInv, Starting, Begun
  <2>5. RebuiltInv' /\ WatchInv'
    BY <2>1 DEF CInv, RebuiltInv, Rebuilding, WatchInv, Owning, Agrees
  <2>6. QED
    BY <2>2, <2>3, <2>4, <2>5 DEF CInv
<1>3. QED
  BY <1>1, <1>2

\* The inductive invariant holds in every reachable state.
THEOREM CInvAlways == Spec => []CInv
  BY CInvInit, CInvStep, PTL DEF Spec

\* Every variable keeps its type.
THEOREM TypeCorrect == Spec => []TypeOK
<1>1. CInv => TypeOK
  BY DEF CInv
<1>2. QED
  BY <1>1, CInvAlways, PTL

\* With the guards that the collection holds around RcuProtected, no table is used
\* after it is freed, nor freed twice or while it is current
\* (rest/rest_collection_impl.h:528, 696).
THEOREM NoUseAfterFreeCorrect == Spec => []NoUseAfterFree
<1>1. CInv => NoUseAfterFree
  <2>1. SUFFICES ASSUME CInv PROVE NoUseAfterFree
    OBVIOUS
  <2>2. ASSUME NEW t \in Threads, pc[t] = "use"
        PROVE  heap[ptr[t]] # None
    BY <2>1, <2>2, TableAtHand, EmptyTable DEF CInv
  <2>3. ASSUME NEW t \in Threads, pc[t] = "sweep"
        PROVE  heap[ptr[t]] # None
    <3>1. t \in Clients /\ op[t] = "clear"
      BY <2>1, <2>3 DEF CInv, ControlInv, TypeOK, Threads, Operations, Edits, Runs, Cancels
    <3>2. QED
      BY <2>1, <2>3, <3>1 DEF CInv, OwnInv, Owning, Sweeps
  <2>4. QED
    BY <2>1, <2>2, <2>3 DEF CInv, HeapInv, NoUseAfterFree
<1>2. QED
  BY <1>1, CInvAlways, PTL

\* A compare-and-swap that succeeds replaces the table that was copied, although
\* addresses are used again (cmp_xchg of arch/rcu_protected.h).
THEOREM SwapsWhatItCopiedCorrect == Spec => []SwapsWhatItCopied
<1>1. CInv => SwapsWhatItCopied
  BY DEF CInv, GuardInv, SwapsWhatItCopied
<1>2. QED
  BY <1>1, CInvAlways, PTL

\* Between mutations a watch that folds its events has the values of the table,
\* but for those that were being rebuilt when clear removed them
\* (rest/rest_collection_impl.h).
THEOREM WatchersAgreeCorrect == Spec => []WatchersAgree
<1>1. CInv => WatchersAgree
  <2>1. SUFFICES ASSUME CInv, mutateMutex = None, seen # None, NEW k \in Keys
                 PROVE  Agrees(seen[k], heap[entries][k].value)
    BY DEF WatchersAgree, Agrees
  <2>2. \A t \in Threads : pc[t] = "event" => op[t] \in Mutators
    BY <2>1 DEF CInv, ControlInv, TypeOK, Threads, Operations, Edits, Cancels, Sweeps, Mutators
  <2>3. \A t \in Threads : pc[t] # "event"
    BY <2>1, <2>2, RestCollectionAssumption DEF CInv, MutateInv, Edits
  <2>4. \A c \in Clients : ~Owning(c)
    BY <2>1, RestCollectionAssumption DEF CInv, MutateInv, Owning, Mutators, Threads
  <2>5. QED
    BY <2>1, <2>3, <2>4 DEF CInv, WatchInv
<1>2. QED
  BY <1>1, CInvAlways, PTL

\* A task that clear has stopped is not running afterwards either: its barrier waits for
\* whoever has published a task and not yet started it (rest/rest_collection_impl.h).
THEOREM ClearStopsTasksCorrect == Spec => []ClearStopsTasks
<1>1. CInv => ClearStopsTasks
  BY DEF CInv, SweptInv, ClearStopsTasks
<1>2. QED
  BY <1>1, CInvAlways, PTL


=============================================================================
