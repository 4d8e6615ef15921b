----------------------------- MODULE ThreadPool -----------------------------
(***************************************************************************)
(* ThreadPool::Itl of base/thread_pool.cc: jobs are added to the queue of  *)
(* the calling thread, run by whoever pops or steals them, and counted by  *)
(* submitted and finished.  A root pool has workers of its own; a child    *)
(* pool borrows the workers of its parent, one parent job at a time.       *)
(*                                                                         *)
(* The queue of each thread is the deque that ThreadQueue implements.  A   *)
(* thread has a stack of frames, the innermost last: a job may add jobs,   *)
(* and adding to a full queue runs the job on the spot.  One action is one *)
(* access to state shared between threads.  The order in which stealWork   *)
(* visits the queues is left open.                                         *)
(***************************************************************************)
EXTENDS Integers, Sequences, FiniteSets

CONSTANTS
    Clients,          \* external threads
    Creator,          \* the client that constructs the pool
    Workers,          \* threads of the pool, or of its parent
    HasParent,        \* parent # nullptr
    maxParentJobs,
    QueueSize,        \* ThreadQueue::NUMBER_OF_ITEMS
    Jobs,             \* a job is one call of add
    Spawns,           \* Spawns[j]: the jobs that job j adds
    Throws,           \* the jobs that throw (handleExceptions is then set)
    NoJob

Threads == Clients \cup Workers

ASSUME ThreadPoolAssumption ==
    /\ Clients \cap Workers = {}
    /\ Creator \in Clients
    /\ HasParent \in BOOLEAN
    /\ maxParentJobs \in Nat
    /\ QueueSize \in Nat \ {0}
    /\ Spawns \in [Jobs -> SUBSET Jobs]
    /\ \A i, j \in Jobs : Spawns[i] \cap Spawns[j] # {} => i = j
    /\ Throws \subseteq Jobs
    /\ NoJob \notin Jobs

VARIABLES
    submitted, finished,
    hasExc, exc,          \* exc: the job whose exception was kept, or NoJob
    shutdown,
    threadsSleeping,
    parentJobs,
    parentQueue,          \* parent jobs added to the parent and not begun
    strong,               \* references to the pool that parent jobs hold
    queue,                \* ThreadEntry::queue of each thread
    queues,               \* threads whose queue is published
    known,                \* ThreadEntry::queues: the cached copy of queues
    stack,                \* frames of each thread
    result,               \* what runMine or stealWork last returned
    job                   \* history: how far each job has come

counters == <<submitted, finished>>
excVars  == <<hasExc, exc>>
parentVars == <<parentJobs, parentQueue, strong>>
queueVars == <<queue, queues, known>>
vars == <<counters, excVars, shutdown, threadsSleeping, parentVars, queueVars,
          stack, result, job>>

\* A step that is local to its thread.
StackOnly == UNCHANGED <<counters, excVars, shutdown, threadsSleeping, parentVars,
                         queueVars, result, job>>

-----------------------------------------------------------------------------
(* Frames: the label, the job at hand, what is left to do (jobs to add or  *)
(* queues to visit), the queue being looked at, whether work was found, and*)
(* the count loaded.                                                       *)

Frame(l) == [at |-> l, job |-> NoJob, left |-> {}, from |-> {}, found |-> FALSE, n |-> 0]

AddFrame(j) == [Frame("submit") EXCEPT !.job = j]

RunFrame(j) == [Frame("body") EXCEPT !.job = j, !.left = Spawns[j]]

\* Jobs run to their end, so client threads stay in their function.
Top(t) == stack[t][Len(stack[t])]

\* The frames below the innermost one.
Below(t) == SubSeq(stack[t], 1, Len(stack[t]) - 1)

At(t, l) == stack[t] # <<>> /\ Top(t).at = l

Become(t, f) == stack' = [stack EXCEPT ![t] = Append(Below(t), f)]

Goto(t, l) == Become(t, [Top(t) EXCEPT !.at = l])

\* Call g; f is the frame of the caller, to which g returns.
CallFrom(t, f, g) == stack' = [stack EXCEPT ![t] = Append(Append(Below(t), f), g)]

\* Call g and go on at label l when it returns.
Call(t, l, g) == CallFrom(t, [Top(t) EXCEPT !.at = l], g)

Return(t) == stack' = [stack EXCEPT ![t] = Below(t)]

ReturnValue(t, v) == Return(t) /\ result' = [result EXCEPT ![t] = v]

Progress(j, s) == job' = [job EXCEPT ![j] = s]

\* The frames of thread t that are at one of the labels ls.
FramesAt(t, ls) == {k \in DOMAIN stack[t] : stack[t][k].at \in ls}

Init ==
    /\ submitted = 0 /\ finished = 0
    /\ hasExc = 0 /\ exc = NoJob
    /\ shutdown = FALSE
    /\ threadsSleeping = 0
    /\ parentJobs = 0 /\ parentQueue = 0 /\ strong = 0
    /\ queue = [t \in Threads |-> <<>>]
    /\ queues = {Creator}
    /\ known = [t \in Threads |-> {}]
    /\ stack = [t \in Threads |->
                  <<Frame(IF t \in Clients THEN "client"
                          ELSE IF HasParent THEN "parent" ELSE "start")>>]
    /\ result = [t \in Threads |-> FALSE]
    /\ job = [j \in Jobs |-> "new"]

\* The first use of a pool by a thread publishes the queue of the thread.
getEntry(t) == queues' = IF shutdown THEN queues ELSE queues \cup {t}

-----------------------------------------------------------------------------
(* What clients do.                                                        *)

Spawned == UNION {Spawns[j] : j \in Jobs}

clientAdd(t) ==
    /\ At(t, "client")
    /\ \E j \in Jobs \ Spawned :
          /\ job[j] = "new"
          /\ Progress(j, "adding")
          /\ Call(t, "client", AddFrame(j))
    /\ UNCHANGED <<counters, excVars, shutdown, threadsSleeping, parentVars,
                   queueVars, result>>

clientWait(t) ==
    /\ At(t, "client")
    /\ Call(t, "client", Frame("waitSubmitted"))
    /\ getEntry(t)
    /\ UNCHANGED <<counters, excVars, shutdown, threadsSleeping, parentVars,
                   queue, known, result, job>>

\* work(): lend the thread to the pool.
clientWork(t) ==
    /\ At(t, "client")
    /\ Call(t, "client", Frame("work"))
    /\ StackOnly

\* The thread ends: unpublishThread runs what is in its queue first.
clientExit(t) ==
    /\ At(t, "client")
    /\ Become(t, Frame(IF t \in queues THEN "unpublish" ELSE "gone"))
    /\ StackOnly

\* Fault: the queue is withdrawn with whatever is in it.
unpublishAtOnce(t) ==
    /\ At(t, "unpublish")
    /\ Become(t, Frame("gone"))
    /\ queues' = queues \ {t}
    /\ UNCHANGED <<counters, excVars, shutdown, threadsSleeping, parentVars,
                   queue, known, result, job>>

unpublishThread(t) ==
    /\ \/ /\ At(t, "unpublish")
          /\ Call(t, "unpublishMine", Frame("mine"))
          /\ UNCHANGED queues
       \/ /\ At(t, "unpublishMine")
          /\ Become(t, Frame(IF result[t] THEN "unpublish" ELSE "gone"))
          /\ queues' = IF result[t] THEN queues ELSE queues \ {t}
    /\ UNCHANGED <<counters, excVars, shutdown, threadsSleeping, parentVars,
                   queue, known, result, job>>

\* ~ThreadPool, once no other client uses the pool.  ~Itl of a root pool
\* follows at once; a child pool lives on while parent jobs work for it.
destroy(t) ==
    /\ At(t, "client")
    /\ \A u \in Clients \ {t} : At(u, "gone")
    /\ shutdown' = (shutdown \/ strong = 0)
    /\ Become(t, Frame(IF HasParent THEN "destroyed" ELSE "notifyAll"))
    /\ UNCHANGED <<counters, excVars, threadsSleeping, parentVars, queueVars,
                   result, job>>

notifyAll(t) ==
    /\ At(t, "notifyAll")
    /\ stack' = [u \in Threads |->
                   IF u = t THEN <<Frame("join")>>
                   ELSE IF At(u, "sleep") THEN <<Frame("wake")>> ELSE stack[u]]
    /\ StackOnly

join(t) ==
    /\ At(t, "join")
    /\ \A w \in Workers : At(w, "gone")
    /\ Become(t, Frame("destroyed"))
    /\ StackOnly

-----------------------------------------------------------------------------
(* add.                                                                    *)

addSubmit(t) ==
    /\ At(t, "submit")
    /\ submitted' = submitted + 1
    /\ Goto(t, "push")
    /\ UNCHANGED <<finished, excVars, shutdown, threadsSleeping, parentVars,
                   queueVars, result, job>>

\* The jobs just stolen from the queue of t: the thief may not have counted
\* them off num_queued_ yet.
Uncounted(t) ==
    {u \in Threads \ {t} : /\ At(u, "body") /\ Len(stack[u]) > 1
                           /\ stack[u][Len(stack[u]) - 1].at = "stole"
                           /\ stack[u][Len(stack[u]) - 1].from = {t}
                           /\ Top(u).left = Spawns[Top(u).job]}

\* A queue that is full by its count makes the caller run the job itself.
addPush(t) ==
    /\ At(t, "push")
    /\ getEntry(t)
    /\ LET j == Top(t).job
       IN  \/ /\ Len(queue[t]) + Cardinality(Uncounted(t)) >= QueueSize
              /\ Call(t, "added", RunFrame(j))
              /\ Progress(j, "running")
              /\ UNCHANGED queue
           \/ /\ Len(queue[t]) < QueueSize
              /\ queue' = [queue EXCEPT ![t] = Append(@, j)]
              /\ Progress(j, "queued")
              /\ Goto(t, "notify")
    /\ UNCHANGED <<counters, excVars, shutdown, threadsSleeping, parentVars,
                   known, result>>

\* A job that was run on the spot needs nobody else.
addReturn(t) ==
    /\ At(t, "added")
    /\ Return(t)
    /\ StackOnly

\* A root pool wakes one of the workers in wait_for, if any is said to sleep.
addNotify(t) ==
    /\ At(t, "notify") /\ ~HasParent
    /\ LET asleep == {w \in Workers : At(w, "sleep")}
       IN  IF threadsSleeping > 0 /\ asleep # {}
           THEN \E w \in asleep :
                   stack' = [stack EXCEPT ![w] = Append(Below(w), Frame("wake")), ![t] = Below(t)]
           ELSE Return(t)
    /\ StackOnly

\* Fault: the limit is not looked at.
addParentAlways(t) ==
    /\ At(t, "notify") /\ HasParent
    /\ parentJobs' = parentJobs + 1
    /\ Goto(t, "parentAdd")
    /\ UNCHANGED <<counters, excVars, shutdown, threadsSleeping, parentQueue,
                   strong, queueVars, result, job>>

\* A child pool counts one more parent job before it looks at the limit.
addParent(t) ==
    /\ At(t, "notify") /\ HasParent
    /\ parentJobs' = parentJobs + 1
    /\ Goto(t, IF parentJobs >= maxParentJobs THEN "parentUndo" ELSE "parentAdd")
    /\ UNCHANGED <<counters, excVars, shutdown, threadsSleeping, parentQueue,
                   strong, queueVars, result, job>>

addParentUndo(t) ==
    /\ At(t, "parentUndo")
    /\ parentJobs' = parentJobs - 1
    /\ Return(t)
    /\ UNCHANGED <<counters, excVars, shutdown, threadsSleeping, parentQueue,
                   strong, queueVars, result, job>>

\* The queue that the thread has in the parent may be full, whoever filled it:
\* then the parent job is run here.
addParentJob(t) ==
    /\ At(t, "parentAdd")
    /\ \/ /\ parentQueue' = parentQueue + 1
          /\ Return(t)
          /\ UNCHANGED strong
       \/ /\ strong' = strong + 1
          /\ Call(t, "added", Frame("parentLoop"))
          /\ UNCHANGED parentQueue
    /\ UNCHANGED <<counters, excVars, shutdown, threadsSleeping, parentJobs,
                   queueVars, result, job>>

-----------------------------------------------------------------------------
(* runJob, with the body of the job, and handleException.                  *)

bodyAdd(t) ==
    /\ At(t, "body")
    /\ \E j \in Top(t).left :
          /\ Progress(j, "adding")
          /\ CallFrom(t, [Top(t) EXCEPT !.left = @ \ {j}], AddFrame(j))
    /\ UNCHANGED <<counters, excVars, shutdown, threadsSleeping, parentVars,
                   queueVars, result>>

\* The body returns or throws.
bodyEnd(t) ==
    /\ At(t, "body") /\ Top(t).left = {}
    /\ Progress(Top(t).job, IF Top(t).job \in Throws THEN "threw" ELSE "done")
    /\ Goto(t, "finish")
    /\ UNCHANGED <<counters, excVars, shutdown, threadsSleeping, parentVars,
                   queueVars, result>>

\* Fault: only a job that does not throw is counted.
jobFinishNormal(t) ==
    /\ At(t, "finish")
    /\ finished' = finished + (IF Top(t).job \in Throws THEN 0 ELSE 1)
    /\ IF Top(t).job \in Throws THEN Goto(t, "hasExc") ELSE Return(t)
    /\ UNCHANGED <<submitted, excVars, shutdown, threadsSleeping, parentVars,
                   queueVars, result, job>>

jobFinish(t) ==
    /\ At(t, "finish")
    /\ finished' = finished + 1
    /\ IF Top(t).job \in Throws THEN Goto(t, "hasExc") ELSE Return(t)
    /\ UNCHANGED <<submitted, excVars, shutdown, threadsSleeping, parentVars,
                   queueVars, result, job>>

\* Fault: every exception but the first is kept.
handleLaterException(t) ==
    /\ \/ /\ At(t, "hasExc")
          /\ hasExc' = hasExc + 1
          /\ IF hasExc > 0 THEN Goto(t, "exc") ELSE Return(t)
          /\ UNCHANGED exc
       \/ /\ At(t, "exc")
          /\ exc' = Top(t).job
          /\ Return(t)
          /\ UNCHANGED hasExc
    /\ UNCHANGED <<counters, shutdown, threadsSleeping, parentVars, queueVars,
                   result, job>>

handleException(t) ==
    /\ \/ /\ At(t, "hasExc")
          /\ hasExc' = hasExc + 1
          /\ IF hasExc = 0 THEN Goto(t, "exc") ELSE Return(t)
          /\ UNCHANGED exc
       \/ /\ At(t, "exc")
          /\ exc' = Top(t).job
          /\ Return(t)
          /\ UNCHANGED hasExc
    /\ UNCHANGED <<counters, shutdown, threadsSleeping, parentVars, queueVars,
                   result, job>>

-----------------------------------------------------------------------------
(* runMine and stealWork.                                                  *)

runMine(t) ==
    /\ At(t, "mine")
    /\ IF queue[t] = <<>>
       THEN /\ ReturnValue(t, Top(t).found)
            /\ UNCHANGED <<queue, job>>
       ELSE LET j == queue[t][Len(queue[t])]
            IN  /\ queue' = [queue EXCEPT ![t] = SubSeq(@, 1, Len(@) - 1)]
                /\ Progress(j, "running")
                /\ CallFrom(t, [Top(t) EXCEPT !.found = TRUE], RunFrame(j))
                /\ UNCHANGED result
    /\ UNCHANGED <<counters, excVars, shutdown, threadsSleeping, parentVars,
                   queues, known>>

\* queuesMutex may be held by a thread that publishes its queue, withdraws it
\* or copies the list.
MutexMayBeHeld(t) ==
    \E u \in Threads \ {t} :
        \/ u \notin queues /\ \E l \in {"client", "push", "work", "start"} : At(u, l)
        \/ At(u, "unpublishMine") \/ At(u, "steal")

\* Bring the cached list up to date, unless the try_lock fails.  Then, before
\* the loop, visit the queue where work was found last, if that is known.
stealRefresh(t) ==
    /\ At(t, "steal")
    /\ \E list \in {queues} \cup (IF MutexMayBeHeld(t) THEN {known[t]} ELSE {}) :
          /\ known' = [known EXCEPT ![t] = list]
          /\ \E last \in {{}} \cup {{q} : q \in list \ {t}} :
                Become(t, [Top(t) EXCEPT !.at = "look", !.from = last, !.left = list])
    /\ UNCHANGED <<counters, excVars, shutdown, threadsSleeping, parentVars,
                   queue, queues, result, job>>

\* The loop over the queues: on to the next one, unless there is none or the
\* pool is going away.
stealNext(t) ==
    /\ At(t, "scan")
    /\ IF Top(t).left = {} \/ shutdown
       THEN ReturnValue(t, Top(t).found)
       ELSE /\ \E q \in Top(t).left :
                   Become(t, [Top(t) EXCEPT !.at = "look", !.left = @ \ {q}, !.from = {q}])
            /\ UNCHANGED result
    /\ UNCHANGED <<counters, excVars, shutdown, threadsSleeping, parentVars,
                   queueVars, job>>

\* Look at a queue: its oldest job is seen, to be claimed next.
stealLook(t) ==
    /\ At(t, "look")
    /\ LET seen == {q \in Top(t).from : queue[q] # <<>>}
       IN  IF seen = {}
           THEN Become(t, [Top(t) EXCEPT !.at = "scan", !.from = {}])
           ELSE \E q \in seen :
                   Become(t, [Top(t) EXCEPT !.at = "claim", !.job = Head(queue[q])])
    /\ StackOnly

\* Fault: the job is run without being claimed first.
stealClaimLate(t) ==
    /\ At(t, "claim")
    /\ \E q \in Top(t).from :
          LET j == Top(t).job
          IN  /\ queue' = [queue EXCEPT ![q] = IF @ # <<>> THEN Tail(@) ELSE @]
              /\ Progress(j, "running")
              /\ CallFrom(t, [Top(t) EXCEPT !.at = "stole", !.found = TRUE, !.job = NoJob],
                          RunFrame(j))
    /\ UNCHANGED <<counters, excVars, shutdown, threadsSleeping, parentVars,
                   queues, known, result>>

\* Claim it; if another thread was faster, leave this queue.
stealClaim(t) ==
    /\ At(t, "claim")
    /\ \E q \in Top(t).from :
          LET j == Top(t).job
          IN  IF queue[q] # <<>> /\ Head(queue[q]) = j
              THEN /\ queue' = [queue EXCEPT ![q] = Tail(@)]
                   /\ Progress(j, "running")
                   /\ CallFrom(t, [Top(t) EXCEPT !.at = "stole", !.found = TRUE, !.job = NoJob],
                               RunFrame(j))
              ELSE /\ Become(t, [Top(t) EXCEPT !.at = "scan", !.job = NoJob, !.from = {}])
                   /\ UNCHANGED <<queue, job>>
    /\ UNCHANGED <<counters, excVars, shutdown, threadsSleeping, parentVars,
                   queues, known, result>>

\* After a stolen job the thread runs what the job put in its own queue, and
\* looks at the same queue again.
stealMine(t) ==
    /\ At(t, "stole")
    /\ Call(t, "look", Frame("mine"))
    /\ StackOnly

-----------------------------------------------------------------------------
(* waitForAll.                                                             *)

\* jobsRunning(): the first of its two loads.
waitSubmitted(t) ==
    /\ At(t, "waitSubmitted")
    /\ Become(t, IF shutdown THEN [Top(t) EXCEPT !.at = "waitExc"]
                 ELSE [Top(t) EXCEPT !.at = "waitFinished", !.n = submitted])
    /\ StackOnly

\* The second: jobs remain unless the difference is zero.
waitFinished(t) ==
    /\ At(t, "waitFinished")
    /\ IF Top(t).n = finished
       THEN Become(t, Frame("waitExc"))
       ELSE CallFrom(t, Frame("waitMine"), Frame("mine"))
    /\ StackOnly

waitWork(t) ==
    /\ \/ At(t, "waitMine") /\ result[t] /\ Goto(t, "waitSubmitted")
       \/ At(t, "waitMine") /\ ~result[t] /\ Call(t, "waitSubmitted", Frame("steal"))
    /\ StackOnly

\* Rethrow the exception kept, or return.
waitExc(t) ==
    /\ At(t, "waitExc")
    /\ Goto(t, IF hasExc > 0 THEN "rethrow" ELSE "waited")
    /\ StackOnly

waitReturn(t) ==
    /\ At(t, "rethrow") \/ At(t, "waited")
    /\ Return(t)
    /\ StackOnly

-----------------------------------------------------------------------------
(* runWorker, and runParentWorker on a worker of the parent.               *)

workerStart(t) ==
    /\ At(t, "start")
    /\ getEntry(t)
    /\ Goto(t, "loop")
    /\ UNCHANGED <<counters, excVars, shutdown, threadsSleeping, parentVars,
                   queue, known, result, job>>

workerLoop(t) ==
    /\ At(t, "loop")
    /\ IF shutdown THEN Become(t, Frame("gone"))
       ELSE Call(t, "workerMine", Frame("mine"))
    /\ StackOnly

workerWork(t) ==
    /\ \/ At(t, "workerMine") /\ result[t] /\ Goto(t, "loop")
       \/ At(t, "workerMine") /\ ~result[t] /\ Call(t, "workerStole", Frame("steal"))
       \/ At(t, "workerStole") /\ result[t] /\ Goto(t, "loop")
       \/ At(t, "workerStole") /\ ~result[t] /\ submitted # finished /\ Goto(t, "loop")
    /\ StackOnly

\* Nothing to do: when all is finished, and every tenth time otherwise.
workerSleep(t) ==
    /\ At(t, "workerStole") /\ ~result[t]
    /\ threadsSleeping' = threadsSleeping + 1
    /\ Goto(t, "doze")
    /\ UNCHANGED <<counters, excVars, shutdown, parentVars, queueVars, result, job>>

\* From here on, and not before, a notification reaches the worker.
workerWait(t) ==
    /\ At(t, "doze")
    /\ Goto(t, "sleep")
    /\ StackOnly

\* Fault: wait, not wait_for.
workerTimeoutNever(t) ==
    /\ At(t, "sleep") /\ FALSE
    /\ Goto(t, "wake")
    /\ StackOnly

\* wait_for returns by itself after a while.
workerTimeout(t) ==
    /\ At(t, "sleep")
    /\ Goto(t, "wake")
    /\ StackOnly

workerWake(t) ==
    /\ At(t, "wake")
    /\ threadsSleeping' = threadsSleeping - 1
    /\ Goto(t, "loop")
    /\ UNCHANGED <<counters, excVars, shutdown, parentVars, queueVars, result, job>>

\* work(): runMine, and stealWork if that found nothing.
work(t) ==
    /\ \/ /\ At(t, "work")
          /\ getEntry(t)
          /\ Call(t, "workMine", Frame("mine"))
       \/ /\ At(t, "workMine")
          /\ IF result[t] THEN Return(t) ELSE Become(t, Frame("steal"))
          /\ UNCHANGED queues
    /\ UNCHANGED <<counters, excVars, shutdown, threadsSleeping, parentVars,
                   queue, known, result, job>>

\* A worker of the parent takes one of the parent jobs, which does nothing if
\* the child pool is gone.
parentBegin(t) ==
    /\ At(t, "parent") /\ parentQueue > 0
    /\ parentQueue' = parentQueue - 1
    /\ IF shutdown THEN UNCHANGED <<stack, strong>>
       ELSE strong' = strong + 1 /\ Call(t, "parent", Frame("parentLoop"))
    /\ UNCHANGED <<counters, excVars, shutdown, threadsSleeping, parentJobs,
                   queueVars, result, job>>

\* runParentWorker: while work() finds something.
runParentWorker(t) ==
    /\ \/ At(t, "parentLoop") /\ Call(t, "parentWorked", Frame("work"))
       \/ At(t, "parentWorked") /\ result[t] /\ Goto(t, "parentLoop")
    /\ StackOnly

\* The last reference to a pool that was released takes it along.
parentEnd(t) ==
    /\ At(t, "parentWorked") /\ ~result[t]
    /\ parentJobs' = parentJobs - 1
    /\ strong' = strong - 1
    /\ shutdown' = (shutdown \/ (strong = 1 /\ \E u \in Clients : At(u, "destroyed")))
    /\ Return(t)
    /\ UNCHANGED <<counters, excVars, threadsSleeping, parentQueue, queueVars,
                   result, job>>

-----------------------------------------------------------------------------
ClientCalls(t) ==
    clientAdd(t) \/ clientWait(t) \/ clientWork(t) \/ clientExit(t) \/ destroy(t)

Steps(t) ==
    \/ unpublishThread(t) \/ notifyAll(t) \/ join(t)
    \/ addSubmit(t) \/ addPush(t) \/ addReturn(t) \/ addNotify(t)
    \/ addParent(t) \/ addParentUndo(t) \/ addParentJob(t)
    \/ bodyAdd(t) \/ bodyEnd(t) \/ jobFinish(t) \/ handleException(t)
    \/ runMine(t) \/ stealRefresh(t) \/ stealNext(t) \/ stealLook(t)
    \/ stealClaim(t) \/ stealMine(t)
    \/ waitSubmitted(t) \/ waitFinished(t) \/ waitWork(t) \/ waitExc(t) \/ waitReturn(t)
    \/ workerStart(t) \/ workerLoop(t) \/ workerWork(t) \/ workerSleep(t)
    \/ workerWait(t) \/ workerTimeout(t) \/ workerWake(t)
    \/ work(t) \/ parentBegin(t) \/ runParentWorker(t) \/ parentEnd(t)

Next == \E t \in Threads : ClientCalls(t) \/ Steps(t)

Spec == Init /\ [][Next]_vars

\* Every thread is scheduled; a client calls what and when it likes.
FairSpec == Spec /\ \A t \in Threads : WF_vars(Steps(t))

-----------------------------------------------------------------------------
(* Properties.                                                             *)

Labels == {"client", "unpublish", "unpublishMine", "gone", "notifyAll", "join",
           "destroyed", "submit", "push", "added", "notify", "parentUndo",
           "parentAdd", "body", "finish", "hasExc", "exc", "mine", "steal", "scan",
           "look", "claim", "stole", "waitSubmitted", "waitFinished", "waitMine",
           "waitExc", "rethrow", "waited", "start", "loop", "workerMine",
           "workerStole", "doze", "sleep", "wake", "work", "workMine", "parent",
           "parentLoop", "parentWorked"}

\* The shape of the state.
TypeOK ==
    /\ submitted \in Nat /\ finished \in Nat /\ hasExc \in Nat
    /\ exc \in Jobs \cup {NoJob}
    /\ shutdown \in BOOLEAN
    /\ threadsSleeping \in 0 .. Cardinality(Workers)
    /\ parentJobs \in Nat /\ parentQueue \in Nat /\ strong \in Nat
    /\ \A t \in Threads :
          /\ \A k \in DOMAIN queue[t] : queue[t][k] \in Jobs
          /\ Len(queue[t]) <= QueueSize
          /\ known[t] \subseteq Threads
          /\ FramesAt(t, Labels) = DOMAIN stack[t]
    /\ queues \subseteq Threads
    /\ result \in [Threads -> BOOLEAN]
    /\ job \in [Jobs -> {"new", "adding", "queued", "running", "done", "threw"}]

\* A job is in one place: in one queue, in one frame that runs it or is about
\* to queue it, or over.  So no job is run twice or dropped, whichever of
\* runMine, stealWork and the overflow of add takes it
\* (base/thread_pool.cc:310-447).
JobInOnePlace ==
    \A j \in Jobs :
        LET queued  == UNION {{<<t, k>> : k \in {i \in DOMAIN queue[t] :
                                  queue[t][i] = j}} : t \in Threads}
            held(ls) == UNION {{<<t, k>> : k \in {i \in FramesAt(t, ls) :
                                   stack[t][i].job = j}} : t \in Threads}
        IN  /\ Cardinality(queued) = IF job[j] = "queued" THEN 1 ELSE 0
            /\ Cardinality(held({"body"})) = IF job[j] = "running" THEN 1 ELSE 0
            /\ Cardinality(held({"submit", "push"})) = IF job[j] = "adding" THEN 1 ELSE 0

\* submitted - finished is the number of jobs that were submitted and whose
\* body has not been counted as ended (base/thread_pool.cc:187-193, 312,
\* 454-456); threadsSleeping, which add trusts before it notifies anyone
\* (:353), counts the workers on their way to sleep, asleep or woken.
InFlight ==
    {j \in Jobs : \/ job[j] \in {"queued", "running"}
                  \/ \E t \in Threads : \E k \in DOMAIN stack[t] :
                        stack[t][k].job = j /\ stack[t][k].at \in {"push", "finish"}}

CountersExact ==
    /\ submitted - finished = Cardinality(InFlight)
    /\ threadsSleeping = Cardinality({t \in Workers : \E w \in {"doze", "sleep", "wake"} : At(t, w)})

\* "POST: no thread is running any work that was added to this thread pool"
\* (base/thread_pool.h:73): when waitForAll has returned or rethrown, no job
\* of the pool is queued or running.
WaitedForAll ==
    \A t \in Clients : At(t, "waited") \/ At(t, "rethrow") =>
        \A j \in Jobs : job[j] \notin {"queued", "running"}

\* "If an exception is or has been thrown in a job, then it will be rethrown
\* from this function" (base/thread_pool.h:70-71): waitForAll does not return
\* normally, or with no exception to rethrow, after a job threw.
ExceptionRethrown ==
    \A t \in Clients :
        /\ At(t, "waited") => \A j \in Jobs : job[j] # "threw"
        /\ At(t, "rethrow") => exc # NoJob

\* Of several jobs that throw at once, one exception is kept: from the throw on
\* it is kept or on its way (base/thread_pool.cc:456-477), and "only the thread
\* that increments hasExc from 0 to 1 may assign" (base/thread_pool.cc:177-178):
\* never two threads at once, never over an exception that is kept. That
\* waitForAll sees it is another matter (ExceptionRethrown).
ThrowRecorded ==
    /\ \A j \in Jobs : job[j] = "threw" =>
        hasExc > 0 \/ \E t \in Threads : (At(t, "finish") \/ At(t, "hasExc")) /\ Top(t).job = j
    /\ hasExc > 0 => exc # NoJob \/ \E t \in Threads : At(t, "exc")
    /\ \A t, u \in Threads : At(t, "exc") /\ At(u, "exc") => hasExc > 0 /\ exc = NoJob /\ u = t

\* A child pool never has more parent jobs queued or running than it may
\* (base/thread_pool.cc:321-324): the count is raised before the limit is
\* looked at, but not acted on.
OccupancyRespected ==
    HasParent => parentQueue + strong <= maxParentJobs

\* The jobs of a thread that has ended are not lost with it
\* (base/thread_pool.cc:616-618).
NoOrphanedJobs ==
    \A t \in Threads : At(t, "gone") /\ ~shutdown => queue[t] = <<>>

\* "If this function returns, the job WILL be eventually run, or has already
\* been run" (base/thread_pool.h:56-57), unless the pool is destroyed first.
JobEventuallyRun ==
    \A j \in Jobs : job[j] = "queued" ~> job[j] \in {"done", "threw"} \/ shutdown

\* Destroying a pool ends: every worker comes home although a wake-up may be
\* missed (base/thread_pool.cc:263-277, 545-561).
DestroyEnds == \A t \in Clients : At(t, "join") ~> At(t, "destroyed")

=============================================================================
