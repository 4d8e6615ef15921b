----------------------------- MODULE MessageLoop -----------------------------
(***************************************************************************)
(* MessageLoop (io/message_loop.cc): one thread that waits on an epoll set *)
(* and runs the sources in it, here sinks of module MessageSink.  Sources  *)
(* are added and removed by the loop's own thread: the clients queue those *)
(* actions in sourceActions_, a TypedMessageQueue                          *)
(* (io/typed_message_channel.h), which is itself in the epoll set.  Its    *)
(* push_back and pop_front hold queueLock_ throughout, so each is a step.  *)
(*                                                                         *)
(* A client owns the source it adds: removeSourceSync is called once no    *)
(* other call is using the source, and the source is destroyed when it     *)
(* returns, which is what it is for.  The loop has been started.           *)
(***************************************************************************)
EXTENDS MessageSink, SequencesExt

CONSTANTS Can       \* the calls each client makes, of Calls

Calls == {"push", "tryPush", "addSource", "removeSourceSync", "run", "shutdown"}

ASSUME MessageLoopAssumption ==
    /\ Can \in [Clients -> SUBSET Calls]
    /\ {"queue", "_shutdown", None} \cap Sources = {}

VARIABLES
    queue,           \* sourceActions_: the actions not yet taken
    pending_,        \* was the queue's eventfd signalled since it was last empty?
    notified,        \* is the queue's eventfd readable?
    sources,         \* the sources the loop runs, in the order they were added
    registered,      \* the sources whose eventfd is in the epoll set
    connectionState_,\* of each source: TRUE is CONNECTED
    life,            \* of each source, as its owner sees it
    waking,          \* the source whose owner the loop is to wake, or None
    shutdown_,
    loop,            \* how far the loop's thread is
    batch,           \* events epoll_wait returned that are not handled yet
    actions,         \* actions popped and not yet processed
    visits,          \* sources the current pass over sources has yet to visit
    more             \* has a source of the current pass more to do?

queueVars == <<queue, pending_, notified>>
sourceVars == <<sources, registered, connectionState_, life, waking>>
workVars == <<batch, actions, visits, more>>
loopVars == <<queueVars, sourceVars, shutdown_, loop, workVars>>
vars == <<sinkVars, call, loopVars>>

Action(what, s) == [what |-> what, src |-> s]
ActionSet == {Action(w, s) : w \in {"add", "remove"}, s \in Sources}
             \cup {Action("run", None), Action("add", "_shutdown")}

Init ==
    /\ SinkInit
    /\ call = [c \in Clients |-> Idle]
    /\ queue = <<>> /\ pending_ = FALSE /\ notified = FALSE
    /\ sources = <<>> /\ registered = {}
    /\ connectionState_ = [s \in Sources |-> FALSE]
    /\ life = [s \in Sources |-> "new"] /\ waking = None
    /\ shutdown_ = FALSE
    /\ loop = "top"
    /\ batch = <<>> /\ actions = <<>> /\ visits = <<>> /\ more = FALSE

-----------------------------------------------------------------------------
(* sourceActions_ *)

\* An eventfd write only when nobody was told since the queue was last empty.
push_back(a) ==
    /\ queue' = Append(queue, a)
    /\ pending_' = TRUE
    /\ notified' = (notified \/ ~pending_)

\* The first half of processOne: the eventfd is read until it is empty.
drainQueue ==
    /\ notified' = FALSE
    /\ UNCHANGED <<queue, pending_>>

\* Fault: the queue is empty and still counts as signalled.
pop_front_pending ==
    /\ actions' = queue
    /\ queue' = <<>>
    /\ UNCHANGED <<pending_, notified>>

\* Fault: the actions are handed out the last one first.
pop_front_reversed ==
    /\ actions' = Reverse(queue)
    /\ queue' = <<>>
    /\ pending_' = FALSE
    /\ UNCHANGED notified

\* pop_front(0): everything there is.
pop_front ==
    /\ actions' = queue
    /\ queue' = <<>>
    /\ pending_' = FALSE
    /\ UNCHANGED notified

-----------------------------------------------------------------------------
(* The clients *)

Makes(c, what) == At(c, "idle") /\ what \in Can[c]

UNCHANGED_loop == UNCHANGED <<sourceVars, shutdown_, loop, workVars>>

clientPush(c) ==
    \E s \in Sources, blocks \in BOOLEAN :
        /\ (IF blocks THEN "push" ELSE "tryPush") \in Can[c]
        /\ life[s] \in {"new", "added"}
        /\ push(c, s, blocks)
        /\ UNCHANGED loopVars

\* parent_ is set, so that a source is only ever added once, and the action
\* queued.
addSource(c) ==
    \E s \in Sources :
        /\ Makes(c, "addSource")
        /\ life[s] = "new"
        /\ life' = [life EXCEPT ![s] = "added"]
        /\ push_back(Action("add", s))
        /\ UNCHANGED <<sinkVars, call, sources, registered, connectionState_, waking, shutdown_, loop,
                       workVars>>

\* Does nothing, and says it has succeeded, if the loop has been shut down.
removeSource(s) ==
    IF shutdown_ THEN UNCHANGED queueVars ELSE push_back(Action("remove", s))

removeSourceSync(c) ==
    \E s \in Sources :
        /\ Makes(c, "removeSourceSync")
        /\ life[s] = "added"
        /\ \A d \in Clients : call[d].src # s
        /\ life' = [life EXCEPT ![s] = "leaving"]
        /\ removeSource(s)
        /\ call' = [call EXCEPT ![c].pc = "removing", ![c].src = s]
        /\ UNCHANGED <<sinkVars, sources, registered, connectionState_, waking, shutdown_, loop,
                       workVars>>

\* The actions still to be processed, in their order.
Todo == actions \o queue

ToBeAdded(s) == \E i \in DOMAIN Todo : Todo[i] = Action("add", s)

\* It sleeps on connectionState_ while that is CONNECTED.
removing(c) ==
    /\ At(c, "removing")
    /\ connectionState_[call[c].src]
    /\ Goto(c, "blocked")
    /\ UNCHANGED <<sinkVars, loopVars>>

\* removeSourceSync returns once the source is DISCONNECTED, which it also is
\* before it has been added; the owner destroys the source.
removed(c) ==
    /\ At(c, "removing")
    /\ LET s == call[c].src IN
       /\ ~connectionState_[s]
       /\ life' = [life EXCEPT ![s] = IF ToBeAdded(s) THEN "goneEarly" ELSE "gone"]
    /\ call' = [call EXCEPT ![c] = Idle]
    /\ UNCHANGED <<sinkVars, queueVars, sources, registered, connectionState_, waking, shutdown_, loop,
                   workVars>>

runInMessageLoopThread(c) ==
    /\ Makes(c, "run")
    /\ pushed < MaxMessages  \* bound: a function to run counts as a message
    /\ pushed' = pushed + 1
    /\ push_back(Action("run", None))
    /\ UNCHANGED <<ringVars, mutex, wakeup, reader, sent, handled, call>>
    /\ UNCHANGED_loop

shutdown(c) ==
    /\ Makes(c, "shutdown")
    /\ ~shutdown_
    /\ shutdown_' = TRUE
    /\ Goto(c, "stop")
    /\ UNCHANGED <<sinkVars, queueVars, sourceVars, loop, workVars>>

\* An action that does nothing wakes the loop up.
addShutdownSource(c) ==
    /\ At(c, "stop")
    /\ push_back(Action("add", "_shutdown"))
    /\ Goto(c, "join")
    /\ UNCHANGED sinkVars
    /\ UNCHANGED_loop

join(c) ==
    /\ At(c, "join")
    /\ loop = "done"
    /\ call' = [call EXCEPT ![c] = Idle]
    /\ UNCHANGED <<sinkVars, loopVars>>

Start(c) ==
    \/ clientPush(c) \/ addSource(c) \/ removeSourceSync(c)
    \/ runInMessageLoopThread(c) \/ shutdown(c)

Continue(c) ==
    \/ Write(c) /\ UNCHANGED loopVars
    \/ removing(c) \/ removed(c) \/ addShutdownSource(c) \/ join(c)

-----------------------------------------------------------------------------
(* The loop's thread *)

LoopTo(where) == loop' = where

\* The test at the head of the loop of runWorkerThread, and after its events.
testShutdown ==
    /\ loop = "top"
    /\ LoopTo(IF shutdown_ THEN "done" ELSE "sleep")
    /\ UNCHANGED <<sinkVars, call, queueVars, sourceVars, shutdown_, workVars>>

Ready == {s \in registered : wakeup[s]} \cup (IF notified THEN {"queue"} ELSE {})

\* epoll_wait returns the descriptors that are readable, in any order; the
\* sleep before it ends after a second if there is none.
handleEvents ==
    /\ loop = "sleep"
    /\ batch' \in SetToSeqs(Ready)
    /\ LoopTo("events")
    /\ UNCHANGED <<sinkVars, call, queueVars, sourceVars, shutdown_, actions, visits, more>>

\* The first event of the batch is handled: the queue is drained, or
\* processOne of the source called, through the pointer kept in the event.
handleEpollEvent ==
    /\ loop = "events" /\ batch # <<>> /\ ReadAt("outside")
    /\ batch' = Tail(batch)
    /\ \/ /\ Head(batch) = "queue"
          /\ drainQueue
          /\ LoopTo("eventActions")
          /\ UNCHANGED reader
       \/ /\ Head(batch) # "queue"
          /\ processOne(Head(batch))
          /\ UNCHANGED <<queueVars, loop>>
    /\ UNCHANGED <<ringVars, mutex, wakeup, pushed, sent, handled, call, sourceVars, shutdown_,
                   actions, visits, more>>

\* All the events are handled: MessageLoop::processOne starts with the queue,
\* whether or not it was signalled.
startPass ==
    /\ loop = "events" /\ batch = <<>> /\ ReadAt("outside")
    /\ IF shutdown_ THEN LoopTo("done") /\ UNCHANGED queueVars
                    ELSE LoopTo("passActions") /\ drainQueue
    /\ more' = FALSE
    /\ UNCHANGED <<sinkVars, call, sourceVars, shutdown_, batch, actions, visits>>

\* handleSourceActions takes all the actions.
takeActions ==
    /\ loop \in {"eventActions", "passActions"}
    /\ pop_front
    /\ LoopTo(IF loop = "eventActions" THEN "eventAction" ELSE "passAction")
    /\ UNCHANGED <<sinkVars, call, sourceVars, shutdown_, batch, visits, more>>

Processing(what) ==
    /\ loop \in {"eventAction", "passAction"} /\ waking = None
    /\ actions # <<>> /\ Head(actions).what = what
    /\ actions' = Tail(actions)
    /\ UNCHANGED <<sinkVars, call, queueVars, shutdown_, batch, visits, more, life>>

processAddSource ==
    /\ Processing("add")
    /\ LET s == Head(actions).src IN
       IF s = "_shutdown" THEN UNCHANGED <<sources, registered, connectionState_>>
       ELSE /\ sources' = Append(sources, s)
            /\ registered' = registered \cup {s}
            /\ connectionState_' = [connectionState_ EXCEPT ![s] = TRUE]
    /\ UNCHANGED <<waking, loop>>

\* Fault: the source leaves the epoll set and stays in the list.
removeFromEpoll ==
    /\ Processing("remove")
    /\ LET s == Head(actions).src IN
       /\ registered' = registered \ {s}
       /\ connectionState_' = [connectionState_ EXCEPT ![s] = FALSE]
       /\ waking' = s
    /\ UNCHANGED <<sources, loop>>

\* A source that is not in the list is an exception, which ends the program.
\* The new state lets the owner's removeSourceSync return.
processRemoveSource ==
    /\ Processing("remove")
    /\ LET s == Head(actions).src IN
       IF s \in Range(sources)
       THEN /\ sources' = RemoveFirst(sources, s)
            /\ registered' = registered \ {s}
            /\ connectionState_' = [connectionState_ EXCEPT ![s] = FALSE]
            /\ waking' = s
            /\ UNCHANGED loop
       ELSE /\ LoopTo("threw")
            /\ UNCHANGED <<sources, registered, connectionState_, waking>>

\* Fault: the early return for a source without a descriptor is always taken.
removeSilently ==
    /\ waking # None
    /\ waking' = None
    /\ UNCHANGED <<sinkVars, call, queueVars, sources, registered, connectionState_, life, shutdown_,
                   loop, workVars>>

\* Only then is the owner that sleeps on it woken, through the source.
wakeRemoved ==
    /\ waking # None
    /\ waking' = None
    /\ call' = [c \in Clients |->
         IF At(c, "blocked") /\ call[c].src = waking
         THEN [call[c] EXCEPT !.pc = "removing"] ELSE call[c]]
    /\ UNCHANGED <<sinkVars, queueVars, sources, registered, connectionState_, life, shutdown_,
                   loop, workVars>>

processRunAction ==
    /\ Processing("run")
    /\ UNCHANGED <<sources, registered, connectionState_, waking, loop>>

\* The queue's processOne returns false; in a pass the sources follow.
actionsDone ==
    /\ loop \in {"eventAction", "passAction"} /\ actions = <<>> /\ waking = None
    /\ LoopTo(IF loop = "eventAction" THEN "events" ELSE "visit")
    /\ visits' = IF loop = "eventAction" THEN visits ELSE sources
    /\ UNCHANGED <<sinkVars, call, queueVars, sourceVars, shutdown_, batch, actions, more>>

\* processOne of every source in turn.
visitSource ==
    /\ loop = "visit" /\ visits # <<>> /\ ReadAt("outside")
    /\ processOne(Head(visits))
    /\ visits' = Tail(visits)
    /\ LoopTo("visiting")
    /\ UNCHANGED <<ringVars, mutex, wakeup, pushed, sent, handled, call, queueVars, sourceVars,
                   shutdown_, batch, actions, more>>

visited ==
    /\ loop = "visiting" /\ ReadAt("outside")
    /\ more' = (more \/ reader.more)
    /\ LoopTo("visit")
    /\ UNCHANGED <<sinkVars, call, queueVars, sourceVars, shutdown_, batch, actions, visits>>

\* The pass is repeated while it finds more to do, then the thread sleeps for
\* the latency it is allowed to add.
endPass ==
    /\ loop = "visit" /\ visits = <<>>
    /\ LoopTo(IF more THEN "events" ELSE "top")
    /\ UNCHANGED <<sinkVars, call, queueVars, sourceVars, shutdown_, workVars>>

LoopStep ==
    \/ testShutdown \/ handleEvents \/ handleEpollEvent \/ startPass
    \/ takeActions \/ processAddSource \/ processRemoveSource \/ wakeRemoved \/ processRunAction
    \/ actionsDone \/ visitSource \/ visited \/ endPass
    \/ Read /\ UNCHANGED loopVars

Next == (\E c \in Clients : Start(c) \/ Continue(c)) \/ LoopStep

Spec == Init /\ [][Next]_vars

\* Threads are scheduled fairly, and the sleep in epoll ends after a second; no
\* client need ever make a call.
FairSpec == Spec /\ WF_vars(LoopStep) /\ \A c \in Clients : WF_vars(Continue(c))

-----------------------------------------------------------------------------
(* Properties *)

\* Every variable has its type: no position leaves the ring, whatever is pushed
\* and popped (io/ring_buffer.h:274-285, 353).
TypeOK ==
    /\ ring \in [Sources -> [Positions -> Messages \cup {None}]]
    /\ readPosition \in [Sources -> Positions] /\ writePosition \in [Sources -> Positions]
    /\ mutex \in [Sources -> Clients \cup {None}]
    /\ wakeup \in [Sources -> BOOLEAN]
    /\ call \in [Clients ->
         [pc : {"idle", "lock", "wait", "asleep", "store", "advance", "signal",
                "removing", "blocked", "stop", "join"},
          src : Sources \cup {None}, msg : Messages \cup {None},
          blocks : BOOLEAN, full : Positions]]
    /\ reader \in [pc : {"outside", "pop", "advance", "wake", "more", "drain", "again"},
                   src : Sources \cup {None}, msg : Messages \cup {None}, more : BOOLEAN]
    /\ pushed \in 0..MaxMessages
    /\ sent \in [Sources -> Seq(Messages)] /\ handled \in [Sources -> Seq(Messages)]
    /\ queue \in Seq(ActionSet) /\ actions \in Seq(ActionSet)
    /\ pending_ \in BOOLEAN /\ notified \in BOOLEAN
    /\ sources \in Seq(Sources) /\ registered \subseteq Sources
    /\ connectionState_ \in [Sources -> BOOLEAN]
    /\ life \in [Sources -> {"new", "added", "leaving", "gone", "goneEarly"}]
    /\ waking \in Sources \cup {None}
    /\ shutdown_ \in BOOLEAN
    /\ loop \in {"top", "sleep", "events", "eventActions", "eventAction", "passActions",
                 "passAction", "visit", "visiting", "done", "threw"}
    /\ batch \in Seq(Sources \cup {"queue"}) /\ visits \in Seq(Sources) /\ more \in BOOLEAN

\* An action that was queued is noticed: the queue's eventfd is readable, or
\* the loop's thread has drained it and is about to take all the actions.  It
\* is signalled for the first action only, so one drained too late would leave
\* the others waiting for the next (io/typed_message_channel.h:133-138, 168-171).
ActionsNoticed ==
    queue # <<>> => notified \/ loop \in {"eventActions", "passActions"}

\* The loop's thread does not go to sleep on a message: once a pass over the
\* sources has found nothing more to do, and until epoll_wait is called, a
\* source in the epoll set with a message in its ring has a readable eventfd,
\* or a client about to make it readable.  Draining the eventfd after the ring
\* was found empty is the "race condition" of io/typed_message_channel.h:79-83;
\* the passes of io/message_loop.cc:312 and 514-527 are what makes up for a
\* source whose answer "there is more" a batch of events has ignored.
ReaderTold ==
    \A s \in registered :
        (couldPop(s) /\ loop \in {"top", "sleep"})
        => wakeup[s] \/ \E c \in Clients : At(c, "signal") /\ call[c].src = s

\* Neither side of a ring misses the other's wake-up: not the writers that sleep
\* on a full ring, nor the reader that has drained its eventfd.
NoLostWakeup == SleepersWoken /\ ReaderTold

\* A source is removed for good: once removeSourceSync has returned for a source
\* that had been added, the source is in neither the list nor the epoll set,
\* nor is it in the pass that is under way, nor does an action name it
\* (io/message_loop.cc:219-221, 454-460, 520-524).  What the loop may still do
\* with it is in NoStaleEvent and NoLateWake.
RemovedForGood ==
    \A s \in Sources : life[s] = "gone" =>
        /\ s \notin Range(sources) \cup registered
        /\ \A i \in DOMAIN Todo : Todo[i].src # s
        /\ loop \in {"visit", "visiting"} => s \notin Range(visits) \cup {reader.src}

\* A removal finds its source in the list, however many actions are queued
\* between the two and whenever they are taken: "couldn't remove source" would
\* end the program (io/message_loop.cc:452).
RemovalFound == loop # "threw"

\* removeSourceSync "waits for the operation to complete"
\* (io/message_loop.h:121-122): when it has returned, the action that adds the
\* source is not still to be processed.
RemovalComplete == \A s \in Sources : life[s] \in {"gone", "goneEarly"} => ~ToBeAdded(s)

\* removeSourceSync is "useful in the cases where you need to destroy the
\* resources associated with the source" (io/message_loop.h:122-123): when it
\* has returned for a source that had been added, the loop does not call
\* processOne of the source for an event of a batch returned earlier.
NoStaleEvent ==
    \A s \in Sources : life[s] = "gone" =>
        s \notin Range(batch) /\ ~(loop = "events" /\ reader.src = s)

\* Nor does it still have to wake those who sleep on a member of the source
\* (io/message_loop.cc:471-472).
NoLateWake == \A s \in Sources : life[s] = "gone" => waking # s

\* removeSourceSync returns, unless the loop is shut down meanwhile
\* (io/message_loop.cc:204, 216-221): the state and the wake-up are two steps.
RemovalEnds ==
    \A c \in Clients : At(c, "removing") ~> (At(c, "idle") \/ shutdown_)

\* A push of c is asleep although the ring has room: readPosition went round
\* the ring, back to the value c saw, between c's comparison and its sleep.
SleepsOnOldPosition(c) ==
    /\ At(c, "asleep")
    /\ readPosition[call[c].src] = call[c].full
    /\ next(writePosition[call[c].src]) # call[c].full

\* "The expected behaviour is no deadlock" (io/testing/message_channel_test.cc:65):
\* while the loop runs its sink a push ends.
PushReturns ==
    \A c \in Clients : At(c, "lock") ~>
        \/ At(c, "idle")
        \/ shutdown_ \/ \E s \in Sources : s = call[c].src /\ ~connectionState_[s]

\* While the loop runs its sink a push ends, however often it finds the ring
\* full, unless the position it sleeps on came back: only another pop wakes it
\* then (io/ring_buffer.h:271-281).
PushEnds ==
    \A c \in Clients : At(c, "lock") ~>
        \/ At(c, "idle")
        \/ shutdown_ \/ \E s \in Sources : s = call[c].src /\ ~connectionState_[s]
        \/ SleepsOnOldPosition(c)
=============================================================================
