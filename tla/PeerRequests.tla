---------------------------- MODULE PeerRequests ----------------------------
(***************************************************************************)
(* The requests a RemotePeer sends (rest/remote_peer.cc) over an           *)
(* AsioPeerConnection (rest/asio_peer_connection.cc): they are queued,     *)
(* written one at a time, and called back with the answer of the remote    *)
(* peer or, once their deadline has passed, with an error.                 *)
(*                                                                         *)
(* Threads: the caller of each request, the strand of the connection       *)
(* (writes, reads, the timer) and the threads that run posted work.  A     *)
(* critical section of messagesMutex is one action, except where a new     *)
(* timer is put in place: that is done with the mutex held, and takes the  *)
(* lock of the old timer's watch, which the timer holds while it runs      *)
(* checkDeadlines.  Time is a counter.                                     *)
(***************************************************************************)
EXTENDS Naturals, Sequences, FiniteSets, FiniteSetsExt

CONSTANTS
    Requests,
    MaxTime,        \* bound: the last date there is
    Fails,          \* may the connection fail?
    None

Times == 0..MaxTime
Checkers == Requests \cup {"timer"}

ASSUME PeerRequestsAssumption ==
    /\ IsFiniteSet(Requests)
    /\ MaxTime \in Nat
    /\ Fails \in BOOLEAN
    /\ None \notin Requests /\ "timer" \notin Requests

VARIABLES
    now,
    deadline,         \* of each request
    pc,               \* how far the caller of sendMessage is
    messages,         \* the queue of messages to be written
    awaitingResponse,
    deadlines,        \* requests whose deadline is on record
    timer,            \* earliestMessageExpiry, or None
    critical,         \* messagesMutex: "free", or who holds it, and where
    current,          \* the request whose response is being handled
    check, clock, toExpire, \* of each thread that runs checkDeadlines
    pump,             \* the connection's mutex: "none", or how far doStartWriting is
    currentlyWriting,
    packet,           \* the message being written, or None
    remote,           \* requests the remote peer has and has not answered
    posted,           \* answers read and posted as work
    failed,           \* "read", "write": what has failed; either makes it ST_CLOSED
    called            \* history: callbacks made for each request

queueVars == <<messages, pc, deadline>>
waitVars == <<awaitingResponse, deadlines>>
checkVars == <<check, clock, toExpire>>
writeVars == <<pump, currentlyWriting, packet>>
netVars == <<remote, posted, failed>>
vars == <<now, queueVars, waitVars, timer, critical, current, checkVars, writeVars,
          netVars, called>>

Init ==
    /\ now = 0
    /\ deadline = [r \in Requests |-> 0]
    /\ pc = [r \in Requests |-> "new"]
    /\ messages = <<>>
    /\ awaitingResponse = {} /\ deadlines = {}
    /\ timer = None
    /\ critical = "free" /\ current = None
    /\ check = [k \in Checkers |-> "no"] /\ clock = [k \in Checkers |-> 0]
    /\ toExpire = [k \in Checkers |-> {}]
    /\ pump = "none" /\ currentlyWriting = FALSE /\ packet = None
    /\ remote = {} /\ posted = {} /\ failed = {}
    /\ called = [r \in Requests |-> 0]

CallBack(S) == called' = [r \in Requests |-> called[r] + IF r \in S THEN 1 ELSE 0]
Earliest(S) == Min({deadline[r] : r \in S})
Due(time) == {r \in deadlines : deadline[r] <= time}

\* The timer's callback holds the lock of its watch.
Firing == check["timer"] # "no"

-----------------------------------------------------------------------------
(* Queueing and writing.                                                   *)

\* sendMessage and enqueueMessage, up to the release of messagesMutex.
sendMessage(r, d) ==
    /\ pc[r] = "new" /\ critical = "free"
    /\ deadline' = [deadline EXCEPT ![r] = d]
    /\ messages' = Append(messages, r)
    /\ pc' = [pc EXCEPT ![r] = "startWriting"]
    /\ UNCHANGED <<now, waitVars, timer, critical, current, checkVars, writeVars, netVars,
                   called>>

\* Fault: the connection's mutex is not taken.
startWritingUnlocked(r) ==
    /\ pc[r] = "startWriting"
    /\ pc' = [pc EXCEPT ![r] = "sent"]
    /\ pump' = IF currentlyWriting \/ pump # "none" THEN pump ELSE "getMessage"
    /\ UNCHANGED <<now, messages, deadline, waitVars, timer, critical, current, checkVars,
                   currentlyWriting, packet, netVars, called>>

\* The rest of enqueueMessage: startWriting, under the connection's mutex.
startWriting(r) ==
    /\ pc[r] = "startWriting" /\ pump = "none"
    /\ pc' = [pc EXCEPT ![r] = "sent"]
    /\ pump' = IF currentlyWriting THEN "none" ELSE "getMessage"
    /\ UNCHANGED <<now, messages, deadline, waitVars, timer, critical, current, checkVars,
                   currentlyWriting, packet, netVars, called>>

\* getMessage locks messagesMutex for its loop.
getMessage ==
    /\ pump = "getMessage" /\ critical = "free"
    /\ critical' = "getMessage"
    /\ pump' = "inGetMessage"
    /\ UNCHANGED <<now, queueVars, waitVars, timer, current, checkVars, currentlyWriting,
                   packet, netVars, called>>

\* "Timeout before sending".
timeoutSend ==
    /\ critical = "getMessage" /\ messages # <<>>
    /\ deadline[Head(messages)] <= now
    /\ CallBack({Head(messages)})
    /\ messages' = Tail(messages)
    /\ UNCHANGED <<now, pc, deadline, waitVars, timer, critical, current, checkVars,
                   writeVars, netVars>>

\* Nothing to send: doStartWriting goes on to clear currentlyWriting.
noMessage ==
    /\ critical = "getMessage" /\ messages = <<>>
    /\ critical' = "free"
    /\ pump' = "stop"
    /\ UNCHANGED <<now, queueVars, waitVars, timer, current, checkVars, currentlyWriting,
                   packet, netVars, called>>

stopWriting ==
    /\ pump = "stop"
    /\ currentlyWriting' = FALSE
    /\ pump' = "none"
    /\ UNCHANGED <<now, queueVars, waitVars, timer, critical, current, checkVars, packet,
                   netVars, called>>

\* getMessage returns the message at the head of the queue.
Take ==
    /\ packet' = Head(messages)
    /\ messages' = Tail(messages)
    /\ critical' = "free"
    /\ pump' = "write"

\* Fault: the timer is armed only when no deadline is on record.
takeArmsOnce ==
    /\ critical = "getMessage" /\ messages # <<>>
    /\ LET r == Head(messages) IN
       /\ deadline[r] > now
       /\ awaitingResponse' = awaitingResponse \cup {r}
       /\ deadlines' = deadlines \cup {r}
       /\ IF deadlines = {}
          THEN critical' = "getArm" /\ UNCHANGED <<messages, pump, packet>>
          ELSE Take
    /\ UNCHANGED <<now, pc, deadline, timer, current, checkVars, currentlyWriting,
                   netVars, called>>

\* A request that is in time awaits its response; it needs a new timer if no
\* deadline is on record or its own is earlier.
takeRequest ==
    /\ critical = "getMessage" /\ messages # <<>>
    /\ LET r == Head(messages) IN
       /\ deadline[r] > now
       /\ awaitingResponse' = awaitingResponse \cup {r}
       /\ deadlines' = deadlines \cup {r}
       /\ IF deadlines = {} \/ deadline[r] < Earliest(deadlines)
          THEN critical' = "getArm" /\ UNCHANGED <<messages, pump, packet>>
          ELSE Take
    /\ UNCHANGED <<now, pc, deadline, timer, current, checkVars, currentlyWriting,
                   netVars, called>>

\* earliestMessageExpiry = getTimer(...): transferHolder releases the old watch,
\* under its lock.
arm ==
    /\ critical \in {"getArm", "respArm"} /\ ~Firing
    /\ timer' = [at |-> Earliest(deadlines), bound |-> FALSE, fired |-> FALSE]
    /\ critical' = IF critical = "getArm" THEN "getBind" ELSE "respBind"
    /\ UNCHANGED <<now, queueVars, waitVars, current, checkVars, writeVars, netVars, called>>

\* getMessage binds checkDeadlines.  A timer that has already fired would call
\* it on the spot, and it would wait for messagesMutex, which this thread holds.
bind ==
    /\ critical = "getBind" /\ ~timer.fired
    /\ timer' = [timer EXCEPT !.bound = TRUE]
    /\ Take
    /\ UNCHANGED <<now, pc, deadline, waitVars, current, checkVars, currentlyWriting,
                   netVars, called>>

asyncWrite ==
    /\ pump = "write"
    /\ currentlyWriting' = TRUE
    /\ pump' = "none"
    /\ UNCHANGED <<now, queueVars, waitVars, timer, critical, current, checkVars, packet,
                   netVars, called>>

\* The message is written and reaches the remote peer; onWriteDone looks for
\* the next one.
onWriteDone ==
    /\ packet # None /\ pump = "none" /\ "write" \notin failed
    /\ remote' = remote \cup {packet}
    /\ packet' = None
    /\ pump' = "getMessage"
    /\ UNCHANGED <<now, queueVars, waitVars, timer, critical, current, checkVars,
                   currentlyWriting, posted, failed, called>>

\* A read or a write has failed: notifyError.  A read that fails is not followed by
\* another, and writing goes on; a write that fails is not followed by another,
\* currentlyWriting stays set, and reading goes on.
fail ==
    /\ Fails
    /\ \E side \in {"read", "write"} \ failed :
          /\ side = "write" => packet # None /\ pump = "none"
          /\ failed' = failed \cup {side}
    /\ UNCHANGED <<now, queueVars, waitVars, timer, critical, current, checkVars, writeVars,
                   remote, posted, called>>

-----------------------------------------------------------------------------
(* Responses.                                                              *)

\* The remote peer answers; gotMessage and handleMessageIn post the answer as
\* work, which any thread may run in any order.
receive(r) ==
    /\ r \in remote /\ "read" \notin failed /\ pump = "none"
    /\ remote' = remote \ {r}
    /\ posted' = posted \cup {r}
    /\ UNCHANGED <<now, queueVars, waitVars, timer, critical, current, checkVars, writeVars,
                   failed, called>>

\* Fault: the earliest deadline is erased, whoever has answered.
handleErasesFirst(r) ==
    /\ r \in posted /\ critical = "free"
    /\ posted' = posted \ {r}
    /\ awaitingResponse' = awaitingResponse \ {r}
    /\ deadlines' = deadlines \ {d \in deadlines : deadline[d] = Earliest(deadlines)}
    /\ CallBack({r} \cap awaitingResponse)
    /\ UNCHANGED <<now, queueVars, timer, critical, current, checkVars, writeVars, remote,
                   failed>>

\* deadlines.begin()->first.  Where the last deadline is being expired there is
\* nothing to read, and what is read can be any date.
BeginsWith == IF deadlines = {} THEN Times ELSE {Earliest(deadlines)}

\* handleResponse: an answer nobody awaits any more is dropped.  If the deadline
\* of the request was the earliest and others are left, a new timer is needed.
handleResponse(r) ==
    /\ r \in posted /\ critical = "free"
    /\ posted' = posted \ {r}
    /\ awaitingResponse' = awaitingResponse \ {r}
    /\ \E earliestDeadline \in BeginsWith : LET rest == deadlines \ {r} IN
       /\ deadlines' = IF r \in awaitingResponse THEN rest ELSE deadlines
       /\ IF /\ r \in awaitingResponse /\ rest # {}
             /\ earliestDeadline # Earliest(rest)
          THEN /\ critical' = "respArm" /\ current' = r
               /\ UNCHANGED called
          ELSE /\ CallBack({r} \cap awaitingResponse)
               /\ UNCHANGED <<critical, current>>
    /\ UNCHANGED <<now, queueVars, timer, checkVars, writeVars, remote, failed>>

\* bindNonRecursive, the release of the mutex, and onResponse; if the new timer
\* has fired before it was bound, the thread calls checkDeadlines itself.
bindNonRecursive ==
    /\ critical = "respBind"
    /\ timer' = [timer EXCEPT !.bound = TRUE]
    /\ check' = IF timer.fired THEN [check EXCEPT ![current] = "check"] ELSE check
    /\ CallBack({current})
    /\ critical' = "free" /\ current' = None
    /\ UNCHANGED <<now, queueVars, waitVars, clock, toExpire, writeVars, netVars>>

-----------------------------------------------------------------------------
(* Deadlines.                                                              *)

tick ==
    /\ now < MaxTime
    /\ now' = now + 1
    /\ UNCHANGED <<queueVars, waitVars, timer, critical, current, checkVars, writeVars,
                   netVars, called>>

\* The timer fires once: its period is negative.
onFire ==
    /\ timer # None /\ ~timer.fired /\ timer.at <= now
    /\ timer' = [timer EXCEPT !.fired = TRUE]
    /\ check' = IF timer.bound THEN [check EXCEPT !["timer"] = "check"] ELSE check
    /\ UNCHANGED <<now, queueVars, waitVars, critical, current, clock, toExpire, writeVars, netVars,
                   called>>

\* checkDeadlines reads the clock before it locks messagesMutex.
readClock(k) ==
    /\ check[k] = "check"
    /\ clock' = [clock EXCEPT ![k] = now]
    /\ check' = [check EXCEPT ![k] = "lock"]
    /\ UNCHANGED <<now, queueVars, waitVars, timer, critical, current, toExpire, writeVars,
                   netVars, called>>

\* Its first critical section.  What it returns is dropped.
checkDeadlines(k) ==
    /\ check[k] = "lock" /\ critical = "free"
    /\ LET due == Due(clock[k]) IN
       /\ deadlines' = deadlines \ due
       /\ toExpire' = [toExpire EXCEPT ![k] = due]
       /\ check' = [check EXCEPT ![k] = IF due = {} THEN "no" ELSE "expire"]
    /\ clock' = [clock EXCEPT ![k] = 0]
    /\ UNCHANGED <<now, queueVars, awaitingResponse, timer, critical, current, writeVars,
                   netVars, called>>

\* Fault: what has been answered in between is called back again.
expireAll(k) ==
    /\ check[k] = "expire" /\ critical = "free"
    /\ CallBack(toExpire[k])
    /\ awaitingResponse' = awaitingResponse \ toExpire[k]
    /\ toExpire' = [toExpire EXCEPT ![k] = {}]
    /\ check' = [check EXCEPT ![k] = "no"]
    /\ UNCHANGED <<now, queueVars, deadlines, timer, critical, current, clock, writeVars,
                   netVars>>

\* Fault: the loop over the expired requests ends after the first.
expireOne(k) ==
    /\ check[k] = "expire" /\ critical = "free"
    /\ \E r \in toExpire[k] : /\ CallBack({r} \cap awaitingResponse)
                              /\ awaitingResponse' = awaitingResponse \ {r}
    /\ toExpire' = [toExpire EXCEPT ![k] = {}]
    /\ check' = [check EXCEPT ![k] = "no"]
    /\ UNCHANGED <<now, queueVars, deadlines, timer, critical, current, clock, writeVars,
                   netVars>>

\* Second critical section: what has been answered in between is "already done".
expire(k) ==
    /\ check[k] = "expire" /\ critical = "free"
    /\ CallBack(toExpire[k] \cap awaitingResponse)
    /\ awaitingResponse' = awaitingResponse \ toExpire[k]
    /\ toExpire' = [toExpire EXCEPT ![k] = {}]
    /\ check' = [check EXCEPT ![k] = "no"]
    /\ UNCHANGED <<now, queueVars, deadlines, timer, critical, current, clock, writeVars,
                   netVars>>

-----------------------------------------------------------------------------
\* What goes on without the callers, the remote peer and the network.
writer ==
    \/ \E r \in Requests : startWriting(r)
    \/ getMessage \/ timeoutSend \/ noMessage \/ stopWriting \/ takeRequest \/ bind
    \/ asyncWrite \/ onWriteDone
Internal ==
    \/ writer \/ arm \/ bindNonRecursive \/ tick \/ onFire
    \/ \E r \in Requests : handleResponse(r)
    \/ \E k \in Checkers : readClock(k) \/ checkDeadlines(k) \/ expire(k)

Next ==
    \/ Internal \/ fail
    \/ \E r \in Requests : receive(r) \/ \E d \in Times : sendMessage(r, d)

Spec == Init /\ [][Next]_vars

\* Every thread is scheduled and time passes.  Nothing makes the remote peer
\* answer.
FairSpec == Spec /\ WF_vars(Internal)

-----------------------------------------------------------------------------
(* Properties.                                                             *)

\* Every variable has its type.
TypeOK ==
    /\ now \in Times /\ deadline \in [Requests -> Times]
    /\ pc \in [Requests -> {"new", "startWriting", "sent"}]
    /\ messages \in Seq(Requests)
    /\ deadlines \subseteq Requests /\ awaitingResponse \subseteq Requests
    /\ timer \in [at: Times, bound: BOOLEAN, fired: BOOLEAN] \cup {None}
    /\ critical \in {"free", "getMessage", "getArm", "getBind", "respArm", "respBind"}
    /\ current \in Requests \cup {None}
    /\ check \in [Checkers -> {"no", "check", "lock", "expire"}]
    /\ clock \in [Checkers -> Times]
    /\ toExpire \in [Checkers -> SUBSET Requests]
    /\ pump \in {"none", "getMessage", "inGetMessage", "stop", "write"}
    /\ currentlyWriting \in BOOLEAN /\ failed \subseteq {"read", "write"}
    /\ packet \in Requests \cup {None}
    /\ remote \cup posted \subseteq Requests
    /\ called \in [Requests -> Nat]

\* A request is called back once, by onResponse or by onError, although its
\* answer may come between the two critical sections of checkDeadlines or
\* after its deadline (rest/remote_peer.cc:628-632, 537-548).
CalledBackOnce == \A r \in Requests : called[r] <= 1

\* A request that has been sent and not called back is queued, or awaits its
\* response with its deadline on record, or is being answered or expired: no
\* race of responses and deadlines drops it.  And a deadline is on record only
\* for a request that still awaits its response.
NoneForgotten ==
    /\ deadlines \subseteq awaitingResponse
    /\ \A r \in Requests : pc[r] # "new" /\ called[r] = 0 =>
        \/ \E i \in DOMAIN messages : messages[i] = r
        \/ r \in deadlines
        \/ r = current
        \/ r \in awaitingResponse /\ \E k \in Checkers : r \in toExpire[k]

\* A timer that has yet to fire is not later than any deadline on record, where
\* no thread is replacing it (rest/remote_peer.cc:385-393, 552-571).
TimerNotLate ==
    timer # None /\ ~timer.fired /\ critical \notin {"getArm", "respArm"} =>
        \A r \in deadlines : timer.at <= deadline[r]

\* A message put on the queue while the writer is giving up is not left there:
\* someone is writing, or about to look (rest/asio_peer_connection.cc:195-219).
QueueServed ==
    messages # <<>> => \/ currentlyWriting /\ pump # "stop"
                       \/ pump \in {"getMessage", "inGetMessage"}
                       \/ \E r \in Requests : pc[r] = "startWriting"

\* The timer has fired, nothing armed it again, and deadlines are left.
TimerSpent == deadlines # {} /\ timer # None /\ timer.fired

\* getMessage calls checkDeadlines with messagesMutex held.
SelfDeadlock == critical = "getBind" /\ timer.fired

\* A thread with messagesMutex waits for the watch of the timer, whose callback
\* waits for messagesMutex.
LockCycle == critical \in {"getArm", "respArm"} /\ Firing

\* Where nothing moves any more unless the remote peer answers, every request
\* has been called back; there are four ways to get stuck, and no other.  (A read
\* that fails is not one of them.)
OnlyKnownHangs ==
    \/ ENABLED Internal
    \/ \A r \in Requests : pc[r] = "new" \/ called[r] = 1
    \/ "write" \in failed \/ TimerSpent \/ SelfDeadlock \/ LockCycle

\* "When the message must be done by" (rest/peer_message.h:43): every request
\* that is sent is answered or times out, unless threads deadlock.
EveryRequestEnds ==
    \A r \in Requests : pc[r] = "sent" ~> called[r] > 0 \/ SelfDeadlock \/ LockCycle

=============================================================================
