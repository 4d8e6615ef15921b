------------------------- MODULE PeerRequestsProofs -------------------------
(***************************************************************************)
(* Proofs about PeerRequests, for any set of requests and any dates: each  *)
(* request is called back at most once, none is forgotten, the timer is    *)
(* never late, and the queue is never left unserved.                       *)
(***************************************************************************)
EXTENDS PeerRequests, CommonLemmas

-----------------------------------------------------------------------------
(* The inductive invariant.                                                *)

Timers == [at: Times, bound: BOOLEAN, fired: BOOLEAN]

Queued == Range(messages)

\* Who holds messagesMutex, and what for: getMessage is called by doStartWriting,
\* and handleResponse has a request at hand.
MutexInv ==
    /\ pump = "inGetMessage" <=> critical \in {"getMessage", "getArm", "getBind"}
    /\ current # None <=> critical \in {"respArm", "respBind"}
    /\ critical \in {"getArm", "getBind"} => messages # <<>> /\ Head(messages) \in deadlines
    /\ critical = "respArm" => deadlines # {}
    /\ critical \in {"getBind", "respBind"} => timer \in Timers

\* A request is in one stage of its life: it is queued, awaits its response, or
\* has been called back or is about to be.  While a new timer is put in place the
\* head of the queue already awaits its response.
StageInv ==
    /\ CalledBackOnce
    /\ IsInjective(messages)
    /\ \A r \in Queued :
          /\ called[r] = 0 /\ pc[r] # "new"
          /\ r # current /\ r # packet /\ r \notin remote \cup posted
          /\ r \in awaitingResponse => critical \in {"getArm", "getBind"} /\ r = Head(messages)
    /\ \A r \in awaitingResponse : called[r] = 0 /\ pc[r] # "new" /\ r # current
    /\ current # None => called[current] = 0 /\ pc[current] # "new"
    /\ \A r \in remote \cup posted \cup ({packet} \ {None}) : pc[r] # "new"
    /\ \A r \in Requests : pc[r] = "new" => called[r] = 0
    /\ deadlines \subseteq awaitingResponse

\* What checkDeadlines has taken off the record is its own, and is neither on
\* record nor queued again; a thread that runs it after a response has answered
\* its request, and the timer that runs it has fired.
CheckInv ==
    /\ \A k \in Checkers : toExpire[k] # {} => check[k] = "expire"
    /\ \A k \in Checkers : \A r \in toExpire[k] :
          r \notin deadlines /\ r \notin Queued /\ pc[r] # "new"
    /\ \A r \in Requests : check[r] # "no" => called[r] >= 1
    /\ check["timer"] # "no" => timer \in Timers /\ timer.fired

\* Who will serve the queue.  Before the first write of a round is under way every
\* queued request but one has its caller still to call startWriting, and a writer
\* that is giving up has left an empty queue behind.
WriterInv ==
    /\ pump = "write" => packet # None
    /\ packet # None => pump = "write" \/ (pump = "none" /\ currentlyWriting)
    /\ pump = "stop" \/ (pump = "none" /\ ~currentlyWriting) =>
          \A r \in Queued : pc[r] = "startWriting"
    /\ ~currentlyWriting /\ pump \in {"getMessage", "inGetMessage", "write"} =>
          \E x \in Requests : \A r \in Queued \cup ({packet} \ {None}) :
             r = x \/ pc[r] = "startWriting"

\* NoneForgotten, in terms of Queued.
LifeInv ==
    \A r \in Requests : pc[r] # "new" /\ called[r] = 0 =>
        \/ r \in Queued \cup deadlines
        \/ r = current
        \/ r \in awaitingResponse /\ \E k \in Checkers : r \in toExpire[k]

\* TimerNotLate, of any value that is a timer.
TimerInv ==
    timer \in Timers /\ ~timer.fired /\ critical \notin {"getArm", "respArm"} =>
        \A r \in deadlines : timer.at <= deadline[r]

PInv ==
    /\ TypeOK /\ MutexInv /\ StageInv /\ CheckInv /\ WriterInv
    /\ LifeInv /\ TimerInv

-----------------------------------------------------------------------------
(* The queue.                                                              *)

\* A request put at the end of the queue.
LEMMA QueueAppend ==
    ASSUME TypeOK, NEW r \in Requests, messages' = Append(messages, r)
    PROVE  /\ messages' \in Seq(Requests) /\ messages' # <<>>
           /\ Queued' = Queued \cup {r}
           /\ IsInjective(messages) /\ r \notin Queued => IsInjective(messages')
           /\ messages # <<>> => Head(messages') = Head(messages)
  BY AppendRange DEF TypeOK, Queued

\* The head of the queue, and the queue without it.
LEMMA QueueTail ==
    ASSUME TypeOK, messages # <<>>
    PROVE  /\ Head(messages) \in Requests /\ Head(messages) \in Queued
           /\ messages' = Tail(messages) =>
                /\ messages' \in Seq(Requests)
                /\ Queued = Queued' \cup {Head(messages)}
                /\ IsInjective(messages) =>
                     IsInjective(messages') /\ Head(messages) \notin Queued'
<1>1. messages \in Seq(Requests)
  BY DEF TypeOK
<1>2. /\ Head(messages) \in Requests /\ Head(messages) \in Range(messages)
      /\ Tail(messages) \in Seq(Requests)
      /\ Range(messages) = Range(Tail(messages)) \cup {Head(messages)}
      /\ IsInjective(messages) =>
           IsInjective(Tail(messages)) /\ Head(messages) \notin Range(Tail(messages))
  BY <1>1, TailRange
<1>3. QED
  BY <1>2 DEF Queued

\* What is queued are requests.
LEMMA QueueType ==
    ASSUME TypeOK
    PROVE  Queued \subseteq Requests
  BY RangeOfSeq DEF TypeOK, Queued

\* The queue as it was.
LEMMA QueueSame ==
    ASSUME messages' = messages
    PROVE  Queued' = Queued
  BY DEF Queued

\* The deadline on record that comes first.
LEMMA EarliestLemma ==
    ASSUME TypeOK, NEW S \in SUBSET Requests, S # {}
    PROVE  /\ Earliest(S) \in Times
           /\ \E r \in S : Earliest(S) = deadline[r]
           /\ \A r \in S : Earliest(S) <= deadline[r]
<1>1. {deadline[r] : r \in S} \in SUBSET Nat /\ {deadline[r] : r \in S} # {}
  BY PeerRequestsAssumption DEF TypeOK, Times
<1>2. /\ Min({deadline[r] : r \in S}) \in {deadline[r] : r \in S}
      /\ \A y \in {deadline[r] : r \in S} : Min({deadline[r] : r \in S}) <= y
  BY <1>1, MinNat
<1>3. QED
  BY <1>2 DEF Earliest, TypeOK

-----------------------------------------------------------------------------
(* Every step keeps the types.                                             *)

\* Every step keeps the types.
LEMMA TypeStep ==
    ASSUME TypeOK, MutexInv, Next
    PROVE  TypeOK'
<1>1. ASSUME NEW r \in Requests, NEW d \in Times, sendMessage(r, d)
      PROVE  TypeOK'
  BY <1>1, QueueAppend DEF TypeOK, sendMessage, waitVars, checkVars, writeVars, netVars
<1>2. ASSUME NEW r \in Requests, startWriting(r)
      PROVE  TypeOK'
  BY <1>2 DEF TypeOK, startWriting, waitVars, checkVars, netVars
<1>3. CASE getMessage
  BY <1>3 DEF TypeOK, getMessage, queueVars, waitVars, checkVars, netVars
<1>4. CASE timeoutSend
  BY <1>4, QueueTail DEF TypeOK, timeoutSend, CallBack, waitVars, checkVars, writeVars, netVars
<1>5. CASE noMessage
  BY <1>5 DEF TypeOK, noMessage, queueVars, waitVars, checkVars, netVars
<1>6. CASE stopWriting
  BY <1>6 DEF TypeOK, stopWriting, queueVars, waitVars, checkVars, netVars
<1>7. CASE takeRequest
  BY <1>7, QueueTail DEF TypeOK, takeRequest, Take, Earliest, checkVars, netVars
<1>8. CASE arm
  BY <1>8, EarliestLemma DEF TypeOK, MutexInv, arm, Earliest, Firing, queueVars, waitVars,
     checkVars, writeVars, netVars
<1>9. CASE bind
  BY <1>9, QueueTail DEF TypeOK, MutexInv, Timers, bind, Take, waitVars, checkVars, netVars
<1>10. CASE asyncWrite
  BY <1>10 DEF TypeOK, asyncWrite, queueVars, waitVars, checkVars, netVars
<1>11. CASE onWriteDone
  BY <1>11 DEF TypeOK, onWriteDone, queueVars, waitVars, checkVars
<1>12. CASE fail
  BY <1>12 DEF TypeOK, fail, queueVars, waitVars, checkVars, writeVars
<1>13. ASSUME NEW r \in Requests, receive(r)
      PROVE  TypeOK'
  BY <1>13 DEF TypeOK, receive, queueVars, waitVars, checkVars, writeVars
<1>14. ASSUME NEW r \in Requests, handleResponse(r)
      PROVE  TypeOK'
  <2>1. called' \in [Requests -> Nat]
    BY <1>14 DEF handleResponse, CallBack, TypeOK
  <2>2. /\ deadlines' \subseteq Requests /\ awaitingResponse' \subseteq Requests
        /\ posted' \subseteq Requests
        /\ critical' \in {critical, "respArm"} /\ current' \in {current, r}
    BY <1>14 DEF handleResponse, TypeOK
  <2>3. QED
    BY <1>14, <2>1, <2>2 DEF TypeOK, handleResponse, queueVars, checkVars, writeVars
<1>15. CASE bindNonRecursive
  <2>1. timer' \in Timers /\ timer' \in Timers \cup {None}
    BY <1>15 DEF bindNonRecursive, MutexInv, Timers
  <2>2. called' \in [Requests -> Nat]
    BY <1>15 DEF bindNonRecursive, CallBack, TypeOK
  <2>3. check' \in [Checkers -> {"no", "check", "lock", "expire"}]
    BY <1>15 DEF bindNonRecursive, TypeOK
  <2>4. QED
    BY <1>15, <2>1, <2>2, <2>3 DEF bindNonRecursive, TypeOK, Timers, queueVars, waitVars,
       writeVars, netVars
<1>16. CASE tick
  BY <1>16, PeerRequestsAssumption DEF TypeOK, tick, queueVars, waitVars, checkVars,
     writeVars, netVars, Times
<1>17. CASE onFire
  <2>1. timer' \in Timers
    BY <1>17 DEF onFire, TypeOK, Timers
  <2>2. check' \in [Checkers -> {"no", "check", "lock", "expire"}]
    BY <1>17 DEF onFire, TypeOK, Checkers
  <2>3. QED
    BY <1>17, <2>1, <2>2 DEF TypeOK, Timers, onFire, queueVars, waitVars, writeVars, netVars
<1>18. ASSUME NEW k \in Checkers, checkDeadlines(k)
      PROVE  TypeOK'
  <2>1. 0 \in Times /\ clock' \in [Checkers -> Times]
    BY <1>18, PeerRequestsAssumption DEF checkDeadlines, TypeOK, Times
  <2>2. /\ toExpire' \in [Checkers -> SUBSET Requests] /\ deadlines' \subseteq Requests
        /\ check' \in [Checkers -> {"no", "check", "lock", "expire"}]
    BY <1>18 DEF checkDeadlines, Due, TypeOK
  <2>3. QED
    BY <1>18, <2>1, <2>2 DEF TypeOK, checkDeadlines, queueVars, writeVars, netVars
<1>19. ASSUME NEW k \in Checkers, expire(k)
      PROVE  TypeOK'
  BY <1>19 DEF TypeOK, expire, CallBack, queueVars, writeVars, netVars
<1>20. ASSUME NEW k \in Checkers, readClock(k)
      PROVE  TypeOK'
  BY <1>20 DEF TypeOK, readClock, waitVars, queueVars, writeVars, netVars
<1>21. QED
  BY <1>1, <1>2, <1>3, <1>4, <1>5, <1>6, <1>7, <1>8, <1>9, <1>10, <1>11, <1>12, <1>13,
     <1>14, <1>15, <1>16, <1>17, <1>18, <1>19, <1>20 DEF Next, Internal, writer

-----------------------------------------------------------------------------
(* Every step keeps the invariant.                                         *)

\* Every step keeps track of who holds messagesMutex.
LEMMA MutexStep ==
    ASSUME TypeOK, MutexInv, Next
    PROVE  MutexInv'
<1>1. ASSUME NEW r \in Requests, NEW d \in Times, sendMessage(r, d)
      PROVE  MutexInv'
  BY <1>1, QueueAppend DEF MutexInv, sendMessage, waitVars, checkVars, writeVars, netVars
<1>2. ASSUME NEW r \in Requests, startWriting(r)
      PROVE  MutexInv'
  BY <1>2 DEF MutexInv, startWriting, waitVars, checkVars, netVars
<1>3. CASE getMessage
  BY <1>3 DEF MutexInv, getMessage, queueVars, waitVars, checkVars, netVars
<1>4. CASE timeoutSend
  BY <1>4, QueueTail DEF MutexInv, timeoutSend, CallBack, waitVars, checkVars, writeVars,
     netVars
<1>5. CASE noMessage
  BY <1>5 DEF MutexInv, noMessage, queueVars, waitVars, checkVars, netVars
<1>6. CASE stopWriting
  BY <1>6 DEF MutexInv, stopWriting, queueVars, waitVars, checkVars, netVars
<1>7. CASE takeRequest
  BY <1>7, QueueTail DEF MutexInv, takeRequest, Take, Earliest, checkVars, netVars
<1>8. CASE arm
  BY <1>8, EarliestLemma DEF MutexInv, TypeOK, Timers, arm, Earliest, Firing, queueVars,
     waitVars, checkVars, writeVars, netVars
<1>9. CASE bind
  BY <1>9, QueueTail DEF MutexInv, TypeOK, Timers, bind, Take, waitVars, checkVars, netVars
<1>10. CASE asyncWrite
  BY <1>10 DEF MutexInv, asyncWrite, queueVars, waitVars, checkVars, netVars
<1>11. CASE onWriteDone
  BY <1>11 DEF MutexInv, onWriteDone, queueVars, waitVars, checkVars
<1>12. CASE fail
  BY <1>12 DEF MutexInv, fail, queueVars, waitVars, checkVars, writeVars
<1>13. ASSUME NEW r \in Requests, receive(r)
      PROVE  MutexInv'
  BY <1>13 DEF MutexInv, receive, queueVars, waitVars, checkVars, writeVars
<1>14. ASSUME NEW r \in Requests, handleResponse(r)
      PROVE  MutexInv'
  BY <1>14, PeerRequestsAssumption DEF MutexInv, handleResponse, CallBack,
     queueVars, checkVars, writeVars
<1>15. CASE bindNonRecursive
  BY <1>15 DEF MutexInv, TypeOK, Timers, bindNonRecursive, CallBack, queueVars, waitVars,
     writeVars, netVars
<1>16. CASE tick
  BY <1>16, PeerRequestsAssumption DEF MutexInv, tick, queueVars, waitVars, checkVars,
     writeVars, netVars, Times
<1>17. CASE onFire
  BY <1>17 DEF MutexInv, TypeOK, Timers, onFire, queueVars, waitVars, writeVars, netVars
<1>18. ASSUME NEW k \in Checkers, checkDeadlines(k)
      PROVE  MutexInv'
  BY <1>18 DEF MutexInv, checkDeadlines, Due, queueVars, writeVars, netVars
<1>19. ASSUME NEW k \in Checkers, expire(k)
      PROVE  MutexInv'
  BY <1>19 DEF MutexInv, expire, CallBack, queueVars, writeVars, netVars
<1>20. ASSUME NEW k \in Checkers, readClock(k)
      PROVE  MutexInv'
  BY <1>20 DEF MutexInv, readClock, waitVars, queueVars, writeVars, netVars
<1>21. QED
  BY <1>1, <1>2, <1>3, <1>4, <1>5, <1>6, <1>7, <1>8, <1>9, <1>10, <1>11, <1>12, <1>13,
     <1>14, <1>15, <1>16, <1>17, <1>18, <1>19, <1>20 DEF Next, Internal, writer

\* Every step keeps each request in one stage of its life.
LEMMA StageStep ==
    ASSUME TypeOK, MutexInv, StageInv, CheckInv, Next
    PROVE  StageInv'
<1>1. ASSUME NEW r \in Requests, NEW d \in Times, sendMessage(r, d)
      PROVE  StageInv'
  BY <1>1, QueueAppend, QueueType, PeerRequestsAssumption DEF TypeOK, MutexInv, StageInv,
     CalledBackOnce, sendMessage, waitVars, checkVars, writeVars, netVars
<1>2. ASSUME NEW r \in Requests, startWriting(r)
      PROVE  StageInv'
  BY <1>2, QueueSame, QueueType DEF TypeOK, MutexInv, StageInv, CalledBackOnce,
     startWriting, waitVars, checkVars, netVars
<1>3. CASE getMessage
  BY <1>3, QueueSame, QueueType DEF TypeOK, MutexInv, StageInv, CalledBackOnce, getMessage,
     queueVars, waitVars, checkVars, netVars
<1>4. CASE timeoutSend
  <2>1. CalledBackOnce'
    BY <1>4, QueueTail DEF timeoutSend, CallBack, TypeOK, StageInv, CalledBackOnce
  <2>2. QED
    BY <1>4, <2>1, QueueTail, QueueType DEF timeoutSend, CallBack, TypeOK, MutexInv, StageInv,
       waitVars, checkVars, writeVars, netVars
<1>5. CASE noMessage
  BY <1>5, QueueSame, QueueType DEF TypeOK, MutexInv, StageInv, CalledBackOnce, noMessage,
     queueVars, waitVars, checkVars, netVars
<1>6. CASE stopWriting
  BY <1>6, QueueSame, QueueType DEF TypeOK, MutexInv, StageInv, CalledBackOnce, stopWriting,
     queueVars, waitVars, checkVars, netVars
<1>7. CASE takeRequest
  BY <1>7, QueueTail, QueueSame, QueueType DEF TypeOK, MutexInv, StageInv, CalledBackOnce,
     takeRequest, Take, Earliest, checkVars, netVars
<1>8. CASE arm
  BY <1>8, QueueSame, QueueType DEF TypeOK, MutexInv, StageInv, CalledBackOnce, arm,
     Earliest, Firing, queueVars, waitVars, checkVars, writeVars, netVars
<1>9. CASE bind
  BY <1>9, QueueTail, QueueType DEF TypeOK, MutexInv, StageInv, CalledBackOnce, bind, Take,
     waitVars, checkVars, netVars
<1>10. CASE asyncWrite
  BY <1>10, QueueSame, QueueType DEF TypeOK, MutexInv, StageInv, CalledBackOnce, asyncWrite,
     queueVars, waitVars, checkVars, netVars
<1>11. CASE onWriteDone
  BY <1>11, QueueSame, QueueType, PeerRequestsAssumption DEF TypeOK, MutexInv, StageInv,
     CalledBackOnce, onWriteDone, queueVars, waitVars, checkVars
<1>12. CASE fail
  BY <1>12, QueueSame, QueueType DEF TypeOK, MutexInv, StageInv, CalledBackOnce, fail,
     queueVars, waitVars, checkVars, writeVars
<1>13. ASSUME NEW r \in Requests, receive(r)
      PROVE  StageInv'
  BY <1>13, QueueSame, QueueType, PeerRequestsAssumption DEF TypeOK, MutexInv, StageInv,
     CalledBackOnce, receive, queueVars, waitVars, checkVars, writeVars
<1>14. ASSUME NEW r \in Requests, handleResponse(r)
      PROVE  StageInv'
  <2>1. /\ UNCHANGED <<messages, pc, remote, packet>> /\ critical = "free"
        /\ r \in posted /\ posted' = posted \ {r}
        /\ awaitingResponse' = awaitingResponse \ {r}
        /\ deadlines' = IF r \in awaitingResponse THEN deadlines \ {r} ELSE deadlines
    BY <1>14 DEF handleResponse, queueVars, writeVars
  <2>2. \/ /\ critical' = "respArm" /\ current' = r /\ called' = called
           /\ r \in awaitingResponse
        \/ /\ UNCHANGED <<critical, current>>
           /\ called' = [q \in Requests |->
                            called[q] + (IF q \in {r} \cap awaitingResponse THEN 1 ELSE 0)]
    BY <1>14 DEF handleResponse, CallBack
  <2>3. /\ current = None /\ Queued' = Queued /\ r \notin Queued /\ r # None
        /\ called \in [Requests -> Nat] /\ awaitingResponse \subseteq Requests
    BY <2>1, QueueSame, QueueType, PeerRequestsAssumption DEF TypeOK, MutexInv, StageInv
  <2>4. /\ \A q \in Requests \ {r} : called'[q] = called[q]
        /\ called'[r] = called[r] \/ (r \in awaitingResponse /\ called'[r] = called[r] + 1)
    BY <2>2, <2>3
  <2>5. CalledBackOnce'
    BY <2>3, <2>4 DEF StageInv, CalledBackOnce
  <2>6. current' = r \/ current' = None
    BY <2>2, <2>3
  <2>7. IsInjective(messages')
    BY <2>1 DEF StageInv
  <2>8. \A q \in Queued' :
           /\ called'[q] = 0 /\ pc'[q] # "new"
           /\ q # current' /\ q # packet' /\ q \notin remote' \cup posted'
           /\ q \in awaitingResponse' =>
                 critical' \in {"getArm", "getBind"} /\ q = Head(messages')
    <3>1. ASSUME NEW q \in Queued
          PROVE  /\ q \in Requests /\ q # r /\ q # None /\ q \notin awaitingResponse
                 /\ called[q] = 0 /\ pc[q] # "new" /\ q # packet
                 /\ q \notin remote \cup posted
      BY <2>1, <2>3, <3>1, QueueType, PeerRequestsAssumption DEF StageInv
    <3>2. QED
      BY <2>1, <2>3, <2>4, <2>6, <3>1
  <2>9. \A q \in awaitingResponse' : called'[q] = 0 /\ pc'[q] # "new" /\ q # current'
    BY <2>1, <2>3, <2>4, <2>6, PeerRequestsAssumption DEF StageInv
  <2>10. current' # None => called'[current'] = 0 /\ pc'[current'] # "new"
    BY <2>1, <2>2, <2>3 DEF StageInv
  <2>11. /\ \A q \in remote' \cup posted' \cup ({packet'} \ {None}) : pc'[q] # "new"
         /\ \A q \in Requests : pc'[q] = "new" => called'[q] = 0
         /\ deadlines' \subseteq awaitingResponse'
    BY <2>1, <2>3, <2>4 DEF StageInv
  <2>12. QED
    BY <2>5, <2>7, <2>8, <2>9, <2>10, <2>11 DEF StageInv
<1>15. CASE bindNonRecursive
  BY <1>15, QueueSame, QueueType, PeerRequestsAssumption DEF TypeOK, MutexInv, StageInv,
     CalledBackOnce, bindNonRecursive, CallBack, queueVars, waitVars, writeVars, netVars
<1>16. CASE tick
  BY <1>16, QueueSame, QueueType DEF TypeOK, MutexInv, StageInv, CalledBackOnce, tick,
     queueVars, waitVars, checkVars, writeVars, netVars, Times
<1>17. CASE onFire
  BY <1>17, QueueSame, QueueType DEF TypeOK, MutexInv, StageInv, CalledBackOnce, onFire,
     queueVars, waitVars, writeVars, netVars
<1>18. ASSUME NEW k \in Checkers, checkDeadlines(k)
      PROVE  StageInv'
  BY <1>18, QueueSame, QueueType DEF TypeOK, MutexInv, StageInv, CalledBackOnce,
     checkDeadlines, Due, queueVars, writeVars, netVars
<1>19. ASSUME NEW k \in Checkers, expire(k)
      PROVE  StageInv'
  BY <1>19, QueueSame, QueueType, PeerRequestsAssumption DEF TypeOK, MutexInv, StageInv,
     CalledBackOnce, CheckInv, expire, CallBack, queueVars, writeVars, netVars
<1>20. ASSUME NEW k \in Checkers, readClock(k)
      PROVE  StageInv'
  BY <1>20, QueueSame, QueueType DEF TypeOK, MutexInv, StageInv, CalledBackOnce,
     readClock, waitVars, queueVars, writeVars, netVars
<1>21. QED
  BY <1>1, <1>2, <1>3, <1>4, <1>5, <1>6, <1>7, <1>8, <1>9, <1>10, <1>11, <1>12, <1>13,
     <1>14, <1>15, <1>16, <1>17, <1>18, <1>19, <1>20 DEF Next, Internal, writer

\* Every step keeps what checkDeadlines relies on.
LEMMA CheckStep ==
    ASSUME TypeOK, MutexInv, StageInv, CheckInv, Next
    PROVE  CheckInv'
<1>1. ASSUME NEW r \in Requests, NEW d \in Times, sendMessage(r, d)
      PROVE  CheckInv'
  BY <1>1, QueueAppend, QueueType, PeerRequestsAssumption DEF TypeOK, MutexInv, StageInv,
     CheckInv, sendMessage, waitVars, checkVars, writeVars, netVars
<1>2. ASSUME NEW r \in Requests, startWriting(r)
      PROVE  CheckInv'
  BY <1>2, QueueSame, QueueType DEF TypeOK, MutexInv, StageInv, CheckInv, startWriting,
     waitVars, checkVars, netVars
<1>3. CASE getMessage
  BY <1>3, QueueSame, QueueType DEF TypeOK, MutexInv, StageInv, CheckInv, getMessage,
     queueVars, waitVars, checkVars, netVars
<1>4. CASE timeoutSend
  BY <1>4, QueueTail, QueueType DEF TypeOK, MutexInv, StageInv, CheckInv, timeoutSend,
     CallBack, waitVars, checkVars, writeVars, netVars
<1>5. CASE noMessage
  BY <1>5, QueueSame, QueueType DEF TypeOK, MutexInv, StageInv, CheckInv, noMessage,
     queueVars, waitVars, checkVars, netVars
<1>6. CASE stopWriting
  BY <1>6, QueueSame, QueueType DEF TypeOK, MutexInv, StageInv, CheckInv, stopWriting,
     queueVars, waitVars, checkVars, netVars
<1>7. CASE takeRequest
  BY <1>7, QueueTail, QueueSame, QueueType DEF TypeOK, MutexInv, StageInv, CheckInv,
     takeRequest, Take, Earliest, checkVars, netVars
<1>8. CASE arm
  BY <1>8, QueueSame, QueueType DEF TypeOK, MutexInv, StageInv, CheckInv, arm, Earliest,
     Firing, queueVars, waitVars, checkVars, writeVars, netVars
<1>9. CASE bind
  BY <1>9, QueueTail, QueueType DEF TypeOK, MutexInv, StageInv, CheckInv, bind, Take,
     waitVars, checkVars, netVars
<1>10. CASE asyncWrite
  BY <1>10, QueueSame, QueueType DEF TypeOK, MutexInv, StageInv, CheckInv, asyncWrite,
     queueVars, waitVars, checkVars, netVars
<1>11. CASE onWriteDone
  BY <1>11, QueueSame, QueueType, PeerRequestsAssumption DEF TypeOK, MutexInv, StageInv,
     CheckInv, onWriteDone, queueVars, waitVars, checkVars
<1>12. CASE fail
  BY <1>12, QueueSame, QueueType DEF TypeOK, MutexInv, StageInv, CheckInv, fail, queueVars,
     waitVars, checkVars, writeVars
<1>13. ASSUME NEW r \in Requests, receive(r)
      PROVE  CheckInv'
  BY <1>13, QueueSame, QueueType, PeerRequestsAssumption DEF TypeOK, MutexInv, StageInv,
     CheckInv, receive, queueVars, waitVars, checkVars, writeVars
<1>14. ASSUME NEW r \in Requests, handleResponse(r)
      PROVE  CheckInv'
  BY <1>14, QueueSame, QueueType, PeerRequestsAssumption DEF TypeOK, MutexInv, StageInv,
     CheckInv, handleResponse, CallBack, queueVars, checkVars, writeVars
<1>15. CASE bindNonRecursive
  <2>1. /\ current \in Requests /\ called[current] = 0 /\ Queued' = Queued
        /\ check[current] = "no" /\ toExpire[current] = {} /\ toExpire' = toExpire
        /\ deadlines' = deadlines /\ pc' = pc
    BY <1>15, QueueSame DEF bindNonRecursive, MutexInv, StageInv, CheckInv, TypeOK,
       Checkers, queueVars, waitVars
  <2>2. called' = [r \in Requests |-> called[r] + IF r \in {current} THEN 1 ELSE 0]
    BY <1>15 DEF bindNonRecursive, CallBack
  <2>4. /\ check' \in {check, [check EXCEPT ![current] = "check"]}
        /\ check' = check \/ timer.fired
        /\ timer \in Timers /\ timer' \in Timers /\ timer'.fired = timer.fired
    BY <1>15 DEF bindNonRecursive, MutexInv, Timers
  <2>5. \A k \in Checkers : check'[k] = check[k] \/ k = current
    BY <2>4 DEF TypeOK
  <2>6. "timer" \in Checkers /\ "timer" # current /\ Requests \subseteq Checkers
    BY <2>1, PeerRequestsAssumption DEF Checkers
  <2>7. \A r \in Requests : check'[r] # "no" => called'[r] >= 1
    <3>1. \A r \in Requests : check[r] # "no" => called[r] >= 1
      BY DEF CheckInv
    <3>2. \A r \in Requests : called[r] >= 1 \/ r = current => called'[r] >= 1
      BY <2>2 DEF TypeOK
    <3>3. \A r \in Requests : check'[r] = check[r] \/ r = current
      BY <2>5, <2>6
    <3>4. QED
      BY <3>1, <3>2, <3>3
  <2>8. QED
    BY <2>1, <2>4, <2>5, <2>6, <2>7 DEF CheckInv
<1>16. CASE tick
  BY <1>16, QueueSame, QueueType DEF TypeOK, MutexInv, StageInv, CheckInv, tick, queueVars,
     waitVars, checkVars, writeVars, netVars, Times
<1>17. CASE onFire
  BY <1>17, QueueSame, QueueType, PeerRequestsAssumption DEF TypeOK, MutexInv, StageInv,
     CheckInv, Timers, Checkers, onFire, queueVars, waitVars, writeVars, netVars
<1>18. ASSUME NEW k \in Checkers, checkDeadlines(k)
      PROVE  CheckInv'
  BY <1>18, QueueSame, QueueType DEF TypeOK, MutexInv, StageInv, CheckInv, checkDeadlines,
     Due, queueVars, writeVars, netVars
<1>19. ASSUME NEW k \in Checkers, expire(k)
      PROVE  CheckInv'
  <2>1. \A r \in Requests : called'[r] \in Nat /\ called[r] \in Nat /\ called'[r] >= called[r]
    BY <1>19 DEF expire, CallBack, TypeOK
  <2>2. \A r \in Requests : check'[r] # "no" => called'[r] >= 1
    <3>1. \A r \in Requests : check'[r] # "no" => check[r] # "no"
      BY <1>19 DEF expire, TypeOK, Checkers
    <3>2. QED
      BY <2>1, <3>1 DEF CheckInv
  <2>3. QED
    BY <1>19, <2>2, QueueSame DEF expire, TypeOK, CheckInv, Checkers, queueVars
<1>20. ASSUME NEW k \in Checkers, readClock(k)
      PROVE  CheckInv'
  BY <1>20, QueueSame, QueueType DEF TypeOK, MutexInv, StageInv, CheckInv, readClock,
     waitVars, queueVars, writeVars, netVars
<1>21. QED
  BY <1>1, <1>2, <1>3, <1>4, <1>5, <1>6, <1>7, <1>8, <1>9, <1>10, <1>11, <1>12, <1>13,
     <1>14, <1>15, <1>16, <1>17, <1>18, <1>19, <1>20 DEF Next, Internal, writer

\* Every step leaves someone to serve the queue.
LEMMA WriterStep ==
    ASSUME TypeOK, MutexInv, StageInv, WriterInv, Next
    PROVE  WriterInv'
<1>1. ASSUME NEW r \in Requests, NEW d \in Times, sendMessage(r, d)
      PROVE  WriterInv'
  <2>1. /\ Queued' = Queued \cup {r} /\ pc' = [pc EXCEPT ![r] = "startWriting"]
        /\ pump' = pump /\ packet' = packet /\ currentlyWriting' = currentlyWriting
        /\ \A q \in Queued \cup ({packet} \ {None}) : q \in Requests
    BY <1>1, QueueAppend, QueueType DEF sendMessage, writeVars, TypeOK
  <2>2. \A q \in Requests : pc[q] = "startWriting" => pc'[q] = "startWriting"
    BY <1>1, <2>1 DEF TypeOK
  <2>3. pc'[r] = "startWriting"
    BY <1>1, <2>1 DEF TypeOK
  <2>4. QED
    BY <2>1, <2>2, <2>3 DEF WriterInv
<1>2. ASSUME NEW r \in Requests, startWriting(r)
      PROVE  WriterInv'
  BY <1>2, QueueSame, QueueType DEF TypeOK, MutexInv, StageInv, WriterInv, startWriting,
     waitVars, checkVars, netVars
<1>3. CASE getMessage
  BY <1>3, QueueSame, QueueType DEF TypeOK, MutexInv, StageInv, WriterInv, getMessage,
     queueVars, waitVars, checkVars, netVars
<1>4. CASE timeoutSend
  BY <1>4, QueueTail, QueueType DEF TypeOK, MutexInv, StageInv, WriterInv, timeoutSend,
     CallBack, waitVars, checkVars, writeVars, netVars
<1>5. CASE noMessage
  BY <1>5, EmptyRange DEF TypeOK, MutexInv, StageInv, WriterInv, Queued, noMessage,
     queueVars, waitVars, checkVars, netVars
<1>6. CASE stopWriting
  BY <1>6, QueueSame, QueueType DEF TypeOK, MutexInv, StageInv, WriterInv, stopWriting,
     queueVars, waitVars, checkVars, netVars
<1>7. CASE takeRequest
  BY <1>7, QueueTail, QueueSame, QueueType DEF TypeOK, MutexInv, StageInv, WriterInv,
     takeRequest, Take, Earliest, checkVars, netVars
<1>8. CASE arm
  BY <1>8, QueueSame, QueueType DEF TypeOK, MutexInv, StageInv, WriterInv, arm, Earliest,
     Firing, queueVars, waitVars, checkVars, writeVars, netVars
<1>9. CASE bind
  BY <1>9, QueueTail, QueueType DEF TypeOK, MutexInv, StageInv, WriterInv, bind, Take,
     waitVars, checkVars, netVars
<1>10. CASE asyncWrite
  BY <1>10, QueueSame, QueueType DEF TypeOK, MutexInv, StageInv, WriterInv, asyncWrite,
     queueVars, waitVars, checkVars, netVars
<1>11. CASE onWriteDone
  BY <1>11, QueueSame, QueueType, PeerRequestsAssumption DEF TypeOK, MutexInv, StageInv,
     WriterInv, onWriteDone, queueVars, waitVars, checkVars
<1>12. CASE fail
  BY <1>12, QueueSame, QueueType DEF TypeOK, MutexInv, StageInv, WriterInv, fail, queueVars,
     waitVars, checkVars, writeVars
<1>13. ASSUME NEW r \in Requests, receive(r)
      PROVE  WriterInv'
  BY <1>13, QueueSame, QueueType, PeerRequestsAssumption DEF TypeOK, MutexInv, StageInv,
     WriterInv, receive, queueVars, waitVars, checkVars, writeVars
<1>14. ASSUME NEW r \in Requests, handleResponse(r)
      PROVE  WriterInv'
  BY <1>14, QueueSame, QueueType, PeerRequestsAssumption DEF TypeOK, MutexInv, StageInv,
     WriterInv, handleResponse, CallBack, queueVars, checkVars, writeVars
<1>15. CASE bindNonRecursive
  BY <1>15, QueueSame, QueueType, PeerRequestsAssumption DEF TypeOK, MutexInv, StageInv,
     WriterInv, bindNonRecursive, CallBack, queueVars, waitVars, writeVars, netVars
<1>16. CASE tick
  BY <1>16, QueueSame, QueueType DEF TypeOK, MutexInv, StageInv, WriterInv, tick, queueVars,
     waitVars, checkVars, writeVars, netVars, Times
<1>17. CASE onFire
  BY <1>17, QueueSame, QueueType DEF TypeOK, MutexInv, StageInv, WriterInv, onFire,
     queueVars, waitVars, writeVars, netVars
<1>18. ASSUME NEW k \in Checkers, checkDeadlines(k)
      PROVE  WriterInv'
  BY <1>18, QueueSame, QueueType DEF TypeOK, MutexInv, StageInv, WriterInv, checkDeadlines,
     Due, queueVars, writeVars, netVars
<1>19. ASSUME NEW k \in Checkers, expire(k)
      PROVE  WriterInv'
  BY <1>19, QueueSame, QueueType, PeerRequestsAssumption DEF TypeOK, MutexInv, StageInv,
     WriterInv, expire, CallBack, queueVars, writeVars, netVars
<1>20. ASSUME NEW k \in Checkers, readClock(k)
      PROVE  WriterInv'
  BY <1>20, QueueSame, QueueType DEF TypeOK, MutexInv, StageInv, WriterInv, readClock,
     waitVars, queueVars, writeVars, netVars
<1>21. QED
  BY <1>1, <1>2, <1>3, <1>4, <1>5, <1>6, <1>7, <1>8, <1>9, <1>10, <1>11, <1>12, <1>13,
     <1>14, <1>15, <1>16, <1>17, <1>18, <1>19, <1>20 DEF Next, Internal, writer

\* No step forgets a request.
LEMMA LifeStep ==
    ASSUME TypeOK, MutexInv, StageInv, CheckInv, LifeInv, Next
    PROVE  LifeInv'
<1>1. ASSUME NEW r \in Requests, NEW d \in Times, sendMessage(r, d)
      PROVE  LifeInv'
  BY <1>1, QueueAppend, QueueType, PeerRequestsAssumption DEF TypeOK, MutexInv, StageInv,
     CheckInv, LifeInv, sendMessage, waitVars, checkVars, writeVars, netVars
<1>2. ASSUME NEW r \in Requests, startWriting(r)
      PROVE  LifeInv'
  BY <1>2, QueueSame, QueueType DEF TypeOK, MutexInv, StageInv, CheckInv, LifeInv,
     startWriting, waitVars, checkVars, netVars
<1>3. CASE getMessage
  BY <1>3, QueueSame, QueueType DEF TypeOK, MutexInv, StageInv, CheckInv, LifeInv,
     getMessage, queueVars, waitVars, checkVars, netVars
<1>4. CASE timeoutSend
  BY <1>4, QueueTail, QueueType DEF TypeOK, MutexInv, StageInv, CheckInv, LifeInv,
     timeoutSend, CallBack, waitVars, checkVars, writeVars, netVars
<1>5. CASE noMessage
  BY <1>5, QueueSame, QueueType DEF TypeOK, MutexInv, StageInv, CheckInv, LifeInv,
     noMessage, queueVars, waitVars, checkVars, netVars
<1>6. CASE stopWriting
  BY <1>6, QueueSame, QueueType DEF TypeOK, MutexInv, StageInv, CheckInv, LifeInv,
     stopWriting, queueVars, waitVars, checkVars, netVars
<1>7. CASE takeRequest
  BY <1>7, QueueTail, QueueSame, QueueType DEF TypeOK, MutexInv, StageInv, CheckInv,
     LifeInv, takeRequest, Take, Earliest, checkVars, netVars
<1>8. CASE arm
  BY <1>8, QueueSame, QueueType DEF TypeOK, MutexInv, StageInv, CheckInv, LifeInv, arm,
     Earliest, Firing, queueVars, waitVars, checkVars, writeVars, netVars
<1>9. CASE bind
  BY <1>9, QueueTail, QueueType DEF TypeOK, MutexInv, StageInv, CheckInv, LifeInv, bind,
     Take, waitVars, checkVars, netVars
<1>10. CASE asyncWrite
  BY <1>10, QueueSame, QueueType DEF TypeOK, MutexInv, StageInv, CheckInv, LifeInv,
     asyncWrite, queueVars, waitVars, checkVars, netVars
<1>11. CASE onWriteDone
  BY <1>11, QueueSame, QueueType, PeerRequestsAssumption DEF TypeOK, MutexInv, StageInv,
     CheckInv, LifeInv, onWriteDone, queueVars, waitVars, checkVars
<1>12. CASE fail
  BY <1>12, QueueSame, QueueType DEF TypeOK, MutexInv, StageInv, CheckInv, LifeInv, fail,
     queueVars, waitVars, checkVars, writeVars
<1>13. ASSUME NEW r \in Requests, receive(r)
      PROVE  LifeInv'
  BY <1>13, QueueSame, QueueType, PeerRequestsAssumption DEF TypeOK, MutexInv, StageInv,
     CheckInv, LifeInv, receive, queueVars, waitVars, checkVars, writeVars
<1>14. ASSUME NEW r \in Requests, handleResponse(r)
      PROVE  LifeInv'
  BY <1>14, QueueSame, QueueType, PeerRequestsAssumption DEF TypeOK, MutexInv, StageInv,
     CheckInv, LifeInv, handleResponse, CallBack, queueVars, checkVars, writeVars
<1>15. CASE bindNonRecursive
  BY <1>15, QueueSame, QueueType, PeerRequestsAssumption DEF TypeOK, MutexInv, StageInv,
     CheckInv, LifeInv, bindNonRecursive, CallBack, queueVars, waitVars, writeVars, netVars
<1>16. CASE tick
  BY <1>16, QueueSame, QueueType DEF TypeOK, MutexInv, StageInv, CheckInv, LifeInv, tick,
     queueVars, waitVars, checkVars, writeVars, netVars, Times
<1>17. CASE onFire
  BY <1>17, QueueSame, QueueType DEF TypeOK, MutexInv, StageInv, CheckInv, LifeInv, onFire,
     queueVars, waitVars, writeVars, netVars
<1>18. ASSUME NEW k \in Checkers, checkDeadlines(k)
      PROVE  LifeInv'
  BY <1>18, QueueSame, QueueType DEF TypeOK, MutexInv, StageInv, CheckInv, LifeInv,
     checkDeadlines, Due, queueVars, writeVars, netVars
<1>19. ASSUME NEW k \in Checkers, expire(k)
      PROVE  LifeInv'
  BY <1>19, QueueSame, QueueType, PeerRequestsAssumption DEF TypeOK, MutexInv, StageInv,
     CheckInv, LifeInv, expire, CallBack, queueVars, writeVars, netVars
<1>20. ASSUME NEW k \in Checkers, readClock(k)
      PROVE  LifeInv'
  BY <1>20, QueueSame, QueueType DEF TypeOK, MutexInv, StageInv, CheckInv, LifeInv,
     readClock, waitVars, queueVars, writeVars, netVars
<1>21. QED
  BY <1>1, <1>2, <1>3, <1>4, <1>5, <1>6, <1>7, <1>8, <1>9, <1>10, <1>11, <1>12, <1>13,
     <1>14, <1>15, <1>16, <1>17, <1>18, <1>19, <1>20 DEF Next, Internal, writer

\* No step makes the timer late.
LEMMA TimerStep ==
    ASSUME TypeOK, MutexInv, StageInv, TimerInv, Next
    PROVE  TimerInv'
<1>1. ASSUME NEW r \in Requests, NEW d \in Times, sendMessage(r, d)
      PROVE  TimerInv'
  BY <1>1 DEF TypeOK, MutexInv, StageInv, TimerInv, sendMessage, waitVars, checkVars,
     writeVars, netVars
<1>2. ASSUME NEW r \in Requests, startWriting(r)
      PROVE  TimerInv'
  BY <1>2 DEF TypeOK, MutexInv, StageInv, TimerInv, startWriting, waitVars, checkVars, netVars
<1>3. CASE getMessage
  BY <1>3 DEF TypeOK, MutexInv, StageInv, TimerInv, getMessage, queueVars, waitVars,
     checkVars, netVars
<1>4. CASE timeoutSend
  BY <1>4 DEF TypeOK, MutexInv, StageInv, TimerInv, timeoutSend, CallBack, waitVars,
     checkVars, writeVars, netVars
<1>5. CASE noMessage
  BY <1>5 DEF TypeOK, MutexInv, StageInv, TimerInv, noMessage, queueVars, waitVars,
     checkVars, netVars
<1>6. CASE stopWriting
  BY <1>6 DEF TypeOK, MutexInv, StageInv, TimerInv, stopWriting, queueVars, waitVars,
     checkVars, netVars
<1>7. CASE takeRequest
  <2>1. PICK r \in Requests : r = Head(messages) /\ deadlines' = deadlines \cup {r}
    BY <1>7, QueueTail DEF takeRequest
  <2>2. timer' = timer /\ deadline' = deadline
    BY <1>7 DEF takeRequest
  <2>3. CASE deadlines = {} \/ deadline[r] < Earliest(deadlines)
    BY <1>7, <2>1, <2>3 DEF takeRequest, TimerInv
  <2>4. CASE deadlines # {} /\ ~(deadline[r] < Earliest(deadlines))
    <3>1. critical = "getMessage"
      BY <1>7 DEF takeRequest
    <3>2. SUFFICES ASSUME timer \in Timers, ~timer.fired
                   PROVE  timer.at <= deadline[r]
      BY <2>1, <2>2, <3>1 DEF TimerInv
    <3>3. \A q \in deadlines : timer.at <= deadline[q]
      BY <3>1, <3>2 DEF TimerInv
    <3>4. timer.at \in Nat /\ \A q \in Requests : deadline[q] \in Nat
      BY <3>2, PeerRequestsAssumption DEF Timers, TypeOK, Times
    <3>5. PICK q \in deadlines : Earliest(deadlines) = deadline[q]
      BY <2>4, EarliestLemma DEF TypeOK
    <3>6. q \in Requests
      BY DEF TypeOK
    <3>7. QED
      BY <2>4, <3>3, <3>4, <3>5, <3>6
  <2>5. QED
    BY <2>3, <2>4
<1>8. CASE arm
  BY <1>8, EarliestLemma DEF TypeOK, MutexInv, StageInv, TimerInv, Timers, arm, Earliest,
     Firing, queueVars, waitVars, checkVars, writeVars, netVars
<1>9. CASE bind
  BY <1>9 DEF TypeOK, MutexInv, StageInv, TimerInv, Timers, bind, Take, waitVars, checkVars,
     netVars
<1>10. CASE asyncWrite
  BY <1>10 DEF TypeOK, MutexInv, StageInv, TimerInv, asyncWrite, queueVars, waitVars,
     checkVars, netVars
<1>11. CASE onWriteDone
  BY <1>11 DEF TypeOK, MutexInv, StageInv, TimerInv, onWriteDone, queueVars, waitVars, checkVars
<1>12. CASE fail
  BY <1>12 DEF TypeOK, MutexInv, StageInv, TimerInv, fail, queueVars, waitVars, checkVars,
     writeVars
<1>13. ASSUME NEW r \in Requests, receive(r)
      PROVE  TimerInv'
  BY <1>13 DEF TypeOK, MutexInv, StageInv, TimerInv, receive, queueVars, waitVars,
     checkVars, writeVars
<1>14. ASSUME NEW r \in Requests, handleResponse(r)
      PROVE  TimerInv'
  BY <1>14 DEF TypeOK, MutexInv, StageInv, TimerInv, handleResponse, CallBack,
     queueVars, checkVars, writeVars
<1>15. CASE bindNonRecursive
  BY <1>15 DEF TypeOK, MutexInv, StageInv, TimerInv, Timers, bindNonRecursive, CallBack,
     queueVars, waitVars, writeVars, netVars
<1>16. CASE tick
  BY <1>16 DEF TypeOK, MutexInv, StageInv, TimerInv, tick, queueVars, waitVars, checkVars,
     writeVars, netVars, Times
<1>17. CASE onFire
  BY <1>17 DEF TypeOK, MutexInv, StageInv, TimerInv, Timers, onFire, queueVars, waitVars,
     writeVars, netVars
<1>18. ASSUME NEW k \in Checkers, checkDeadlines(k)
      PROVE  TimerInv'
  BY <1>18 DEF TypeOK, MutexInv, StageInv, TimerInv, checkDeadlines, Due, queueVars,
     writeVars, netVars
<1>19. ASSUME NEW k \in Checkers, expire(k)
      PROVE  TimerInv'
  BY <1>19 DEF TypeOK, MutexInv, StageInv, TimerInv, expire, CallBack, queueVars, writeVars,
     netVars
<1>20. ASSUME NEW k \in Checkers, readClock(k)
      PROVE  TimerInv'
  BY <1>20 DEF TypeOK, MutexInv, StageInv, TimerInv, readClock, waitVars, queueVars,
     writeVars, netVars
<1>21. QED
  BY <1>1, <1>2, <1>3, <1>4, <1>5, <1>6, <1>7, <1>8, <1>9, <1>10, <1>11, <1>12, <1>13,
     <1>14, <1>15, <1>16, <1>17, <1>18, <1>19, <1>20 DEF Next, Internal, writer

-----------------------------------------------------------------------------
(* The theorems.                                                           *)

\* The invariant holds at the start.
LEMMA PInvInit == Init => PInv
<1> SUFFICES ASSUME Init PROVE PInv
  OBVIOUS
<1>1. Queued = {} /\ IsInjective(messages)
  BY EmptyRange DEF Init, Queued
<1>2. TypeOK
  <2>1. 0 \in Times /\ messages \in Seq(Requests)
    BY EmptySeq, PeerRequestsAssumption DEF Init, Times
  <2>2. toExpire \in [Checkers -> SUBSET Requests]
    BY DEF Init
  <2>3. QED
    BY <2>1, <2>2 DEF Init, TypeOK
<1>3. MutexInv /\ StageInv
  BY <1>1, PeerRequestsAssumption DEF Init, MutexInv, StageInv, CalledBackOnce
<1>4. CheckInv
  BY <1>1 DEF Init, CheckInv, Checkers
<1>5. WriterInv
  BY <1>1 DEF Init, WriterInv
<1>6. LifeInv /\ TimerInv
  BY DEF Init, LifeInv, TimerInv
<1>7. QED
  BY <1>2, <1>3, <1>4, <1>5, <1>6 DEF PInv

\* Every step keeps the invariant.
LEMMA PInvStep == PInv /\ [Next]_vars => PInv'
<1> SUFFICES ASSUME PInv, [Next]_vars PROVE PInv'
  OBVIOUS
<1>1. CASE Next
  BY <1>1, TypeStep, MutexStep, StageStep, CheckStep, WriterStep, LifeStep, TimerStep DEF PInv
<1>2. CASE UNCHANGED vars
  BY <1>2 DEF PInv, TypeOK, MutexInv, StageInv, CalledBackOnce, CheckInv, WriterInv,
     LifeInv, TimerInv, Queued, vars, queueVars, waitVars, checkVars, writeVars, netVars
<1>3. QED
  BY <1>1, <1>2

\* The invariant holds in every reachable state.
LEMMA PInvAlways == Spec => []PInv
  BY PInvInit, PInvStep, PTL DEF Spec

\* The state keeps its shape, whatever the requests and their deadlines
\* (rest/remote_peer.cc, rest/asio_peer_connection.cc).
THEOREM TypeCorrect == Spec => []TypeOK
  BY PInvAlways, PTL DEF PInv

\* No request is called back twice, by whatever mixture of responses, late
\* responses and expiries (rest/remote_peer.cc:537-548, 628-632).
THEOREM CalledBackOnceCorrect == Spec => []CalledBackOnce
  BY PInvAlways, PTL DEF PInv, StageInv

\* A request that was sent and not called back is queued, on record, at hand or
\* in the list of a thread that expires it (rest/remote_peer.cc:360-400, 530-640).
THEOREM NoneForgottenCorrect == Spec => []NoneForgotten
<1>1. PInv => NoneForgotten
  BY DEF PInv, StageInv, LifeInv, NoneForgotten, Queued, Range
<1>2. QED
  BY <1>1, PInvAlways, PTL

\* The timer that is to fire next is not later than any deadline on record
\* (rest/remote_peer.cc:385-393, 552-571).
THEOREM TimerNotLateCorrect == Spec => []TimerNotLate
<1>1. PInv => TimerNotLate
  BY DEF PInv, TypeOK, TimerInv, Timers, TimerNotLate
<1>2. QED
  BY <1>1, PInvAlways, PTL

\* A message is never left on the queue with nobody writing or about to look
\* (rest/asio_peer_connection.cc:195-219).
THEOREM QueueServedCorrect == Spec => []QueueServed
<1>1. ASSUME PInv, messages # <<>>
      PROVE  QueueServed
  <2>1. PICK q \in Requests : q \in Queued
    BY <1>1, QueueTail DEF PInv
  <2>2. q # packet
    BY <1>1, <2>1 DEF PInv, StageInv
  <2>3. \A r \in Queued \cup ({packet} \ {None}) : r \in Requests
    BY <1>1, QueueType DEF PInv, TypeOK
  <2>4. QED
    BY <1>1, <2>1, <2>2, <2>3 DEF PInv, TypeOK, WriterInv, QueueServed
<1>2. PInv => QueueServed
  BY <1>1 DEF QueueServed
<1>3. QED
  BY <1>2, PInvAlways, PTL

=============================================================================
