----------------------------- MODULE MessageSink -----------------------------
(***************************************************************************)
(* TypedMessageSink (io/typed_message_channel.h): a RingBufferSRMW         *)
(* (io/ring_buffer.h) that any client may push to and one thread, the one  *)
(* of the message loop, reads, and an eventfd that tells that thread there *)
(* is something to read.                                                   *)
(*                                                                         *)
(* The positions are atomics that the reader and the writers use without a *)
(* common lock, so each access is a step; a client that finds the ring     *)
(* full sleeps on the address of readPosition.  The spinlock is only ever  *)
(* contended while a client stores its message.                            *)
(***************************************************************************)
EXTENDS Naturals, Sequences, FiniteSets

CONSTANTS
    Clients,        \* the threads that push
    Sources,        \* the sinks
    bufferSize,     \* slots of a ring: one is always empty
    MaxMessages,    \* bound: messages pushed altogether
    None

ASSUME MessageSinkAssumption ==
    /\ bufferSize \in Nat \ {0, 1}
    /\ MaxMessages \in Nat
    /\ None \notin Clients \cup Sources \cup (1..MaxMessages)

Messages == 1..MaxMessages
Positions == 0..(bufferSize - 1)

VARIABLES
    ring, readPosition, writePosition,  \* of each sink
    mutex,       \* of each sink: the client that holds its spinlock, or None
    wakeup,      \* of each sink: is its eventfd readable?
    call,        \* what each client is doing
    reader,      \* how far the loop's thread is in processOne of a sink
    pushed,      \* messages handed to push or tryPush so far
    sent,        \* history: messages in each ring or taken from it, in their order
    handled      \* history: messages given to onEvent, in their order

ringVars == <<ring, readPosition, writePosition>>
sinkVars == <<ringVars, mutex, wakeup, reader, pushed, sent, handled>>

\* A client between two calls.  "full" is the fullReadPosition it last computed.
Idle == [pc |-> "idle", src |-> None, msg |-> None, blocks |-> FALSE, full |-> 0]

\* The loop's thread outside processOne; more is what processOne returned last.
Outside(more) == [pc |-> "outside", src |-> None, msg |-> None, more |-> more]

next(p) == (p + 1) % bufferSize

SinkInit ==
    /\ ring = [s \in Sources |-> [p \in Positions |-> None]]
    /\ readPosition = [s \in Sources |-> 0]
    /\ writePosition = [s \in Sources |-> 0]
    /\ mutex = [s \in Sources |-> None]
    /\ wakeup = [s \in Sources |-> FALSE]
    /\ reader = Outside(FALSE)
    /\ pushed = 0
    /\ sent = [s \in Sources |-> <<>>]
    /\ handled = [s \in Sources |-> <<>>]

-----------------------------------------------------------------------------
(* The writers *)

At(c, pc) == call[c].pc = pc

Goto(c, pc) == call' = [call EXCEPT ![c].pc = pc]

\* push (blocks) and tryPush of a new message.
push(c, s, blocks) ==
    /\ At(c, "idle")
    /\ pushed < MaxMessages
    /\ pushed' = pushed + 1
    /\ call' = [call EXCEPT ![c] = [Idle EXCEPT !.pc = "lock", !.src = s,
                                                !.msg = pushed + 1, !.blocks = blocks]]
    /\ UNCHANGED <<ringVars, mutex, wakeup, reader, sent, handled>>

\* Fault: the guard is a temporary, and the lock free at once.
lockTemporary(c, s) == UNCHANGED mutex

lockRing(c, s) == mutex' = [mutex EXCEPT ![s] = c]

\* Takes the spinlock and compares readPosition with the position it would
\* have if the ring were full.  If it is, push gives the lock back and goes
\* to sleep, tryPush returns false.
checkFull(c) ==
    LET s == call[c].src
        fullReadPosition == next(writePosition[s])
    IN  /\ At(c, "lock")
        /\ mutex[s] = None
        /\ \/ /\ readPosition[s] # fullReadPosition
              /\ lockRing(c, s)
              /\ Goto(c, "store")
           \/ /\ readPosition[s] = fullReadPosition
              /\ call[c].blocks
              /\ call' = [call EXCEPT ![c].pc = "wait", ![c].full = fullReadPosition]
              /\ UNCHANGED mutex
           \/ /\ readPosition[s] = fullReadPosition
              /\ ~call[c].blocks
              /\ call' = [call EXCEPT ![c] = Idle]
              /\ UNCHANGED mutex
        /\ UNCHANGED <<ringVars, wakeup, reader, pushed, sent, handled>>

\* wait_on_address sleeps only while the value is the one the caller saw.
wait_on_address(c) ==
    /\ At(c, "wait")
    /\ Goto(c, IF readPosition[call[c].src] = call[c].full THEN "asleep" ELSE "lock")
    /\ UNCHANGED sinkVars

store(c) ==
    /\ At(c, "store")
    /\ LET s == call[c].src IN
       ring' = [ring EXCEPT ![s][writePosition[s]] = call[c].msg]
    /\ Goto(c, "advance")
    /\ UNCHANGED <<readPosition, writePosition, mutex, wakeup, reader, pushed, sent, handled>>

\* The new writePosition publishes the message, and the lock is given back.
\* (The wake_by_address that follows has nobody to wake: a sink never pops
\* with a blocking call.)
advance(c) ==
    /\ At(c, "advance")
    /\ LET s == call[c].src IN
       /\ writePosition' = [writePosition EXCEPT ![s] = next(@)]
       /\ mutex' = [mutex EXCEPT ![s] = None]
       /\ sent' = [sent EXCEPT ![s] = Append(@, call[c].msg)]
    /\ Goto(c, "signal")
    /\ UNCHANGED <<ring, readPosition, wakeup, reader, pushed, handled>>

signal(c) ==
    /\ At(c, "signal")
    /\ wakeup' = [wakeup EXCEPT ![call[c].src] = TRUE]
    /\ call' = [call EXCEPT ![c] = Idle]
    /\ UNCHANGED <<ringVars, mutex, reader, pushed, sent, handled>>

Write(c) ==
    checkFull(c) \/ wait_on_address(c) \/ store(c) \/ advance(c) \/ signal(c)

-----------------------------------------------------------------------------
(* The reader: processOne, run by the thread of the message loop *)

couldPop(s) == writePosition[s] # readPosition[s]

ReadAt(pc) == reader.pc = pc

\* The loop calls processOne of s.
processOne(s) ==
    /\ ReadAt("outside")
    /\ reader' = [pc |-> "pop", src |-> s, msg |-> None, more |-> FALSE]

\* tryPop takes the message out of its slot and clears the slot.
tryPop ==
    /\ ReadAt("pop")
    /\ LET s == reader.src
           p == readPosition[s]
       IN  \/ /\ couldPop(s)
              /\ reader' = [reader EXCEPT !.pc = "advance", !.msg = ring[s][p]]
              /\ ring' = [ring EXCEPT ![s][p] = None]
           \/ /\ ~couldPop(s)
              /\ reader' = Outside(FALSE)
              /\ UNCHANGED ring
    /\ UNCHANGED <<call, readPosition, writePosition, mutex, wakeup, pushed, sent, handled>>

advanceRead ==
    /\ ReadAt("advance")
    /\ readPosition' = [readPosition EXCEPT ![reader.src] = next(@)]
    /\ reader' = [reader EXCEPT !.pc = "wake"]
    /\ UNCHANGED <<call, ring, writePosition, mutex, wakeup, pushed, sent, handled>>

\* Fault: the reader tells nobody that there is room.
wake_nobody ==
    /\ ReadAt("wake")
    /\ handled' = [handled EXCEPT ![reader.src] = Append(@, reader.msg)]
    /\ reader' = [reader EXCEPT !.pc = "more", !.msg = None]
    /\ UNCHANGED <<call, ringVars, mutex, wakeup, pushed, sent>>

\* wake_by_address wakes every client asleep on the position; then onEvent runs.
wake_by_address ==
    /\ ReadAt("wake")
    /\ call' = [c \in Clients |->
         IF At(c, "asleep") /\ call[c].src = reader.src
         THEN [call[c] EXCEPT !.pc = "lock"] ELSE call[c]]
    /\ handled' = [handled EXCEPT ![reader.src] = Append(@, reader.msg)]
    /\ reader' = [reader EXCEPT !.pc = "more", !.msg = None]
    /\ UNCHANGED <<ringVars, mutex, wakeup, pushed, sent>>

\* Is there another message?  If not, the eventfd is drained and the question
\* asked again: a message may have been pushed and signalled in between.
askMore ==
    /\ ReadAt("more")
    /\ reader' = IF couldPop(reader.src) THEN Outside(TRUE)
                 ELSE [reader EXCEPT !.pc = "drain"]
    /\ UNCHANGED <<call, ringVars, mutex, wakeup, pushed, sent, handled>>

tryRead ==
    /\ ReadAt("drain")
    /\ wakeup' = [wakeup EXCEPT ![reader.src] = FALSE]
    /\ reader' = [reader EXCEPT !.pc = "again"]
    /\ UNCHANGED <<call, ringVars, mutex, pushed, sent, handled>>

\* Fault: after draining the eventfd the ring is not looked at again.
askNoMore ==
    /\ ReadAt("again")
    /\ reader' = Outside(FALSE)
    /\ UNCHANGED <<call, ringVars, mutex, wakeup, pushed, sent, handled>>

askAgain ==
    /\ ReadAt("again")
    /\ reader' = Outside(couldPop(reader.src))
    /\ UNCHANGED <<call, ringVars, mutex, wakeup, pushed, sent, handled>>

Read == tryPop \/ advanceRead \/ wake_by_address \/ askMore \/ tryRead \/ askAgain

-----------------------------------------------------------------------------
(* Properties *)

\* The messages in the ring of s, oldest first: the slots from readPosition
\* up to writePosition, less the one whose message the reader has just taken.
Contents(s) ==
    LET n == (writePosition[s] + bufferSize - readPosition[s]) % bufferSize
        all == [i \in 1..n |-> ring[s][(readPosition[s] + i - 1) % bufferSize]]
    IN  IF ReadAt("advance") /\ reader.src = s THEN Tail(all) ELSE all

Held(s) == IF reader.src = s /\ reader.msg # None THEN <<reader.msg>> ELSE <<>>

\* Every message a ring has accepted is handled once, and in the order of
\* acceptance: what was handled, what the reader holds and what the slots hold
\* add up to what was sent, so no slot is overwritten before it is read, read
\* before it is written or read twice, however the positions wrap
\* (io/ring_buffer.h:269-285, 348-353).
InOrder == \A s \in Sources : sent[s] = handled[s] \o Held(s) \o Contents(s)

\* A client sleeps on readPosition only as long as the position is the one it
\* compared it with: a pop in between is seen, by the value or by the wake-up
\* still to come (io/ring_buffer.h:276-278, 353-354).
SleepersWoken ==
    \A c \in Clients : At(c, "asleep") =>
        \/ readPosition[call[c].src] = call[c].full
        \/ ReadAt("wake") /\ reader.src = call[c].src
=============================================================================
