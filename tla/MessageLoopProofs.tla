-------------------------- MODULE MessageLoopProofs --------------------------
(***************************************************************************)
(* Proofs about MessageLoop and the sinks it runs, for any number of       *)
(* clients, of sources and of slots in a ring.                             *)
(***************************************************************************)
EXTENDS MessageLoop, CommonLemmas, FiniteSetTheorems

-----------------------------------------------------------------------------
(* The inductive invariant: the rings.                                     *)

\* The messages between the positions r and w, and the slot of the i-th of them,
\* without a remainder.
Count(w, r) == IF r <= w THEN w - r ELSE w + bufferSize - r
SlotOf(r, i) == IF r + i <= bufferSize THEN r + i - 1 ELSE r + i - 1 - bufferSize

Writing == {"store", "advance"}
Pushing == {"lock", "wait", "asleep", "store", "advance", "signal"}

\* Is the reader at pc in processOne of s?
Reading(s, pc) == ReadAt(pc) /\ reader.src = s

\* What a client or the reader is using.
UseInv ==
    /\ \A c \in Clients : call[c].pc \in Pushing =>
           call[c].src \in Sources /\ call[c].msg \in Messages
    /\ ReadAt("outside") => reader.src = None
    /\ ~ReadAt("outside") => reader.src \in Sources
    /\ reader.pc \in {"advance", "wake"} <=> reader.msg # None

\* A client holds the lock while it stores its message, and the ring then has room;
\* a message the reader has taken is still counted.
LockInv ==
    /\ \A s \in Sources : mutex[s] # None =>
           call[mutex[s]].pc \in Writing /\ call[mutex[s]].src = s
    /\ \A c \in Clients : call[c].pc \in Writing =>
           /\ mutex[call[c].src] = c
           /\ next(writePosition[call[c].src]) # readPosition[call[c].src]
    /\ ReadAt("advance") => couldPop(reader.src)

\* How many messages of s are no longer in the ring's count: those handled, and the
\* one the reader is about to hand over.
Gone(s) == Len(handled[s]) + (IF Reading(s, "wake") THEN 1 ELSE 0)

\* The history of a ring, message by message.
HistoryInv ==
    \A s \in Sources :
        /\ Len(sent[s]) = Gone(s) + Count(writePosition[s], readPosition[s])
        /\ \A i \in 1 .. Len(handled[s]) : sent[s][i] = handled[s][i]
        /\ (Reading(s, "advance") \/ Reading(s, "wake")) =>
               sent[s][Len(handled[s]) + 1] = reader.msg

\* The slots from readPosition to writePosition hold the messages sent last, and the
\* slot that is being written holds its message before it is published.
SlotInv ==
    /\ \A s \in Sources : \A i \in 1 .. Count(writePosition[s], readPosition[s]) :
           (i > 1 \/ ~Reading(s, "advance")) =>
               ring[s][SlotOf(readPosition[s], i)] = sent[s][Gone(s) + i]
    /\ \A c \in Clients : At(c, "advance") =>
           ring[call[c].src][writePosition[call[c].src]] = call[c].msg

-----------------------------------------------------------------------------
(* The inductive invariant: the loop.                                      *)

\* Where the loop's thread is.
LoopInv ==
    /\ ~ReadAt("outside") => loop \in {"events", "visiting"}
    /\ actions # <<>> => loop \in {"eventAction", "passAction"}
    /\ loop # "threw"
    /\ IsFiniteSet(registered)

\* A message in a ring that nobody is about to signal: the pass that will find it.
Unfinished(s) ==
    \/ reader.src = s
    \/ loop \in {"events", "eventActions", "eventAction", "passActions", "passAction", "done"}
    \/ loop \in {"visit", "visiting"} /\ (more \/ s \in Range(visits))
    \/ loop = "visiting" /\ ReadAt("outside") /\ reader.more

Signalled(s) == wakeup[s] \/ \E c \in Clients : At(c, "signal") /\ call[c].src = s

ToldInv == \A s \in registered : couldPop(s) => Signalled(s) \/ Unfinished(s)

QueueInv ==
    /\ queue # <<>> => pending_
    /\ pending_ => notified \/ loop \in {"eventActions", "passActions"}

\* A source is in the list, in the epoll set and connected, or none of these.
ListInv ==
    /\ IsInjective(sources)
    /\ registered = Range(sources)
    /\ \A s \in Sources : connectionState_[s] <=> s \in registered
    /\ loop \in {"visit", "visiting"} => Range(visits) \subseteq registered
    /\ loop = "visiting" /\ ~ReadAt("outside") => reader.src \in registered

\* Each source is added and removed at most once, in this order, and what is still
\* to be done agrees with what has been done.
TodoInv ==
    /\ \A i, j \in DOMAIN Todo :
          /\ Todo[i] = Todo[j] /\ Todo[i].src \in Sources => i = j
          /\ Todo[i].src \in Sources /\ Todo[i].src = Todo[j].src
             /\ Todo[i].what = "add" /\ Todo[j].what = "remove" => i < j
    /\ \A s \in Sources :
          /\ Action("add", s) \in Range(Todo) => s \notin registered
          /\ Action("remove", s) \in Range(Todo) =>
                s \in registered \/ Action("add", s) \in Range(Todo)

\* A client waits for a source to be removed, awake or asleep.
Removing(c) == call[c].pc \in {"removing", "blocked"}

LifeInv ==
    /\ \A s \in Sources :
          /\ life[s] \in {"new", "gone"} =>
                /\ s \notin registered
                /\ Action("add", s) \notin Range(Todo)
          /\ life[s] \in {"new", "added"} => Action("remove", s) \notin Range(Todo)
          /\ life[s] = "added" => s \in registered \/ Action("add", s) \in Range(Todo)
    /\ \A c \in Clients : Removing(c) =>
          /\ call[c].src \in Sources
          /\ life[call[c].src] = "leaving"
          /\ \A d \in Clients : Removing(d) /\ call[d].src = call[c].src => c = d

MInv == /\ TypeOK /\ UseInv /\ LockInv /\ HistoryInv /\ SlotInv /\ LoopInv
        /\ SleepersWoken /\ ToldInv /\ QueueInv /\ ListInv /\ TodoInv /\ LifeInv

-----------------------------------------------------------------------------
(* Positions.                                                              *)

\* The remainder of a number less than twice the divisor.
LEMMA SmallRemainder ==
    ASSUME NEW a \in Nat, NEW b \in Nat \ {0}, a < 2 * b
    PROVE  a % b = IF a < b THEN a ELSE a - b
<1>1. CASE a < b
  <2>1. a = b * 0 + a
    OBVIOUS
  <2>2. QED
    BY <1>1, <2>1
<1>2. CASE ~(a < b)
  <2>1. a = b * 1 + (a - b) /\ 0 <= a - b /\ a - b < b
    BY <1>2
  <2>2. QED
    BY <1>2, <2>1
<1>3. QED
  BY <1>1, <1>2

\* The position after p is the next slot, or the first after the last.
LEMMA NextPosition ==
    ASSUME NEW p \in Positions
    PROVE  /\ next(p) \in Positions
           /\ next(p) = IF p = bufferSize - 1 THEN 0 ELSE p + 1
<1>1. p + 1 \in Nat /\ bufferSize \in Nat \ {0} /\ p + 1 < 2 * bufferSize
  BY MessageSinkAssumption DEF Positions
<1>2. (p + 1) % bufferSize
        = IF p + 1 < bufferSize THEN p + 1 ELSE (p + 1) - bufferSize
  <2> DEFINE a == p + 1
  <2>1. a \in Nat /\ bufferSize \in Nat \ {0} /\ a < 2 * bufferSize
    BY <1>1
  <2>2. a % bufferSize = IF a < bufferSize THEN a ELSE a - bufferSize
    <3> HIDE DEF a
    <3> QED BY <2>1, SmallRemainder
  <2>3. QED
    BY <2>2
<1>3. QED
  BY <1>2, MessageSinkAssumption DEF Positions, next

\* A ring never counts as many messages as it has slots, and its messages are in
\* different slots, none of which is the one that is written next.
LEMMA CountSlots ==
    ASSUME NEW w \in Positions, NEW r \in Positions
    PROVE  /\ Count(w, r) \in 0 .. (bufferSize - 1)
           /\ Count(w, r) = 0 <=> w = r
           /\ \A i \in 1 .. Count(w, r) : SlotOf(r, i) \in Positions /\ SlotOf(r, i) # w
           /\ \A i, j \in 1 .. Count(w, r) : SlotOf(r, i) = SlotOf(r, j) => i = j
           /\ w # r => SlotOf(r, 1) = r
  BY MessageSinkAssumption DEF Positions, Count, SlotOf

\* Writing: one more message, in the slot at the old writePosition.
LEMMA CountWrite ==
    ASSUME NEW w \in Positions, NEW r \in Positions, next(w) # r
    PROVE  /\ Count(next(w), r) = Count(w, r) + 1
           /\ SlotOf(r, Count(w, r) + 1) = w
  BY NextPosition, MessageSinkAssumption DEF Positions, Count, SlotOf

\* Reading: one message less, and the others are where they were.
LEMMA CountRead ==
    ASSUME NEW w \in Positions, NEW r \in Positions, w # r
    PROVE  /\ Count(w, r) = Count(w, next(r)) + 1
           /\ \A i \in 1 .. Count(w, next(r)) : SlotOf(next(r), i) = SlotOf(r, i + 1)
           /\ next(w) # r => next(w) # next(r)
<1>1. next(r) = (IF r = bufferSize - 1 THEN 0 ELSE r + 1)
  BY NextPosition
<1>2. next(w) = (IF w = bufferSize - 1 THEN 0 ELSE w + 1)
  BY NextPosition
<1>3. QED
  BY <1>1, <1>2, MessageSinkAssumption DEF Positions, Count, SlotOf

\* The same with remainders, as Contents states it.
LEMMA CountRemainder ==
    ASSUME NEW w \in Positions, NEW r \in Positions
    PROVE  /\ (w + bufferSize - r) % bufferSize = Count(w, r)
           /\ \A i \in 1 .. Count(w, r) : (r + i - 1) % bufferSize = SlotOf(r, i)
<1>1. (w + bufferSize - r) % bufferSize = Count(w, r)
  <2>1. w + bufferSize - r \in Nat /\ w + bufferSize - r < 2 * bufferSize
    BY MessageSinkAssumption DEF Positions
  <2>2. (w + bufferSize - r) % bufferSize
          = IF w + bufferSize - r < bufferSize THEN w + bufferSize - r
            ELSE (w + bufferSize - r) - bufferSize
    BY <2>1, SmallRemainder, MessageSinkAssumption
  <2>3. QED
    BY <2>2, MessageSinkAssumption DEF Positions, Count
<1>2. ASSUME NEW i \in 1 .. Count(w, r)
      PROVE  (r + i - 1) % bufferSize = SlotOf(r, i)
  <2>1. r + i - 1 \in Nat /\ r + i - 1 < 2 * bufferSize
    BY CountSlots, MessageSinkAssumption DEF Positions
  <2>2. (r + i - 1) % bufferSize
          = IF r + i - 1 < bufferSize THEN r + i - 1 ELSE (r + i - 1) - bufferSize
    BY <2>1, SmallRemainder, MessageSinkAssumption
  <2>3. QED
    BY <2>1, <2>2, CountSlots, MessageSinkAssumption DEF Positions, SlotOf
<1>3. QED
  BY <1>1, <1>2


-----------------------------------------------------------------------------
(* Sequences.                                                              *)

\* A sequence put together from three, element by element.
LEMMA ThreeParts ==
    ASSUME NEW S, NEW s \in Seq(S), NEW a \in Seq(S), NEW b \in Seq(S), NEW c \in Seq(S),
           Len(s) = Len(a) + Len(b) + Len(c),
           \A i \in 1 .. Len(a) : s[i] = a[i],
           \A i \in 1 .. Len(b) : s[Len(a) + i] = b[i],
           \A i \in 1 .. Len(c) : s[Len(a) + Len(b) + i] = c[i]
    PROVE  s = a \o b \o c
<1> DEFINE t == a \o b
<1>1. t \in Seq(S) /\ Len(t) = Len(a) + Len(b)
  OBVIOUS
<1>2. \A i \in 1 .. Len(t) : t[i] = IF i <= Len(a) THEN a[i] ELSE b[i - Len(a)]
  OBVIOUS
<1>3. \A i \in 1 .. Len(t) : s[i] = t[i]
  <2>1. TAKE i \in 1 .. Len(t)
  <2>2. CASE i <= Len(a)
    BY <2>2, <1>2
  <2>3. CASE ~(i <= Len(a))
    <3>1. i - Len(a) \in 1 .. Len(b) /\ Len(a) + (i - Len(a)) = i
      BY <2>3, <1>1
    <3>2. QED
      BY <2>3, <3>1, <1>2
  <2>4. QED
    BY <2>2, <2>3
<1>4. t \o c \in Seq(S) /\ Len(t \o c) = Len(s)
  BY <1>1
<1>5. \A i \in 1 .. Len(s) : s[i] = (t \o c)[i]
  <2>1. TAKE i \in 1 .. Len(s)
  <2>2. CASE i <= Len(t)
    <3> HIDE DEF t
    <3> QED BY <2>2, <1>1, <1>3
  <2>3. CASE ~(i <= Len(t))
    <3>1. i - Len(t) \in 1 .. Len(c) /\ Len(t) + (i - Len(t)) = i
      BY <2>3, <1>1
    <3>2. (t \o c)[i] = c[i - Len(t)]
      <4> HIDE DEF t
      <4> QED BY <2>3, <1>1
    <3>3. s[i] = c[i - Len(t)]
      <4> HIDE DEF t
      <4> QED BY <3>1, <1>1
    <3>4. QED
      BY <3>2, <3>3
  <2>4. QED
    BY <2>2, <2>3
<1>6. QED
  <2> HIDE DEF t
  <2>1. s = t \o c
    BY <1>4, <1>5, SeqEqual
  <2>2. QED
    BY <2>1 DEF t

\* The first occurrence of e is taken out, which was the only one.
LEMMA RemoveFirstRange ==
    ASSUME NEW S, NEW s \in Seq(S), NEW e
    PROVE  /\ RemoveFirst(s, e) \in Seq(S)
           /\ IsInjective(s) => /\ IsInjective(RemoveFirst(s, e))
                                /\ Range(RemoveFirst(s, e)) = Range(s) \ {e}
<1>1. CASE ~(\E i \in 1 .. Len(s) : s[i] = e)
  BY <1>1 DEF RemoveFirst, Range
<1>2. CASE \E i \in 1 .. Len(s) : s[i] = e
  <2> DEFINE I == {i \in 1 .. Len(s) : s[i] = e}
             k == Min(I)
             r == RemoveAt(s, k)
  <2>1. I # {} /\ I \in SUBSET Nat
    BY <1>2
  <2>2. k \in I
    BY <2>1, MinNat
  <2>3. RemoveFirst(s, e) = r
    BY <1>2, <2>1 DEF RemoveFirst, SelectInSeq
  <2>4. k \in 1 .. Len(s) /\ s[k] = e
    BY <2>2
  <2> HIDE DEF I, k
  <2>5. r = SubSeq(s, 1, k - 1) \o SubSeq(s, k + 1, Len(s))
    BY DEF RemoveAt
  <2> HIDE DEF r
  <2>6. /\ r \in Seq(S) /\ Len(r) = Len(s) - 1
        /\ \A i \in 1 .. (Len(s) - 1) : r[i] = IF i < k THEN s[i] ELSE s[i + 1]
    <3> DEFINE a == SubSeq(s, 1, k - 1)
               b == SubSeq(s, k + 1, Len(s))
    <3>1. a \in Seq(S) /\ Len(a) = k - 1 /\ \A i \in 1 .. (k - 1) : a[i] = s[i]
      BY <2>4
    <3>2. /\ b \in Seq(S) /\ Len(b) = Len(s) - k
          /\ \A i \in 1 .. (Len(s) - k) : b[i] = s[k + i]
      BY <2>4
    <3> HIDE DEF a, b
    <3>3. r = a \o b
      BY <2>5 DEF a, b
    <3>4. r \in Seq(S) /\ Len(r) = Len(s) - 1
      <4>1. r \in Seq(S) /\ Len(r) = Len(a) + Len(b)
        BY <3>1, <3>2, <3>3, ConcatProperties
      <4>2. QED
        BY <4>1, <3>1, <3>2, <2>4
    <3>5. ASSUME NEW i \in 1 .. (Len(s) - 1)
          PROVE  r[i] = IF i < k THEN s[i] ELSE s[i + 1]
      <4>1. r[i] = IF i <= Len(a) THEN a[i] ELSE b[i - Len(a)]
        BY <3>1, <3>2, <3>3, <3>4, <2>4
      <4>2. CASE i < k
        BY <4>1, <4>2, <3>1, <2>4
      <4>3. CASE ~(i < k)
        <5>1. i - Len(a) \in 1 .. (Len(s) - k) /\ k + (i - Len(a)) = i + 1
          BY <4>3, <3>1, <2>4
        <5>2. QED
          BY <4>1, <4>3, <5>1, <3>1, <3>2, <2>4
      <4>4. QED
        BY <4>2, <4>3
    <3>6. QED
      BY <3>4, <3>5
  <2>7. ASSUME IsInjective(s)
        PROVE  IsInjective(r) /\ Range(r) = Range(s) \ {e}
    <3>1. \A i, j \in 1 .. Len(s) : s[i] = s[j] => i = j
      BY <2>7 DEF IsInjective
    <3>2. IsInjective(r)
      BY <3>1, <2>6, <2>4 DEF IsInjective
    <3>3. ASSUME NEW x \in Range(r)
          PROVE  x \in Range(s) \ {e}
      <4>1. PICK i \in 1 .. (Len(s) - 1) : x = r[i]
        BY <3>3, <2>6 DEF Range
      <4>2. CASE i < k
        BY <4>1, <4>2, <3>1, <2>6, <2>4 DEF Range
      <4>3. CASE ~(i < k)
        <5>1. x = s[i + 1] /\ i + 1 \in 1 .. Len(s) /\ i + 1 # k
          BY <4>1, <4>3, <2>6, <2>4
        <5>2. QED
          BY <5>1, <3>1, <2>4 DEF Range
      <4>4. QED
        BY <4>2, <4>3
    <3>4. ASSUME NEW x \in Range(s), x # e
          PROVE  x \in Range(r)
      <4>1. PICK i \in 1 .. Len(s) : x = s[i]
        BY DEF Range
      <4>2. i # k
        BY <4>1, <3>4, <2>4
      <4>3. CASE i < k
        <5>1. i \in 1 .. (Len(s) - 1) /\ r[i] = x
          BY <4>1, <4>3, <2>4, <2>6
        <5>2. QED
          BY <5>1, <2>6 DEF Range
      <4>4. CASE ~(i < k)
        <5>1. i - 1 \in 1 .. (Len(s) - 1) /\ ~(i - 1 < k) /\ (i - 1) + 1 = i
          BY <4>1, <4>2, <4>4, <2>4
        <5>2. r[i - 1] = x
          BY <4>1, <5>1, <2>6
        <5>3. QED
          BY <5>1, <5>2, <2>6 DEF Range
      <4>5. QED
        BY <4>3, <4>4
    <3>5. QED
      BY <3>2, <3>3, <3>4
  <2>8. QED
    BY <2>3, <2>6, <2>7
<1>3. QED
  BY <1>1, <1>2

\* What was handled, what the reader holds and what is in the ring is what was sent.
LEMMA OrderFollows ==
    ASSUME TypeOK, UseInv, LockInv, HistoryInv, SlotInv
    PROVE  InOrder
<1> SUFFICES ASSUME NEW s \in Sources
             PROVE  sent[s] = handled[s] \o Held(s) \o Contents(s)
  BY DEF InOrder
<1> DEFINE w == writePosition[s]
           r == readPosition[s]
           n == Count(w, r)
           S == Messages \cup {None}
           all == [i \in 1 .. n |-> ring[s][SlotOf(r, i)]]
<1>1. w \in Positions /\ r \in Positions /\ n \in Nat
  BY CountSlots DEF TypeOK, Positions
<1>2. Contents(s) = IF Reading(s, "advance") THEN Tail(all) ELSE all
  BY <1>1, CountRemainder DEF Contents, Reading
<1>3. all \in Seq(S) /\ Len(all) = n /\ \A i \in 1 .. n : all[i] = ring[s][SlotOf(r, i)]
  <2>1. \A i \in 1 .. n : ring[s][SlotOf(r, i)] \in S
    BY <1>1, CountSlots DEF TypeOK
  <2>2. QED
    <3> HIDE DEF n, S, r
    <3> QED BY <2>1, <1>1
<1>4. sent[s] \in Seq(S) /\ handled[s] \in Seq(S) /\ None \notin Messages
  <2>1. sent[s] \in Seq(Messages) /\ handled[s] \in Seq(Messages)
    BY DEF TypeOK
  <2>2. \A q \in Seq(Messages) : q \in Seq(S)
    <3>1. Messages \subseteq S
      OBVIOUS
    <3>2. QED
      <4> HIDE DEF S
      <4> QED BY <3>1
  <2>3. QED
    BY <2>1, <2>2, MessageSinkAssumption DEF Messages
<1>5. /\ Len(sent[s]) = Gone(s) + n
      /\ \A i \in 1 .. n : (i > 1 \/ ~Reading(s, "advance")) => all[i] = sent[s][Gone(s) + i]
      /\ \A i \in 1 .. Len(handled[s]) : sent[s][i] = handled[s][i]
      /\ (Reading(s, "advance") \/ Reading(s, "wake")) =>
             sent[s][Len(handled[s]) + 1] = reader.msg
  BY <1>1, <1>3 DEF HistoryInv, SlotInv
<1>6. reader.msg \in S
  BY DEF TypeOK
<1> HIDE DEF S, all, n
<1>7. CASE Reading(s, "advance")
  <2>1. n > 0
    BY <1>1, <1>7, CountSlots DEF LockInv, couldPop, Reading, n
  <2>2. Tail(all) \in Seq(S) /\ Len(Tail(all)) = n - 1
        /\ \A i \in 1 .. (n - 1) : Tail(all)[i] = all[i + 1]
    BY <2>1, <1>1, <1>3
  <2>3. Held(s) = <<reader.msg>>
    BY <1>7 DEF Held, Reading, ReadAt, UseInv
  <2>4. Gone(s) = Len(handled[s])
    BY <1>7, <1>4 DEF Gone, Reading, ReadAt
  <2> DEFINE h == <<reader.msg>>
             c == Tail(all)
  <2>5. h \in Seq(S) /\ Len(h) = 1 /\ h[1] = reader.msg
    BY <1>6
  <2>6. Len(handled[s]) \in Nat
    BY <1>4
  <2> HIDE DEF h, c
  <2>7. \A i \in 1 .. Len(c) : sent[s][Len(handled[s]) + Len(h) + i] = c[i]
    <3>1. TAKE i \in 1 .. Len(c)
    <3>2. i \in 1 .. (n - 1) /\ c[i] = all[i + 1] /\ i + 1 \in 1 .. n /\ i + 1 > 1
      BY <2>2, <1>1 DEF c
    <3>3. all[i + 1] = sent[s][Gone(s) + (i + 1)]
      BY <3>2, <1>5
    <3>4. Gone(s) + (i + 1) = Len(handled[s]) + Len(h) + i
      <4>1. i \in Int /\ Len(handled[s]) \in Int
        BY <3>2, <2>6, <1>1
      <4>2. Len(h) = 1
        BY <2>5
      <4>3. \A x, y \in Int : x + (y + 1) = (x + 1) + y
        OBVIOUS
      <4>4. QED
        BY <4>1, <4>2, <4>3, <2>4, <2>6, Zenon
    <3>5. QED
      BY <3>2, <3>3, <3>4
  <2>8. \A i \in 1 .. Len(h) : sent[s][Len(handled[s]) + i] = h[i]
    BY <2>5, <1>5, <1>7
  <2>9. Len(sent[s]) = Len(handled[s]) + Len(h) + Len(c)
    <3>1. Len(sent[s]) = Gone(s) + n /\ Len(c) = n - 1
      BY <1>5, <2>2 DEF c
    <3>2. QED
      BY <3>1, <2>4, <2>5, <2>6, <1>1
  <2>10. c \in Seq(S)
    BY <2>2 DEF c
  <2>11. sent[s] = handled[s] \o h \o c
    <3>1. \A i \in 1 .. Len(handled[s]) : sent[s][i] = handled[s][i]
      BY <1>5
    <3>2. sent[s] \in Seq(S) /\ handled[s] \in Seq(S) /\ h \in Seq(S)
      BY <1>4, <2>5
    <3>3. QED
      BY <3>1, <3>2, <2>7, <2>8, <2>9, <2>10, ThreeParts
  <2>12. QED
    BY <2>11, <2>3, <1>2, <1>7 DEF h, c
<1>8. CASE ~Reading(s, "advance")
  <2> DEFINE h == Held(s)
  <2>1. /\ h \in Seq(S)
        /\ Gone(s) = Len(handled[s]) + Len(h)
        /\ \A i \in 1 .. Len(h) : sent[s][Len(handled[s]) + i] = h[i]
    <3>1. CASE Reading(s, "wake")
      <4>1. h = <<reader.msg>>
        BY <3>1 DEF Held, Reading, ReadAt, UseInv
      <4>2. QED
        BY <4>1, <3>1, <1>4, <1>5, <1>6 DEF Gone
    <3>2. CASE ~Reading(s, "wake")
      <4>1. h = <<>>
        BY <3>2, <1>8 DEF Held, Reading, ReadAt, UseInv
      <4>2. QED
        BY <4>1, <3>2, <1>4 DEF Gone
    <3>3. QED
      BY <3>1, <3>2
  <2> HIDE DEF h
  <2>2. \A i \in 1 .. Len(all) : sent[s][Len(handled[s]) + Len(h) + i] = all[i]
    BY <2>1, <1>3, <1>5, <1>8
  <2>3. Len(sent[s]) = Len(handled[s]) + Len(h) + Len(all)
    BY <2>1, <1>3, <1>5
  <2>4. sent[s] = handled[s] \o h \o all
    <3>1. \A i \in 1 .. Len(handled[s]) : sent[s][i] = handled[s][i]
      BY <1>5
    <3>2. sent[s] \in Seq(S) /\ handled[s] \in Seq(S) /\ h \in Seq(S) /\ all \in Seq(S)
      BY <1>3, <1>4, <2>1
    <3>3. \A i \in 1 .. Len(h) : sent[s][Len(handled[s]) + i] = h[i]
      BY <2>1
    <3>4. QED
      BY <3>1, <3>2, <3>3, <2>2, <2>3, ThreeParts
  <2>5. QED
    BY <2>4, <1>2, <1>8 DEF h
<1>9. QED
  BY <1>7, <1>8

-----------------------------------------------------------------------------
(* Types.                                                                  *)

\* The parts of TypeOK.
CallSet ==
    [pc : {"idle", "lock", "wait", "asleep", "store", "advance", "signal",
           "removing", "blocked", "stop", "join"},
     src : Sources \cup {None}, msg : Messages \cup {None},
     blocks : BOOLEAN, full : Positions]
ReaderSet ==
    [pc : {"outside", "pop", "advance", "wake", "more", "drain", "again"},
     src : Sources \cup {None}, msg : Messages \cup {None}, more : BOOLEAN]
RingType ==
    /\ ring \in [Sources -> [Positions -> Messages \cup {None}]]
    /\ readPosition \in [Sources -> Positions] /\ writePosition \in [Sources -> Positions]
    /\ mutex \in [Sources -> Clients \cup {None}]
    /\ wakeup \in [Sources -> BOOLEAN]
    /\ pushed \in 0..MaxMessages
    /\ sent \in [Sources -> Seq(Messages)] /\ handled \in [Sources -> Seq(Messages)]
LoopType ==
    /\ queue \in Seq(ActionSet) /\ actions \in Seq(ActionSet)
    /\ pending_ \in BOOLEAN /\ notified \in BOOLEAN
    /\ sources \in Seq(Sources) /\ registered \subseteq Sources
    /\ connectionState_ \in [Sources -> BOOLEAN]
    /\ life \in [Sources -> {"new", "added", "leaving", "gone", "goneEarly"}]
    /\ waking \in Sources \cup {None}
    /\ shutdown_ \in BOOLEAN
    /\ loop \in {"top", "sleep", "events", "eventActions", "eventAction", "passActions",
                 "passAction", "visit", "visiting", "done", "threw"}
    /\ batch \in Seq(Sources \cup {"queue"}) /\ visits \in Seq(Sources) /\ more \in BOOLEAN

\* What TypeOK says of the clients and the reader, of the rings and of the loop.
LEMMA TypeParts ==
    TypeOK => /\ call \in [Clients -> CallSet] /\ reader \in ReaderSet
              /\ RingType /\ LoopType
  BY DEF TypeOK, CallSet, ReaderSet, RingType, LoopType

\* A client between two calls, and the reader outside processOne.
LEMMA RestTypes ==
    /\ Idle \in CallSet
    /\ \A b \in BOOLEAN : Outside(b) \in ReaderSet
  BY MessageSinkAssumption DEF Idle, Outside, CallSet, ReaderSet, Positions

\* The new batch of events.
LEMMA BatchType ==
    ASSUME NEW S, NEW R \in SUBSET S, IsFiniteSet(R), NEW b \in SetToSeqs(R)
    PROVE  b \in Seq(S)
<1>1. Cardinality(R) \in Nat
  BY FS_CardinalityType
<1> DEFINE n == Cardinality(R)
<1>2. b \in [1 .. n -> R]
  BY DEF SetToSeqs
<1>3. QED
  <2> HIDE DEF n
  <2>1. n \in Nat
    BY <1>1 DEF n
  <2>2. b \in [1 .. n -> S]
    BY <1>2
  <2>3. QED
    BY <2>1, <2>2

\* The descriptors that are readable are finitely many.
LEMMA ReadyFinite ==
    ASSUME TypeOK, LoopInv
    PROVE  IsFiniteSet(Ready) /\ Ready \in SUBSET (Sources \cup {"queue"})
<1> DEFINE R == {s \in registered : wakeup[s]}
           Q == IF notified THEN {"queue"} ELSE {}
<1>1. IsFiniteSet(R)
  BY FS_Subset DEF LoopInv
<1>2. IsFiniteSet(Q)
  BY FS_EmptySet, FS_Singleton
<1>3. IsFiniteSet(R \cup Q)
  BY <1>1, <1>2, FS_Union
<1>4. QED
  BY <1>3 DEF Ready, TypeOK

\* The actions are actions.
LEMMA ActionTypes ==
    /\ \A s \in Sources : Action("add", s) \in ActionSet /\ Action("remove", s) \in ActionSet
    /\ Action("run", None) \in ActionSet /\ Action("add", "_shutdown") \in ActionSet
    /\ \A a \in ActionSet :
          /\ a.what = "add" => a.src \in Sources \cup {"_shutdown"}
          /\ a.what = "remove" => a.src \in Sources
          /\ a.what \in {"add", "remove", "run"}
          /\ a.src \in Sources => a.what \in {"add", "remove"}
          /\ a = Action(a.what, a.src)
<1>1. None \notin Sources
  BY MessageSinkAssumption
<1>2. "_shutdown" \notin Sources
  BY MessageLoopAssumption
<1>3. /\ \A s \in Sources : Action("add", s) \in ActionSet /\ Action("remove", s) \in ActionSet
      /\ Action("run", None) \in ActionSet /\ Action("add", "_shutdown") \in ActionSet
  BY DEF ActionSet
<1>4. ASSUME NEW a \in ActionSet
      PROVE  /\ a.what = "add" => a.src \in Sources \cup {"_shutdown"}
             /\ a.what = "remove" => a.src \in Sources
             /\ a.what \in {"add", "remove", "run"}
             /\ a.src \in Sources => a.what \in {"add", "remove"}
             /\ a = Action(a.what, a.src)
  <2>1. CASE a \in {Action(w, s) : w \in {"add", "remove"}, s \in Sources}
    <3>1. PICK w \in {"add", "remove"}, s \in Sources : a = Action(w, s)
      BY <2>1
    <3>2. QED
      BY <3>1 DEF Action
  <2>2. CASE a = Action("run", None)
    BY <2>2, <1>1 DEF Action
  <2>3. CASE a = Action("add", "_shutdown")
    BY <2>3, <1>2 DEF Action
  <2>4. QED
    BY <2>1, <2>2, <2>3 DEF ActionSet
<1>5. QED
  BY <1>3, <1>4, Zenon

\* A client falls asleep on the state of the source that is to be removed, or the loop
\* wakes those who did: nothing else changes.
RemovalTurn == wakeRemoved \/ \E c \in Clients : removing(c)

\* Every other step keeps the types.
LEMMA TypeStep ==
    ASSUME TypeOK, UseInv, LoopInv, Next, ~RemovalTurn
    PROVE  TypeOK'
<1>1. ASSUME NEW c \in Clients, clientPush(c)
      PROVE  TypeOK'
  <2>1. call' \in [Clients -> CallSet]
    <3>1. PICK s \in Sources, blocks \in BOOLEAN : push(c, s, blocks)
      BY <1>1 DEF clientPush
    <3> DEFINE r == [Idle EXCEPT !.pc = "lock", !.src = s, !.msg = pushed + 1, !.blocks = blocks]
    <3>2. pushed + 1 \in Messages
      BY <3>1, TypeParts, MessageSinkAssumption DEF push, RingType, Messages
    <3>3. r \in CallSet
      BY <3>2, RestTypes DEF CallSet
    <3>4. call' = [call EXCEPT ![c] = r]
      BY <3>1 DEF push
    <3>5. QED
      <4> HIDE DEF r
      <4> QED BY <3>3, <3>4, TypeParts
  <2>2. reader' \in ReaderSet
    BY <1>1, TypeParts DEF ReaderSet, clientPush, push, At, ringVars, loopVars, queueVars,
       sourceVars, workVars
  <2>3. RingType'
    BY <1>1, TypeParts, MessageSinkAssumption DEF RingType, clientPush, push, At, ringVars,
       loopVars, queueVars, sourceVars, workVars
  <2>4. LoopType'
    BY <1>1, TypeParts DEF LoopType, clientPush, push, At, ringVars, loopVars, queueVars,
       sourceVars, workVars
  <2>5. QED
    BY <2>1, <2>2, <2>3, <2>4 DEF TypeOK, CallSet, ReaderSet, RingType, LoopType
<1>2. ASSUME NEW c \in Clients, addSource(c)
      PROVE  TypeOK'
  <2>1. call' \in [Clients -> CallSet]
    BY <1>2, TypeParts DEF CallSet, addSource, Makes, At, push_back, sinkVars, ringVars,
       workVars
  <2>2. reader' \in ReaderSet
    BY <1>2, TypeParts DEF ReaderSet, addSource, Makes, At, push_back, sinkVars, ringVars,
       workVars
  <2>3. RingType'
    BY <1>2, TypeParts DEF RingType, addSource, Makes, At, push_back, sinkVars, ringVars,
       workVars
  <2>4. LoopType'
    BY <1>2, TypeParts, ActionTypes DEF LoopType, addSource, Makes, At, push_back, sinkVars,
       ringVars, workVars
  <2>5. QED
    BY <2>1, <2>2, <2>3, <2>4 DEF TypeOK, CallSet, ReaderSet, RingType, LoopType
<1>3. ASSUME NEW c \in Clients, removeSourceSync(c)
      PROVE  TypeOK'
  <2>1. call' \in [Clients -> CallSet]
    BY <1>3, TypeParts DEF CallSet, removeSourceSync, Makes, At, removeSource, queueVars,
       push_back, sinkVars, ringVars, workVars
  <2>2. reader' \in ReaderSet
    BY <1>3, TypeParts DEF ReaderSet, removeSourceSync, Makes, At, removeSource, queueVars,
       push_back, sinkVars, ringVars, workVars
  <2>3. RingType'
    BY <1>3, TypeParts DEF RingType, removeSourceSync, Makes, At, removeSource, queueVars,
       push_back, sinkVars, ringVars, workVars
  <2>4. LoopType'
    <3>1. PICK s \in Sources : removeSource(s) /\ life' = [life EXCEPT ![s] = "leaving"]
      BY <1>3 DEF removeSourceSync
    <3>2. queue' \in Seq(ActionSet) /\ pending_' \in BOOLEAN /\ notified' \in BOOLEAN
      <4>1. CASE shutdown_
        BY <3>1, <4>1, TypeParts DEF LoopType, removeSource, queueVars
      <4>2. CASE ~shutdown_
        <5>1. push_back(Action("remove", s)) /\ Action("remove", s) \in ActionSet
          BY <3>1, <4>2, ActionTypes DEF removeSource
        <5>2. QED
          BY <5>1, TypeParts DEF LoopType, push_back
      <4>3. QED
        BY <4>1, <4>2
    <3>3. QED
      BY <1>3, <3>1, <3>2, TypeParts DEF LoopType, removeSourceSync, workVars
  <2>5. QED
    BY <2>1, <2>2, <2>3, <2>4 DEF TypeOK, CallSet, ReaderSet, RingType, LoopType
<1>4. ASSUME NEW c \in Clients, runInMessageLoopThread(c)
      PROVE  TypeOK'
  <2>1. call' \in [Clients -> CallSet]
    BY <1>4, TypeParts DEF CallSet, runInMessageLoopThread, Makes, At, push_back, ringVars,
       UNCHANGED_loop, sourceVars, workVars
  <2>2. reader' \in ReaderSet
    BY <1>4, TypeParts DEF ReaderSet, runInMessageLoopThread, Makes, At, push_back,
       ringVars, UNCHANGED_loop, sourceVars, workVars
  <2>3. RingType'
    BY <1>4, TypeParts, MessageSinkAssumption DEF RingType, runInMessageLoopThread, Makes,
       At, push_back, ringVars, UNCHANGED_loop, sourceVars, workVars
  <2>4. LoopType'
    BY <1>4, TypeParts, ActionTypes DEF LoopType, runInMessageLoopThread, Makes, At,
       push_back, ringVars, UNCHANGED_loop, sourceVars, workVars
  <2>5. QED
    BY <2>1, <2>2, <2>3, <2>4 DEF TypeOK, CallSet, ReaderSet, RingType, LoopType
<1>5. ASSUME NEW c \in Clients, shutdown(c)
      PROVE  TypeOK'
  <2>1. call' \in [Clients -> CallSet]
    BY <1>5, TypeParts DEF CallSet, shutdown, Makes, At, Goto, sinkVars, ringVars,
       queueVars, sourceVars, workVars
  <2>2. reader' \in ReaderSet
    BY <1>5, TypeParts DEF ReaderSet, shutdown, Makes, At, Goto, sinkVars, ringVars,
       queueVars, sourceVars, workVars
  <2>3. RingType'
    BY <1>5, TypeParts DEF RingType, shutdown, Makes, At, Goto, sinkVars, ringVars,
       queueVars, sourceVars, workVars
  <2>4. LoopType'
    BY <1>5, TypeParts DEF LoopType, shutdown, Makes, At, Goto, sinkVars, ringVars,
       queueVars, sourceVars, workVars
  <2>5. QED
    BY <2>1, <2>2, <2>3, <2>4 DEF TypeOK, CallSet, ReaderSet, RingType, LoopType
<1>6. ASSUME NEW c \in Clients, removed(c)
      PROVE  TypeOK'
  <2>1. call' \in [Clients -> CallSet]
    BY <1>6, TypeParts, RestTypes DEF CallSet, removed, At, sinkVars, ringVars, queueVars,
       workVars
  <2>2. reader' \in ReaderSet
    BY <1>6, TypeParts DEF ReaderSet, removed, At, sinkVars, ringVars, queueVars, workVars
  <2>3. RingType'
    BY <1>6, TypeParts DEF RingType, removed, At, sinkVars, ringVars, queueVars, workVars
  <2>4. LoopType'
    BY <1>6, TypeParts DEF LoopType, removed, At, sinkVars, ringVars, queueVars, workVars
  <2>5. QED
    BY <2>1, <2>2, <2>3, <2>4 DEF TypeOK, CallSet, ReaderSet, RingType, LoopType
<1>7. ASSUME NEW c \in Clients, addShutdownSource(c)
      PROVE  TypeOK'
  <2>1. call' \in [Clients -> CallSet]
    BY <1>7, TypeParts DEF CallSet, addShutdownSource, At, push_back, Goto, join, sinkVars,
       ringVars, loopVars, queueVars, sourceVars, workVars, UNCHANGED_loop
  <2>2. reader' \in ReaderSet
    BY <1>7, TypeParts DEF ReaderSet, addShutdownSource, At, push_back, Goto, join,
       sinkVars, ringVars, loopVars, queueVars, sourceVars, workVars, UNCHANGED_loop
  <2>3. RingType'
    BY <1>7, TypeParts DEF RingType, addShutdownSource, At, push_back, Goto, join, sinkVars,
       ringVars, loopVars, queueVars, sourceVars, workVars, UNCHANGED_loop
  <2>4. LoopType'
    BY <1>7, TypeParts, ActionTypes DEF LoopType, addShutdownSource, At, push_back, Goto,
       join, sinkVars, ringVars, loopVars, queueVars, sourceVars, workVars, UNCHANGED_loop
  <2>5. QED
    BY <2>1, <2>2, <2>3, <2>4 DEF TypeOK, CallSet, ReaderSet, RingType, LoopType
<1>8. ASSUME NEW c \in Clients, join(c)
      PROVE  TypeOK'
  <2>1. call' \in [Clients -> CallSet]
    BY <1>8, TypeParts, RestTypes DEF CallSet, join, At, sinkVars, ringVars, loopVars,
       queueVars, sourceVars, workVars
  <2>2. reader' \in ReaderSet
    BY <1>8, TypeParts DEF ReaderSet, join, At, sinkVars, ringVars, loopVars, queueVars,
       sourceVars, workVars
  <2>3. RingType'
    BY <1>8, TypeParts DEF RingType, join, At, sinkVars, ringVars, loopVars, queueVars,
       sourceVars, workVars
  <2>4. LoopType'
    BY <1>8, TypeParts DEF LoopType, join, At, sinkVars, ringVars, loopVars, queueVars,
       sourceVars, workVars
  <2>5. QED
    BY <2>1, <2>2, <2>3, <2>4 DEF TypeOK, CallSet, ReaderSet, RingType, LoopType
<1>9. ASSUME NEW c \in Clients, checkFull(c), UNCHANGED loopVars
      PROVE  TypeOK'
  <2>1. call' \in [Clients -> CallSet]
    <3> DEFINE s == call[c].src
               f == next(writePosition[s])
    <3>1. s \in Sources /\ f \in Positions
      BY <1>9, TypeParts, NextPosition DEF checkFull, At, UseInv, Pushing, RingType
    <3>2. \/ call' = [call EXCEPT ![c].pc = "store"]
          \/ call' = [call EXCEPT ![c].pc = "wait", ![c].full = f]
          \/ call' = [call EXCEPT ![c] = Idle]
      BY <1>9 DEF checkFull, Goto
    <3>3. QED
      <4> HIDE DEF s, f
      <4> QED BY <3>1, <3>2, TypeParts, RestTypes DEF CallSet
  <2>2. reader' \in ReaderSet
    BY <1>9, TypeParts DEF ReaderSet, checkFull, At, lockRing, Goto, store, advance, signal,
       ringVars, loopVars, queueVars, sourceVars, workVars
  <2>3. RingType'
    <3>1. UNCHANGED <<ring, readPosition, writePosition, wakeup, pushed, sent, handled>>
      BY <1>9 DEF checkFull, ringVars
    <3>2. mutex' = mutex \/ mutex' = [mutex EXCEPT ![call[c].src] = c]
      BY <1>9 DEF checkFull, lockRing
    <3>3. mutex' \in [Sources -> Clients \cup {None}]
      BY <3>2, TypeParts DEF RingType
    <3>4. QED
      BY <3>1, <3>3, TypeParts DEF RingType
  <2>4. LoopType'
    BY <1>9, TypeParts DEF LoopType, checkFull, At, lockRing, Goto, store, advance, signal,
       ringVars, loopVars, queueVars, sourceVars, workVars
  <2>5. QED
    BY <2>1, <2>2, <2>3, <2>4 DEF TypeOK, CallSet, ReaderSet, RingType, LoopType
<1>10. ASSUME NEW c \in Clients, wait_on_address(c), UNCHANGED loopVars
      PROVE  TypeOK'
  <2>1. call' \in [Clients -> CallSet]
    BY <1>10, TypeParts DEF CallSet, wait_on_address, At, Goto, sinkVars, ringVars, loopVars,
       queueVars, sourceVars, workVars
  <2>2. reader' \in ReaderSet
    BY <1>10, TypeParts DEF ReaderSet, wait_on_address, At, Goto, sinkVars, ringVars,
       loopVars, queueVars, sourceVars, workVars
  <2>3. RingType'
    BY <1>10, TypeParts DEF RingType, wait_on_address, At, Goto, sinkVars, ringVars,
       loopVars, queueVars, sourceVars, workVars
  <2>4. LoopType'
    BY <1>10, TypeParts DEF LoopType, wait_on_address, At, Goto, sinkVars, ringVars,
       loopVars, queueVars, sourceVars, workVars
  <2>5. QED
    BY <2>1, <2>2, <2>3, <2>4 DEF TypeOK, CallSet, ReaderSet, RingType, LoopType
<1>11. ASSUME NEW c \in Clients, store(c), UNCHANGED loopVars
      PROVE  TypeOK'
  <2>1. call' \in [Clients -> CallSet]
    BY <1>11, TypeParts DEF CallSet, store, At, Goto, advance, signal, ringVars, loopVars,
       queueVars, sourceVars, workVars
  <2>2. reader' \in ReaderSet
    BY <1>11, TypeParts DEF ReaderSet, store, At, Goto, advance, signal, ringVars, loopVars,
       queueVars, sourceVars, workVars
  <2>3. RingType'
    BY <1>11, TypeParts DEF RingType, CallSet, UseInv, Pushing, store, At, Goto, advance,
       signal, ringVars, loopVars, queueVars, sourceVars, workVars
  <2>4. LoopType'
    BY <1>11, TypeParts DEF LoopType, store, At, Goto, advance, signal, ringVars, loopVars,
       queueVars, sourceVars, workVars
  <2>5. QED
    BY <2>1, <2>2, <2>3, <2>4 DEF TypeOK, CallSet, ReaderSet, RingType, LoopType
<1>12. ASSUME NEW c \in Clients, advance(c), UNCHANGED loopVars
      PROVE  TypeOK'
  <2>1. call' \in [Clients -> CallSet]
    BY <1>12, TypeParts DEF CallSet, advance, At, Goto, signal, ringVars, loopVars,
       queueVars, sourceVars, workVars
  <2>2. reader' \in ReaderSet
    BY <1>12, TypeParts DEF ReaderSet, advance, At, Goto, signal, ringVars, loopVars,
       queueVars, sourceVars, workVars
  <2>3. RingType'
    BY <1>12, TypeParts, NextPosition DEF RingType, CallSet, UseInv, Pushing, advance, At,
       Goto, signal, ringVars, loopVars, queueVars, sourceVars, workVars
  <2>4. LoopType'
    BY <1>12, TypeParts DEF LoopType, advance, At, Goto, signal, ringVars, loopVars,
       queueVars, sourceVars, workVars
  <2>5. QED
    BY <2>1, <2>2, <2>3, <2>4 DEF TypeOK, CallSet, ReaderSet, RingType, LoopType
<1>13. ASSUME NEW c \in Clients, signal(c), UNCHANGED loopVars
      PROVE  TypeOK'
  <2>1. call' \in [Clients -> CallSet]
    BY <1>13, TypeParts, RestTypes DEF CallSet, signal, At, ringVars, loopVars, queueVars,
       sourceVars, workVars
  <2>2. reader' \in ReaderSet
    BY <1>13, TypeParts DEF ReaderSet, signal, At, ringVars, loopVars, queueVars, sourceVars,
       workVars
  <2>3. RingType'
    BY <1>13, TypeParts DEF RingType, UseInv, Pushing, signal, At, ringVars, loopVars,
       queueVars, sourceVars, workVars
  <2>4. LoopType'
    BY <1>13, TypeParts DEF LoopType, signal, At, ringVars, loopVars, queueVars, sourceVars,
       workVars
  <2>5. QED
    BY <2>1, <2>2, <2>3, <2>4 DEF TypeOK, CallSet, ReaderSet, RingType, LoopType
<1>14. CASE testShutdown
  <2>1. call' \in [Clients -> CallSet]
    BY <1>14, TypeParts DEF CallSet, testShutdown, LoopTo, sinkVars, ringVars, queueVars,
       sourceVars, workVars
  <2>2. reader' \in ReaderSet
    BY <1>14, TypeParts DEF ReaderSet, testShutdown, LoopTo, sinkVars, ringVars, queueVars,
       sourceVars, workVars
  <2>3. RingType'
    BY <1>14, TypeParts DEF RingType, testShutdown, LoopTo, sinkVars, ringVars, queueVars,
       sourceVars, workVars
  <2>4. LoopType'
    BY <1>14, TypeParts DEF LoopType, testShutdown, LoopTo, sinkVars, ringVars, queueVars,
       sourceVars, workVars
  <2>5. QED
    BY <2>1, <2>2, <2>3, <2>4 DEF TypeOK, CallSet, ReaderSet, RingType, LoopType
<1>15. CASE handleEvents
  <2>1. call' \in [Clients -> CallSet]
    BY <1>15, TypeParts DEF CallSet, handleEvents, LoopTo, sinkVars, ringVars, queueVars,
       sourceVars
  <2>2. reader' \in ReaderSet
    BY <1>15, TypeParts DEF ReaderSet, handleEvents, LoopTo, sinkVars, ringVars, queueVars,
       sourceVars
  <2>3. RingType'
    BY <1>15, TypeParts DEF RingType, handleEvents, LoopTo, sinkVars, ringVars, queueVars,
       sourceVars
  <2>4. LoopType'
    BY <1>15, TypeParts, ReadyFinite, BatchType DEF LoopType, handleEvents, LoopTo, sinkVars,
       ringVars, queueVars, sourceVars
  <2>5. QED
    BY <2>1, <2>2, <2>3, <2>4 DEF TypeOK, CallSet, ReaderSet, RingType, LoopType
<1>16. CASE handleEpollEvent
  <2>1. call' \in [Clients -> CallSet]
    BY <1>16, TypeParts DEF CallSet, handleEpollEvent, ReadAt, drainQueue, LoopTo,
       processOne, queueVars, ringVars, sourceVars
  <2>2. reader' \in ReaderSet
    <3>1. CASE Head(batch) = "queue"
      BY <1>16, <3>1, TypeParts DEF handleEpollEvent
    <3>2. CASE Head(batch) # "queue"
      <4>1. batch \in Seq(Sources \cup {"queue"}) /\ batch # <<>>
        BY <1>16, TypeParts DEF handleEpollEvent, LoopType
      <4>2. Head(batch) \in Sources
        BY <4>1, <3>2
      <4>3. processOne(Head(batch))
        BY <1>16, <3>2 DEF handleEpollEvent
      <4>4. QED
        BY <4>2, <4>3 DEF processOne, ReaderSet
    <3>3. QED
      BY <3>1, <3>2
  <2>3. RingType'
    BY <1>16, TypeParts DEF RingType, handleEpollEvent, ReadAt, drainQueue, LoopTo,
       processOne, queueVars, ringVars, sourceVars
  <2>4. LoopType'
    <3>1. batch' \in Seq(Sources \cup {"queue"})
      BY <1>16, TypeParts DEF handleEpollEvent, LoopType
    <3>2. CASE Head(batch) = "queue"
      BY <1>16, <3>1, <3>2, TypeParts DEF handleEpollEvent, LoopType, drainQueue, LoopTo,
         sourceVars
    <3>3. CASE Head(batch) # "queue"
      BY <1>16, <3>1, <3>3, TypeParts DEF handleEpollEvent, LoopType, queueVars, sourceVars
    <3>4. QED
      BY <3>2, <3>3
  <2>5. QED
    BY <2>1, <2>2, <2>3, <2>4 DEF TypeOK, CallSet, ReaderSet, RingType, LoopType
<1>17. CASE startPass
  <2>1. call' \in [Clients -> CallSet]
    BY <1>17, TypeParts DEF CallSet, startPass, ReadAt, LoopTo, queueVars, drainQueue,
       sinkVars, ringVars, sourceVars
  <2>2. reader' \in ReaderSet
    BY <1>17, TypeParts DEF ReaderSet, startPass, ReadAt, LoopTo, queueVars, drainQueue,
       sinkVars, ringVars, sourceVars
  <2>3. RingType'
    BY <1>17, TypeParts DEF RingType, startPass, ReadAt, LoopTo, queueVars, drainQueue,
       sinkVars, ringVars, sourceVars
  <2>4. LoopType'
    BY <1>17, TypeParts DEF LoopType, startPass, ReadAt, LoopTo, queueVars, drainQueue,
       sinkVars, ringVars, sourceVars
  <2>5. QED
    BY <2>1, <2>2, <2>3, <2>4 DEF TypeOK, CallSet, ReaderSet, RingType, LoopType
<1>18. CASE takeActions
  <2>1. call' \in [Clients -> CallSet]
    BY <1>18, TypeParts DEF CallSet, takeActions, pop_front, LoopTo, sinkVars, ringVars,
       sourceVars
  <2>2. reader' \in ReaderSet
    BY <1>18, TypeParts DEF ReaderSet, takeActions, pop_front, LoopTo, sinkVars, ringVars,
       sourceVars
  <2>3. RingType'
    BY <1>18, TypeParts DEF RingType, takeActions, pop_front, LoopTo, sinkVars, ringVars,
       sourceVars
  <2>4. LoopType'
    <3>1. actions' \in Seq(ActionSet) /\ queue' \in Seq(ActionSet)
      BY <1>18, TypeParts DEF takeActions, pop_front, LoopType
    <3>2. loop' \in {"eventAction", "passAction"}
      BY <1>18 DEF takeActions, LoopTo
    <3>3. QED
      BY <1>18, <3>1, <3>2, TypeParts DEF takeActions, pop_front, LoopType, sourceVars
  <2>5. QED
    BY <2>1, <2>2, <2>3, <2>4 DEF TypeOK, CallSet, ReaderSet, RingType, LoopType
<1>19. CASE processAddSource
  <2>1. call' \in [Clients -> CallSet]
    BY <1>19, TypeParts DEF CallSet, processAddSource, Processing, sinkVars, ringVars,
       queueVars
  <2>2. reader' \in ReaderSet
    BY <1>19, TypeParts DEF ReaderSet, processAddSource, Processing, sinkVars, ringVars,
       queueVars
  <2>3. RingType'
    BY <1>19, TypeParts DEF RingType, processAddSource, Processing, sinkVars, ringVars,
       queueVars
  <2>4. LoopType'
    <3> DEFINE s == Head(actions).src
    <3>1. Head(actions) \in ActionSet /\ actions' \in Seq(ActionSet)
      BY <1>19, TypeParts DEF processAddSource, Processing, LoopType
    <3>2. s \in Sources \cup {"_shutdown"}
      BY <1>19, <3>1, ActionTypes DEF processAddSource, Processing
    <3>3. UNCHANGED <<queue, pending_, notified, life, waking, shutdown_, loop, batch, visits, more>>
      BY <1>19 DEF processAddSource, Processing, queueVars
    <3>4. CASE s = "_shutdown"
      BY <1>19, <3>1, <3>3, <3>4, TypeParts DEF processAddSource, LoopType
    <3>5. CASE s # "_shutdown"
      <4>1. /\ sources' = Append(sources, s) /\ registered' = registered \cup {s}
            /\ connectionState_' = [connectionState_ EXCEPT ![s] = TRUE]
        BY <1>19, <3>5 DEF processAddSource
      <4>2. s \in Sources
        BY <3>2, <3>5
      <4> HIDE DEF s
      <4>3. QED
        BY <4>1, <4>2, <3>1, <3>3, TypeParts DEF LoopType
    <3>6. QED
      BY <3>4, <3>5
  <2>5. QED
    BY <2>1, <2>2, <2>3, <2>4 DEF TypeOK, CallSet, ReaderSet, RingType, LoopType
<1>20. CASE processRemoveSource
  <2>1. call' \in [Clients -> CallSet]
    BY <1>20, TypeParts DEF CallSet, processRemoveSource, Processing, sinkVars, ringVars,
       queueVars
  <2>2. reader' \in ReaderSet
    BY <1>20, TypeParts DEF ReaderSet, processRemoveSource, Processing, sinkVars, ringVars,
       queueVars
  <2>3. RingType'
    BY <1>20, TypeParts DEF RingType, processRemoveSource, Processing, sinkVars, ringVars,
       queueVars
  <2>4. LoopType'
    <3> DEFINE s == Head(actions).src
    <3>1. Head(actions) \in ActionSet /\ actions' \in Seq(ActionSet)
      BY <1>20, TypeParts DEF processRemoveSource, Processing, LoopType
    <3>2. s \in Sources
      BY <1>20, <3>1, ActionTypes DEF processRemoveSource, Processing
    <3>3. UNCHANGED <<queue, pending_, notified, life, shutdown_, batch, visits, more>>
      BY <1>20 DEF processRemoveSource, Processing, queueVars
    <3>4. \/ /\ sources' = RemoveFirst(sources, s) /\ registered' = registered \ {s}
             /\ connectionState_' = [connectionState_ EXCEPT ![s] = FALSE]
             /\ waking' = s /\ loop' = loop
          \/ loop' = "threw" /\ UNCHANGED <<sources, registered, connectionState_, waking>>
      BY <1>20 DEF processRemoveSource, LoopTo
    <3> HIDE DEF s
    <3>5. sources \in Seq(Sources) /\ RemoveFirst(sources, s) \in Seq(Sources)
      BY TypeParts, RemoveFirstRange DEF LoopType
    <3>6. QED
      BY <3>1, <3>2, <3>3, <3>4, <3>5, TypeParts DEF LoopType
  <2>5. QED
    BY <2>1, <2>2, <2>3, <2>4 DEF TypeOK, CallSet, ReaderSet, RingType, LoopType
<1>21. CASE processRunAction
  <2>1. call' \in [Clients -> CallSet]
    BY <1>21, TypeParts DEF CallSet, processRunAction, Processing, sinkVars, ringVars,
       queueVars
  <2>2. reader' \in ReaderSet
    BY <1>21, TypeParts DEF ReaderSet, processRunAction, Processing, sinkVars, ringVars,
       queueVars
  <2>3. RingType'
    BY <1>21, TypeParts DEF RingType, processRunAction, Processing, sinkVars, ringVars,
       queueVars
  <2>4. LoopType'
    BY <1>21, TypeParts DEF LoopType, processRunAction, Processing, sinkVars, ringVars,
       queueVars
  <2>5. QED
    BY <2>1, <2>2, <2>3, <2>4 DEF TypeOK, CallSet, ReaderSet, RingType, LoopType
<1>22. CASE actionsDone
  <2>1. call' \in [Clients -> CallSet]
    BY <1>22, TypeParts DEF CallSet, actionsDone, LoopTo, sinkVars, ringVars, queueVars,
       sourceVars
  <2>2. reader' \in ReaderSet
    BY <1>22, TypeParts DEF ReaderSet, actionsDone, LoopTo, sinkVars, ringVars, queueVars,
       sourceVars
  <2>3. RingType'
    BY <1>22, TypeParts DEF RingType, actionsDone, LoopTo, sinkVars, ringVars, queueVars,
       sourceVars
  <2>4. LoopType'
    BY <1>22, TypeParts DEF LoopType, actionsDone, LoopTo, sinkVars, ringVars, queueVars,
       sourceVars
  <2>5. QED
    BY <2>1, <2>2, <2>3, <2>4 DEF TypeOK, CallSet, ReaderSet, RingType, LoopType
<1>23. CASE visitSource
  <2>1. call' \in [Clients -> CallSet]
    BY <1>23, TypeParts DEF CallSet, visitSource, ReadAt, processOne, LoopTo, ringVars,
       queueVars, sourceVars
  <2>2. reader' \in ReaderSet
    BY <1>23, TypeParts DEF ReaderSet, LoopType, visitSource, ReadAt, processOne, LoopTo,
       ringVars, queueVars, sourceVars
  <2>3. RingType'
    BY <1>23, TypeParts DEF RingType, visitSource, ReadAt, processOne, LoopTo, ringVars,
       queueVars, sourceVars
  <2>4. LoopType'
    BY <1>23, TypeParts DEF LoopType, visitSource, ReadAt, processOne, LoopTo, ringVars,
       queueVars, sourceVars
  <2>5. QED
    BY <2>1, <2>2, <2>3, <2>4 DEF TypeOK, CallSet, ReaderSet, RingType, LoopType
<1>24. CASE visited
  <2>1. call' \in [Clients -> CallSet]
    BY <1>24, TypeParts DEF CallSet, visited, ReadAt, LoopTo, sinkVars, ringVars, queueVars,
       sourceVars
  <2>2. reader' \in ReaderSet
    BY <1>24, TypeParts DEF ReaderSet, visited, ReadAt, LoopTo, sinkVars, ringVars,
       queueVars, sourceVars
  <2>3. RingType'
    BY <1>24, TypeParts DEF RingType, visited, ReadAt, LoopTo, sinkVars, ringVars, queueVars,
       sourceVars
  <2>4. LoopType'
    BY <1>24, TypeParts DEF LoopType, ReaderSet, visited, ReadAt, LoopTo, sinkVars, ringVars,
       queueVars, sourceVars
  <2>5. QED
    BY <2>1, <2>2, <2>3, <2>4 DEF TypeOK, CallSet, ReaderSet, RingType, LoopType
<1>25. CASE endPass
  <2>1. call' \in [Clients -> CallSet]
    BY <1>25, TypeParts DEF CallSet, endPass, LoopTo, sinkVars, ringVars, queueVars,
       sourceVars, workVars
  <2>2. reader' \in ReaderSet
    BY <1>25, TypeParts DEF ReaderSet, endPass, LoopTo, sinkVars, ringVars, queueVars,
       sourceVars, workVars
  <2>3. RingType'
    BY <1>25, TypeParts DEF RingType, endPass, LoopTo, sinkVars, ringVars, queueVars,
       sourceVars, workVars
  <2>4. LoopType'
    BY <1>25, TypeParts DEF LoopType, endPass, LoopTo, sinkVars, ringVars, queueVars,
       sourceVars, workVars
  <2>5. QED
    BY <2>1, <2>2, <2>3, <2>4 DEF TypeOK, CallSet, ReaderSet, RingType, LoopType
<1>26. ASSUME tryPop, UNCHANGED loopVars
      PROVE  TypeOK'
  <2>1. call' \in [Clients -> CallSet]
    BY <1>26, TypeParts DEF CallSet, tryPop, ReadAt, advance, At, Goto, signal, ringVars,
       loopVars, queueVars, sourceVars, workVars
  <2>2. reader' \in ReaderSet
    <3>1. reader.src \in Sources
      BY <1>26 DEF tryPop, ReadAt, UseInv
    <3>2. ring[reader.src][readPosition[reader.src]] \in Messages \cup {None}
      BY <3>1, TypeParts DEF RingType
    <3>3. CASE couldPop(reader.src)
      BY <1>26, <3>2, <3>3, TypeParts DEF tryPop, ReaderSet
    <3>4. CASE ~couldPop(reader.src)
      BY <1>26, <3>4, RestTypes DEF tryPop
    <3>5. QED
      BY <3>3, <3>4
  <2>3. RingType'
    <3>1. reader.src \in Sources
      BY <1>26 DEF tryPop, ReadAt, UseInv
    <3>2. readPosition[reader.src] \in Positions
      BY <3>1, TypeParts DEF RingType
    <3>3. ring' \in [Sources -> [Positions -> Messages \cup {None}]]
      <4> DEFINE s == reader.src
                 p == readPosition[s]
      <4>1. ring' = [ring EXCEPT ![s][p] = None] \/ ring' = ring
        BY <1>26 DEF tryPop
      <4>2. s \in Sources /\ p \in Positions
        BY <3>1, <3>2
      <4> HIDE DEF s, p
      <4>3. ring \in [Sources -> [Positions -> Messages \cup {None}]]
        BY TypeParts DEF RingType
      <4>4. [ring EXCEPT ![s][p] = None] \in [Sources -> [Positions -> Messages \cup {None}]]
        BY <4>2, <4>3
      <4>5. QED
        BY <4>1, <4>3, <4>4
    <3>4. QED
      BY <1>26, <3>3, TypeParts DEF tryPop, RingType
  <2>4. LoopType'
    BY <1>26, TypeParts DEF LoopType, tryPop, ReadAt, advance, At, Goto, signal, ringVars,
       loopVars, queueVars, sourceVars, workVars
  <2>5. QED
    BY <2>1, <2>2, <2>3, <2>4 DEF TypeOK, CallSet, ReaderSet, RingType, LoopType
<1>27. ASSUME advanceRead, UNCHANGED loopVars
      PROVE  TypeOK'
  <2>1. call' \in [Clients -> CallSet]
    BY <1>27, TypeParts DEF CallSet, advanceRead, ReadAt, advance, At, Goto, signal,
       ringVars, loopVars, queueVars, sourceVars, workVars
  <2>2. reader' \in ReaderSet
    BY <1>27, TypeParts DEF ReaderSet, advanceRead, ReadAt, advance, At, Goto, signal,
       ringVars, loopVars, queueVars, sourceVars, workVars
  <2>3. RingType'
    BY <1>27, TypeParts, NextPosition DEF RingType, ReaderSet, UseInv, advanceRead, ReadAt,
       advance, At, Goto, signal, ringVars, loopVars, queueVars, sourceVars, workVars
  <2>4. LoopType'
    BY <1>27, TypeParts DEF LoopType, advanceRead, ReadAt, advance, At, Goto, signal,
       ringVars, loopVars, queueVars, sourceVars, workVars
  <2>5. QED
    BY <2>1, <2>2, <2>3, <2>4 DEF TypeOK, CallSet, ReaderSet, RingType, LoopType
<1>28. ASSUME wake_by_address, UNCHANGED loopVars
      PROVE  TypeOK'
  <2>1. call' \in [Clients -> CallSet]
    BY <1>28, TypeParts DEF CallSet, wake_by_address, ReadAt, At, ringVars, loopVars,
       queueVars, sourceVars, workVars
  <2>2. reader' \in ReaderSet
    BY <1>28, TypeParts DEF ReaderSet, wake_by_address, ReadAt, At, ringVars, loopVars,
       queueVars, sourceVars, workVars
  <2>3. RingType'
    BY <1>28, TypeParts DEF RingType, ReaderSet, UseInv, wake_by_address, ReadAt, At,
       ringVars, loopVars, queueVars, sourceVars, workVars
  <2>4. LoopType'
    BY <1>28, TypeParts DEF LoopType, wake_by_address, ReadAt, At, ringVars, loopVars,
       queueVars, sourceVars, workVars
  <2>5. QED
    BY <2>1, <2>2, <2>3, <2>4 DEF TypeOK, CallSet, ReaderSet, RingType, LoopType
<1>29. ASSUME askMore, UNCHANGED loopVars
      PROVE  TypeOK'
  <2>1. call' \in [Clients -> CallSet]
    BY <1>29, TypeParts DEF CallSet, askMore, ReadAt, ringVars, loopVars, queueVars,
       sourceVars, workVars
  <2>2. reader' \in ReaderSet
    BY <1>29, TypeParts, RestTypes DEF ReaderSet, askMore, ReadAt, ringVars, loopVars,
       queueVars, sourceVars, workVars
  <2>3. RingType'
    BY <1>29, TypeParts DEF RingType, askMore, ReadAt, ringVars, loopVars, queueVars,
       sourceVars, workVars
  <2>4. LoopType'
    BY <1>29, TypeParts DEF LoopType, askMore, ReadAt, ringVars, loopVars, queueVars,
       sourceVars, workVars
  <2>5. QED
    BY <2>1, <2>2, <2>3, <2>4 DEF TypeOK, CallSet, ReaderSet, RingType, LoopType
<1>30. ASSUME tryRead, UNCHANGED loopVars
      PROVE  TypeOK'
  <2>1. call' \in [Clients -> CallSet]
    BY <1>30, TypeParts DEF CallSet, tryRead, ReadAt, ringVars, loopVars, queueVars,
       sourceVars, workVars
  <2>2. reader' \in ReaderSet
    BY <1>30, TypeParts DEF ReaderSet, tryRead, ReadAt, ringVars, loopVars, queueVars,
       sourceVars, workVars
  <2>3. RingType'
    BY <1>30, TypeParts DEF RingType, ReaderSet, UseInv, tryRead, ReadAt, ringVars, loopVars,
       queueVars, sourceVars, workVars
  <2>4. LoopType'
    BY <1>30, TypeParts DEF LoopType, tryRead, ReadAt, ringVars, loopVars, queueVars,
       sourceVars, workVars
  <2>5. QED
    BY <2>1, <2>2, <2>3, <2>4 DEF TypeOK, CallSet, ReaderSet, RingType, LoopType
<1>31. ASSUME askAgain, UNCHANGED loopVars
      PROVE  TypeOK'
  <2>1. call' \in [Clients -> CallSet]
    BY <1>31, TypeParts DEF CallSet, askAgain, ReadAt, ringVars, loopVars, queueVars,
       sourceVars, workVars
  <2>2. reader' \in ReaderSet
    BY <1>31, TypeParts, RestTypes DEF ReaderSet, couldPop, askAgain, ReadAt, ringVars,
       loopVars, queueVars, sourceVars, workVars
  <2>3. RingType'
    BY <1>31, TypeParts DEF RingType, askAgain, ReadAt, ringVars, loopVars, queueVars,
       sourceVars, workVars
  <2>4. LoopType'
    BY <1>31, TypeParts DEF LoopType, askAgain, ReadAt, ringVars, loopVars, queueVars,
       sourceVars, workVars
  <2>5. QED
    BY <2>1, <2>2, <2>3, <2>4 DEF TypeOK, CallSet, ReaderSet, RingType, LoopType
<1>32. QED
  BY <1>1, <1>2, <1>3, <1>4, <1>5, <1>6, <1>7, <1>8, <1>9, <1>10, <1>11, <1>12, <1>13,
     <1>14, <1>15, <1>16, <1>17, <1>18, <1>19, <1>20, <1>21, <1>22, <1>23, <1>24, <1>25,
     <1>26, <1>27, <1>28, <1>29, <1>30, <1>31 DEF Next, RemovalTurn, Start, Continue, Write, LoopStep,
     Read

-----------------------------------------------------------------------------
(* The rings.                                                              *)

\* The steps that change a ring, a client or the reader.
LEMMA SinkSteps ==
    ASSUME Next, ~RemovalTurn
    PROVE  \/ UNCHANGED <<sinkVars, call>>
           \/ \E c \in Clients :
                 \/ clientPush(c) \/ removeSourceSync(c) \/ runInMessageLoopThread(c)
                 \/ shutdown(c) \/ removed(c) \/ addShutdownSource(c)
                 \/ join(c) \/ checkFull(c) \/ wait_on_address(c)
                 \/ store(c) \/ advance(c) \/ signal(c)
           \/ handleEpollEvent \/ visitSource \/ tryPop \/ advanceRead
           \/ wake_by_address \/ askMore \/ tryRead \/ askAgain
  BY DEF Next, RemovalTurn, Start, Continue, Write, LoopStep, Read, Processing, addSource, testShutdown,
     handleEvents, startPass, takeActions, processAddSource, processRemoveSource,
     processRunAction, actionsDone, visited, endPass

\* The reader finds a message in the slot at readPosition.
LEMMA NextInRing ==
    ASSUME TypeOK, HistoryInv, SlotInv, NEW s \in Sources, couldPop(s), ~ReadAt("advance")
    PROVE  /\ ring[s][readPosition[s]] = sent[s][Gone(s) + 1]
           /\ ring[s][readPosition[s]] \in Messages
           /\ ring[s][readPosition[s]] # None
<1> DEFINE n == Count(writePosition[s], readPosition[s])
<1>1. writePosition[s] \in Positions /\ readPosition[s] \in Positions
  BY TypeParts DEF RingType
<1>2. n \in Nat /\ n > 0 /\ SlotOf(readPosition[s], 1) = readPosition[s]
  BY <1>1, CountSlots, MessageSinkAssumption DEF couldPop
<1> HIDE DEF n
<1>3. ring[s][SlotOf(readPosition[s], 1)] = sent[s][Gone(s) + 1]
  BY <1>2 DEF SlotInv, Reading, n
<1>4. Len(sent[s]) = Gone(s) + n
  BY DEF HistoryInv, n
<1>5. Gone(s) \in Nat
  BY TypeParts DEF Gone, RingType
<1>6. sent[s] \in Seq(Messages) /\ Gone(s) + 1 \in 1 .. Len(sent[s])
  BY <1>2, <1>4, <1>5, TypeParts DEF RingType
<1>7. sent[s][Gone(s) + 1] \in Messages
  BY <1>6
<1>8. QED
  BY <1>2, <1>3, <1>7, MessageSinkAssumption DEF Messages

\* Clients and reader keep using a source and a message.
LEMMA UseStep ==
    ASSUME TypeOK, UseInv, HistoryInv, SlotInv, Next, ~RemovalTurn
    PROVE  UseInv'
<1>1. CASE UNCHANGED <<sinkVars, call>>
  BY <1>1 DEF UseInv, Pushing, At, ReadAt, sinkVars, ringVars
<1>2. ASSUME NEW c \in Clients, clientPush(c)
      PROVE  UseInv'
  BY <1>2, TypeParts, MessageSinkAssumption DEF UseInv, Pushing, At, ReadAt, CallSet,
     RingType, Messages, clientPush, push, Idle, ringVars
<1>3. ASSUME NEW c \in Clients, removeSourceSync(c)
      PROVE  UseInv'
  BY <1>3, TypeParts DEF UseInv, Pushing, At, ReadAt, CallSet, removeSourceSync, sinkVars,
     ringVars
<1>4. ASSUME NEW c \in Clients, runInMessageLoopThread(c)
      PROVE  UseInv'
  BY <1>4, TypeParts DEF UseInv, Pushing, At, ReadAt, runInMessageLoopThread, ringVars
<1>5. ASSUME NEW c \in Clients, shutdown(c)
      PROVE  UseInv'
  BY <1>5, TypeParts DEF UseInv, Pushing, At, ReadAt, CallSet, shutdown, Goto, sinkVars,
     ringVars
<1>6. ASSUME NEW c \in Clients, removed(c)
      PROVE  UseInv'
  BY <1>6, TypeParts DEF UseInv, Pushing, At, ReadAt, CallSet, removed, Idle, sinkVars,
     ringVars
<1>7. ASSUME NEW c \in Clients, addShutdownSource(c)
      PROVE  UseInv'
  BY <1>7, TypeParts DEF UseInv, Pushing, At, ReadAt, CallSet, addShutdownSource, Goto,
     join, Idle, sinkVars, ringVars
<1>8. ASSUME NEW c \in Clients, join(c)
      PROVE  UseInv'
  BY <1>8, TypeParts DEF UseInv, Pushing, At, ReadAt, CallSet, join, Idle, sinkVars,
     ringVars
<1>9. ASSUME NEW c \in Clients, checkFull(c)
      PROVE  UseInv'
  BY <1>9, TypeParts DEF UseInv, Pushing, At, ReadAt, CallSet, checkFull, lockRing, Goto,
     store, advance, signal, Idle, ringVars
<1>10. ASSUME NEW c \in Clients, wait_on_address(c)
      PROVE  UseInv'
  BY <1>10, TypeParts DEF UseInv, Pushing, At, ReadAt, CallSet, wait_on_address, Goto,
     sinkVars, ringVars
<1>11. ASSUME NEW c \in Clients, store(c)
      PROVE  UseInv'
  BY <1>11, TypeParts DEF UseInv, Pushing, At, ReadAt, CallSet, store, Goto, advance,
     signal, Idle, ringVars
<1>12. ASSUME NEW c \in Clients, advance(c)
      PROVE  UseInv'
  BY <1>12, TypeParts DEF UseInv, Pushing, At, ReadAt, CallSet, advance, Goto, signal, Idle,
     ringVars
<1>13. ASSUME NEW c \in Clients, signal(c)
      PROVE  UseInv'
  BY <1>13, TypeParts DEF UseInv, Pushing, At, ReadAt, CallSet, signal, Idle, ringVars
<1>14. CASE handleEpollEvent
  BY <1>14, TypeParts, MessageSinkAssumption, MessageLoopAssumption DEF UseInv, Pushing, At,
     ReadAt, LoopType, ReaderSet, handleEpollEvent, processOne, ringVars
<1>15. CASE visitSource
  BY <1>15, TypeParts, MessageSinkAssumption DEF UseInv, Pushing, At, ReadAt, LoopType,
     ReaderSet, visitSource, processOne, ringVars
<1>16. CASE tryPop
  <2> DEFINE s == reader.src
             m == ring[s][readPosition[s]]
  <2>1. s \in Sources /\ reader.pc = "pop"
    BY <1>16 DEF tryPop, ReadAt, UseInv
  <2>2. UNCHANGED call
    BY <1>16 DEF tryPop
  <2>3. CASE couldPop(s)
    <3>1. m \in Messages /\ m # None
      BY <2>1, <2>3, NextInRing DEF ReadAt
    <3>2. reader' = [reader EXCEPT !.pc = "advance", !.msg = m]
      BY <1>16, <2>3 DEF tryPop
    <3> HIDE DEF m
    <3>3. QED
      BY <2>1, <2>2, <3>1, <3>2, TypeParts DEF UseInv, Pushing, At, ReadAt, ReaderSet
  <2>4. CASE ~couldPop(s)
    BY <1>16, <2>2, <2>4 DEF tryPop, UseInv, Pushing, At, ReadAt, Outside
  <2>5. QED
    BY <2>3, <2>4
<1>17. CASE advanceRead
  BY <1>17, TypeParts DEF UseInv, Pushing, At, ReadAt, ReaderSet, advanceRead, advance,
     Goto, signal, Idle, ringVars
<1>18. CASE wake_by_address
  BY <1>18, TypeParts DEF UseInv, Pushing, At, ReadAt, CallSet, ReaderSet, wake_by_address,
     ringVars
<1>19. CASE askMore
  BY <1>19, TypeParts DEF UseInv, Pushing, At, ReadAt, ReaderSet, askMore, couldPop,
     Outside, ringVars
<1>20. CASE tryRead
  BY <1>20, TypeParts DEF UseInv, Pushing, At, ReadAt, ReaderSet, tryRead, ringVars
<1>21. CASE askAgain
  BY <1>21, TypeParts DEF UseInv, Pushing, At, ReadAt, ReaderSet, askAgain, Outside,
     couldPop, ringVars
<1>22. QED
  BY SinkSteps, <1>1, <1>2, <1>3, <1>4, <1>5, <1>6, <1>7, <1>8, <1>9, <1>10, <1>11, <1>12,
     <1>13, <1>14, <1>15, <1>16, <1>17, <1>18, <1>19, <1>20, <1>21

\* The lock is held by the client that stores its message, and the ring has room.
LEMMA LockStep ==
    ASSUME TypeOK, UseInv, LockInv, Next, ~RemovalTurn
    PROVE  LockInv'
<1>1. CASE UNCHANGED <<sinkVars, call>>
  BY <1>1 DEF LockInv, UseInv, Writing, Pushing, At, ReadAt, couldPop, sinkVars, ringVars
<1>2. ASSUME NEW c \in Clients, clientPush(c)
      PROVE  LockInv'
  BY <1>2, TypeParts DEF LockInv, UseInv, Writing, Pushing, At, ReadAt, couldPop, CallSet,
     RingType, clientPush, push, Idle, ringVars
<1>3. ASSUME NEW c \in Clients, removeSourceSync(c)
      PROVE  LockInv'
  BY <1>3, TypeParts DEF LockInv, UseInv, Writing, Pushing, At, ReadAt, couldPop, CallSet,
     RingType, removeSourceSync, sinkVars, ringVars
<1>4. ASSUME NEW c \in Clients, runInMessageLoopThread(c)
      PROVE  LockInv'
  BY <1>4, TypeParts DEF LockInv, UseInv, Writing, Pushing, At, ReadAt, couldPop,
     runInMessageLoopThread, ringVars
<1>5. ASSUME NEW c \in Clients, shutdown(c)
      PROVE  LockInv'
  <2>1. /\ UNCHANGED <<mutex, reader, readPosition, writePosition>>
        /\ call[c].pc = "idle" /\ call' = [call EXCEPT ![c].pc = "stop"]
    BY <1>5 DEF shutdown, Makes, At, Goto, sinkVars, ringVars
  <2>2. QED
    BY <2>1, TypeParts DEF LockInv, Writing, ReadAt, couldPop, CallSet, RingType
<1>6. ASSUME NEW c \in Clients, removed(c)
      PROVE  LockInv'
  BY <1>6, TypeParts DEF LockInv, UseInv, Writing, Pushing, At, ReadAt, couldPop, CallSet,
     RingType, removed, Idle, sinkVars, ringVars
<1>7. ASSUME NEW c \in Clients, addShutdownSource(c)
      PROVE  LockInv'
  BY <1>7, TypeParts DEF LockInv, UseInv, Writing, Pushing, At, ReadAt, couldPop, CallSet,
     RingType, addShutdownSource, Goto, join, Idle, sinkVars, ringVars
<1>8. ASSUME NEW c \in Clients, join(c)
      PROVE  LockInv'
  BY <1>8, TypeParts DEF LockInv, UseInv, Writing, Pushing, At, ReadAt, couldPop, CallSet,
     RingType, join, Idle, sinkVars, ringVars
<1>9. ASSUME NEW c \in Clients, checkFull(c)
      PROVE  LockInv'
  <2> DEFINE s == call[c].src
             f == next(writePosition[s])
  <2>1. s \in Sources /\ mutex[s] = None /\ call[c].pc = "lock"
    BY <1>9 DEF checkFull, At, UseInv, Pushing
  <2>2. UNCHANGED <<ring, readPosition, writePosition, reader, wakeup, sent, handled>>
    BY <1>9 DEF checkFull, ringVars
  <2>3. CASE /\ readPosition[s] # f /\ mutex' = [mutex EXCEPT ![s] = c]
             /\ call' = [call EXCEPT ![c].pc = "store"]
    <3> HIDE DEF s, f
    <3> QED BY <2>1, <2>2, <2>3, TypeParts, MessageSinkAssumption DEF s, f, LockInv,
       Writing, ReadAt, couldPop, CallSet, RingType
  <2>4. CASE /\ UNCHANGED mutex
             /\ call' = [call EXCEPT ![c].pc = "wait", ![c].full = f]
    <3> HIDE DEF f
    <3> QED BY <2>1, <2>2, <2>4, TypeParts, MessageSinkAssumption DEF LockInv, Writing,
       ReadAt, couldPop, CallSet, RingType
  <2>5. CASE UNCHANGED mutex /\ call' = [call EXCEPT ![c] = Idle]
    BY <2>1, <2>2, <2>5, TypeParts, MessageSinkAssumption DEF Idle, LockInv, Writing,
       ReadAt, couldPop, CallSet, RingType
  <2>6. QED
    BY <1>9, <2>3, <2>4, <2>5 DEF checkFull, lockRing, Goto
<1>10. ASSUME NEW c \in Clients, wait_on_address(c)
      PROVE  LockInv'
  BY <1>10, TypeParts DEF LockInv, UseInv, Writing, Pushing, At, ReadAt, couldPop, CallSet,
     RingType, wait_on_address, Goto, sinkVars, ringVars
<1>11. ASSUME NEW c \in Clients, store(c)
      PROVE  LockInv'
  BY <1>11, TypeParts DEF LockInv, UseInv, Writing, Pushing, At, ReadAt, couldPop, CallSet,
     RingType, store, Goto, advance, signal, Idle, ringVars
<1>12. ASSUME NEW c \in Clients, advance(c)
      PROVE  LockInv'
  BY <1>12, TypeParts, CountWrite, NextPosition, MessageSinkAssumption DEF LockInv, UseInv,
     Writing, Pushing, At, ReadAt, couldPop, CallSet, RingType, advance, Goto, signal, Idle,
     ringVars
<1>13. ASSUME NEW c \in Clients, signal(c)
      PROVE  LockInv'
  BY <1>13, TypeParts DEF LockInv, UseInv, Writing, Pushing, At, ReadAt, couldPop, CallSet,
     RingType, signal, Idle, ringVars
<1>14. CASE handleEpollEvent
  BY <1>14, TypeParts DEF LockInv, UseInv, Writing, Pushing, At, ReadAt, couldPop,
     handleEpollEvent, processOne, ringVars
<1>15. CASE visitSource
  BY <1>15, TypeParts DEF LockInv, UseInv, Writing, Pushing, At, ReadAt, couldPop,
     visitSource, processOne, ringVars
<1>16. CASE tryPop
  <2>1. UNCHANGED <<call, mutex, readPosition, writePosition>>
    BY <1>16 DEF tryPop
  <2>2. ReadAt("advance")' => couldPop(reader.src)'
    <3>1. CASE couldPop(reader.src)
      BY <1>16, <3>1, <2>1, TypeParts DEF tryPop, ReadAt, couldPop, ReaderSet
    <3>2. CASE ~couldPop(reader.src)
      BY <1>16, <3>2 DEF tryPop, ReadAt, Outside
    <3>3. QED
      BY <3>1, <3>2
  <2>3. QED
    BY <2>1, <2>2 DEF LockInv, Writing
<1>17. CASE advanceRead
  BY <1>17, TypeParts, CountRead, NextPosition DEF LockInv, UseInv, Writing, Pushing, At,
     ReadAt, couldPop, CallSet, RingType, ReaderSet, advanceRead, advance, Goto, signal,
     Idle, ringVars
<1>18. CASE wake_by_address
  BY <1>18, TypeParts DEF LockInv, UseInv, Writing, Pushing, At, ReadAt, couldPop, CallSet,
     RingType, ReaderSet, wake_by_address, ringVars
<1>19. CASE askMore
  BY <1>19, TypeParts DEF LockInv, UseInv, Writing, Pushing, At, ReadAt, couldPop, askMore,
     Outside, ringVars
<1>20. CASE tryRead
  BY <1>20, TypeParts DEF LockInv, UseInv, Writing, Pushing, At, ReadAt, couldPop, tryRead,
     ringVars
<1>21. CASE askAgain
  BY <1>21, TypeParts DEF LockInv, UseInv, Writing, Pushing, At, ReadAt, couldPop, askAgain,
     Outside, ringVars
<1>22. QED
  BY SinkSteps, <1>1, <1>2, <1>3, <1>4, <1>5, <1>6, <1>7, <1>8, <1>9, <1>10, <1>11, <1>12,
     <1>13, <1>14, <1>15, <1>16, <1>17, <1>18, <1>19, <1>20, <1>21

\* A sleeping client is woken.
LEMMA SleepStep ==
    ASSUME TypeOK, UseInv, LockInv, SleepersWoken, Next, ~RemovalTurn
    PROVE  SleepersWoken'
<1>1. CASE UNCHANGED <<sinkVars, call>>
  BY <1>1 DEF SleepersWoken, UseInv, Pushing, At, ReadAt, sinkVars, ringVars
<1>2. ASSUME NEW c \in Clients, clientPush(c)
      PROVE  SleepersWoken'
  BY <1>2, TypeParts DEF SleepersWoken, UseInv, Pushing, At, ReadAt, CallSet, RingType,
     clientPush, push, Idle, ringVars
<1>3. ASSUME NEW c \in Clients, removeSourceSync(c)
      PROVE  SleepersWoken'
  BY <1>3, TypeParts DEF SleepersWoken, UseInv, Pushing, At, ReadAt, CallSet, RingType,
     removeSourceSync, sinkVars, ringVars
<1>4. ASSUME NEW c \in Clients, runInMessageLoopThread(c)
      PROVE  SleepersWoken'
  BY <1>4, TypeParts DEF SleepersWoken, UseInv, Pushing, At, ReadAt, runInMessageLoopThread,
     ringVars
<1>5. ASSUME NEW c \in Clients, shutdown(c)
      PROVE  SleepersWoken'
  BY <1>5, TypeParts DEF SleepersWoken, UseInv, Pushing, At, ReadAt, CallSet, RingType,
     shutdown, Goto, sinkVars, ringVars
<1>6. ASSUME NEW c \in Clients, removed(c)
      PROVE  SleepersWoken'
  BY <1>6, TypeParts DEF SleepersWoken, UseInv, Pushing, At, ReadAt, CallSet, RingType,
     removed, Idle, sinkVars, ringVars
<1>7. ASSUME NEW c \in Clients, addShutdownSource(c)
      PROVE  SleepersWoken'
  BY <1>7, TypeParts DEF SleepersWoken, UseInv, Pushing, At, ReadAt, CallSet, RingType,
     addShutdownSource, Goto, join, Idle, sinkVars, ringVars
<1>8. ASSUME NEW c \in Clients, join(c)
      PROVE  SleepersWoken'
  BY <1>8, TypeParts DEF SleepersWoken, UseInv, Pushing, At, ReadAt, CallSet, RingType,
     join, Idle, sinkVars, ringVars
<1>9. ASSUME NEW c \in Clients, checkFull(c)
      PROVE  SleepersWoken'
  <2> DEFINE s == call[c].src
             f == next(writePosition[s])
  <2>1. s \in Sources /\ mutex[s] = None /\ call[c].pc = "lock"
    BY <1>9 DEF checkFull, At, UseInv, Pushing
  <2>2. UNCHANGED <<ring, readPosition, writePosition, reader, wakeup, sent, handled>>
    BY <1>9 DEF checkFull, ringVars
  <2>3. CASE /\ readPosition[s] # f /\ mutex' = [mutex EXCEPT ![s] = c]
             /\ call' = [call EXCEPT ![c].pc = "store"]
    <3> HIDE DEF s, f
    <3> QED BY <2>1, <2>2, <2>3, TypeParts DEF s, f, SleepersWoken, At, ReadAt, CallSet
  <2>4. CASE /\ UNCHANGED mutex
             /\ call' = [call EXCEPT ![c].pc = "wait", ![c].full = f]
    <3> HIDE DEF f
    <3> QED BY <2>1, <2>2, <2>4, TypeParts DEF SleepersWoken, At, ReadAt, CallSet
  <2>5. CASE UNCHANGED mutex /\ call' = [call EXCEPT ![c] = Idle]
    BY <2>1, <2>2, <2>5, TypeParts DEF Idle, SleepersWoken, At, ReadAt, CallSet
  <2>6. QED
    BY <1>9, <2>3, <2>4, <2>5 DEF checkFull, lockRing, Goto
<1>10. ASSUME NEW c \in Clients, wait_on_address(c)
      PROVE  SleepersWoken'
  BY <1>10, TypeParts DEF SleepersWoken, UseInv, Pushing, At, ReadAt, CallSet, RingType,
     wait_on_address, Goto, sinkVars, ringVars
<1>11. ASSUME NEW c \in Clients, store(c)
      PROVE  SleepersWoken'
  BY <1>11, TypeParts DEF SleepersWoken, UseInv, Pushing, At, ReadAt, CallSet, RingType,
     store, Goto, advance, signal, Idle, ringVars
<1>12. ASSUME NEW c \in Clients, advance(c)
      PROVE  SleepersWoken'
  BY <1>12, TypeParts DEF SleepersWoken, UseInv, Pushing, At, ReadAt, CallSet, RingType,
     advance, Goto, signal, Idle, ringVars
<1>13. ASSUME NEW c \in Clients, signal(c)
      PROVE  SleepersWoken'
  BY <1>13, TypeParts DEF SleepersWoken, UseInv, Pushing, At, ReadAt, CallSet, RingType,
     signal, Idle, ringVars
<1>14. CASE handleEpollEvent
  BY <1>14, TypeParts DEF SleepersWoken, UseInv, Pushing, At, ReadAt, ReaderSet,
     handleEpollEvent, processOne, ringVars
<1>15. CASE visitSource
  BY <1>15, TypeParts DEF SleepersWoken, UseInv, Pushing, At, ReadAt, ReaderSet,
     visitSource, processOne, ringVars
<1>16. CASE tryPop
  BY <1>16, TypeParts DEF SleepersWoken, UseInv, Pushing, At, ReadAt, CallSet, RingType,
     ReaderSet, tryPop, couldPop, advance, Goto, signal, Idle, ringVars, Outside
<1>17. CASE advanceRead
  BY <1>17, TypeParts DEF SleepersWoken, UseInv, Pushing, At, ReadAt, CallSet, RingType,
     ReaderSet, advanceRead, advance, Goto, signal, Idle, ringVars
<1>18. CASE wake_by_address
  BY <1>18, TypeParts DEF SleepersWoken, UseInv, Pushing, At, ReadAt, CallSet, RingType,
     ReaderSet, wake_by_address, ringVars
<1>19. CASE askMore
  BY <1>19, TypeParts DEF SleepersWoken, UseInv, Pushing, At, ReadAt, ReaderSet, askMore,
     couldPop, Outside, ringVars
<1>20. CASE tryRead
  BY <1>20, TypeParts DEF SleepersWoken, UseInv, Pushing, At, ReadAt, ReaderSet, tryRead,
     ringVars
<1>21. CASE askAgain
  BY <1>21, TypeParts DEF SleepersWoken, UseInv, Pushing, At, ReadAt, ReaderSet, askAgain,
     Outside, couldPop, ringVars
<1>22. QED
  BY SinkSteps, <1>1, <1>2, <1>3, <1>4, <1>5, <1>6, <1>7, <1>8, <1>9, <1>10, <1>11, <1>12,
     <1>13, <1>14, <1>15, <1>16, <1>17, <1>18, <1>19, <1>20, <1>21

\* The message the reader is about to hand over is not handled yet.
LEMMA GoneBounds ==
    ASSUME NEW s, Len(handled[s]) \in Nat
    PROVE  /\ Gone(s) \in Nat /\ Len(handled[s]) <= Gone(s)
           /\ Reading(s, "wake") => Len(handled[s]) < Gone(s)
<1>1. CASE Reading(s, "wake")
  <2>1. Gone(s) = Len(handled[s]) + 1
    BY <1>1 DEF Gone
  <2>2. QED
    BY <2>1
<1>2. CASE ~Reading(s, "wake")
  <2>1. Gone(s) = Len(handled[s])
    BY <1>2 DEF Gone
  <2>2. QED
    BY <1>2, <2>1
<1>3. QED
  BY <1>1, <1>2

\* A step that leaves positions and histories alone, and the message the reader holds.
LEMMA HistoryFrame ==
    ASSUME HistoryInv, UNCHANGED <<readPosition, writePosition, sent, handled>>,
           \/ UNCHANGED reader
           \/ reader.pc \notin {"advance", "wake"} /\ reader'.pc \notin {"advance", "wake"}
    PROVE  HistoryInv'
<1>1. \A q \in Sources : Gone(q)' = Gone(q)
  BY DEF Gone, Reading, ReadAt
<1>2. QED
  BY <1>1 DEF HistoryInv, Reading, ReadAt

\* The same for the slots, if no client gets to publish its message.
LEMMA SlotFrame ==
    ASSUME SlotInv, UNCHANGED <<ring, readPosition, writePosition, sent, handled>>,
           \/ UNCHANGED reader
           \/ reader.pc \notin {"advance", "wake"} /\ reader'.pc \notin {"advance", "wake"},
           \A e \in Clients : call'[e] = call[e] \/ call'[e].pc # "advance"
    PROVE  SlotInv'
<1>1. \A q \in Sources :
         Gone(q)' = Gone(q) /\ (Reading(q, "advance")' <=> Reading(q, "advance"))
  BY DEF Gone, Reading, ReadAt
<1>2. QED
  BY <1>1 DEF SlotInv, At

\* What was sent is what was handled, held and counted.
LEMMA HistoryStep ==
    ASSUME TypeOK, UseInv, LockInv, HistoryInv, SlotInv, Next, ~RemovalTurn
    PROVE  HistoryInv'
<1>1. CASE UNCHANGED <<sinkVars, call>>
  BY <1>1 DEF HistoryInv, Gone, Reading, ReadAt, sinkVars, ringVars
<1>2. ASSUME NEW c \in Clients, clientPush(c)
      PROVE  HistoryInv'
  <2> QED BY <1>2, HistoryFrame DEF clientPush, push, At, Idle, ringVars
<1>3. ASSUME NEW c \in Clients, removeSourceSync(c)
      PROVE  HistoryInv'
  <2> QED BY <1>3, HistoryFrame DEF removeSourceSync, At, sinkVars, ringVars
<1>4. ASSUME NEW c \in Clients, runInMessageLoopThread(c)
      PROVE  HistoryInv'
  <2> QED BY <1>4, HistoryFrame DEF runInMessageLoopThread, At, ringVars
<1>5. ASSUME NEW c \in Clients, shutdown(c)
      PROVE  HistoryInv'
  <2> QED BY <1>5, HistoryFrame DEF shutdown, At, Goto, sinkVars, ringVars
<1>6. ASSUME NEW c \in Clients, removed(c)
      PROVE  HistoryInv'
  <2> QED BY <1>6, HistoryFrame DEF removed, At, Idle, sinkVars, ringVars
<1>7. ASSUME NEW c \in Clients, addShutdownSource(c)
      PROVE  HistoryInv'
  <2> QED BY <1>7, HistoryFrame DEF addShutdownSource, At, Goto, join, Idle, sinkVars, ringVars
<1>8. ASSUME NEW c \in Clients, join(c)
      PROVE  HistoryInv'
  <2> QED BY <1>8, HistoryFrame DEF join, At, Idle, sinkVars, ringVars
<1>9. ASSUME NEW c \in Clients, checkFull(c)
      PROVE  HistoryInv'
  <2> QED BY <1>9, HistoryFrame DEF checkFull, At, lockRing, Goto, store, advance, signal, Idle,
       ringVars
<1>10. ASSUME NEW c \in Clients, wait_on_address(c)
      PROVE  HistoryInv'
  <2> QED BY <1>10, HistoryFrame DEF wait_on_address, At, Goto, sinkVars, ringVars
<1>11. ASSUME NEW c \in Clients, store(c)
      PROVE  HistoryInv'
  <2> QED BY <1>11, HistoryFrame DEF store, At, Goto, advance, signal, Idle, ringVars
<1>12. ASSUME NEW c \in Clients, advance(c)
      PROVE  HistoryInv'
  <2>0. PICK s \in Sources : s = call[c].src
    BY <1>12 DEF advance, At, UseInv, Pushing
  <2> DEFINE w == writePosition[s]
             r == readPosition[s]
             m == call[c].msg
  <2>1. /\ m \in Messages /\ mutex[s] = c /\ next(w) # r
        /\ w \in Positions /\ r \in Positions /\ call[c].pc = "advance"
    BY <1>12, <2>0, TypeParts DEF advance, At, UseInv, Pushing, LockInv, Writing, RingType
  <2>2. /\ writePosition' = [writePosition EXCEPT ![s] = next(w)]
        /\ sent' = [sent EXCEPT ![s] = Append(sent[s], m)]
        /\ call' = [call EXCEPT ![c].pc = "signal"]
        /\ UNCHANGED <<ring, readPosition, reader, handled>>
    BY <1>12, <2>0 DEF advance, Goto
  <2>3. /\ sent[s] \in Seq(Messages) /\ handled[s] \in Seq(Messages)
        /\ sent'[s] = Append(sent[s], m) /\ writePosition'[s] = next(w)
        /\ \A q \in Sources \ {s} : sent'[q] = sent[q] /\ writePosition'[q] = writePosition[q]
    BY <2>1, <2>2, TypeParts DEF RingType
  <2>4. Count(next(w), r) = Count(w, r) + 1 /\ SlotOf(r, Count(w, r) + 1) = w
    BY <2>1, CountWrite
  <2>5. Count(w, r) \in Nat /\ (w # r => Count(w, r) > 0)
    BY <2>1, CountSlots, MessageSinkAssumption
  <2>6. /\ Len(handled[s]) \in Nat /\ Gone(s) \in Nat /\ Len(handled[s]) <= Gone(s)
        /\ Reading(s, "wake") => Len(handled[s]) < Gone(s)
        /\ \A q \in Sources : Gone(q)' = Gone(q) /\ (Reading(q, "advance")' <=> Reading(q, "advance"))
    <3>1. Len(handled[s]) \in Nat
      BY <2>3
    <3>2. \A q \in Sources : Gone(q)' = Gone(q) /\ (Reading(q, "advance")' <=> Reading(q, "advance"))
      BY <2>2 DEF Gone, Reading, ReadAt
    <3>3. /\ Gone(s) \in Nat /\ Len(handled[s]) <= Gone(s)
          /\ Reading(s, "wake") => Len(handled[s]) < Gone(s)
      BY <3>1, GoneBounds
    <3>4. QED
      BY <3>1, <3>2, <3>3
  <2>7. Len(sent[s]) = Gone(s) + Count(w, r)
    BY <2>1 DEF HistoryInv
  <2>8. /\ Len(sent'[s]) = Len(sent[s]) + 1 /\ sent'[s][Len(sent[s]) + 1] = m
        /\ \A i \in 1 .. Len(sent[s]) : sent'[s][i] = sent[s][i]
    BY <2>1, <2>3
  <2> HIDE DEF w, r, m
  <2>9. ASSUME NEW q \in Sources
        PROVE  /\ Len(sent[q])' = Gone(q)' + Count(writePosition[q], readPosition[q])'
               /\ \A i \in 1 .. Len(handled[q])' : sent'[q][i] = handled'[q][i]
               /\ (Reading(q, "advance") \/ Reading(q, "wake"))' =>
                      sent'[q][Len(handled[q])' + 1] = reader'.msg
    <3>1. CASE q = s
      <4>1. Len(sent'[s]) = Gone(s)' + Count(writePosition'[s], readPosition'[s])
        BY <2>2, <2>3, <2>4, <2>5, <2>6, <2>7, <2>8 DEF r
      <4>2. \A i \in 1 .. Len(handled[s]) : i \in 1 .. Len(sent[s])
        BY <2>5, <2>6, <2>7
      <4>3. (Reading(s, "advance") \/ Reading(s, "wake")) =>
                Len(handled[s]) + 1 \in 1 .. Len(sent[s])
        <5>1. CASE Reading(s, "advance")
          <6>1. w # r
            BY <5>1 DEF LockInv, couldPop, Reading, w, r
          <6>2. QED
            BY <6>1, <2>5, <2>6, <2>7
        <5>2. CASE Reading(s, "wake")
          BY <5>2, <2>5, <2>6, <2>7
        <5>3. QED
          BY <5>1, <5>2
      <4>4. \A i \in 1 .. Len(handled[s]) : sent'[s][i] = handled[s][i]
        BY <2>1, <2>8, <4>2 DEF HistoryInv
      <4>5. (Reading(s, "advance") \/ Reading(s, "wake")) =>
                sent'[s][Len(handled[s]) + 1] = reader.msg
        BY <2>1, <2>8, <4>3 DEF HistoryInv
      <4>6. QED
        BY <3>1, <4>1, <4>4, <4>5, <2>2 DEF Reading, ReadAt
    <3>2. CASE q # s
      <4>1. Gone(q)' = Gone(q)
        BY <2>6
      <4>2. QED
        BY <3>2, <4>1, <2>2, <2>3 DEF HistoryInv, Reading, ReadAt
    <3>3. QED
      BY <3>1, <3>2
  <2>10. QED
    BY <2>9 DEF HistoryInv
<1>13. ASSUME NEW c \in Clients, signal(c)
      PROVE  HistoryInv'
  <2> QED BY <1>13, HistoryFrame DEF signal, At, Idle, ringVars
<1>14. CASE handleEpollEvent
  <2> QED BY <1>14, HistoryFrame DEF handleEpollEvent, ReadAt, processOne, ringVars
<1>15. CASE visitSource
  <2> QED BY <1>15, HistoryFrame DEF visitSource, ReadAt, processOne, ringVars
<1>16. CASE tryPop
  <2>0. PICK s \in Sources : s = reader.src
    BY <1>16 DEF tryPop, ReadAt, UseInv
  <2>1. reader.pc = "pop"
    BY <1>16 DEF tryPop, ReadAt
  <2>2. UNCHANGED <<sent, handled, readPosition, writePosition>>
    BY <1>16 DEF tryPop
  <2>3. CASE couldPop(s)
    <3> DEFINE m == ring[s][readPosition[s]]
    <3>1. reader' = [reader EXCEPT !.pc = "advance", !.msg = m]
      BY <1>16, <2>0, <2>3 DEF tryPop
    <3>2. reader'.pc = "advance" /\ reader'.src = s /\ reader'.msg = m
      BY <3>1, <2>0, TypeParts DEF ReaderSet
    <3>3. m = sent[s][Gone(s) + 1] /\ Gone(s) = Len(handled[s])
      BY <2>1, <2>3, NextInRing, TypeParts DEF ReadAt, Reading, Gone, RingType
    <3> HIDE DEF m
    <3>4. QED
      BY <2>0, <2>1, <2>2, <3>2, <3>3 DEF HistoryInv, Gone, Reading, ReadAt
  <2>4. CASE ~couldPop(s)
    BY <1>16, <2>0, <2>1, <2>2, <2>4, HistoryFrame DEF tryPop, Outside
  <2>5. QED
    BY <2>3, <2>4
<1>17. CASE advanceRead
  <2>0. PICK s \in Sources : s = reader.src
    BY <1>17 DEF advanceRead, ReadAt, UseInv
  <2> DEFINE w == writePosition[s]
             r == readPosition[s]
  <2>1. /\ reader.pc = "advance" /\ w \in Positions /\ r \in Positions
        /\ w # r
    BY <1>17, <2>0, TypeParts DEF advanceRead, ReadAt, LockInv, couldPop, RingType
  <2>2. /\ readPosition' = [readPosition EXCEPT ![s] = next(r)]
        /\ UNCHANGED <<ring, writePosition, sent, handled, call>>
        /\ reader'.pc = "wake" /\ reader'.src = s /\ reader'.msg = reader.msg
    BY <1>17, <2>0, TypeParts DEF advanceRead, ReaderSet
  <2>3. /\ readPosition'[s] = next(r)
        /\ \A q \in Sources \ {s} : readPosition'[q] = readPosition[q]
    BY <2>1, <2>2, TypeParts DEF RingType
  <2>4. /\ Count(w, r) = Count(w, next(r)) + 1
        /\ \A i \in 1 .. Count(w, next(r)) : SlotOf(next(r), i) = SlotOf(r, i + 1)
    BY <2>1, CountRead
  <2>5. Count(w, next(r)) \in Nat
    BY <2>1, NextPosition, CountSlots, MessageSinkAssumption
  <2>6. Gone(s) = Len(handled[s]) /\ Gone(s) \in Nat /\ Gone(s)' = Gone(s) + 1
    BY <2>0, <2>1, <2>2, TypeParts DEF Gone, Reading, ReadAt, RingType
  <2>7. Len(sent[s])' = Gone(s)' + Count(writePosition[s], readPosition[s])'
    <3>1. Len(sent[s]) = Gone(s) + Count(w, r)
      BY <2>1 DEF HistoryInv
    <3>2. Count(writePosition[s], readPosition[s])' = Count(w, next(r))
      BY <2>2, <2>3
    <3> HIDE DEF w, r
    <3>3. Len(sent[s])' = Len(sent[s])
      BY <2>2
    <3>4. Gone(s) + (Count(w, next(r)) + 1) = (Gone(s) + 1) + Count(w, next(r))
      BY <2>5, <2>6
    <3>5. QED
      BY <2>4, <2>6, <3>1, <3>2, <3>3, <3>4
  <2>8. /\ \A i \in 1 .. Len(handled[s]) : sent[s][i] = handled[s][i]
        /\ sent[s][Len(handled[s]) + 1] = reader.msg
    BY <2>0, <2>1 DEF HistoryInv, Reading, ReadAt
  <2>9. \A q \in Sources \ {s} :
            /\ Len(sent[q])' = Gone(q)' + Count(writePosition[q], readPosition[q])'
            /\ \A i \in 1 .. Len(handled[q])' : sent'[q][i] = handled'[q][i]
            /\ ~(Reading(q, "advance") \/ Reading(q, "wake"))'
    <3>1. TAKE q \in Sources \ {s}
    <3>2. Gone(q)' = Gone(q) /\ ~(Reading(q, "advance") \/ Reading(q, "wake"))'
      BY <2>0, <2>1, <2>2 DEF Gone, Reading, ReadAt
    <3>3. QED
      BY <2>2, <2>3, <3>2 DEF HistoryInv
  <2>10. QED
    BY <2>2, <2>7, <2>8, <2>9 DEF HistoryInv
<1>18. CASE wake_by_address
  <2>0. PICK s \in Sources : s = reader.src
    BY <1>18 DEF wake_by_address, ReadAt, UseInv
  <2> DEFINE m == reader.msg
  <2>1. reader.pc = "wake" /\ m # None /\ m \in Messages
    BY <1>18, <2>0, TypeParts DEF wake_by_address, ReadAt, UseInv, ReaderSet
  <2>2. /\ handled' = [handled EXCEPT ![s] = Append(handled[s], m)]
        /\ UNCHANGED <<ring, readPosition, writePosition, sent>>
        /\ reader'.pc = "more" /\ reader'.src = s
    BY <1>18, <2>0, TypeParts DEF wake_by_address, ReaderSet, ringVars
  <2>3. /\ handled'[s] = Append(handled[s], m)
        /\ \A q \in Sources \ {s} : handled'[q] = handled[q]
        /\ handled[s] \in Seq(Messages)
    BY <2>1, <2>2, TypeParts DEF RingType
  <2>4. Len(handled'[s]) = Len(handled[s]) + 1 /\ Len(handled[s]) \in Nat
        /\ handled'[s][Len(handled[s]) + 1] = m
        /\ \A i \in 1 .. Len(handled[s]) : handled'[s][i] = handled[s][i]
    BY <2>1, <2>3
  <2>5. \A q \in Sources : Gone(q)' = Gone(q)
    <3>1. Gone(s)' = Gone(s)
      BY <2>0, <2>1, <2>2, <2>4 DEF Gone, Reading, ReadAt
    <3>2. \A q \in Sources \ {s} : Gone(q)' = Gone(q)
      BY <2>0, <2>1, <2>2, <2>3 DEF Gone, Reading, ReadAt
    <3>3. QED
      BY <3>1, <3>2
  <2>6. \A q \in Sources : ~Reading(q, "advance")' /\ ~Reading(q, "wake")'
    BY <2>2 DEF Reading, ReadAt
  <2>7. \A q \in Sources :
            Len(sent[q])' = Gone(q)' + Count(writePosition[q], readPosition[q])'
    BY <2>2, <2>5 DEF HistoryInv
  <2>8. sent[s][Len(handled[s]) + 1] = m /\ \A i \in 1 .. Len(handled[s]) : sent[s][i] = handled[s][i]
    BY <2>0, <2>1 DEF HistoryInv, Reading, ReadAt
  <2> HIDE DEF m
  <2>9. \A i \in 1 .. Len(handled'[s]) : sent[s][i] = handled'[s][i]
    <3>1. TAKE i \in 1 .. Len(handled'[s])
    <3>2. i \in 1 .. Len(handled[s]) \/ i = Len(handled[s]) + 1
      BY <2>4
    <3>3. QED
      BY <3>2, <2>4, <2>8
  <2>10. \A q \in Sources : \A i \in 1 .. Len(handled'[q]) : sent'[q][i] = handled'[q][i]
    BY <2>1, <2>2, <2>3, <2>9 DEF HistoryInv
  <2>11. QED
    BY <2>6, <2>7, <2>10 DEF HistoryInv
<1>19. CASE askMore
  BY <1>19, TypeParts DEF HistoryInv, Gone, Reading, ReadAt, ReaderSet, askMore, couldPop,
     Outside, ringVars
<1>20. CASE tryRead
  BY <1>20, TypeParts DEF HistoryInv, Gone, Reading, ReadAt, ReaderSet, tryRead, ringVars
<1>21. CASE askAgain
  <2> QED BY <1>21, HistoryFrame DEF askAgain, ReadAt, Outside, couldPop, ringVars
<1>22. QED
  BY SinkSteps, <1>1, <1>2, <1>3, <1>4, <1>5, <1>6, <1>7, <1>8, <1>9, <1>10, <1>11, <1>12,
     <1>13, <1>14, <1>15, <1>16, <1>17, <1>18, <1>19, <1>20, <1>21

\* The slots hold the messages sent last.
LEMMA SlotStep ==
    ASSUME TypeOK, UseInv, LockInv, HistoryInv, SlotInv, Next, ~RemovalTurn
    PROVE  SlotInv'
<1>1. CASE UNCHANGED <<sinkVars, call>>
  BY <1>1 DEF SlotInv, Gone, Reading, ReadAt, At, sinkVars, ringVars
<1>2. ASSUME NEW c \in Clients, clientPush(c)
      PROVE  SlotInv'
  <2>1. \A e \in Clients : call'[e] = call[e] \/ call'[e].pc # "advance"
    BY <1>2, TypeParts DEF CallSet, clientPush, push, At, Idle, ringVars
  <2>2. QED
    BY <1>2, <2>1, SlotFrame DEF clientPush, push, At, Idle, ringVars
<1>3. ASSUME NEW c \in Clients, removeSourceSync(c)
      PROVE  SlotInv'
  <2>1. \A e \in Clients : call'[e] = call[e] \/ call'[e].pc # "advance"
    BY <1>3, TypeParts DEF CallSet, removeSourceSync, At, sinkVars, ringVars
  <2>2. QED
    BY <1>3, <2>1, SlotFrame DEF removeSourceSync, At, sinkVars, ringVars
<1>4. ASSUME NEW c \in Clients, runInMessageLoopThread(c)
      PROVE  SlotInv'
  <2>1. \A e \in Clients : call'[e] = call[e] \/ call'[e].pc # "advance"
    BY <1>4, TypeParts DEF CallSet, runInMessageLoopThread, At, ringVars
  <2>2. QED
    BY <1>4, <2>1, SlotFrame DEF runInMessageLoopThread, At, ringVars
<1>5. ASSUME NEW c \in Clients, shutdown(c)
      PROVE  SlotInv'
  <2>1. \A e \in Clients : call'[e] = call[e] \/ call'[e].pc # "advance"
    BY <1>5, TypeParts DEF CallSet, shutdown, At, Goto, sinkVars, ringVars
  <2>2. QED
    BY <1>5, <2>1, SlotFrame DEF shutdown, At, Goto, sinkVars, ringVars
<1>6. ASSUME NEW c \in Clients, removed(c)
      PROVE  SlotInv'
  <2>1. \A e \in Clients : call'[e] = call[e] \/ call'[e].pc # "advance"
    BY <1>6, TypeParts DEF CallSet, removed, At, Idle, sinkVars, ringVars
  <2>2. QED
    BY <1>6, <2>1, SlotFrame DEF removed, At, Idle, sinkVars, ringVars
<1>7. ASSUME NEW c \in Clients, addShutdownSource(c)
      PROVE  SlotInv'
  <2>1. \A e \in Clients : call'[e] = call[e] \/ call'[e].pc # "advance"
    BY <1>7, TypeParts DEF CallSet, addShutdownSource, At, Goto, join, Idle, sinkVars,
       ringVars
  <2>2. QED
    BY <1>7, <2>1, SlotFrame DEF addShutdownSource, At, Goto, join, Idle, sinkVars, ringVars
<1>8. ASSUME NEW c \in Clients, join(c)
      PROVE  SlotInv'
  <2>1. \A e \in Clients : call'[e] = call[e] \/ call'[e].pc # "advance"
    BY <1>8, TypeParts DEF CallSet, join, At, Idle, sinkVars, ringVars
  <2>2. QED
    BY <1>8, <2>1, SlotFrame DEF join, At, Idle, sinkVars, ringVars
<1>9. ASSUME NEW c \in Clients, checkFull(c)
      PROVE  SlotInv'
  <2>1. \A e \in Clients : call'[e] = call[e] \/ call'[e].pc # "advance"
    BY <1>9, TypeParts DEF CallSet, checkFull, At, lockRing, Goto, store, advance, signal,
       Idle, ringVars
  <2>2. QED
    BY <1>9, <2>1, SlotFrame DEF checkFull, At, lockRing, Goto, store, advance, signal,
       Idle, ringVars
<1>10. ASSUME NEW c \in Clients, wait_on_address(c)
      PROVE  SlotInv'
  <2>1. \A e \in Clients : call'[e] = call[e] \/ call'[e].pc # "advance"
    BY <1>10, TypeParts DEF CallSet, wait_on_address, At, Goto, sinkVars, ringVars
  <2>2. QED
    BY <1>10, <2>1, SlotFrame DEF wait_on_address, At, Goto, sinkVars, ringVars
<1>11. ASSUME NEW c \in Clients, store(c)
      PROVE  SlotInv'
  <2>0. PICK s \in Sources : s = call[c].src
    BY <1>11 DEF store, At, UseInv, Pushing
  <2> DEFINE w == writePosition[s]
             m == call[c].msg
  <2>1. /\ m \in Messages /\ mutex[s] = c /\ w \in Positions
        /\ readPosition[s] \in Positions
    BY <1>11, <2>0, TypeParts DEF store, At, UseInv, Pushing, LockInv, Writing, RingType
  <2>2. /\ ring' = [ring EXCEPT ![s][w] = m]
        /\ call' = [call EXCEPT ![c].pc = "advance"]
        /\ UNCHANGED <<readPosition, writePosition, reader, sent, handled>>
    BY <1>11, <2>0 DEF store, Goto
  <2>3. \A q \in Sources : Gone(q)' = Gone(q) /\ (Reading(q, "advance")' <=> Reading(q, "advance"))
    BY <2>2 DEF Gone, Reading, ReadAt
  <2>4. /\ ring'[s][w] = m
        /\ \A p \in Positions : p # w => ring'[s][p] = ring[s][p]
        /\ \A q \in Sources \ {s} : ring'[q] = ring[q]
    <3> HIDE DEF w, m
    <3> QED BY <2>1, <2>2, TypeParts DEF RingType
  <2>5. ASSUME NEW q \in Sources, NEW i \in 1 .. Count(writePosition[q], readPosition[q])
        PROVE  ring'[q][SlotOf(readPosition[q], i)] = ring[q][SlotOf(readPosition[q], i)]
    <3>1. CASE q = s
      BY <2>1, <2>4, <3>1, CountSlots
    <3>2. CASE q # s
      BY <2>4, <3>2
    <3>3. QED
      BY <3>1, <3>2
  <2>6. ASSUME NEW e \in Clients, At(e, "advance")'
        PROVE  ring'[call'[e].src][writePosition'[call'[e].src]] = call'[e].msg
    <3>1. CASE e = c
      BY <2>0, <2>2, <2>4, <3>1, TypeParts DEF CallSet
    <3>2. CASE e # c
      <4>1. call'[e] = call[e] /\ At(e, "advance")
        BY <2>2, <2>6, <3>2, TypeParts DEF At, CallSet
      <4>2. call[e].src \in Sources /\ call[e].src # s
        BY <3>2, <4>1, <2>0, <2>1 DEF LockInv, UseInv, Pushing, Writing, At
      <4>3. QED
        BY <4>1, <4>2, <2>2, <2>4 DEF SlotInv
    <3>3. QED
      BY <3>1, <3>2
  <2>7. QED
    BY <2>2, <2>3, <2>5, <2>6 DEF SlotInv
<1>12. ASSUME NEW c \in Clients, advance(c)
      PROVE  SlotInv'
  <2>0. PICK s \in Sources : s = call[c].src
    BY <1>12 DEF advance, At, UseInv, Pushing
  <2> DEFINE w == writePosition[s]
             r == readPosition[s]
             m == call[c].msg
  <2>1. /\ m \in Messages /\ mutex[s] = c /\ next(w) # r
        /\ w \in Positions /\ r \in Positions /\ call[c].pc = "advance"
    BY <1>12, <2>0, TypeParts DEF advance, At, UseInv, Pushing, LockInv, Writing, RingType
  <2>2. /\ writePosition' = [writePosition EXCEPT ![s] = next(w)]
        /\ sent' = [sent EXCEPT ![s] = Append(sent[s], m)]
        /\ call' = [call EXCEPT ![c].pc = "signal"]
        /\ UNCHANGED <<ring, readPosition, reader, handled>>
    BY <1>12, <2>0 DEF advance, Goto
  <2>3. /\ sent[s] \in Seq(Messages) /\ handled[s] \in Seq(Messages)
        /\ sent'[s] = Append(sent[s], m) /\ writePosition'[s] = next(w)
        /\ \A q \in Sources \ {s} : sent'[q] = sent[q] /\ writePosition'[q] = writePosition[q]
    BY <2>1, <2>2, TypeParts DEF RingType
  <2>4. Count(next(w), r) = Count(w, r) + 1 /\ SlotOf(r, Count(w, r) + 1) = w
    BY <2>1, CountWrite
  <2>5. Count(w, r) \in Nat /\ (w # r => Count(w, r) > 0)
    BY <2>1, CountSlots, MessageSinkAssumption
  <2>6. /\ Len(handled[s]) \in Nat /\ Gone(s) \in Nat /\ Len(handled[s]) <= Gone(s)
        /\ Reading(s, "wake") => Len(handled[s]) < Gone(s)
        /\ \A q \in Sources : Gone(q)' = Gone(q) /\ (Reading(q, "advance")' <=> Reading(q, "advance"))
    <3>1. Len(handled[s]) \in Nat
      BY <2>3
    <3>2. \A q \in Sources : Gone(q)' = Gone(q) /\ (Reading(q, "advance")' <=> Reading(q, "advance"))
      BY <2>2 DEF Gone, Reading, ReadAt
    <3>3. /\ Gone(s) \in Nat /\ Len(handled[s]) <= Gone(s)
          /\ Reading(s, "wake") => Len(handled[s]) < Gone(s)
      BY <3>1, GoneBounds
    <3>4. QED
      BY <3>1, <3>2, <3>3
  <2>7. Len(sent[s]) = Gone(s) + Count(w, r)
    BY <2>1 DEF HistoryInv
  <2>8. /\ Len(sent'[s]) = Len(sent[s]) + 1 /\ sent'[s][Len(sent[s]) + 1] = m
        /\ \A i \in 1 .. Len(sent[s]) : sent'[s][i] = sent[s][i]
    BY <2>1, <2>3
  <2> HIDE DEF w, r, m
  <2>9. ASSUME NEW q \in Sources,
               NEW i \in 1 .. Count(writePosition'[q], readPosition'[q]),
               i > 1 \/ ~Reading(q, "advance")'
        PROVE  ring'[q][SlotOf(readPosition'[q], i)] = sent'[q][Gone(q)' + i]
    <3>1. CASE q = s /\ i = Count(w, r) + 1
      <4>1. ring[s][w] = m
        BY <2>0, <2>1 DEF SlotInv, At, w, m
      <4>2. Gone(s) + i = Len(sent[s]) + 1
        BY <3>1, <2>5, <2>6, <2>7
      <4>3. QED
        BY <3>1, <4>1, <4>2, <2>2, <2>4, <2>6, <2>8 DEF r
    <3>2. CASE q = s /\ i # Count(w, r) + 1
      <4>1. i \in 1 .. Count(w, r)
        BY <3>2, <2>2, <2>3, <2>4, <2>5 DEF r
      <4>2. Gone(s) + i \in 1 .. Len(sent[s])
        BY <4>1, <2>5, <2>6, <2>7
      <4>3. ring[s][SlotOf(r, i)] = sent[s][Gone(s) + i]
        BY <2>1, <2>6, <2>9, <3>2, <4>1 DEF SlotInv, w, r
      <4>4. QED
        BY <3>2, <4>2, <4>3, <2>2, <2>6, <2>8 DEF r
    <3>3. CASE q # s
      BY <2>2, <2>3, <2>6, <2>9, <3>3 DEF SlotInv
    <3>4. QED
      BY <3>1, <3>2, <3>3
  <2>11. ASSUME NEW e \in Clients, At(e, "advance")'
         PROVE  ring'[call'[e].src][writePosition'[call'[e].src]] = call'[e].msg
    <3>1. e # c /\ call'[e] = call[e] /\ At(e, "advance")
      BY <2>2, <2>11, TypeParts DEF At, CallSet
    <3>2. call[e].src \in Sources /\ call[e].src # s
      BY <3>1, <2>0, <2>1 DEF LockInv, UseInv, Pushing, Writing, At
    <3>3. QED
      BY <3>1, <3>2, <2>2, <2>3 DEF SlotInv
  <2>12. QED
    BY <2>9, <2>11 DEF SlotInv
<1>13. ASSUME NEW c \in Clients, signal(c)
      PROVE  SlotInv'
  <2>1. \A e \in Clients : call'[e] = call[e] \/ call'[e].pc # "advance"
    BY <1>13, TypeParts DEF CallSet, signal, At, Idle, ringVars
  <2>2. QED
    BY <1>13, <2>1, SlotFrame DEF signal, At, Idle, ringVars
<1>14. CASE handleEpollEvent
  <2>1. \A e \in Clients : call'[e] = call[e] \/ call'[e].pc # "advance"
    BY <1>14, TypeParts DEF CallSet, handleEpollEvent, ReadAt, processOne, ringVars
  <2>2. QED
    BY <1>14, <2>1, SlotFrame DEF handleEpollEvent, ReadAt, processOne, ringVars
<1>15. CASE visitSource
  <2>1. \A e \in Clients : call'[e] = call[e] \/ call'[e].pc # "advance"
    BY <1>15, TypeParts DEF CallSet, visitSource, ReadAt, processOne, ringVars
  <2>2. QED
    BY <1>15, <2>1, SlotFrame DEF visitSource, ReadAt, processOne, ringVars
<1>16. CASE tryPop
  <2>0. PICK s \in Sources : s = reader.src
    BY <1>16 DEF tryPop, ReadAt, UseInv
  <2> DEFINE p == readPosition[s]
  <2>1. reader.pc = "pop" /\ p \in Positions /\ writePosition[s] \in Positions
    BY <1>16, TypeParts DEF tryPop, ReadAt, RingType
  <2>2. UNCHANGED <<call, sent, handled, readPosition, writePosition>>
    BY <1>16 DEF tryPop
  <2>3. CASE couldPop(s)
    <3>1. /\ reader'.pc = "advance" /\ reader'.src = s
          /\ ring' = [ring EXCEPT ![s][p] = None]
      BY <1>16, <2>0, <2>3, TypeParts DEF tryPop, ReaderSet
    <3>2. /\ \A x \in Positions : x # p => ring'[s][x] = ring[s][x]
          /\ \A q \in Sources \ {s} : ring'[q] = ring[q]
      <4> HIDE DEF p
      <4> QED BY <2>1, <3>1, TypeParts DEF RingType
    <3>3. \A q \in Sources : Gone(q)' = Gone(q) /\ ~Reading(q, "advance")
      BY <2>1, <2>2, <3>1 DEF Gone, Reading, ReadAt
    <3>4. writePosition[s] # p
      BY <2>3 DEF couldPop
    <3>5. ASSUME NEW q \in Sources, NEW i \in 1 .. Count(writePosition[q], readPosition[q]),
                 i > 1 \/ ~Reading(q, "advance")'
          PROVE  ring'[q][SlotOf(readPosition[q], i)] = ring[q][SlotOf(readPosition[q], i)]
      <4>1. CASE q = s
        <5>1. i > 1
          BY <3>1, <3>5, <4>1 DEF Reading, ReadAt
        <5> DEFINE n == Count(writePosition[s], p)
        <5>2. n \in Nat /\ i \in 1 .. n
          BY <2>1, <4>1, CountSlots, MessageSinkAssumption
        <5>3. 1 \in 1 .. n
          BY <5>1, <5>2
        <5>4. SlotOf(p, 1) = p /\ SlotOf(p, i) # SlotOf(p, 1) /\ SlotOf(p, i) \in Positions
          BY <2>1, <3>4, <5>1, <5>2, <5>3, CountSlots
        <5>5. QED
          BY <4>1, <5>4, <3>2
      <4>2. CASE q # s
        BY <3>2, <4>2
      <4>3. QED
        BY <4>1, <4>2
    <3>6. ASSUME NEW e \in Clients, At(e, "advance")
          PROVE  ring'[call[e].src][writePosition[call[e].src]] = call[e].msg
      <4>1. call[e].src \in Sources
        BY <3>6 DEF UseInv, Pushing, At
      <4>2. CASE call[e].src = s
        BY <4>2, <3>2, <3>4, <3>6, <2>1 DEF SlotInv
      <4>3. CASE call[e].src # s
        BY <4>1, <4>3, <3>2, <3>6 DEF SlotInv
      <4>4. QED
        BY <4>2, <4>3
    <3>7. QED
      BY <2>2, <3>3, <3>5, <3>6 DEF SlotInv, At
  <2>4. CASE ~couldPop(s)
    BY <1>16, <2>0, <2>1, <2>2, <2>4, SlotFrame DEF tryPop, Outside
  <2>5. QED
    BY <2>3, <2>4
<1>17. CASE advanceRead
  <2>0. PICK s \in Sources : s = reader.src
    BY <1>17 DEF advanceRead, ReadAt, UseInv
  <2> DEFINE w == writePosition[s]
             r == readPosition[s]
  <2>1. /\ reader.pc = "advance" /\ w \in Positions /\ r \in Positions
        /\ w # r
    BY <1>17, <2>0, TypeParts DEF advanceRead, ReadAt, LockInv, couldPop, RingType
  <2>2. /\ readPosition' = [readPosition EXCEPT ![s] = next(r)]
        /\ UNCHANGED <<ring, writePosition, sent, handled, call>>
        /\ reader'.pc = "wake" /\ reader'.src = s /\ reader'.msg = reader.msg
    BY <1>17, <2>0, TypeParts DEF advanceRead, ReaderSet
  <2>3. /\ readPosition'[s] = next(r)
        /\ \A q \in Sources \ {s} : readPosition'[q] = readPosition[q]
    BY <2>1, <2>2, TypeParts DEF RingType
  <2>4. /\ Count(w, r) = Count(w, next(r)) + 1
        /\ \A i \in 1 .. Count(w, next(r)) : SlotOf(next(r), i) = SlotOf(r, i + 1)
    BY <2>1, CountRead
  <2>5. Count(w, next(r)) \in Nat
    BY <2>1, NextPosition, CountSlots, MessageSinkAssumption
  <2>6. Gone(s) = Len(handled[s]) /\ Gone(s) \in Nat /\ Gone(s)' = Gone(s) + 1
    BY <2>0, <2>1, <2>2, TypeParts DEF Gone, Reading, ReadAt, RingType
  <2>7. ASSUME NEW q \in Sources, NEW i \in 1 .. Count(writePosition'[q], readPosition'[q])
        PROVE  ring[q][SlotOf(readPosition'[q], i)] = sent[q][Gone(q)' + i]
    <3>1. CASE q = s
      <4>1. i \in 1 .. Count(w, next(r)) /\ i \in Int
        BY <3>1, <2>2, <2>3, <2>5
      <4>2. i + 1 \in 1 .. Count(w, r) /\ i + 1 > 1
        BY <4>1, <2>4, <2>5
      <4>3. ring[s][SlotOf(r, i + 1)] = sent[s][Gone(s) + (i + 1)]
        BY <2>1, <4>2 DEF SlotInv
      <4>4. Gone(s) + (i + 1) = Gone(s)' + i
        <5>1. \A x, y \in Int : x + (y + 1) = (x + 1) + y
          OBVIOUS
        <5>2. Gone(s) \in Int
          BY <2>6
        <5>3. QED
          BY <2>6, <4>1, <5>1, <5>2, Zenon
      <4>5. QED
        BY <3>1, <4>1, <4>3, <4>4, <2>3, <2>4
    <3>2. CASE q # s
      <4>1. Gone(q)' = Gone(q) /\ ~Reading(q, "advance")
        BY <2>0, <2>1, <2>2, <3>2 DEF Gone, Reading, ReadAt
      <4>2. QED
        BY <3>2, <4>1, <2>2, <2>3 DEF SlotInv
    <3>3. QED
      BY <3>1, <3>2
  <2>8. QED
    BY <2>2, <2>7 DEF SlotInv, At
<1>18. CASE wake_by_address
  <2>0. PICK s \in Sources : s = reader.src
    BY <1>18 DEF wake_by_address, ReadAt, UseInv
  <2> DEFINE m == reader.msg
  <2>1. reader.pc = "wake" /\ m # None /\ m \in Messages
    BY <1>18, <2>0, TypeParts DEF wake_by_address, ReadAt, UseInv, ReaderSet
  <2>2. /\ handled' = [handled EXCEPT ![s] = Append(handled[s], m)]
        /\ UNCHANGED <<ring, readPosition, writePosition, sent>>
        /\ reader'.pc = "more" /\ reader'.src = s
    BY <1>18, <2>0, TypeParts DEF wake_by_address, ReaderSet, ringVars
  <2>3. /\ handled'[s] = Append(handled[s], m)
        /\ \A q \in Sources \ {s} : handled'[q] = handled[q]
        /\ handled[s] \in Seq(Messages)
    BY <2>1, <2>2, TypeParts DEF RingType
  <2>4. Len(handled'[s]) = Len(handled[s]) + 1 /\ Len(handled[s]) \in Nat
        /\ handled'[s][Len(handled[s]) + 1] = m
        /\ \A i \in 1 .. Len(handled[s]) : handled'[s][i] = handled[s][i]
    BY <2>1, <2>3
  <2>5. \A q \in Sources : Gone(q)' = Gone(q)
    <3>1. Gone(s)' = Gone(s)
      BY <2>0, <2>1, <2>2, <2>4 DEF Gone, Reading, ReadAt
    <3>2. \A q \in Sources \ {s} : Gone(q)' = Gone(q)
      BY <2>0, <2>1, <2>2, <2>3 DEF Gone, Reading, ReadAt
    <3>3. QED
      BY <3>1, <3>2
  <2>6. \A q \in Sources : ~Reading(q, "advance")' /\ ~Reading(q, "wake")'
    BY <2>2 DEF Reading, ReadAt
  <2>7. \A q \in Sources : ~Reading(q, "advance")
    BY <2>1 DEF Reading, ReadAt
  <2>8. \A e \in Clients : At(e, "advance")' =>
            At(e, "advance") /\ call'[e] = call[e]
    <3>1. ASSUME NEW e \in Clients, At(e, "advance")'
          PROVE  At(e, "advance") /\ call'[e] = call[e]
      <4>1. CASE At(e, "asleep") /\ call[e].src = s
        <5>1. call'[e] = [call[e] EXCEPT !.pc = "lock"]
          BY <1>18, <2>0, <4>1 DEF wake_by_address
        <5>2. QED
          BY <5>1, <3>1, TypeParts DEF At, CallSet
      <4>2. CASE ~(At(e, "asleep") /\ call[e].src = s)
        BY <1>18, <2>0, <3>1, <4>2 DEF wake_by_address, At
      <4>3. QED
        BY <4>1, <4>2
    <3>2. QED
      BY <3>1
  <2>9. QED
    BY <2>2, <2>5, <2>7, <2>8 DEF SlotInv
<1>19. CASE askMore
  BY <1>19, TypeParts DEF SlotInv, Gone, Reading, ReadAt, At, ReaderSet, askMore, couldPop,
     Outside, ringVars
<1>20. CASE tryRead
  BY <1>20, TypeParts DEF SlotInv, Gone, Reading, ReadAt, At, ReaderSet, tryRead, ringVars
<1>21. CASE askAgain
  <2>1. \A e \in Clients : call'[e] = call[e] \/ call'[e].pc # "advance"
    BY <1>21, TypeParts DEF CallSet, askAgain, ReadAt, Outside, couldPop, ringVars
  <2>2. QED
    BY <1>21, <2>1, SlotFrame DEF askAgain, ReadAt, Outside, couldPop, ringVars
<1>22. QED
  BY SinkSteps, <1>1, <1>2, <1>3, <1>4, <1>5, <1>6, <1>7, <1>8, <1>9, <1>10, <1>11, <1>12,
     <1>13, <1>14, <1>15, <1>16, <1>17, <1>18, <1>19, <1>20, <1>21

-----------------------------------------------------------------------------
(* The loop.                                                               *)

\* The reader goes on in processOne of the same source, or leaves it.
ReaderStays ==
    \/ UNCHANGED reader
    \/ ~ReadAt("outside") /\ (reader'.pc = "outside" \/ reader'.src = reader.src)

\* The steps of the clients and the loop that are not steps of a sink.
LEMMA LoopSteps ==
    ASSUME TypeOK, Next, ~RemovalTurn
    PROVE  \/ UNCHANGED loopVars /\ ReaderStays
           \/ \E c \in Clients :
                 \/ addSource(c) \/ removeSourceSync(c) \/ runInMessageLoopThread(c)
                 \/ shutdown(c) \/ removed(c) \/ addShutdownSource(c)
           \/ testShutdown \/ handleEvents \/ handleEpollEvent \/ startPass
           \/ takeActions \/ processAddSource \/ processRemoveSource \/ processRunAction
           \/ actionsDone \/ visitSource \/ visited \/ endPass
<1>1. ASSUME NEW c \in Clients, clientPush(c) \/ join(c) \/ (Write(c) /\ UNCHANGED loopVars)
      PROVE  UNCHANGED loopVars /\ ReaderStays
  BY <1>1 DEF clientPush, push, join, Write, checkFull, wait_on_address, store, advance, signal,
     sinkVars, ReaderStays
<1>2. CASE Read /\ UNCHANGED loopVars
  <2>1. ReaderStays
    <3>1. CASE tryPop
      <4>1. CASE couldPop(reader.src)
        BY <3>1, <4>1, TypeParts DEF tryPop, ReadAt, ReaderSet, ReaderStays
      <4>2. CASE ~couldPop(reader.src)
        BY <3>1, <4>2 DEF tryPop, Outside, ReadAt, ReaderStays
      <4>3. QED
        BY <4>1, <4>2
    <3>a. CASE askMore
      BY <3>a, TypeParts DEF askMore, Outside, ReadAt, ReaderSet, ReaderStays
    <3>b. CASE askAgain
      BY <3>b DEF askAgain, Outside, ReadAt, ReaderStays
    <3>2. CASE advanceRead \/ wake_by_address \/ tryRead
      BY <3>2, TypeParts DEF advanceRead, wake_by_address, tryRead, ReadAt, ReaderSet,
         ReaderStays
    <3>3. QED
      BY <1>2, <3>1, <3>a, <3>b, <3>2 DEF Read
  <2>2. QED
    BY <1>2, <2>1
<1>3. QED
  BY <1>1, <1>2 DEF Next, RemovalTurn, Start, Continue, LoopStep

\* An action that is queued is signalled, or about to be taken.
LEMMA QueueStep ==
    ASSUME TypeOK, QueueInv, Next, ~RemovalTurn
    PROVE  QueueInv'
<1>1. CASE UNCHANGED loopVars /\ ReaderStays
  BY <1>1 DEF QueueInv, ReaderStays, loopVars, queueVars, sourceVars, workVars
<1>2. ASSUME NEW c \in Clients, addSource(c)
      PROVE  QueueInv'
  BY <1>2, TypeParts DEF QueueInv, LoopType, addSource, Makes, At, push_back, sinkVars,
     workVars
<1>3. ASSUME NEW c \in Clients, removeSourceSync(c)
      PROVE  QueueInv'
  BY <1>3, TypeParts DEF QueueInv, LoopType, removeSourceSync, Makes, At, removeSource,
     queueVars, push_back, sinkVars, workVars
<1>4. ASSUME NEW c \in Clients, runInMessageLoopThread(c)
      PROVE  QueueInv'
  BY <1>4, TypeParts DEF QueueInv, LoopType, runInMessageLoopThread, Makes, At, push_back,
     UNCHANGED_loop, sourceVars, workVars
<1>5. ASSUME NEW c \in Clients, shutdown(c)
      PROVE  QueueInv'
  BY <1>5, TypeParts DEF QueueInv, shutdown, Makes, At, sinkVars, queueVars, sourceVars,
     workVars
<1>6. ASSUME NEW c \in Clients, removed(c)
      PROVE  QueueInv'
  BY <1>6, TypeParts DEF QueueInv, removed, At, Idle, sinkVars, queueVars, workVars
<1>7. ASSUME NEW c \in Clients, addShutdownSource(c)
      PROVE  QueueInv'
  BY <1>7, TypeParts DEF QueueInv, LoopType, addShutdownSource, At, push_back, join, Idle,
     sinkVars, loopVars, queueVars, sourceVars, workVars, UNCHANGED_loop
<1>8. CASE testShutdown
  BY <1>8, TypeParts DEF QueueInv, testShutdown, LoopTo, sinkVars, queueVars, sourceVars,
     workVars
<1>9. CASE handleEvents
  BY <1>9, TypeParts DEF QueueInv, handleEvents, LoopTo, sinkVars, queueVars, sourceVars
<1>10. CASE handleEpollEvent
  BY <1>10, TypeParts DEF QueueInv, handleEpollEvent, ReadAt, drainQueue, LoopTo,
     processOne, queueVars, sourceVars
<1>11. CASE startPass
  BY <1>11, TypeParts DEF QueueInv, startPass, ReadAt, LoopTo, queueVars, drainQueue,
     sinkVars, sourceVars
<1>12. CASE takeActions
  BY <1>12, TypeParts DEF QueueInv, takeActions, pop_front, LoopTo, sinkVars, sourceVars
<1>13. CASE processAddSource
  BY <1>13, TypeParts DEF QueueInv, processAddSource, Processing, sinkVars, queueVars
<1>14. CASE processRemoveSource
  BY <1>14, TypeParts DEF QueueInv, processRemoveSource, Processing, sinkVars, queueVars
<1>15. CASE processRunAction
  BY <1>15, TypeParts DEF QueueInv, processRunAction, Processing, sinkVars, queueVars
<1>16. CASE actionsDone
  BY <1>16, TypeParts DEF QueueInv, actionsDone, LoopTo, sinkVars, queueVars, sourceVars
<1>17. CASE visitSource
  BY <1>17, TypeParts DEF QueueInv, visitSource, ReadAt, processOne, LoopTo, queueVars,
     sourceVars
<1>18. CASE visited
  BY <1>18, TypeParts DEF QueueInv, visited, ReadAt, LoopTo, sinkVars, queueVars, sourceVars
<1>19. CASE endPass
  BY <1>19, TypeParts DEF QueueInv, endPass, LoopTo, sinkVars, queueVars, sourceVars,
     workVars
<1>20. QED
  BY LoopSteps, <1>1, <1>2, <1>3, <1>4, <1>5, <1>6, <1>7, <1>8, <1>9, <1>10, <1>11, <1>12,
     <1>13, <1>14, <1>15, <1>16, <1>17, <1>18, <1>19

\* The actions are queued at the end and taken from the front.
LEMMA TodoTypes ==
    ASSUME TypeOK
    PROVE  Todo \in Seq(ActionSet)
  BY TypeParts DEF LoopType, Todo

\* push_back puts its action after all those that wait.
LEMMA TodoPush ==
    ASSUME TypeOK, NEW a \in ActionSet, push_back(a), UNCHANGED actions
    PROVE  /\ Todo' = Append(Todo, a) /\ Todo' \in Seq(ActionSet)
           /\ Range(Todo') = Range(Todo) \cup {a}
           /\ Len(Todo') = Len(Todo) + 1 /\ Todo'[Len(Todo) + 1] = a
           /\ \A i \in 1 .. Len(Todo) : Todo'[i] = Todo[i]
<1>1. actions \in Seq(ActionSet) /\ queue \in Seq(ActionSet)
  BY TypeParts DEF LoopType
<1>2. Todo' = actions \o Append(queue, a)
  BY DEF Todo, push_back
<1>3. actions \o Append(queue, a) = Append(actions \o queue, a)
  BY <1>1
<1>4. Todo' = Append(Todo, a) /\ Todo \in Seq(ActionSet)
  BY <1>2, <1>3, TodoTypes DEF Todo
<1>5. QED
  <2> HIDE DEF Todo
  <2>1. Range(Append(Todo, a)) = Range(Todo) \cup {a}
    BY <1>4, AppendRange
  <2>2. QED
    BY <1>4, <2>1

\* Taking the queue moves the actions and changes neither which there are nor their order.
LEMMA TodoTake ==
    ASSUME TypeOK, LoopInv, takeActions
    PROVE  Todo' = Todo
<1>1. queue \in Seq(ActionSet) /\ actions = <<>>
  BY TypeParts DEF LoopType, LoopInv, takeActions
<1>2. actions' = queue /\ queue' = <<>>
  BY DEF takeActions, pop_front
<1>3. queue \o <<>> = queue /\ <<>> \o queue = queue
  BY <1>1, ConcatEmptySeq
<1>4. QED
  BY <1>1, <1>2, <1>3 DEF Todo

\* Processing an action is processing the oldest that waits.
LEMMA TodoProcess ==
    ASSUME TypeOK, NEW what, Processing(what)
    PROVE  /\ Todo # <<>> /\ Todo' = Tail(Todo) /\ Head(actions) = Head(Todo)
           /\ Head(Todo) \in ActionSet /\ Head(Todo).what = what
           /\ Range(Todo) = Range(Todo') \cup {Head(Todo)}
           /\ Todo' \in Seq(ActionSet) /\ Len(Todo') = Len(Todo) - 1
           /\ Todo[1] = Head(Todo)
           /\ \A i \in 1 .. Len(Todo') : Todo'[i] = Todo[i + 1]
<1>1. actions \in Seq(ActionSet) /\ queue \in Seq(ActionSet) /\ actions # <<>>
  BY TypeParts DEF LoopType, Processing
<1>2. actions' = Tail(actions) /\ queue' = queue /\ Head(actions).what = what
  BY DEF Processing, queueVars
<1>3. Todo \in Seq(ActionSet) /\ Todo # <<>> /\ Head(Todo) = Head(actions)
  BY <1>1 DEF Todo
<1>4. Tail(actions) \o queue = Tail(actions \o queue)
  <2>1. /\ Tail(actions) \o queue \in Seq(ActionSet) /\ Tail(actions \o queue) \in Seq(ActionSet)
        /\ Len(Tail(actions) \o queue) = Len(actions) + Len(queue) - 1
        /\ Len(Tail(actions \o queue)) = Len(actions) + Len(queue) - 1
    BY <1>1
  <2>2. \A i \in 1 .. (Len(actions) + Len(queue) - 1) :
            (Tail(actions) \o queue)[i] = Tail(actions \o queue)[i]
    BY <1>1
  <2>3. QED
    BY <2>1, <2>2, SeqEqual
<1>5. Todo' = Tail(Todo)
  BY <1>2, <1>4 DEF Todo
<1> HIDE DEF Todo
<1>6. Range(Todo) = Range(Tail(Todo)) \cup {Head(Todo)}
  BY <1>3, TailRange
<1>7. QED
  BY <1>2, <1>3, <1>5, <1>6

\* An action of a source that is first is nowhere else, and nothing of the source is
\* to be done before it.
LEMMA TodoFirst ==
    ASSUME TypeOK, TodoInv, NEW what, Processing(what), NEW s \in Sources, Head(actions).src = s
    PROVE  /\ Head(Todo) = Action(what, s)
           /\ Action(what, s) \notin Range(Todo')
           /\ what = "remove" => Action("add", s) \notin Range(Todo)
           /\ \A a : a \in Range(Todo') <=> a \in Range(Todo) /\ a # Action(what, s)
<1>1. /\ Todo # <<>> /\ Head(actions) = Head(Todo) /\ Head(Todo) \in ActionSet
      /\ Head(Todo).what = what /\ Todo[1] = Head(Todo) /\ Len(Todo') = Len(Todo) - 1
      /\ \A i \in 1 .. Len(Todo') : Todo'[i] = Todo[i + 1]
      /\ Todo' \in Seq(ActionSet) /\ Todo \in Seq(ActionSet)
      /\ Range(Todo) = Range(Todo') \cup {Head(Todo)}
  BY TodoProcess, TodoTypes
<1>2. Head(Todo) = Action(what, s)
  BY <1>1, ActionTypes
<1> DEFINE T == Todo
           n == Len(Todo)
           U == Todo'
<1>3. n \in Nat /\ 1 \in DOMAIN T /\ DOMAIN T = 1 .. n /\ DOMAIN U = 1 .. (n - 1)
  BY <1>1 DEF Todo
<1>4. T[1] = Action(what, s) /\ T[1].src = s /\ T[1].what = what
  BY <1>1, <1>2 DEF Action
<1>5. Action(what, s) \notin Range(U)
  <2>1. SUFFICES ASSUME NEW i \in DOMAIN U, U[i] = Action(what, s)
                 PROVE  FALSE
    BY DEF Range
  <2>2. i + 1 \in DOMAIN T /\ T[i + 1] = T[1] /\ i + 1 # 1
    BY <1>1, <1>3, <1>4, <2>1
  <2>3. QED
    BY <1>3, <1>4, <2>2 DEF TodoInv
<1>6. what = "remove" => Action("add", s) \notin Range(T)
  <2>1. SUFFICES ASSUME what = "remove", NEW i \in DOMAIN T, T[i] = Action("add", s)
                 PROVE  FALSE
    BY DEF Range
  <2>2. T[i].src = s /\ T[i].what = "add"
    BY <2>1 DEF Action
  <2>3. i < 1
    BY <1>3, <1>4, <2>1, <2>2 DEF TodoInv
  <2>4. QED
    BY <1>3, <2>3
<1>7. QED
  BY <1>1, <1>2, <1>5, <1>6

\* A removal finds its source: it was added before, by an action before this one.
LEMMA RemovalFinds ==
    ASSUME TypeOK, ListInv, TodoInv, processRemoveSource
    PROVE  LET s == Head(actions).src IN
           /\ s \in Sources
           /\ sources' = RemoveFirst(sources, s) /\ registered' = registered \ {s}
           /\ connectionState_' = [connectionState_ EXCEPT ![s] = FALSE]
           /\ waking' = s /\ loop' = loop
<1>1. Processing("remove")
  BY DEF processRemoveSource
<1>2. PICK q \in Sources : q = Head(actions).src
  BY <1>1, TodoProcess, ActionTypes
<1>3. Action("remove", q) \in Range(Todo) /\ Action("add", q) \notin Range(Todo)
  BY <1>1, <1>2, TodoFirst, TodoProcess
<1>4. q \in Range(sources)
  BY <1>2, <1>3 DEF TodoInv, ListInv
<1>5. QED
  BY <1>2, <1>4 DEF processRemoveSource

\* Where the loop's thread is.
LEMMA LoopInvStep ==
    ASSUME TypeOK, LoopInv, ListInv, TodoInv, Next, ~RemovalTurn
    PROVE  LoopInv'
<1>1. CASE UNCHANGED loopVars /\ ReaderStays
  BY <1>1 DEF LoopInv, ReadAt, ReaderStays, loopVars, queueVars, sourceVars, workVars
<1>2. ASSUME NEW c \in Clients, addSource(c)
      PROVE  LoopInv'
  BY <1>2 DEF LoopInv, ReadAt, sinkVars, addSource, Makes, At, push_back, workVars
<1>3. ASSUME NEW c \in Clients, removeSourceSync(c)
      PROVE  LoopInv'
  BY <1>3 DEF LoopInv, ReadAt, sinkVars, removeSourceSync, Makes, At, removeSource,
     queueVars, push_back, workVars
<1>4. ASSUME NEW c \in Clients, runInMessageLoopThread(c)
      PROVE  LoopInv'
  BY <1>4 DEF LoopInv, ReadAt, runInMessageLoopThread, Makes, At, push_back, UNCHANGED_loop,
     sourceVars, workVars
<1>5. ASSUME NEW c \in Clients, shutdown(c)
      PROVE  LoopInv'
  BY <1>5 DEF LoopInv, ReadAt, sinkVars, shutdown, Makes, At, queueVars, sourceVars,
     workVars
<1>6. ASSUME NEW c \in Clients, removed(c)
      PROVE  LoopInv'
  BY <1>6 DEF LoopInv, ReadAt, sinkVars, removed, At, Idle, queueVars, workVars
<1>7. ASSUME NEW c \in Clients, addShutdownSource(c)
      PROVE  LoopInv'
  BY <1>7 DEF LoopInv, ReadAt, sinkVars, addShutdownSource, At, push_back, join, Idle,
     loopVars, queueVars, sourceVars, workVars, UNCHANGED_loop
<1>8. CASE testShutdown
  BY <1>8 DEF LoopInv, ReadAt, sinkVars, testShutdown, LoopTo, queueVars, sourceVars,
     workVars
<1>9. CASE handleEvents
  BY <1>9 DEF LoopInv, ReadAt, sinkVars, handleEvents, LoopTo, queueVars, sourceVars
<1>10. CASE handleEpollEvent
  BY <1>10 DEF LoopInv, ReadAt, handleEpollEvent, drainQueue, LoopTo, processOne, queueVars,
     sourceVars
<1>11. CASE startPass
  BY <1>11 DEF LoopInv, ReadAt, sinkVars, startPass, LoopTo, queueVars, drainQueue,
     sourceVars
<1>12. CASE takeActions
  BY <1>12 DEF LoopInv, ReadAt, sinkVars, takeActions, pop_front, LoopTo, sourceVars
<1>13. CASE processAddSource
  <2> DEFINE s == Head(actions).src
  <2>1. registered' = registered \/ registered' = registered \cup {s}
    BY <1>13 DEF processAddSource
  <2>2. IsFiniteSet(registered \cup {s})
    BY FS_AddElement DEF LoopInv
  <2>3. IsFiniteSet(registered')
    BY <2>1, <2>2 DEF LoopInv
  <2>4. QED
    BY <1>13, <2>3 DEF LoopInv, ReadAt, processAddSource, Processing, sinkVars
<1>14. CASE processRemoveSource
  <2>1. registered' = registered \ {Head(actions).src} /\ UNCHANGED <<loop, reader>>
    BY <1>14, RemovalFinds DEF processRemoveSource, Processing, sinkVars
  <2>2. IsFiniteSet(registered')
    BY <2>1, FS_Difference DEF LoopInv
  <2>3. QED
    BY <1>14, <2>1, <2>2 DEF LoopInv, ReadAt, processRemoveSource, Processing
<1>15. CASE processRunAction
  BY <1>15 DEF LoopInv, ReadAt, sinkVars, processRunAction, Processing, queueVars
<1>16. CASE actionsDone
  BY <1>16 DEF LoopInv, ReadAt, sinkVars, actionsDone, LoopTo, queueVars, sourceVars
<1>17. CASE visitSource
  BY <1>17 DEF LoopInv, ReadAt, visitSource, processOne, LoopTo, queueVars, sourceVars
<1>18. CASE visited
  BY <1>18 DEF LoopInv, ReadAt, sinkVars, visited, LoopTo, queueVars, sourceVars
<1>19. CASE endPass
  BY <1>19 DEF LoopInv, ReadAt, sinkVars, endPass, LoopTo, queueVars, sourceVars, workVars
<1>20. QED
  BY LoopSteps, <1>1, <1>2, <1>3, <1>4, <1>5, <1>6, <1>7, <1>8, <1>9, <1>10, <1>11, <1>12,
     <1>13, <1>14, <1>15, <1>16, <1>17, <1>18, <1>19

\* The list of sources, the epoll set and the states of the sources agree.
LEMMA ListStep ==
    ASSUME TypeOK, UseInv, LoopInv, ListInv, TodoInv, Next, ~RemovalTurn
    PROVE  ListInv'
<1>1. CASE UNCHANGED loopVars /\ ReaderStays
  BY <1>1 DEF ListInv, ReadAt, ReaderStays, loopVars, queueVars, sourceVars, workVars
<1>2. ASSUME NEW c \in Clients, addSource(c)
      PROVE  ListInv'
  BY <1>2, TypeParts DEF ListInv, ReadAt, addSource, Makes, At, push_back, sinkVars,
     workVars
<1>3. ASSUME NEW c \in Clients, removeSourceSync(c)
      PROVE  ListInv'
  BY <1>3, TypeParts DEF ListInv, ReadAt, removeSourceSync, Makes, At, removeSource,
     queueVars, push_back, sinkVars, workVars
<1>4. ASSUME NEW c \in Clients, runInMessageLoopThread(c)
      PROVE  ListInv'
  BY <1>4, TypeParts DEF ListInv, ReadAt, runInMessageLoopThread, Makes, At, push_back,
     UNCHANGED_loop, sourceVars, workVars
<1>5. ASSUME NEW c \in Clients, shutdown(c)
      PROVE  ListInv'
  BY <1>5, TypeParts DEF ListInv, ReadAt, shutdown, Makes, At, sinkVars, queueVars,
     sourceVars, workVars
<1>6. ASSUME NEW c \in Clients, removed(c)
      PROVE  ListInv'
  BY <1>6, TypeParts DEF ListInv, ReadAt, removed, At, Idle, sinkVars, queueVars, workVars
<1>7. ASSUME NEW c \in Clients, addShutdownSource(c)
      PROVE  ListInv'
  BY <1>7, TypeParts DEF ListInv, ReadAt, addShutdownSource, At, push_back, join, Idle,
     sinkVars, loopVars, queueVars, sourceVars, workVars, UNCHANGED_loop
<1>8. CASE testShutdown
  BY <1>8, TypeParts DEF ListInv, ReadAt, testShutdown, LoopTo, sinkVars, queueVars,
     sourceVars, workVars
<1>9. CASE handleEvents
  BY <1>9, TypeParts DEF ListInv, ReadAt, handleEvents, LoopTo, sinkVars, queueVars,
     sourceVars
<1>10. CASE handleEpollEvent
  BY <1>10, TypeParts DEF ListInv, ReadAt, handleEpollEvent, drainQueue, LoopTo, processOne,
     queueVars, sourceVars
<1>11. CASE startPass
  BY <1>11, TypeParts DEF ListInv, ReadAt, startPass, LoopTo, queueVars, drainQueue,
     sinkVars, sourceVars
<1>12. CASE takeActions
  BY <1>12, TypeParts DEF ListInv, ReadAt, takeActions, pop_front, LoopTo, sinkVars,
     sourceVars
<1>13. CASE processAddSource
  <2> DEFINE s == Head(actions).src
  <2>1. /\ loop \in {"eventAction", "passAction"} /\ UNCHANGED <<loop, visits, reader>>
        /\ Processing("add")
    BY <1>13 DEF processAddSource, Processing, sinkVars
  <2>2. CASE s = "_shutdown"
    BY <1>13, <2>1, <2>2 DEF processAddSource, ListInv, ReadAt
  <2>3. CASE s # "_shutdown"
    <3>1. s \in Sources
      BY <2>1, <2>3, TodoProcess, ActionTypes
    <3>2. s \notin registered
      BY <2>1, <3>1, TodoFirst, TodoProcess DEF TodoInv
    <3>3. /\ sources' = Append(sources, s) /\ registered' = registered \cup {s}
          /\ connectionState_' = [connectionState_ EXCEPT ![s] = TRUE]
      BY <1>13, <2>3 DEF processAddSource
    <3> HIDE DEF s
    <3>4. IsInjective(sources') /\ registered' = Range(sources')
      BY <3>1, <3>2, <3>3, TypeParts, AppendRange DEF ListInv, LoopType
    <3>5. \A q \in Sources : connectionState_'[q] <=> q \in registered'
      BY <3>1, <3>3, TypeParts DEF ListInv, LoopType
    <3>6. QED
      BY <2>1, <3>4, <3>5 DEF ListInv
  <2>4. QED
    BY <2>2, <2>3
<1>14. CASE processRemoveSource
  <2> DEFINE s == Head(actions).src
  <2>1. /\ loop \in {"eventAction", "passAction"} /\ UNCHANGED <<loop, visits, reader>>
        /\ Processing("remove")
    BY <1>14, RemovalFinds DEF processRemoveSource, Processing, sinkVars
  <2>2. s \in Sources
    BY <2>1, TodoProcess, ActionTypes
  <2>3. /\ sources' = RemoveFirst(sources, s) /\ registered' = registered \ {s}
        /\ connectionState_' = [connectionState_ EXCEPT ![s] = FALSE]
    BY <1>14, RemovalFinds
  <2> HIDE DEF s
  <2>4. IsInjective(sources') /\ registered' = Range(sources')
    BY <2>3, TypeParts, RemoveFirstRange DEF ListInv, LoopType
  <2>5. \A q \in Sources : connectionState_'[q] <=> q \in registered'
    BY <2>2, <2>3, TypeParts DEF ListInv, LoopType
  <2>6. QED
    BY <2>1, <2>4, <2>5 DEF ListInv
<1>15. CASE processRunAction
  BY <1>15, TypeParts DEF ListInv, ReadAt, processRunAction, Processing, sinkVars, queueVars
<1>16. CASE actionsDone
  BY <1>16, TypeParts DEF ListInv, ReadAt, actionsDone, LoopTo, sinkVars, queueVars,
     sourceVars
<1>17. CASE visitSource
  <2>1. visits \in Seq(Sources) /\ visits # <<>> /\ visits' = Tail(visits)
    BY <1>17, TypeParts DEF visitSource, LoopType
  <2>2. Head(visits) \in Range(visits) /\ Range(visits') \subseteq Range(visits)
    BY <2>1, TailRange
  <2>3. Range(visits) \subseteq registered /\ UNCHANGED <<sources, registered, connectionState_>>
    BY <1>17 DEF visitSource, ListInv, sourceVars
  <2>4. reader'.src = Head(visits)
    BY <1>17 DEF visitSource, processOne
  <2>5. QED
    BY <2>2, <2>3, <2>4 DEF ListInv
<1>18. CASE visited
  BY <1>18, TypeParts DEF ListInv, ReadAt, visited, LoopTo, sinkVars, queueVars, sourceVars
<1>19. CASE endPass
  BY <1>19, TypeParts DEF ListInv, ReadAt, endPass, LoopTo, sinkVars, queueVars, sourceVars,
     workVars
<1>20. QED
  BY LoopSteps, <1>1, <1>2, <1>3, <1>4, <1>5, <1>6, <1>7, <1>8, <1>9, <1>10, <1>11, <1>12,
     <1>13, <1>14, <1>15, <1>16, <1>17, <1>18, <1>19

\* The order of the actions still to be processed, the first conjunct of TodoInv.
TodoOrder ==
    \A i, j \in DOMAIN Todo :
        /\ Todo[i] = Todo[j] /\ Todo[i].src \in Sources => i = j
        /\ Todo[i].src \in Sources /\ Todo[i].src = Todo[j].src
           /\ Todo[i].what = "add" /\ Todo[j].what = "remove" => i < j

\* An action is added at the end: not a second time, and a removal last.
LEMMA TodoPushed ==
    ASSUME TypeOK, TodoInv, NEW a \in ActionSet, push_back(a), UNCHANGED <<actions, registered>>,
           a.src \in Sources =>
             /\ a \notin Range(Todo)
             /\ a.what = "add" => /\ Action("remove", a.src) \notin Range(Todo)
                                  /\ a.src \notin registered
             /\ a.what = "remove" => \/ a.src \in registered
                                     \/ Action("add", a.src) \in Range(Todo)
    PROVE  TodoInv'
<1> DEFINE n == Len(Todo)
<1>1. /\ n \in Nat /\ DOMAIN Todo = 1 .. n /\ DOMAIN Todo' = 1 .. (n + 1)
      /\ Todo'[n + 1] = a /\ \A i \in 1 .. n : Todo'[i] = Todo[i]
      /\ \A i \in 1 .. n : Todo[i] \in ActionSet /\ Todo[i] \in Range(Todo)
      /\ Range(Todo') = Range(Todo) \cup {a}
  <2>1. Todo \in Seq(ActionSet) /\ Todo' \in Seq(ActionSet) /\ Len(Todo') = n + 1
    BY TodoPush, TodoTypes
  <2>2. QED
    <3> HIDE DEF Todo
    <3> QED BY <2>1, TodoPush DEF Range
<1>2. TodoOrder
  BY DEF TodoInv, TodoOrder
<1> HIDE DEF n
<1>3. ASSUME NEW i \in 1 .. (n + 1), NEW j \in 1 .. (n + 1)
      PROVE  /\ Todo'[i] = Todo'[j] /\ Todo'[i].src \in Sources => i = j
             /\ Todo'[i].src \in Sources /\ Todo'[i].src = Todo'[j].src
                /\ Todo'[i].what = "add" /\ Todo'[j].what = "remove" => i < j
  <2>1. CASE i # n + 1 /\ j # n + 1
    <3>1. i \in 1 .. n /\ j \in 1 .. n
      BY <1>1, <2>1
    <3>2. QED
      BY <1>1, <1>2, <3>1 DEF TodoOrder
  <2>2. CASE i = n + 1 /\ j # n + 1
    <3>1. j \in 1 .. n
      BY <1>1, <2>2
    <3>2. Todo'[i] = a /\ Todo'[j] = Todo[j] /\ Todo[j] \in Range(Todo) /\ Todo[j] \in ActionSet
      BY <1>1, <2>2, <3>1
    <3>3. Todo[j] = Action(Todo[j].what, Todo[j].src)
      BY <3>2, ActionTypes
    <3>4. QED
      BY <3>2, <3>3
  <2>3. CASE i # n + 1 /\ j = n + 1
    <3>1. i \in 1 .. n
      BY <1>1, <2>3
    <3>2. Todo'[j] = a /\ Todo'[i] = Todo[i] /\ Todo[i] \in Range(Todo) /\ i < j
      BY <1>1, <2>3, <3>1
    <3>3. QED
      BY <3>2
  <2>4. CASE i = n + 1 /\ j = n + 1
    BY <1>1, <2>4
  <2>5. QED
    BY <2>1, <2>2, <2>3, <2>4
<1>4. TodoOrder'
  BY <1>1, <1>3 DEF TodoOrder
<1>5. ASSUME NEW s \in Sources
      PROVE  /\ Action("add", s) \in Range(Todo') => s \notin registered'
             /\ Action("remove", s) \in Range(Todo') =>
                   s \in registered' \/ Action("add", s) \in Range(Todo')
  BY <1>1 DEF TodoInv, Action
<1>6. QED
  BY <1>4, <1>5 DEF TodoInv, TodoOrder

\* The order stays when the first action is taken.
LEMMA TodoShift ==
    ASSUME TypeOK, TodoInv, NEW what, Processing(what)
    PROVE  TodoOrder'
<1> DEFINE n == Len(Todo')
<1>1. /\ n \in Nat /\ DOMAIN Todo' = 1 .. n /\ DOMAIN Todo = 1 .. (n + 1)
      /\ \A i \in 1 .. n : Todo'[i] = Todo[i + 1]
  <2>1. Todo \in Seq(ActionSet) /\ Todo' \in Seq(ActionSet) /\ Len(Todo') = Len(Todo) - 1
    BY TodoProcess, TodoTypes
  <2>2. \A i \in 1 .. n : Todo'[i] = Todo[i + 1]
    BY TodoProcess
  <2>3. QED
    <3> HIDE DEF Todo
    <3> QED BY <2>1, <2>2
<1>2. TodoOrder
  BY DEF TodoInv, TodoOrder
<1> HIDE DEF n
<1>3. ASSUME NEW i \in 1 .. n, NEW j \in 1 .. n
      PROVE  /\ Todo'[i] = Todo'[j] /\ Todo'[i].src \in Sources => i = j
             /\ Todo'[i].src \in Sources /\ Todo'[i].src = Todo'[j].src
                /\ Todo'[i].what = "add" /\ Todo'[j].what = "remove" => i < j
  <2>1. /\ i + 1 \in DOMAIN Todo /\ j + 1 \in DOMAIN Todo
        /\ Todo'[i] = Todo[i + 1] /\ Todo'[j] = Todo[j + 1]
    BY <1>1
  <2>2. /\ Todo'[i] = Todo'[j] /\ Todo'[i].src \in Sources => i + 1 = j + 1
        /\ Todo'[i].src \in Sources /\ Todo'[i].src = Todo'[j].src
           /\ Todo'[i].what = "add" /\ Todo'[j].what = "remove" => i + 1 < j + 1
    BY <1>2, <2>1 DEF TodoOrder
  <2>3. QED
    BY <1>1, <2>2
<1>4. QED
  BY <1>1, <1>3 DEF TodoOrder

\* An action that is not about a source is taken.
LEMMA TodoOther ==
    ASSUME TypeOK, TodoInv, NEW what, Processing(what), Head(actions).src \notin Sources,
           UNCHANGED registered
    PROVE  /\ TodoInv'
           /\ \A s \in Sources : \A w \in {"add", "remove"} :
                 Action(w, s) \in Range(Todo') <=> Action(w, s) \in Range(Todo)
<1>1. Range(Todo) = Range(Todo') \cup {Head(Todo)} /\ Head(Todo).src \notin Sources
  BY TodoProcess
<1>2. \A s \in Sources : \A w \in {"add", "remove"} :
         Action(w, s) \in Range(Todo') <=> Action(w, s) \in Range(Todo)
  BY <1>1 DEF Action
<1>3. TodoOrder'
  BY TodoShift
<1>4. QED
  BY <1>2, <1>3 DEF TodoInv, TodoOrder

\* A source is added and removed once, in this order.
LEMMA TodoStep ==
    ASSUME TypeOK, LoopInv, ListInv, TodoInv, LifeInv, Next, ~RemovalTurn
    PROVE  TodoInv'
<1>1. CASE UNCHANGED loopVars /\ ReaderStays
  BY <1>1 DEF TodoInv, Todo, loopVars, queueVars, sourceVars, workVars
<1>2. ASSUME NEW c \in Clients, addSource(c)
      PROVE  TodoInv'
  <2>1. PICK s \in Sources : life[s] = "new" /\ push_back(Action("add", s))
    BY <1>2 DEF addSource
  <2>2. UNCHANGED <<actions, registered>>
    BY <1>2 DEF addSource, workVars
  <2>3. Action("add", s) \notin Range(Todo) /\ Action("remove", s) \notin Range(Todo) /\ s \notin registered
    BY <2>1 DEF LifeInv
  <2>4. QED
    BY <2>1, <2>2, <2>3, ActionTypes, TodoPushed DEF Action
<1>3. ASSUME NEW c \in Clients, removeSourceSync(c)
      PROVE  TodoInv'
  <2>1. PICK s \in Sources : life[s] = "added" /\ removeSource(s)
    BY <1>3 DEF removeSourceSync
  <2>2. UNCHANGED <<actions, registered>>
    BY <1>3 DEF removeSourceSync, workVars
  <2>3. /\ Action("remove", s) \notin Range(Todo)
        /\ s \in registered \/ Action("add", s) \in Range(Todo)
    BY <2>1 DEF LifeInv
  <2>4. CASE shutdown_
    BY <2>1, <2>2, <2>4 DEF removeSource, queueVars, Todo, TodoInv
  <2>5. CASE ~shutdown_
    BY <2>1, <2>2, <2>3, <2>5, ActionTypes, TodoPushed DEF Action, removeSource
  <2>6. QED
    BY <2>4, <2>5
<1>4. ASSUME NEW c \in Clients, runInMessageLoopThread(c)
      PROVE  TodoInv'
  <2>1. push_back(Action("run", None)) /\ UNCHANGED <<actions, registered>>
    BY <1>4 DEF runInMessageLoopThread, UNCHANGED_loop, workVars, sourceVars
  <2>2. QED
    BY <2>1, ActionTypes, MessageSinkAssumption, TodoPushed DEF Action
<1>5. ASSUME NEW c \in Clients, shutdown(c)
      PROVE  TodoInv'
  BY <1>5 DEF TodoInv, Todo, shutdown, queueVars, sourceVars, workVars
<1>6. ASSUME NEW c \in Clients, removed(c)
      PROVE  TodoInv'
  BY <1>6 DEF TodoInv, Todo, removed, Idle, queueVars, workVars
<1>7. ASSUME NEW c \in Clients, addShutdownSource(c)
      PROVE  TodoInv'
  <2>1. push_back(Action("add", "_shutdown")) /\ UNCHANGED <<actions, registered>>
    BY <1>7 DEF addShutdownSource, UNCHANGED_loop, workVars, sourceVars
  <2>2. QED
    BY <2>1, ActionTypes, MessageLoopAssumption, TodoPushed DEF Action
<1>8. CASE testShutdown
  BY <1>8 DEF TodoInv, Todo, testShutdown, queueVars, sourceVars, workVars
<1>9. CASE handleEvents
  BY <1>9 DEF TodoInv, Todo, handleEvents, queueVars, sourceVars
<1>10. CASE handleEpollEvent
  BY <1>10 DEF TodoInv, Todo, handleEpollEvent, drainQueue, queueVars, sourceVars
<1>11. CASE startPass
  BY <1>11 DEF TodoInv, Todo, startPass, queueVars, drainQueue, sourceVars
<1>12. CASE takeActions
  <2>1. Todo' = Todo /\ registered' = registered
    BY <1>12, TodoTake DEF takeActions, sourceVars
  <2>2. QED
    BY <2>1 DEF TodoInv
<1>13. CASE processAddSource
  <2>1. Processing("add")
    BY <1>13 DEF processAddSource
  <2> DEFINE s == Head(actions).src
  <2>2. s \in Sources \cup {"_shutdown"}
    BY <2>1, TodoProcess, ActionTypes
  <2>3. CASE s \notin Sources
    <3>1. registered' = registered
      BY <1>13, <2>2, <2>3 DEF processAddSource
    <3>2. QED
      BY <2>1, <2>3, <3>1, TodoOther
  <2>4. CASE s \in Sources
    <3>1. PICK q \in Sources : q = s
      BY <2>4
    <3>2. registered' = registered \cup {q}
      BY <1>13, <3>1, MessageLoopAssumption DEF processAddSource
    <3>3. \A a : a \in Range(Todo') <=> a \in Range(Todo) /\ a # Action("add", q)
      BY <2>1, <3>1, TodoFirst
    <3>4. TodoOrder'
      BY <2>1, TodoShift
    <3>5. \A x \in Sources :
             /\ Action("remove", x) \in Range(Todo') <=> Action("remove", x) \in Range(Todo)
             /\ x # q => (Action("add", x) \in Range(Todo') <=> Action("add", x) \in Range(Todo))
             /\ Action("add", q) \notin Range(Todo')
      BY <3>3 DEF Action
    <3>6. ASSUME NEW x \in Sources
          PROVE  /\ Action("add", x) \in Range(Todo') => x \notin registered'
                 /\ Action("remove", x) \in Range(Todo') =>
                       x \in registered' \/ Action("add", x) \in Range(Todo')
      <4>1. CASE x = q
        BY <3>2, <3>5, <4>1
      <4>2. CASE x # q
        BY <3>2, <3>5, <4>2 DEF TodoInv
      <4>3. QED
        BY <4>1, <4>2
    <3>7. QED
      BY <3>4, <3>6 DEF TodoInv, TodoOrder
  <2>5. QED
    BY <2>3, <2>4
<1>14. CASE processRemoveSource
  <2>1. Processing("remove")
    BY <1>14 DEF processRemoveSource
  <2>2. PICK q \in Sources : q = Head(actions).src
    BY <2>1, TodoProcess, ActionTypes
  <2>3. registered' = registered \ {q}
    BY <1>14, <2>2, RemovalFinds
  <2>4. /\ \A a : a \in Range(Todo') <=> a \in Range(Todo) /\ a # Action("remove", q)
        /\ Action("add", q) \notin Range(Todo)
    BY <2>1, <2>2, TodoFirst
  <2>5. TodoOrder'
    BY <2>1, TodoShift
  <2>6. \A x \in Sources :
           /\ Action("add", x) \in Range(Todo') <=> Action("add", x) \in Range(Todo)
           /\ x # q => (Action("remove", x) \in Range(Todo') <=> Action("remove", x) \in Range(Todo))
           /\ Action("remove", q) \notin Range(Todo')
    BY <2>4 DEF Action
  <2>7. ASSUME NEW x \in Sources
        PROVE  /\ Action("add", x) \in Range(Todo') => x \notin registered'
               /\ Action("remove", x) \in Range(Todo') =>
                     x \in registered' \/ Action("add", x) \in Range(Todo')
    <3>1. CASE x = q
      BY <2>4, <2>6, <3>1
    <3>2. CASE x # q
      BY <2>3, <2>6, <3>2 DEF TodoInv
    <3>3. QED
      BY <3>1, <3>2
  <2>8. QED
    BY <2>5, <2>7 DEF TodoInv, TodoOrder
<1>15. CASE processRunAction
  <2>1. Processing("run")
    BY <1>15 DEF processRunAction
  <2>2. Head(actions).src \notin Sources
    BY <2>1, TodoProcess, ActionTypes
  <2>3. registered' = registered
    BY <1>15 DEF processRunAction
  <2>4. QED
    BY <2>1, <2>2, <2>3, TodoOther
<1>16. CASE actionsDone
  BY <1>16 DEF TodoInv, Todo, actionsDone, queueVars, sourceVars
<1>17. CASE visitSource
  BY <1>17 DEF TodoInv, Todo, visitSource, queueVars, sourceVars
<1>18. CASE visited
  BY <1>18 DEF TodoInv, Todo, visited, queueVars, sourceVars
<1>19. CASE endPass
  BY <1>19 DEF TodoInv, Todo, endPass, queueVars, sourceVars, workVars
<1>20. QED
  BY LoopSteps, <1>1, <1>2, <1>3, <1>4, <1>5, <1>6, <1>7, <1>8, <1>9, <1>10, <1>11, <1>12,
     <1>13, <1>14, <1>15, <1>16, <1>17, <1>18, <1>19

\* Only removeSourceSync lets a client wait for the removal of a source.
LEMMA RemovingStays ==
    ASSUME TypeOK, Next, ~RemovalTurn, UNCHANGED loopVars
    PROVE  \A e \in Clients : Removing(e)' => call'[e] = call[e]
<1>1. CASE UNCHANGED call
  BY <1>1
<1>2. CASE wake_by_address
  BY <1>2, TypeParts DEF wake_by_address, At, Removing, CallSet
<1>3. ASSUME NEW c \in Clients, clientPush(c) \/ join(c) \/ Write(c) \/ shutdown(c) \/ addShutdownSource(c)
      PROVE  \A e \in Clients : Removing(e)' => call'[e] = call[e]
  <2>1. CASE clientPush(c)
    BY <2>1, TypeParts DEF clientPush, push, At, Removing, CallSet, Idle
  <2>2. CASE checkFull(c)
    BY <2>2, TypeParts DEF checkFull, Goto, At, Removing, CallSet, Idle
  <2>3. CASE join(c) \/ signal(c)
    BY <2>3, TypeParts DEF join, signal, At, Removing, Idle
  <2>4. CASE wait_on_address(c) \/ store(c) \/ advance(c) \/ shutdown(c) \/ addShutdownSource(c)
    BY <2>4, TypeParts DEF wait_on_address, store, advance, shutdown, addShutdownSource,
       Goto, At, Removing,
       CallSet
  <2>5. QED
    BY <1>3, <2>1, <2>2, <2>3, <2>4 DEF Write
<1>4. ASSUME NEW c \in Clients, removed(c)
      PROVE  \A e \in Clients : Removing(e)' => call'[e] = call[e]
  BY <1>4, TypeParts DEF removed, At, Removing, Idle
<1>5. ASSUME NEW c \in Clients, removeSourceSync(c)
      PROVE  FALSE
  BY <1>5, TypeParts DEF removeSourceSync, loopVars, sourceVars, LoopType
<1>6. QED
  BY <1>1, <1>2, <1>3, <1>4, <1>5 DEF Next, RemovalTurn, Start, Continue, LoopStep, Read, addSource,
     runInMessageLoopThread, testShutdown, handleEvents, handleEpollEvent, startPass, takeActions,
     processAddSource, processRemoveSource, processRunAction, Processing, actionsDone, visitSource,
     visited, endPass, tryPop, advanceRead, askMore, tryRead, askAgain

\* What the owner of a source has been told agrees with what is still to be done.
LEMMA LifeStep ==
    ASSUME TypeOK, LoopInv, ListInv, TodoInv, LifeInv, Next, ~RemovalTurn
    PROVE  LifeInv'
<1>1. CASE UNCHANGED loopVars /\ ReaderStays
  <2>1. Todo' = Todo /\ UNCHANGED <<registered, life>>
    BY <1>1 DEF Todo, loopVars, queueVars, sourceVars, workVars
  <2>2. \A e \in Clients : Removing(e)' => call'[e] = call[e]
    BY <1>1, RemovingStays
  <2>3. QED
    BY <2>1, <2>2 DEF LifeInv, At, Removing
<1>2. ASSUME NEW c \in Clients, addSource(c)
      PROVE  LifeInv'
  <2>1. PICK s \in Sources : /\ life[s] = "new" /\ push_back(Action("add", s))
                             /\ life' = [life EXCEPT ![s] = "added"]
    BY <1>2 DEF addSource
  <2>2. UNCHANGED <<actions, registered, call>>
    BY <1>2 DEF addSource, workVars
  <2>3. Range(Todo') = Range(Todo) \cup {Action("add", s)}
    BY <2>1, <2>2, ActionTypes, TodoPush
  <2>4. \A x \in Sources :
           /\ Action("remove", x) \in Range(Todo') <=> Action("remove", x) \in Range(Todo)
           /\ x # s => (Action("add", x) \in Range(Todo') <=> Action("add", x) \in Range(Todo))
           /\ Action("add", s) \in Range(Todo')
    BY <2>3 DEF Action
  <2>5. life'[s] = "added" /\ \A x \in Sources : x # s => life'[x] = life[x]
    BY <2>1, TypeParts DEF LoopType
  <2>6. \A x \in Sources :
           /\ life'[x] \in {"new", "gone"} =>
                 x \notin registered' /\ Action("add", x) \notin Range(Todo')
           /\ life'[x] \in {"new", "added"} => Action("remove", x) \notin Range(Todo')
           /\ life'[x] = "added" => x \in registered' \/ Action("add", x) \in Range(Todo')
    BY <2>1, <2>2, <2>4, <2>5 DEF LifeInv
  <2>7. \A e \in Clients : Removing(e) => life'[call[e].src] = "leaving"
    BY <2>1, <2>5 DEF LifeInv
  <2>8. QED
    BY <2>2, <2>6, <2>7 DEF LifeInv, At, Removing
<1>3. ASSUME NEW c \in Clients, removeSourceSync(c)
      PROVE  LifeInv'
  <2>1. PICK s \in Sources : /\ life[s] = "added" /\ removeSource(s)
                             /\ \A e \in Clients : call[e].src # s
                             /\ life' = [life EXCEPT ![s] = "leaving"]
                             /\ call' = [call EXCEPT ![c].pc = "removing", ![c].src = s]
    BY <1>3 DEF removeSourceSync
  <2>2. UNCHANGED <<actions, registered>>
    BY <1>3 DEF removeSourceSync, workVars
  <2>3. \A x \in Sources :
            /\ Action("add", x) \in Range(Todo') <=> Action("add", x) \in Range(Todo)
            /\ x # s => (Action("remove", x) \in Range(Todo') <=> Action("remove", x) \in Range(Todo))
    <3>1. CASE shutdown_
      BY <2>1, <2>2, <3>1 DEF removeSource, queueVars, Todo
    <3>2. CASE ~shutdown_
      <4>1. Range(Todo') = Range(Todo) \cup {Action("remove", s)}
        BY <2>1, <2>2, <3>2, ActionTypes, TodoPush DEF removeSource
      <4>2. QED
        BY <4>1 DEF Action
    <3>3. QED
      BY <3>1, <3>2
  <2>4. life'[s] = "leaving" /\ \A x \in Sources : x # s => life'[x] = life[x]
    BY <2>1, TypeParts DEF LoopType
  <2>5. /\ call'[c].pc = "removing" /\ call'[c].src = s
        /\ \A e \in Clients : e # c => call'[e] = call[e]
    BY <2>1, TypeParts DEF CallSet
  <2>6. \A x \in Sources :
           /\ life'[x] \in {"new", "gone"} =>
                 x \notin registered' /\ Action("add", x) \notin Range(Todo')
           /\ life'[x] \in {"new", "added"} => Action("remove", x) \notin Range(Todo')
           /\ life'[x] = "added" => x \in registered' \/ Action("add", x) \in Range(Todo')
    BY <2>2, <2>3, <2>4 DEF LifeInv
  <2>7. \A e \in Clients : Removing(e)' =>
           /\ call'[e].src \in Sources
           /\ life'[call'[e].src] = "leaving"
           /\ \A f \in Clients : Removing(f)' /\ call'[f].src = call'[e].src => e = f
    <3>1. \A e \in Clients : Removing(e)' /\ e # c =>
              /\ Removing(e) /\ call'[e] = call[e] /\ call[e].src \in Sources
              /\ call[e].src # s /\ life'[call[e].src] = "leaving"
      BY <2>1, <2>4, <2>5 DEF LifeInv, At, Removing
    <3>2. QED
      BY <2>4, <2>5, <3>1 DEF LifeInv
  <2>8. QED
    BY <2>6, <2>7 DEF LifeInv
<1>4. ASSUME NEW c \in Clients, runInMessageLoopThread(c)
      PROVE  LifeInv'
  <2>1. push_back(Action("run", None)) /\ UNCHANGED <<actions, registered, life, call>>
    BY <1>4 DEF runInMessageLoopThread, UNCHANGED_loop, workVars, sourceVars
  <2>2. Range(Todo') = Range(Todo) \cup {Action("run", None)}
    BY <2>1, ActionTypes, TodoPush
  <2>3. \A x \in Sources : \A w \in {"add", "remove"} :
           Action(w, x) \in Range(Todo') <=> Action(w, x) \in Range(Todo)
    BY <2>2 DEF Action
  <2>4. QED
    BY <2>1, <2>3 DEF LifeInv, At, Removing
<1>5. ASSUME NEW c \in Clients, shutdown(c)
      PROVE  LifeInv'
  <2>1. call' = [call EXCEPT ![c].pc = "stop"] /\ UNCHANGED <<actions, queue, registered, life>>
    BY <1>5 DEF shutdown, queueVars, sourceVars, workVars, Goto
  <2>2. call'[c].pc = "stop" /\ \A e \in Clients : e # c => call'[e] = call[e]
    BY <2>1, TypeParts DEF CallSet
  <2>3. Todo' = Todo
    BY <2>1 DEF Todo
  <2>4. QED
    BY <2>1, <2>2, <2>3 DEF LifeInv, At, Removing
<1>6. ASSUME NEW c \in Clients, removed(c)
      PROVE  LifeInv'
  <2>1. PICK s \in Sources : s = call[c].src
    BY <1>6 DEF removed, LifeInv, At, Removing
  <2>2. /\ life[s] = "leaving" /\ ~connectionState_[s]
        /\ life' = [life EXCEPT ![s] = IF ToBeAdded(s) THEN "goneEarly" ELSE "gone"]
        /\ call' = [call EXCEPT ![c] = Idle]
        /\ UNCHANGED <<actions, queue, registered>>
    BY <1>6, <2>1 DEF removed, LifeInv, At, Removing, queueVars, workVars
  <2>3. Todo' = Todo
    BY <2>2 DEF Todo
  <2>4. ToBeAdded(s) <=> Action("add", s) \in Range(Todo)
    BY DEF ToBeAdded, Todo, Range
  <2>5. /\ life'[s] = IF ToBeAdded(s) THEN "goneEarly" ELSE "gone"
        /\ \A x \in Sources : x # s => life'[x] = life[x]
    BY <2>2, TypeParts DEF LoopType
  <2>6. call'[c].pc = "idle" /\ \A e \in Clients : e # c => call'[e] = call[e]
    BY <2>2, TypeParts DEF Idle
  <2>7. s \notin registered
    BY <2>2 DEF ListInv
  <2>8. \A x \in Sources :
           /\ life'[x] \in {"new", "gone"} =>
                 x \notin registered' /\ Action("add", x) \notin Range(Todo')
           /\ life'[x] \in {"new", "added"} => Action("remove", x) \notin Range(Todo')
           /\ life'[x] = "added" => x \in registered' \/ Action("add", x) \in Range(Todo')
    BY <2>2, <2>3, <2>4, <2>5, <2>7 DEF LifeInv
  <2>9. \A e \in Clients : Removing(e)' =>
           /\ call'[e].src \in Sources
           /\ life'[call'[e].src] = "leaving"
           /\ \A f \in Clients : Removing(f)' /\ call'[f].src = call'[e].src => e = f
    BY <1>6, <2>1, <2>5, <2>6 DEF LifeInv, At, Removing, removed
  <2>10. QED
    BY <2>8, <2>9 DEF LifeInv
<1>7. ASSUME NEW c \in Clients, addShutdownSource(c)
      PROVE  LifeInv'
  <2>1. /\ push_back(Action("add", "_shutdown")) /\ UNCHANGED <<actions, registered, life>>
        /\ call' = [call EXCEPT ![c].pc = "join"]
    BY <1>7 DEF addShutdownSource, UNCHANGED_loop, workVars, sourceVars, Goto
  <2>2. Range(Todo') = Range(Todo) \cup {Action("add", "_shutdown")}
    BY <2>1, ActionTypes, TodoPush
  <2>3. \A x \in Sources : \A w \in {"add", "remove"} :
           Action(w, x) \in Range(Todo') <=> Action(w, x) \in Range(Todo)
    BY <2>2, MessageLoopAssumption DEF Action
  <2>4. call'[c].pc = "join" /\ \A e \in Clients : e # c => call'[e] = call[e]
    BY <2>1, TypeParts DEF CallSet
  <2>5. QED
    BY <2>1, <2>3, <2>4 DEF LifeInv, At, Removing
<1>8. CASE testShutdown
  BY <1>8 DEF LifeInv, Todo, At, Removing, testShutdown, queueVars, sourceVars, workVars
<1>9. CASE handleEvents
  BY <1>9 DEF LifeInv, Todo, At, Removing, handleEvents, queueVars, sourceVars
<1>10. CASE handleEpollEvent
  BY <1>10 DEF LifeInv, Todo, At, Removing, handleEpollEvent, drainQueue, queueVars, sourceVars
<1>11. CASE startPass
  BY <1>11 DEF LifeInv, Todo, At, Removing, startPass, queueVars, drainQueue, sourceVars
<1>12. CASE takeActions
  <2>1. Todo' = Todo /\ UNCHANGED <<registered, life, call>>
    BY <1>12, TodoTake DEF takeActions, sourceVars
  <2>2. QED
    BY <2>1 DEF LifeInv, At, Removing
<1>13. CASE processAddSource
  <2>1. Processing("add")
    BY <1>13 DEF processAddSource
  <2>2. Head(actions).src \in Sources \cup {"_shutdown"} /\ UNCHANGED <<life, call>>
    BY <2>1, TodoProcess, ActionTypes DEF Processing
  <2>3. CASE Head(actions).src \notin Sources
    <3>1. registered' = registered
      BY <1>13, <2>2, <2>3 DEF processAddSource
    <3>2. \A x \in Sources : \A w \in {"add", "remove"} :
             Action(w, x) \in Range(Todo') <=> Action(w, x) \in Range(Todo)
      BY <2>1, <2>3, <3>1, TodoOther
    <3>3. QED
      BY <2>2, <3>1, <3>2 DEF LifeInv, At, Removing
  <2>4. CASE Head(actions).src \in Sources
    <3>1. PICK q \in Sources : q = Head(actions).src
      BY <2>4
    <3>2. registered' = registered \cup {q}
      BY <1>13, <3>1, MessageLoopAssumption DEF processAddSource
    <3>3. /\ \A a : a \in Range(Todo') <=> a \in Range(Todo) /\ a # Action("add", q)
          /\ Action("add", q) \in Range(Todo)
      BY <2>1, <3>1, TodoFirst, TodoProcess
    <3>4. \A x \in Sources :
             /\ Action("remove", x) \in Range(Todo') <=> Action("remove", x) \in Range(Todo)
             /\ x # q => (Action("add", x) \in Range(Todo') <=> Action("add", x) \in Range(Todo))
      BY <3>3 DEF Action
    <3>5. QED
      BY <2>2, <3>2, <3>3, <3>4 DEF LifeInv, At, Removing
  <2>5. QED
    BY <2>3, <2>4
<1>14. CASE processRemoveSource
  <2>1. Processing("remove")
    BY <1>14 DEF processRemoveSource
  <2>2. PICK q \in Sources : q = Head(actions).src
    BY <2>1, TodoProcess, ActionTypes
  <2>3. registered' = registered \ {q} /\ UNCHANGED <<life, call>>
    BY <1>14, <2>1, <2>2, RemovalFinds DEF Processing
  <2>4. /\ \A a : a \in Range(Todo') <=> a \in Range(Todo) /\ a # Action("remove", q)
        /\ Action("remove", q) \in Range(Todo)
    BY <2>1, <2>2, TodoFirst, TodoProcess
  <2>5. \A x \in Sources :
           /\ Action("add", x) \in Range(Todo') <=> Action("add", x) \in Range(Todo)
           /\ x # q => (Action("remove", x) \in Range(Todo') <=> Action("remove", x) \in Range(Todo))
    BY <2>4 DEF Action
  <2>6. life[q] \notin {"new", "added"}
    BY <2>4 DEF LifeInv
  <2>7. \A x \in Sources :
           /\ life'[x] \in {"new", "gone"} =>
                 x \notin registered' /\ Action("add", x) \notin Range(Todo')
           /\ life'[x] \in {"new", "added"} => Action("remove", x) \notin Range(Todo')
           /\ life'[x] = "added" => x \in registered' \/ Action("add", x) \in Range(Todo')
    BY <2>3, <2>5, <2>6 DEF LifeInv
  <2>8. QED
    BY <2>3, <2>7 DEF LifeInv, At, Removing
<1>15. CASE processRunAction
  <2>1. Processing("run")
    BY <1>15 DEF processRunAction
  <2>2. Head(actions).src \notin Sources
    BY <2>1, TodoProcess, ActionTypes
  <2>3. registered' = registered /\ UNCHANGED <<life, call>>
    BY <1>15, <2>1 DEF processRunAction, Processing
  <2>4. \A x \in Sources : \A w \in {"add", "remove"} :
           Action(w, x) \in Range(Todo') <=> Action(w, x) \in Range(Todo)
    BY <2>1, <2>2, <2>3, TodoOther
  <2>5. QED
    BY <2>3, <2>4 DEF LifeInv, At, Removing
<1>16. CASE actionsDone
  BY <1>16 DEF LifeInv, Todo, At, Removing, actionsDone, queueVars, sourceVars
<1>17. CASE visitSource
  BY <1>17 DEF LifeInv, Todo, At, Removing, visitSource, queueVars, sourceVars
<1>18. CASE visited
  BY <1>18 DEF LifeInv, Todo, At, Removing, visited, queueVars, sourceVars
<1>19. CASE endPass
  BY <1>19 DEF LifeInv, Todo, At, Removing, endPass, queueVars, sourceVars, workVars
<1>20. QED
  BY LoopSteps, <1>1, <1>2, <1>3, <1>4, <1>5, <1>6, <1>7, <1>8, <1>9, <1>10, <1>11, <1>12,
     <1>13, <1>14, <1>15, <1>16, <1>17, <1>18, <1>19

\* A step of a client: it may publish a message if it is about to signal it.
LEMMA ToldClient ==
    ASSUME ToldInv, UNCHANGED <<registered, loop, more, visits, reader>>,
           \A s \in registered : couldPop(s)' =>
               Signalled(s)' \/ (couldPop(s) /\ (Signalled(s) => Signalled(s)'))
    PROVE  ToldInv'
<1>1. \A s \in registered : Unfinished(s)' <=> Unfinished(s)
  BY DEF Unfinished, ReadAt
<1>2. QED
  BY <1>1 DEF ToldInv

\* What is signalled stays so when a client that is not about to signal takes a step.
LEMMA SignalledStays ==
    ASSUME NEW c \in Clients, call[c].pc # "signal", UNCHANGED <<wakeup, readPosition, writePosition>>,
           \A e \in Clients : e # c => call'[e] = call[e]
    PROVE  \A s \in registered : couldPop(s)' =>
               Signalled(s)' \/ (couldPop(s) /\ (Signalled(s) => Signalled(s)'))
<1>1. \A s : Signalled(s) => Signalled(s)'
  BY DEF Signalled, At
<1>2. QED
  BY <1>1 DEF couldPop

\* A step of the loop: a source that is to be visited still is.
LEMMA ToldLoop ==
    ASSUME ToldInv, UNCHANGED <<wakeup, call, readPosition, writePosition>>,
           \A s \in registered' : s \notin registered \/ Unfinished(s) => Unfinished(s)'
    PROVE  ToldInv'
<1>1. \A s : (couldPop(s)' <=> couldPop(s)) /\ (Signalled(s)' <=> Signalled(s))
  BY DEF couldPop, Signalled, At
<1>2. QED
  BY <1>1 DEF ToldInv

\* A step of the reader in processOne of one source.
LEMMA ToldReader ==
    ASSUME TypeOK, UseInv, LoopInv, ToldInv, UNCHANGED loopVars, ~ReadAt("outside"),
           UNCHANGED writePosition,
           \A s \in Sources \ {reader.src} : UNCHANGED <<wakeup[s], readPosition[s]>>,
           \A e \in Clients : At(e, "signal") => call'[e] = call[e],
           \/ reader'.src = reader.src
           \/ ReadAt("outside")' /\ reader'.more /\ couldPop(reader.src)
           \/ UNCHANGED readPosition /\ ~couldPop(reader.src)
    PROVE  ToldInv'
<1>1. UNCHANGED <<registered, loop, more, visits>> /\ registered \subseteq Sources
  BY TypeParts DEF loopVars, sourceVars, workVars, LoopType
<1>2. loop \in {"events", "visiting"}
  BY DEF LoopInv
<1>3. SUFFICES ASSUME NEW s \in registered, couldPop(s)', ~Unfinished(s)'
               PROVE  Signalled(s)'
  BY <1>1 DEF ToldInv
<1>4. s \in Sources /\ loop = "visiting" /\ ~more /\ s \notin Range(visits)
  BY <1>1, <1>2, <1>3 DEF Unfinished
<1>5. reader'.src # s /\ ~(ReadAt("outside")' /\ reader'.more)
  BY <1>1, <1>3, <1>4 DEF Unfinished
<1>6. reader.src # s
  <2>1. CASE UNCHANGED readPosition /\ ~couldPop(reader.src)
    BY <2>1, <1>3 DEF couldPop
  <2>2. QED
    BY <2>1, <1>5
<1>7. wakeup'[s] = wakeup[s] /\ couldPop(s)
  BY <1>3, <1>4, <1>6 DEF couldPop
<1>8. ~Unfinished(s)
  BY <1>4, <1>6 DEF Unfinished
<1>9. Signalled(s)
  BY <1>7, <1>8 DEF ToldInv
<1>10. QED
  BY <1>7, <1>9 DEF Signalled, At

\* A message in the ring of a source is signalled or will be found by a pass.
LEMMA ToldStep ==
    ASSUME TypeOK, UseInv, LockInv, LoopInv, ListInv, TodoInv, ToldInv, Next, ~RemovalTurn
    PROVE  ToldInv'
<1>1. ASSUME NEW c \in Clients, clientPush(c)
      PROVE  ToldInv'
  <2>1. /\ call[c].pc # "signal" /\ UNCHANGED <<wakeup, readPosition, writePosition>>
        /\ UNCHANGED <<registered, loop, more, visits, reader>>
        /\ \A e \in Clients : e # c => call'[e] = call[e]
    BY <1>1, TypeParts DEF clientPush, push, At, Idle, ringVars, loopVars, sourceVars,
       workVars
  <2>2. QED
    BY <2>1, SignalledStays, ToldClient
<1>2. ASSUME NEW c \in Clients, addSource(c)
      PROVE  ToldInv'
  <2>1. UNCHANGED <<wakeup, call, readPosition, writePosition, registered, loop, more, visits, reader>>
    BY <1>2 DEF addSource, sinkVars, ringVars, workVars
  <2>2. QED
    BY <2>1, ToldLoop DEF Unfinished, ReadAt
<1>3. ASSUME NEW c \in Clients, removeSourceSync(c)
      PROVE  ToldInv'
  <2>1. /\ call[c].pc # "signal" /\ UNCHANGED <<wakeup, readPosition, writePosition>>
        /\ UNCHANGED <<registered, loop, more, visits, reader>>
        /\ \A e \in Clients : e # c => call'[e] = call[e]
    BY <1>3, TypeParts DEF removeSourceSync, Makes, At, sinkVars, ringVars, workVars,
       loopVars, sourceVars
  <2>2. QED
    BY <2>1, SignalledStays, ToldClient
<1>4. ASSUME NEW c \in Clients, runInMessageLoopThread(c)
      PROVE  ToldInv'
  <2>1. /\ call[c].pc # "signal" /\ UNCHANGED <<wakeup, readPosition, writePosition>>
        /\ UNCHANGED <<registered, loop, more, visits, reader>>
        /\ \A e \in Clients : e # c => call'[e] = call[e]
    BY <1>4, TypeParts DEF runInMessageLoopThread, Makes, At, ringVars, UNCHANGED_loop,
       sourceVars, workVars, loopVars
  <2>2. QED
    BY <2>1, SignalledStays, ToldClient
<1>5. ASSUME NEW c \in Clients, shutdown(c)
      PROVE  ToldInv'
  <2>1. /\ call[c].pc # "signal" /\ UNCHANGED <<wakeup, readPosition, writePosition>>
        /\ UNCHANGED <<registered, loop, more, visits, reader>>
        /\ \A e \in Clients : e # c => call'[e] = call[e]
    BY <1>5, TypeParts DEF shutdown, Makes, At, Goto, sinkVars, ringVars, sourceVars,
       workVars, loopVars
  <2>2. QED
    BY <2>1, SignalledStays, ToldClient
<1>6. ASSUME NEW c \in Clients, removed(c)
      PROVE  ToldInv'
  <2>1. /\ call[c].pc # "signal" /\ UNCHANGED <<wakeup, readPosition, writePosition>>
        /\ UNCHANGED <<registered, loop, more, visits, reader>>
        /\ \A e \in Clients : e # c => call'[e] = call[e]
    BY <1>6, TypeParts DEF removed, At, Idle, sinkVars, ringVars, workVars, loopVars,
       sourceVars
  <2>2. QED
    BY <2>1, SignalledStays, ToldClient
<1>7. ASSUME NEW c \in Clients, addShutdownSource(c)
      PROVE  ToldInv'
  <2>1. /\ call[c].pc # "signal" /\ UNCHANGED <<wakeup, readPosition, writePosition>>
        /\ UNCHANGED <<registered, loop, more, visits, reader>>
        /\ \A e \in Clients : e # c => call'[e] = call[e]
    BY <1>7, TypeParts DEF addShutdownSource, At, Goto, join, Idle, sinkVars, ringVars,
       loopVars, sourceVars, workVars, UNCHANGED_loop
  <2>2. QED
    BY <2>1, SignalledStays, ToldClient
<1>8. ASSUME NEW c \in Clients, join(c)
      PROVE  ToldInv'
  <2>1. /\ call[c].pc # "signal" /\ UNCHANGED <<wakeup, readPosition, writePosition>>
        /\ UNCHANGED <<registered, loop, more, visits, reader>>
        /\ \A e \in Clients : e # c => call'[e] = call[e]
    BY <1>8, TypeParts DEF join, At, Idle, sinkVars, ringVars, loopVars, sourceVars,
       workVars
  <2>2. QED
    BY <2>1, SignalledStays, ToldClient
<1>9. ASSUME NEW c \in Clients, checkFull(c), UNCHANGED loopVars
      PROVE  ToldInv'
  <2>1. /\ call[c].pc # "signal" /\ UNCHANGED <<wakeup, readPosition, writePosition>>
        /\ UNCHANGED <<registered, loop, more, visits, reader>>
        /\ \A e \in Clients : e # c => call'[e] = call[e]
    BY <1>9, TypeParts DEF checkFull, At, lockRing, Goto, store, advance, signal, Idle,
       ringVars, loopVars, sourceVars, workVars
  <2>2. QED
    BY <2>1, SignalledStays, ToldClient
<1>10. ASSUME NEW c \in Clients, wait_on_address(c), UNCHANGED loopVars
      PROVE  ToldInv'
  <2>1. /\ call[c].pc # "signal" /\ UNCHANGED <<wakeup, readPosition, writePosition>>
        /\ UNCHANGED <<registered, loop, more, visits, reader>>
        /\ \A e \in Clients : e # c => call'[e] = call[e]
    BY <1>10, TypeParts DEF wait_on_address, At, Goto, sinkVars, ringVars, loopVars,
       sourceVars, workVars
  <2>2. QED
    BY <2>1, SignalledStays, ToldClient
<1>11. ASSUME NEW c \in Clients, store(c), UNCHANGED loopVars
      PROVE  ToldInv'
  <2>1. /\ call[c].pc # "signal" /\ UNCHANGED <<wakeup, readPosition, writePosition>>
        /\ UNCHANGED <<registered, loop, more, visits, reader>>
        /\ \A e \in Clients : e # c => call'[e] = call[e]
    BY <1>11, TypeParts DEF store, At, Goto, advance, signal, Idle, ringVars, loopVars,
       sourceVars, workVars
  <2>2. QED
    BY <2>1, SignalledStays, ToldClient
<1>12. ASSUME NEW c \in Clients, advance(c), UNCHANGED loopVars
      PROVE  ToldInv'
  <2>1. /\ call' = [call EXCEPT ![c].pc = "signal"] /\ call[c].pc = "advance"
        /\ writePosition' = [writePosition EXCEPT ![call[c].src] = next(@)]
        /\ UNCHANGED <<wakeup, readPosition, reader>>
        /\ UNCHANGED <<registered, loop, more, visits>>
    BY <1>12 DEF advance, At, Goto, loopVars, sourceVars, workVars
  <2>2. /\ call'[c].pc = "signal" /\ call'[c].src = call[c].src
        /\ \A e \in Clients : e # c => call'[e] = call[e]
    BY <2>1, TypeParts DEF CallSet
  <2>3. ASSUME NEW s \in registered, couldPop(s)'
        PROVE  Signalled(s)' \/ (couldPop(s) /\ (Signalled(s) => Signalled(s)'))
    <3>1. CASE s = call[c].src
      BY <2>2, <3>1 DEF Signalled, At
    <3>2. CASE s # call[c].src
      <4>1. couldPop(s)
        BY <2>1, <2>3, <3>2, TypeParts DEF couldPop, RingType, LoopType
      <4>2. Signalled(s) => Signalled(s)'
        BY <2>1, <2>2 DEF Signalled, At
      <4>3. QED
        BY <4>1, <4>2
    <3>3. QED
      BY <3>1, <3>2
  <2>4. QED
    BY <2>1, <2>3, ToldClient
<1>13. ASSUME NEW c \in Clients, signal(c), UNCHANGED loopVars
      PROVE  ToldInv'
  <2>1. /\ call' = [call EXCEPT ![c] = Idle] /\ call[c].pc = "signal"
        /\ wakeup' = [wakeup EXCEPT ![call[c].src] = TRUE]
        /\ UNCHANGED <<readPosition, writePosition, reader>>
        /\ UNCHANGED <<registered, loop, more, visits>>
    BY <1>13 DEF signal, At, ringVars, loopVars, sourceVars, workVars
  <2>2. \A e \in Clients : e # c => call'[e] = call[e]
    BY <2>1, TypeParts
  <2>3. ASSUME NEW s \in registered, couldPop(s)'
        PROVE  Signalled(s)' \/ (couldPop(s) /\ (Signalled(s) => Signalled(s)'))
    <3>1. s \in Sources /\ couldPop(s)
      BY <2>1, <2>3, TypeParts DEF couldPop, LoopType
    <3>2. CASE s = call[c].src
      BY <2>1, <3>1, <3>2, TypeParts DEF Signalled, RingType
    <3>3. CASE s # call[c].src
      <4>1. wakeup'[s] = wakeup[s]
        BY <2>1, <3>1, <3>3, TypeParts DEF RingType
      <4>2. QED
        BY <4>1, <2>2, <3>1, <3>3 DEF Signalled, At
    <3>4. QED
      BY <3>2, <3>3
  <2>4. QED
    BY <2>1, <2>3, ToldClient
<1>14. CASE testShutdown
  <2>1. UNCHANGED <<wakeup, call, readPosition, writePosition>>
    BY <1>14 DEF testShutdown, sinkVars, ringVars
  <2>2. loop = "top" /\ UNCHANGED <<registered, reader>>
    BY <1>14 DEF testShutdown, sourceVars, sinkVars
  <2>8. \A s \in registered' : s \notin registered \/ Unfinished(s) => Unfinished(s)'
    BY <2>2 DEF Unfinished
  <2>9. QED
    BY <2>1, <2>8, ToldLoop
<1>15. CASE handleEvents
  <2>1. UNCHANGED <<wakeup, call, readPosition, writePosition>>
    BY <1>15 DEF handleEvents, sinkVars, ringVars
  <2>2. loop' \in {"events", "eventActions", "eventAction", "passActions", "passAction", "done"}
    BY <1>15 DEF handleEvents, LoopTo
  <2>8. \A s \in registered' : s \notin registered \/ Unfinished(s) => Unfinished(s)'
    BY <2>2 DEF Unfinished
  <2>9. QED
    BY <2>1, <2>8, ToldLoop
<1>16. CASE handleEpollEvent
  <2>1. UNCHANGED <<wakeup, call, readPosition, writePosition>>
    BY <1>16 DEF handleEpollEvent, ringVars
  <2>2. loop' \in {"events", "eventActions", "eventAction", "passActions", "passAction", "done"}
    BY <1>16 DEF handleEpollEvent, LoopTo
  <2>8. \A s \in registered' : s \notin registered \/ Unfinished(s) => Unfinished(s)'
    BY <2>2 DEF Unfinished
  <2>9. QED
    BY <2>1, <2>8, ToldLoop
<1>17. CASE startPass
  <2>1. UNCHANGED <<wakeup, call, readPosition, writePosition>>
    BY <1>17 DEF startPass, sinkVars, ringVars
  <2>2. loop' \in {"events", "eventActions", "eventAction", "passActions", "passAction", "done"}
    BY <1>17 DEF startPass, LoopTo
  <2>8. \A s \in registered' : s \notin registered \/ Unfinished(s) => Unfinished(s)'
    BY <2>2 DEF Unfinished
  <2>9. QED
    BY <2>1, <2>8, ToldLoop
<1>18. CASE takeActions
  <2>1. UNCHANGED <<wakeup, call, readPosition, writePosition>>
    BY <1>18 DEF takeActions, sinkVars, ringVars
  <2>2. loop' \in {"events", "eventActions", "eventAction", "passActions", "passAction", "done"}
    BY <1>18 DEF takeActions, LoopTo
  <2>8. \A s \in registered' : s \notin registered \/ Unfinished(s) => Unfinished(s)'
    BY <2>2 DEF Unfinished
  <2>9. QED
    BY <2>1, <2>8, ToldLoop
<1>19. CASE processAddSource
  <2>1. UNCHANGED <<wakeup, call, readPosition, writePosition>>
    BY <1>19 DEF processAddSource, Processing, sinkVars, ringVars
  <2>2. loop' \in {"events", "eventActions", "eventAction", "passActions", "passAction", "done"}
    BY <1>19 DEF processAddSource, Processing
  <2>8. \A s \in registered' : s \notin registered \/ Unfinished(s) => Unfinished(s)'
    BY <2>2 DEF Unfinished
  <2>9. QED
    BY <2>1, <2>8, ToldLoop
<1>20. CASE processRemoveSource
  <2>1. UNCHANGED <<wakeup, call, readPosition, writePosition>>
    BY <1>20 DEF processRemoveSource, Processing, sinkVars, ringVars
  <2>2. loop' \in {"events", "eventActions", "eventAction", "passActions", "passAction", "done"}
    BY <1>20, RemovalFinds DEF processRemoveSource, Processing
  <2>8. \A s \in registered' : s \notin registered \/ Unfinished(s) => Unfinished(s)'
    BY <2>2 DEF Unfinished
  <2>9. QED
    BY <2>1, <2>8, ToldLoop
<1>21. CASE processRunAction
  <2>1. UNCHANGED <<wakeup, call, readPosition, writePosition>>
    BY <1>21 DEF processRunAction, Processing, sinkVars, ringVars
  <2>2. loop' \in {"events", "eventActions", "eventAction", "passActions", "passAction", "done"}
    BY <1>21 DEF processRunAction, Processing
  <2>8. \A s \in registered' : s \notin registered \/ Unfinished(s) => Unfinished(s)'
    BY <2>2 DEF Unfinished
  <2>9. QED
    BY <2>1, <2>8, ToldLoop
<1>22. CASE actionsDone
  <2>1. UNCHANGED <<wakeup, call, readPosition, writePosition>>
    BY <1>22 DEF actionsDone, sinkVars, ringVars
  <2>2. /\ loop' = "events" \/ (loop' = "visit" /\ visits' = sources)
        /\ UNCHANGED <<registered, sources>>
    BY <1>22 DEF actionsDone, LoopTo, sourceVars
  <2>8. \A s \in registered' : s \notin registered \/ Unfinished(s) => Unfinished(s)'
    BY <2>2 DEF Unfinished, ListInv
  <2>9. QED
    BY <2>1, <2>8, ToldLoop
<1>23. CASE visitSource
  <2>1. UNCHANGED <<wakeup, call, readPosition, writePosition>>
    BY <1>23 DEF visitSource, ringVars
  <2>2. /\ loop = "visit" /\ loop' = "visiting" /\ UNCHANGED <<registered, more>> /\ ReadAt("outside")
        /\ visits # <<>> /\ visits' = Tail(visits) /\ reader'.src = Head(visits)
    BY <1>23 DEF visitSource, LoopTo, sourceVars, processOne
  <2>3. Range(visits) = Range(visits') \cup {Head(visits)}
    BY <2>2, TypeParts, TailRange DEF LoopType
  <2>4. \A s \in registered : reader.src # s
    BY <2>2, MessageSinkAssumption, TypeParts DEF UseInv, LoopType
  <2>8. \A s \in registered' : s \notin registered \/ Unfinished(s) => Unfinished(s)'
    BY <2>2, <2>3, <2>4 DEF Unfinished
  <2>9. QED
    BY <2>1, <2>8, ToldLoop
<1>24. CASE visited
  <2>1. UNCHANGED <<wakeup, call, readPosition, writePosition>>
    BY <1>24 DEF visited, sinkVars, ringVars
  <2>2. /\ loop = "visiting" /\ loop' = "visit" /\ UNCHANGED <<registered, visits>> /\ ReadAt("outside")
        /\ more' = (more \/ reader.more)
    BY <1>24 DEF visited, LoopTo, sourceVars
  <2>3. \A s \in registered : reader.src # s
    BY <2>2, MessageSinkAssumption, TypeParts DEF UseInv, LoopType
  <2>8. \A s \in registered' : s \notin registered \/ Unfinished(s) => Unfinished(s)'
    BY <2>2, <2>3 DEF Unfinished
  <2>9. QED
    BY <2>1, <2>8, ToldLoop
<1>25. CASE endPass
  <2>1. UNCHANGED <<wakeup, call, readPosition, writePosition>>
    BY <1>25 DEF endPass, sinkVars, ringVars
  <2>2. /\ loop = "visit" /\ visits = <<>> /\ UNCHANGED registered
        /\ more => loop' = "events"
    BY <1>25 DEF endPass, LoopTo, sourceVars
  <2>3. ReadAt("outside") /\ Range(visits) = {}
    BY <2>2, EmptyRange DEF LoopInv
  <2>4. \A s \in registered : reader.src # s
    BY <2>3, MessageSinkAssumption, TypeParts DEF UseInv, LoopType
  <2>8. \A s \in registered' : s \notin registered \/ Unfinished(s) => Unfinished(s)'
    BY <2>2, <2>3, <2>4 DEF Unfinished
  <2>9. QED
    BY <2>1, <2>8, ToldLoop
<1>26. ASSUME tryPop, UNCHANGED loopVars
      PROVE  ToldInv'
  <2>1. ~ReadAt("outside") /\ UNCHANGED writePosition
    BY <1>26 DEF tryPop, ReadAt, ringVars
  <2>2. \A s \in Sources \ {reader.src} : UNCHANGED <<wakeup[s], readPosition[s]>>
    BY <1>26, TypeParts DEF tryPop, RingType, ringVars
  <2>3. \A e \in Clients : At(e, "signal") => call'[e] = call[e]
    BY <1>26 DEF tryPop, At
  <2>4. \/ reader'.src = reader.src
        \/ ReadAt("outside")' /\ reader'.more /\ couldPop(reader.src)
        \/ UNCHANGED readPosition /\ ~couldPop(reader.src)
    <3>1. CASE couldPop(reader.src)
      BY <1>26, <3>1, TypeParts DEF tryPop, ReaderSet, Outside, ReadAt
    <3>2. CASE ~couldPop(reader.src)
      BY <1>26, <3>2, TypeParts DEF tryPop, ReaderSet, Outside, ReadAt, ringVars
    <3>3. QED
      BY <3>1, <3>2
  <2>5. QED
    BY <1>26, <2>1, <2>2, <2>3, <2>4, ToldReader
<1>27. ASSUME advanceRead, UNCHANGED loopVars
      PROVE  ToldInv'
  <2>1. ~ReadAt("outside") /\ UNCHANGED writePosition
    BY <1>27 DEF advanceRead, ReadAt, ringVars
  <2>2. \A s \in Sources \ {reader.src} : UNCHANGED <<wakeup[s], readPosition[s]>>
    BY <1>27, TypeParts DEF advanceRead, RingType, ringVars
  <2>3. \A e \in Clients : At(e, "signal") => call'[e] = call[e]
    BY <1>27 DEF advanceRead, At
  <2>4. \/ reader'.src = reader.src
        \/ ReadAt("outside")' /\ reader'.more /\ couldPop(reader.src)
        \/ UNCHANGED readPosition /\ ~couldPop(reader.src)
    BY <1>27, TypeParts DEF advanceRead, ReaderSet
  <2>5. QED
    BY <1>27, <2>1, <2>2, <2>3, <2>4, ToldReader
<1>28. ASSUME wake_by_address, UNCHANGED loopVars
      PROVE  ToldInv'
  <2>1. ~ReadAt("outside") /\ UNCHANGED writePosition
    BY <1>28 DEF wake_by_address, ReadAt, ringVars
  <2>2. \A s \in Sources \ {reader.src} : UNCHANGED <<wakeup[s], readPosition[s]>>
    BY <1>28, TypeParts DEF wake_by_address, RingType, ringVars
  <2>3. \A e \in Clients : At(e, "signal") => call'[e] = call[e]
    BY <1>28 DEF wake_by_address, At
  <2>4. \/ reader'.src = reader.src
        \/ ReadAt("outside")' /\ reader'.more /\ couldPop(reader.src)
        \/ UNCHANGED readPosition /\ ~couldPop(reader.src)
    BY <1>28, TypeParts DEF wake_by_address, ReaderSet
  <2>5. QED
    BY <1>28, <2>1, <2>2, <2>3, <2>4, ToldReader
<1>29. ASSUME askMore, UNCHANGED loopVars
      PROVE  ToldInv'
  <2>1. ~ReadAt("outside") /\ UNCHANGED writePosition
    BY <1>29 DEF askMore, ReadAt, ringVars
  <2>2. \A s \in Sources \ {reader.src} : UNCHANGED <<wakeup[s], readPosition[s]>>
    BY <1>29, TypeParts DEF askMore, RingType, ringVars
  <2>3. \A e \in Clients : At(e, "signal") => call'[e] = call[e]
    BY <1>29 DEF askMore, At
  <2>4. \/ reader'.src = reader.src
        \/ ReadAt("outside")' /\ reader'.more /\ couldPop(reader.src)
        \/ UNCHANGED readPosition /\ ~couldPop(reader.src)
    <3>1. CASE couldPop(reader.src)
      BY <1>29, <3>1, TypeParts DEF askMore, ReaderSet, Outside, ReadAt
    <3>2. CASE ~couldPop(reader.src)
      BY <1>29, <3>2, TypeParts DEF askMore, ReaderSet, Outside, ReadAt, ringVars
    <3>3. QED
      BY <3>1, <3>2
  <2>5. QED
    BY <1>29, <2>1, <2>2, <2>3, <2>4, ToldReader
<1>30. ASSUME tryRead, UNCHANGED loopVars
      PROVE  ToldInv'
  <2>1. ~ReadAt("outside") /\ UNCHANGED writePosition
    BY <1>30 DEF tryRead, ReadAt, ringVars
  <2>2. \A s \in Sources \ {reader.src} : UNCHANGED <<wakeup[s], readPosition[s]>>
    BY <1>30, TypeParts DEF tryRead, RingType, ringVars
  <2>3. \A e \in Clients : At(e, "signal") => call'[e] = call[e]
    BY <1>30 DEF tryRead, At
  <2>4. \/ reader'.src = reader.src
        \/ ReadAt("outside")' /\ reader'.more /\ couldPop(reader.src)
        \/ UNCHANGED readPosition /\ ~couldPop(reader.src)
    BY <1>30, TypeParts DEF tryRead, ReaderSet
  <2>5. QED
    BY <1>30, <2>1, <2>2, <2>3, <2>4, ToldReader
<1>31. ASSUME askAgain, UNCHANGED loopVars
      PROVE  ToldInv'
  <2>1. ~ReadAt("outside") /\ UNCHANGED writePosition
    BY <1>31 DEF askAgain, ReadAt, ringVars
  <2>2. \A s \in Sources \ {reader.src} : UNCHANGED <<wakeup[s], readPosition[s]>>
    BY <1>31, TypeParts DEF askAgain, RingType, ringVars
  <2>3. \A e \in Clients : At(e, "signal") => call'[e] = call[e]
    BY <1>31 DEF askAgain, At
  <2>4. \/ reader'.src = reader.src
        \/ ReadAt("outside")' /\ reader'.more /\ couldPop(reader.src)
        \/ UNCHANGED readPosition /\ ~couldPop(reader.src)
    <3>1. CASE couldPop(reader.src)
      BY <1>31, <3>1, TypeParts DEF askAgain, ReaderSet, Outside, ReadAt
    <3>2. CASE ~couldPop(reader.src)
      BY <1>31, <3>2, TypeParts DEF askAgain, ReaderSet, Outside, ReadAt, ringVars
    <3>3. QED
      BY <3>1, <3>2
  <2>5. QED
    BY <1>31, <2>1, <2>2, <2>3, <2>4, ToldReader
<1>32. QED
  BY <1>1, <1>2, <1>3, <1>4, <1>5, <1>6, <1>7, <1>8, <1>9, <1>10, <1>11, <1>12, <1>13,
     <1>14, <1>15, <1>16, <1>17, <1>18, <1>19, <1>20, <1>21, <1>22, <1>23, <1>24, <1>25,
     <1>26, <1>27, <1>28, <1>29, <1>30, <1>31 DEF Next, RemovalTurn, Start, Continue, Write, LoopStep,
     Read

-----------------------------------------------------------------------------
(* The theorems.                                                           *)

\* Initially the rings and the queue are empty, and no source is known to the loop.
LEMMA MInvInit == Init => MInv
<1> SUFFICES ASSUME Init PROVE MInv
  OBVIOUS
<1>1. TypeOK
  <2>1. call \in [Clients -> CallSet] /\ reader \in ReaderSet
    BY RestTypes DEF Init, SinkInit
  <2>2. RingType
    BY MessageSinkAssumption DEF Init, SinkInit, RingType, Positions
  <2>3. LoopType
    <3>1. /\ queue = <<>> /\ actions = <<>> /\ batch = <<>> /\ visits = <<>>
          /\ sources = <<>>
          /\ pending_ = FALSE /\ notified = FALSE /\ shutdown_ = FALSE /\ more = FALSE
          /\ registered = {} /\ loop = "top" /\ waking = None
      BY DEF Init
    <3>2. \A S : <<>> \in Seq(S)
      OBVIOUS
    <3>3. connectionState_ \in [Sources -> BOOLEAN]
      <4>1. connectionState_ = [s \in Sources |-> FALSE]
        BY DEF Init
      <4>2. QED
        BY <4>1
    <3>4. life \in [Sources -> {"new", "added", "leaving", "gone", "goneEarly"}]
      <4>1. life = [s \in Sources |-> "new"]
        BY DEF Init
      <4>2. QED
        BY <4>1
    <3>5. /\ queue \in Seq(ActionSet) /\ actions \in Seq(ActionSet)
          /\ sources \in Seq(Sources) /\ visits \in Seq(Sources)
          /\ batch \in Seq(Sources \cup {"queue"})
      BY <3>1, <3>2
    <3>6. QED
      BY <3>1, <3>3, <3>4, <3>5 DEF LoopType
  <2>4. QED
    BY <2>1, <2>2, <2>3 DEF TypeOK, CallSet, ReaderSet, RingType, LoopType
<1>2. UseInv /\ LockInv
  BY DEF Init, SinkInit, UseInv, LockInv, Idle, Outside, ReadAt, Pushing, Writing
<1>3. HistoryInv /\ SlotInv
  <2>1. \A s \in Sources : ~Reading(s, "advance") /\ ~Reading(s, "wake")
    BY DEF Init, SinkInit, Outside, Reading, ReadAt
  <2>2. \A s \in Sources :
           Gone(s) = 0 /\ Count(writePosition[s], readPosition[s]) = 0 /\ Len(sent[s]) = 0
           /\ Len(handled[s]) = 0
    BY <2>1 DEF Init, SinkInit, Gone, Count
  <2>3. \A c \in Clients : ~At(c, "advance")
    BY DEF Init, Idle, At
  <2>4. QED
    BY <2>1, <2>2, <2>3 DEF HistoryInv, SlotInv
<1>4. LoopInv /\ QueueInv /\ ToldInv /\ SleepersWoken
  BY FS_EmptySet DEF Init, SinkInit, LoopInv, QueueInv, ToldInv, SleepersWoken, Idle, Outside,
     ReadAt, At
<1>5. ListInv
  BY EmptyRange DEF Init, ListInv
<1>6. TodoInv /\ LifeInv
  <2>1. Todo = <<>>
    BY DEF Init, Todo
  <2>2. Range(Todo) = {} /\ DOMAIN Todo = {}
    BY <2>1, EmptyRange
  <2>3. TodoInv
    BY <2>2 DEF TodoInv
  <2>4. LifeInv
    BY <2>2 DEF LifeInv, Init, Idle, Removing
  <2>5. QED
    BY <2>3, <2>4
<1>7. QED
  BY <1>1, <1>2, <1>3, <1>4, <1>5, <1>6 DEF MInv

\* So does a client that falls asleep in removeSourceSync, and the step that wakes it.
LEMMA TurnStep ==
    ASSUME MInv, RemovalTurn
    PROVE  MInv'
<1>1. /\ UNCHANGED <<ring, readPosition, writePosition, mutex, wakeup, reader, pushed, sent, handled>>
      /\ UNCHANGED <<queue, pending_, notified, sources, registered, connectionState_, life>>
      /\ UNCHANGED <<shutdown_, loop, batch, actions, visits, more>>
      /\ waking' \in {waking, None}
  BY DEF RemovalTurn, wakeRemoved, removing, sinkVars, ringVars, loopVars, queueVars, sourceVars,
     workVars
<1>2. /\ call' \in [Clients -> CallSet]
      /\ \A e \in Clients :
            /\ call'[e].src = call[e].src /\ call'[e].msg = call[e].msg /\ call'[e].full = call[e].full
            /\ call'[e] = call[e] \/ (Removing(e) /\ Removing(e)')
  <2>0. call \in [Clients -> CallSet]
    BY TypeParts DEF MInv
  <2>1. CASE wakeRemoved
    <3>1. \A e \in Clients : [call[e] EXCEPT !.pc = "removing"] \in CallSet
      BY <2>0 DEF CallSet
    <3>2. \A e \in Clients :
             call'[e] = IF At(e, "blocked") /\ call[e].src = waking
                        THEN [call[e] EXCEPT !.pc = "removing"] ELSE call[e]
      BY <2>1 DEF wakeRemoved
    <3>3. call' \in [Clients -> CallSet]
      BY <2>0, <2>1, <3>1 DEF wakeRemoved
    <3>4. QED
      BY <2>0, <3>2, <3>3 DEF CallSet, Removing, At
  <2>2. ASSUME NEW c \in Clients, removing(c)
        PROVE  /\ call' \in [Clients -> CallSet]
               /\ \A e \in Clients :
                     /\ call'[e].src = call[e].src /\ call'[e].msg = call[e].msg
                     /\ call'[e].full = call[e].full
                     /\ call'[e] = call[e] \/ (Removing(e) /\ Removing(e)')
    <3>1. call[c].pc = "removing" /\ call' = [call EXCEPT ![c].pc = "blocked"]
      BY <2>2 DEF removing, At, Goto
    <3>2. QED
      BY <2>0, <3>1 DEF CallSet, Removing
  <2>3. QED
    BY <2>1, <2>2 DEF RemovalTurn
<1>3. TypeOK'
  <2>1. RingType' /\ LoopType' /\ reader' \in ReaderSet
    BY <1>1, TypeParts DEF MInv, RingType, LoopType
  <2>2. QED
    BY <1>2, <2>1 DEF TypeOK, CallSet, ReaderSet, RingType, LoopType
\* Neither the pushes nor the signals are concerned.
<1>4. \A e \in Clients : \/ call'[e] = call[e]
                         \/ /\ call[e].pc \in {"removing", "blocked"}
                            /\ call'[e].pc \in {"removing", "blocked"}
  BY <1>2 DEF Removing
<1>5. UseInv'
  BY <1>1, <1>4 DEF MInv, UseInv, Pushing, ReadAt
<1>6. LockInv' /\ SleepersWoken'
  <2>1. \A s \in Sources : mutex[s] # None => mutex[s] \in Clients
    BY TypeParts DEF MInv, RingType
  <2>2. QED
    BY <1>1, <1>4, <2>1 DEF MInv, LockInv, SleepersWoken, Writing, ReadAt, At, couldPop
<1>7. HistoryInv' /\ SlotInv'
  <2>1. \A e \in Clients : call'[e] = call[e] \/ call'[e].pc # "advance"
    BY <1>4
  <2>2. QED
    BY <1>1, <2>1, HistoryFrame, SlotFrame DEF MInv
<1>8. LoopInv' /\ QueueInv' /\ ListInv'
  BY <1>1 DEF MInv, LoopInv, QueueInv, ListInv, ReadAt
<1>9. TodoInv' /\ LifeInv'
  <2>1. Todo' = Todo
    BY <1>1 DEF Todo
  <2>2. \A e \in Clients : call'[e].src = call[e].src /\ (Removing(e)' <=> Removing(e))
    BY <1>2 DEF Removing
  <2>3. QED
    BY <1>1, <2>1, <2>2 DEF MInv, TodoInv, LifeInv
<1>10. ToldInv'
  <2>1. \A s : Signalled(s) => Signalled(s)'
    BY <1>1, <1>4 DEF Signalled, At
  <2>2. QED
    BY <1>1, <2>1, ToldClient DEF MInv, couldPop
<1>11. QED
  BY <1>3, <1>5, <1>6, <1>7, <1>8, <1>9, <1>10 DEF MInv

\* Every step keeps the invariant.
LEMMA MInvStep == MInv /\ [Next]_vars => MInv'
<1> SUFFICES ASSUME MInv, [Next]_vars PROVE MInv'
  OBVIOUS
<1>0. CASE RemovalTurn
  BY <1>0, TurnStep
<1>1. CASE Next /\ ~RemovalTurn
  BY <1>1, TypeStep, UseStep, LockStep, HistoryStep, SlotStep, LoopInvStep, SleepStep, ToldStep,
     QueueStep, ListStep, TodoStep, LifeStep DEF MInv
<1>2. CASE UNCHANGED vars
  <2>1. /\ UNCHANGED <<ring, readPosition, writePosition, mutex, wakeup, reader, pushed, sent, handled>>
        /\ UNCHANGED <<call, queue, pending_, notified, sources, registered, connectionState_, life>>
        /\ UNCHANGED <<waking, shutdown_, loop, batch, actions, visits, more>>
    BY <1>2 DEF vars, sinkVars, ringVars, loopVars, queueVars, sourceVars, workVars
  <2>2. TypeOK'
    BY <2>1 DEF MInv, TypeOK
  <2>3. UseInv' /\ LockInv' /\ SleepersWoken'
    BY <2>1 DEF MInv, UseInv, LockInv, SleepersWoken, ReadAt, At, couldPop
  <2>4. HistoryInv' /\ SlotInv'
    BY <2>1, HistoryFrame, SlotFrame DEF MInv
  <2>5. LoopInv' /\ QueueInv' /\ ListInv'
    BY <2>1 DEF MInv, LoopInv, QueueInv, ListInv, ReadAt
  <2>6. TodoInv' /\ LifeInv'
    <3>1. Todo' = Todo
      BY <2>1 DEF Todo
    <3>2. QED
      BY <2>1, <3>1 DEF MInv, TodoInv, LifeInv, Removing
  <2>7. ToldInv'
    BY <2>1, ToldLoop DEF MInv, Unfinished, ReadAt
  <2>8. QED
    BY <2>2, <2>3, <2>4, <2>5, <2>6, <2>7 DEF MInv
<1>3. QED
  BY <1>0, <1>1, <1>2

\* The inductive invariant holds in every reachable state, for any clients, sources
\* and ring size.
THEOREM MInvAlways == Spec => []MInv
  BY MInvInit, MInvStep, PTL DEF Spec

\* Every variable keeps its type: no position leaves its ring (io/ring_buffer.h:274-285,
\* 353).
THEOREM TypeCorrect == Spec => []TypeOK
<1>1. MInv => TypeOK
  BY DEF MInv
<1>2. QED
  BY <1>1, MInvAlways, PTL

\* Every message a ring has accepted is handled once and in the order of acceptance,
\* however the positions wrap (io/ring_buffer.h:269-285, 348-353).
THEOREM InOrderCorrect == Spec => []InOrder
<1>1. MInv => InOrder
  BY OrderFollows DEF MInv
<1>2. QED
  BY <1>1, MInvAlways, PTL

\* Neither side of a ring misses the other's wake-up: not a client that sleeps on a
\* full ring (io/ring_buffer.h:276-278, 353-354), nor the loop's thread, which does
\* not go to sleep on a message (io/typed_message_channel.h:79-83).
THEOREM NoLostWakeupCorrect == Spec => []NoLostWakeup
<1>1. MInv => NoLostWakeup
  <2> SUFFICES ASSUME MInv PROVE NoLostWakeup
    OBVIOUS
  <2>1. ASSUME NEW s \in registered, couldPop(s), loop \in {"top", "sleep"}
        PROVE  Signalled(s)
    <3>1. ReadAt("outside")
      BY <2>1 DEF MInv, LoopInv
    <3>2. reader.src # s
      BY <3>1, MessageSinkAssumption, TypeParts DEF MInv, UseInv, LoopType
    <3>3. ~Unfinished(s)
      BY <2>1, <3>2 DEF Unfinished
    <3>4. QED
      BY <2>1, <3>3 DEF MInv, ToldInv
  <2>2. ReaderTold
    BY <2>1 DEF ReaderTold, Signalled
  <2>3. QED
    BY <2>2 DEF MInv, NoLostWakeup
<1>2. QED
  BY <1>1, MInvAlways, PTL

\* An action that was queued is noticed, although the eventfd is written for the first
\* one only (io/typed_message_channel.h:133-138, 168-171).
THEOREM ActionsNoticedCorrect == Spec => []ActionsNoticed
<1>1. MInv => ActionsNoticed
  BY DEF MInv, QueueInv, ActionsNoticed
<1>2. QED
  BY <1>1, MInvAlways, PTL

\* Once removeSourceSync has returned for a source that had been added, no pass over
\* the sources, no action and no later epoll_wait is about it
\* (io/message_loop.cc:219-221, 454-460, 520-524).
THEOREM RemovedForGoodCorrect == Spec => []RemovedForGood
<1>1. MInv => RemovedForGood
  <2> SUFFICES ASSUME MInv, NEW s \in Sources, life[s] = "gone"
               PROVE  /\ s \notin Range(sources) \cup registered
                      /\ \A i \in DOMAIN Todo : Todo[i].src # s
                      /\ loop \in {"visit", "visiting"} => s \notin Range(visits) \cup {reader.src}
    BY DEF RemovedForGood
  <2>1. s \notin registered /\ Action("add", s) \notin Range(Todo)
    BY DEF MInv, LifeInv
  <2>2. Action("remove", s) \notin Range(Todo)
    BY <2>1 DEF MInv, TodoInv
  <2>3. s \notin Range(sources)
    BY <2>1 DEF MInv, ListInv
  <2>4. ASSUME NEW i \in DOMAIN Todo, Todo[i].src = s
        PROVE  FALSE
    <3>1. Todo \in Seq(ActionSet)
      BY TodoTypes DEF MInv
    <3>2. Todo[i] \in ActionSet /\ Todo[i] \in Range(Todo)
      <4> HIDE DEF Todo
      <4> QED BY <2>4, <3>1 DEF Range
    <3>3. Todo[i] = Action("add", s) \/ Todo[i] = Action("remove", s)
      BY <2>4, <3>2, ActionTypes
    <3>4. QED
      BY <2>1, <2>2, <3>2, <3>3
  <2>5. ASSUME loop \in {"visit", "visiting"}
        PROVE  s \notin Range(visits) \cup {reader.src}
    <3>1. s \notin Range(visits)
      BY <2>1, <2>5 DEF MInv, ListInv
    <3>2. reader.src # s
      <4>1. CASE ReadAt("outside")
        BY <4>1, MessageSinkAssumption DEF MInv, UseInv
      <4>2. CASE ~ReadAt("outside")
        BY <2>1, <2>5, <4>2 DEF MInv, LoopInv, ListInv
      <4>3. QED
        BY <4>1, <4>2
    <3>3. QED
      BY <3>1, <3>2
  <2>6. QED
    BY <2>1, <2>3, <2>4, <2>5
<1>2. QED
  BY <1>1, MInvAlways, PTL

\* A removal finds its source in the list: the exception "couldn't remove source" does
\* not end the program (io/message_loop.cc:452).
THEOREM RemovalFoundCorrect == Spec => []RemovalFound
<1>1. MInv => RemovalFound
  BY DEF MInv, LoopInv, RemovalFound
<1>2. QED
  BY <1>1, MInvAlways, PTL
=============================================================================
