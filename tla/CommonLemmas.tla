---------------------------- MODULE CommonLemmas ----------------------------
(***************************************************************************)
(* Lemmas about the data that the models are built from: queues as         *)
(* sequences, and the earliest of a set of dates.                          *)
(***************************************************************************)
EXTENDS Naturals, Sequences, FiniteSetsExt, Functions, SequenceTheorems,
        WellFoundedInduction, TLAPS

\* A new element at the end of a queue: what is in the queue, and whether
\* anything is in it twice.
LEMMA AppendRange ==
    ASSUME NEW S, NEW s \in Seq(S), NEW e \in S
    PROVE  /\ Append(s, e) \in Seq(S)
           /\ Append(s, e) # <<>>
           /\ Range(Append(s, e)) = Range(s) \cup {e}
           /\ IsInjective(s) /\ e \notin Range(s) => IsInjective(Append(s, e))
           /\ s # <<>> => Head(Append(s, e)) = Head(s)
<1>1. /\ Append(s, e) \in Seq(S) /\ Append(s, e) # <<>>
      /\ Len(s) \in Nat /\ DOMAIN s = 1..Len(s)
      /\ DOMAIN Append(s, e) = 1..(Len(s) + 1)
      /\ \A i \in 1..Len(s) : Append(s, e)[i] = s[i]
      /\ Append(s, e)[Len(s) + 1] = e
  BY AppendProperties, LenProperties
<1>2. \A i \in 1..(Len(s) + 1) : i \in 1..Len(s) \/ i = Len(s) + 1
  BY <1>1
<1>3. Range(Append(s, e)) = Range(s) \cup {e}
  <2>1. Range(Append(s, e)) \subseteq Range(s) \cup {e}
    BY <1>1, <1>2 DEF Range
  <2>2. e \in Range(Append(s, e))
    BY <1>1 DEF Range
  <2>3. Range(s) \subseteq Range(Append(s, e))
    BY <1>1 DEF Range
  <2>4. QED
    BY <2>1, <2>2, <2>3
<1>4. IsInjective(s) /\ e \notin Range(s) => IsInjective(Append(s, e))
  <2>1. SUFFICES ASSUME IsInjective(s), e \notin Range(s),
                        NEW a \in 1..(Len(s) + 1), NEW b \in 1..(Len(s) + 1),
                        Append(s, e)[a] = Append(s, e)[b]
                 PROVE  a = b
    BY <1>1 DEF IsInjective
  <2>2. \A i \in 1..Len(s) : s[i] # e
    BY <1>1, <2>1 DEF Range
  <2>3. QED
    BY <1>1, <1>2, <2>1, <2>2 DEF IsInjective
<1>5. s # <<>> => Head(Append(s, e)) = Head(s)
  BY HeadTailAppend
<1>6. QED
  BY <1>1, <1>3, <1>4, <1>5

\* The head taken off a queue.
LEMMA TailRange ==
    ASSUME NEW S, NEW s \in Seq(S), s # <<>>
    PROVE  /\ Head(s) \in S /\ Head(s) \in Range(s)
           /\ Tail(s) \in Seq(S)
           /\ Range(s) = Range(Tail(s)) \cup {Head(s)}
           /\ IsInjective(s) => IsInjective(Tail(s)) /\ Head(s) \notin Range(Tail(s))
<1>1. /\ Head(s) \in S /\ Tail(s) \in Seq(S)
      /\ Len(s) \in Nat \ {0} /\ DOMAIN s = 1..Len(s)
      /\ Len(Tail(s)) = Len(s) - 1 /\ DOMAIN Tail(s) = 1..(Len(s) - 1)
      /\ \A i \in 1..(Len(s) - 1) : Tail(s)[i] = s[i + 1]
      /\ Head(s) = s[1]
  BY HeadTailProperties, LenProperties, EmptySeq
<1>2. \A i \in 1..Len(s) : i = 1 \/ i - 1 \in 1..(Len(s) - 1)
  BY <1>1
<1>3. \A i \in 1..(Len(s) - 1) : i + 1 \in 1..Len(s)
  BY <1>1
<1>4. 1 \in 1..Len(s)
  BY <1>1
<1>5. Head(s) \in Range(s)
  BY <1>1, <1>4 DEF Range
<1>6. Range(s) = Range(Tail(s)) \cup {Head(s)}
  <2>1. Range(Tail(s)) \subseteq Range(s)
    BY <1>1, <1>3 DEF Range
  <2>2. \A i \in 1..Len(s) : s[i] \in Range(Tail(s)) \cup {Head(s)}
    <3>1. TAKE i \in 1..Len(s)
    <3>2. CASE i = 1
      BY <1>1, <3>2
    <3>3. CASE i - 1 \in 1..(Len(s) - 1)
      <4>1. Tail(s)[i - 1] = s[i]
        BY <1>1, <3>3
      <4>2. QED
        BY <1>1, <3>3, <4>1 DEF Range
    <3>4. QED
      BY <1>2, <3>2, <3>3
  <2>3. QED
    BY <1>1, <1>5, <2>1, <2>2 DEF Range
<1>7. IsInjective(s) => IsInjective(Tail(s)) /\ Head(s) \notin Range(Tail(s))
  BY <1>1, <1>3, <1>4 DEF IsInjective, Range
<1>8. QED
  BY <1>1, <1>5, <1>6, <1>7

\* The empty queue.
LEMMA EmptyRange == Range(<<>>) = {} /\ IsInjective(<<>>)
  BY DEF Range, IsInjective

\* A non-empty set of dates has an earliest one, and Min finds it.
LEMMA MinNat ==
    ASSUME NEW T \in SUBSET Nat, T # {}
    PROVE  Min(T) \in T /\ \A y \in T : Min(T) <= y
<1> DEFINE R == {p \in Nat \X Nat : p[1] < p[2]}
<1>1. IsWellFoundedOn(R, Nat)
  <2>1. R = OpToRel(<, Nat)
    BY Zenon DEF OpToRel
  <2>2. QED
    BY <2>1, NatLessThanWellFounded, Zenon
<1> HIDE DEF R
<1>2. PICK x \in T : \A y \in T : ~(<<y, x>> \in R)
  BY <1>1, WFMin
<1>3. \A y \in T : x <= y
  <2>1. \A y \in T : <<y, x>> \in Nat \X Nat /\ <<y, x>>[1] = y /\ <<y, x>>[2] = x
    OBVIOUS
  <2>2. \A y \in T : y < x => <<y, x>> \in R
    BY <2>1 DEF R
  <2>3. \A y \in T : ~(y < x)
    BY <1>2, <2>2, Zenon
  <2>4. QED
    BY <2>3
<1>4. QED
  BY <1>2, <1>3 DEF Min

=============================================================================
