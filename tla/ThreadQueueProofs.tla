-------------------------- MODULE ThreadQueueProofs --------------------------
(***************************************************************************)
(* Proofs about ThreadQueue, for any number of thieves and slots.  They    *)
(* assume that an index does not wrap (MaxPush < Width): beyond that the   *)
(* queue is not correct, since a thief that has slept while top_ went once *)
(* around finds it unchanged, and topLessThanBottom(0, Width - 1) holds    *)
(* although an owner that pops from an empty queue gets there.             *)
(***************************************************************************)
EXTENDS ThreadQueue, CommonLemmas, FiniteSetTheorems

-----------------------------------------------------------------------------
(* The inductive invariant.                                                *)

Pushing == {"pushItem", "pushBottom"}
Popping == {"popTop", "popLast", "popRestore", "popStore"}

\* The indexes of the items in the queue.
Live == top .. (LogicalBottom - 1)

IndexInv ==
    /\ top <= LogicalBottom
    /\ LogicalBottom <= pushed
    /\ pc \in Pushing => LogicalBottom < pushed
    /\ pc \in Popping => b1 = bottom + 1
    /\ pc = "popStore" => top = b1
    /\ pc = "popDecrement" => bottom >= 1

\* The item that a thief is after is still there if top_ has not moved.
ThiefInv ==
    \A t \in Thieves :
        /\ stealTop[t] <= top
        /\ at[t] \in {"item", "cas"} /\ stealTop[t] = top => top < LogicalBottom
        /\ at[t] = "cas" /\ stealTop[t] = top => stealItem[t] = items[Slot(top)]

\* What num_queued_ will be once every call in progress has counted its item: the
\* items in the queue and those taken but not yet counted off.
Counting == {t \in Thieves : at[t] = "count"}
Held == (LogicalBottom - top) + Cardinality(Counting)
        + (IF pc \in {"popStore", "popCount"} THEN 1 ELSE 0)

CountInv ==
    /\ IsFiniteSet(Counting) /\ Cardinality(Counting) <= top
    /\ Held <= NUMBER_OF_ITEMS
    /\ pc \in Pushing => Held < NUMBER_OF_ITEMS
    /\ num_queued = (IF pc = "pushCount" THEN Plus(Held, -1) ELSE Held)

\* The items in the queue are in the order they were pushed in, and were not handed
\* out.
ItemInv ==
    /\ \A k \in Live : items[Slot(k)] \in 1 .. pushed /\ took[items[Slot(k)]] = 0
    /\ \A j, k \in Live : j < k => items[Slot(j)] < items[Slot(k)]
    /\ pc \in Pushing => took[pushed] = 0 /\ \A k \in Live : items[Slot(k)] < pushed
    /\ pc = "pushBottom" => items[Slot(bottom)] = pushed
    /\ \A i \in Item : took[i] <= 1 /\ (i > pushed => took[i] = 0)

QInv == TypeOK /\ IndexInv /\ ThiefInv /\ CountInv /\ ItemInv

\* No index wraps.
NoWrap == MaxPush < Width

-----------------------------------------------------------------------------
(* Indexes and slots.                                                      *)

\* Sums that stay in range.
LEMMA PlusLemma ==
    ASSUME NEW i \in Int, NEW n \in Int, 0 <= i + n, i + n < Width
    PROVE  Plus(i, n) = i + n
  BY ThreadQueueAssumption DEF Plus

\* topLessThanBottom, when top_ is at most one ahead.
LEMMA CompareIndexes ==
    ASSUME NEW t \in Index, NEW b \in Index, t <= b + 1
    PROVE  topLessThanBottom(t, b) <=> t < b
<1>1. Width \in Nat /\ NUMBER_OF_ITEMS \in Nat \ {0} /\ Width > 2 * NUMBER_OF_ITEMS
  BY ThreadQueueAssumption
<1>2. t \in Int /\ b \in Int
  BY <1>1 DEF Index
<1>3. CASE t >= b
  <2>1. Plus(t, -b) = t - b
    BY <1>1, <1>2, <1>3, PlusLemma
  <2>2. QED
    BY <1>1, <1>2, <1>3, <2>1 DEF topLessThanBottom
<1>4. QED
  BY <1>2, <1>3 DEF topLessThanBottom

\* Indexes fewer than NUMBER_OF_ITEMS apart have slots of their own.
LEMMA SlotLemma ==
    ASSUME NEW i \in Nat, NEW j \in Nat, i < j, j - i < NUMBER_OF_ITEMS
    PROVE  Slot(i) # Slot(j)
<1>1. NUMBER_OF_ITEMS \in Nat /\ NUMBER_OF_ITEMS > 0
  BY ThreadQueueAssumption
<1>2. SUFFICES ASSUME i % NUMBER_OF_ITEMS = j % NUMBER_OF_ITEMS PROVE FALSE
  BY DEF Slot
<1> DEFINE N == NUMBER_OF_ITEMS
           p == i \div N
           q == j \div N
<1>3. p \in Int /\ q \in Int /\ i = (N * p) + (i % N) /\ j = (N * q) + (j % N)
  BY <1>1
<1> HIDE DEF p, q, N
<1>4. N \in Nat /\ N > 0 /\ j - i < N
  BY <1>1 DEF N
<1>5. j - i = (N * q) - (N * p)
  BY <1>2, <1>3, <1>4 DEF N
<1>6. (N * q) - (N * p) = N * (q - p)
  BY <1>3, <1>4
<1>7. CASE q - p >= 1
  <2>1. N * (q - p) >= N
    BY <1>3, <1>4, <1>7
  <2>2. QED
    BY <1>3, <1>4, <1>5, <1>6, <2>1
<1>8. CASE q - p <= 0
  <2>1. N * (q - p) <= 0
    BY <1>3, <1>4, <1>8
  <2>2. QED
    BY <1>3, <1>4, <1>5, <1>6, <2>1
<1>9. QED
  BY <1>3, <1>7, <1>8

\* An index names a slot of the ring.
LEMMA SlotRange ==
    ASSUME NEW i \in Int
    PROVE  Slot(i) \in 0 .. (NUMBER_OF_ITEMS - 1)
  BY ThreadQueueAssumption DEF Slot

\* The thieves that have an item to count off.
LEMMA CountingAdd ==
    ASSUME NEW S, IsFiniteSet(S), NEW t
    PROVE  /\ Cardinality(S) \in Nat
           /\ IsFiniteSet(S \cup {t}) /\ IsFiniteSet(S \ {t})
           /\ t \notin S => Cardinality(S \cup {t}) = Cardinality(S) + 1
           /\ t \in S => /\ Cardinality(S \ {t}) = Cardinality(S) - 1
                         /\ Cardinality(S) > 0
<1>1. Cardinality(S) \in Nat /\ IsFiniteSet(S \cup {t}) /\ IsFiniteSet(S \ {t})
  BY FS_CardinalityType, FS_AddElement, FS_RemoveElement
<1>2. t \notin S => Cardinality(S \cup {t}) = Cardinality(S) + 1
  BY FS_AddElement
<1>3. t \in S => Cardinality(S \ {t}) = Cardinality(S) - 1
  BY FS_RemoveElement
<1>4. t \in S => Cardinality(S) > 0
  BY <1>1, FS_EmptySet
<1>5. QED
  BY <1>1, <1>2, <1>3, <1>4

\* What the invariant says of the indexes as numbers.
LEMMA Bounds ==
    ASSUME NoWrap, TypeOK, IndexInv
    PROVE  /\ Width \in Nat /\ MaxPush \in Nat /\ pushed \in Nat /\ pushed <= MaxPush
           /\ NUMBER_OF_ITEMS \in Nat /\ NUMBER_OF_ITEMS > 0 /\ 2 * NUMBER_OF_ITEMS < Width
           /\ MaxPush < Width
           /\ bottom \in Nat /\ top \in Nat /\ b1 \in Nat /\ bottom < Width /\ top < Width
           /\ b1 < Width
           /\ LogicalBottom \in Nat /\ top <= LogicalBottom /\ LogicalBottom <= pushed
           /\ pc \notin Popping => LogicalBottom = bottom
           /\ pc \in Popping => LogicalBottom = bottom + 1 /\ b1 = bottom + 1
  BY ThreadQueueAssumption DEF NoWrap, TypeOK, IndexInv, LogicalBottom, Index, Popping

\* The indexes stay in order.
LEMMA IndexStep ==
    ASSUME NoWrap, TypeOK, IndexInv, ThiefInv, CountInv, Next
    PROVE  IndexInv'
<1>a. /\ Width \in Nat /\ MaxPush \in Nat /\ pushed \in Nat /\ pushed <= MaxPush
      /\ NUMBER_OF_ITEMS \in Nat /\ NUMBER_OF_ITEMS > 0 /\ 2 * NUMBER_OF_ITEMS < Width
      /\ MaxPush < Width
      /\ bottom \in Nat /\ top \in Nat /\ b1 \in Nat /\ bottom < Width /\ top < Width
      /\ b1 < Width
      /\ LogicalBottom \in Nat /\ top <= LogicalBottom /\ LogicalBottom <= pushed
      /\ pc \notin Popping => LogicalBottom = bottom
      /\ pc \in Popping => LogicalBottom = bottom + 1 /\ b1 = bottom + 1
  BY Bounds
<1>1. CASE pushCheck
  BY <1>1, <1>a DEF IndexInv, LogicalBottom, Pushing, Popping, pushCheck, HandOut, thiefVars
<1>2. CASE pushItem
  BY <1>2, <1>a DEF IndexInv, LogicalBottom, Pushing, Popping, pushItem, thiefVars
<1>3. CASE pushBottom
  <2>1. bottom < pushed /\ bottom' = bottom + 1
    BY <1>3, <1>a, PlusLemma DEF pushBottom, IndexInv, Pushing, Popping
  <2>2. QED
    BY <1>3, <1>a, <2>1 DEF pushBottom, IndexInv, LogicalBottom, Pushing, Popping
<1>4. CASE pushCount
  BY <1>4, <1>a DEF IndexInv, LogicalBottom, Pushing, Popping, pushCount, thiefVars
<1>5. CASE popCheck
  <2>1. num_queued # 0 => bottom >= 1
    <3>1. Cardinality(Counting) \in Nat /\ Cardinality(Counting) <= top
      BY FS_CardinalityType DEF CountInv
    <3>2. num_queued = (bottom - top) + Cardinality(Counting)
      BY <1>5, <1>a, <3>1 DEF popCheck, CountInv, Held, Popping
    <3>3. QED
      BY <1>5, <1>a, <3>1, <3>2 DEF popCheck, Popping
  <2>2. QED
    BY <1>5, <1>a, <2>1 DEF popCheck, IndexInv, LogicalBottom, Pushing, Popping
<1>6. CASE popDecrement
  <2>1. bottom' = bottom - 1
    BY <1>6, <1>a, PlusLemma DEF popDecrement, IndexInv
  <2>2. QED
    BY <1>6, <1>a, <2>1 DEF popDecrement, IndexInv, LogicalBottom, Pushing, Popping
<1>7. CASE popTop
  <2>1. Plus(b1, -1) = bottom /\ top <= bottom + 1
    BY <1>7, <1>a, PlusLemma DEF popTop, Popping
  <2>2. topLessThanBottom(top, bottom) <=> top < bottom
    BY <2>1, CompareIndexes DEF TypeOK
  <2>3. QED
    BY <1>7, <1>a, <2>1, <2>2 DEF popTop, IndexInv, LogicalBottom, Pushing, Popping
<1>8. CASE popLast
  <2>1. top = bottom => Plus(top, 1) = top + 1
    BY <1>8, <1>a, PlusLemma DEF popLast, Popping
  <2>2. QED
    BY <1>8, <1>a, <2>1 DEF popLast, IndexInv, LogicalBottom, Pushing, Popping
<1>9. CASE popRestore
  BY <1>9, <1>a DEF IndexInv, LogicalBottom, Pushing, Popping, popRestore, thiefVars
<1>10. CASE popStore
  <2>1. bottom' = bottom + 1
    BY <1>10, <1>a, PlusLemma DEF popStore, Popping
  <2>2. QED
    BY <1>10, <1>a, <2>1 DEF popStore, IndexInv, LogicalBottom, Pushing, Popping
<1>11. CASE popCount
  BY <1>11, <1>a DEF IndexInv, LogicalBottom, Pushing, Popping, popCount, thiefVars
<1>12. ASSUME NEW t \in Thieves, stealLoadTop(t)
      PROVE  IndexInv'
  BY <1>12, <1>a DEF IndexInv, LogicalBottom, Pushing, Popping, stealLoadTop, ownerVars
<1>13. ASSUME NEW t \in Thieves, stealLoadBottom(t)
      PROVE  IndexInv'
  BY <1>13, <1>a DEF IndexInv, LogicalBottom, Pushing, Popping, stealLoadBottom, ownerVars
<1>14. ASSUME NEW t \in Thieves, stealLoadItem(t)
      PROVE  IndexInv'
  BY <1>14, <1>a DEF IndexInv, LogicalBottom, Pushing, Popping, stealLoadItem, ownerVars
<1>15. ASSUME NEW t \in Thieves, stealCas(t)
      PROVE  IndexInv'
  <2>1. CASE top = stealTop[t]
    <3>1. top < LogicalBottom /\ top' = top + 1
      BY <1>15, <1>a, <2>1, PlusLemma DEF stealCas, ThiefInv
    <3>2. pc # "popStore"
      BY <1>a, <3>1 DEF IndexInv, Popping
    <3>3. QED
      BY <1>15, <1>a, <3>1, <3>2 DEF stealCas, ownerVars, IndexInv, LogicalBottom
  <2>2. CASE top # stealTop[t]
    BY <1>15, <2>2 DEF stealCas, ownerVars, IndexInv, LogicalBottom
  <2>3. QED
    BY <2>1, <2>2
<1>16. ASSUME NEW t \in Thieves, stealCount(t)
      PROVE  IndexInv'
  BY <1>16, <1>a DEF IndexInv, LogicalBottom, Pushing, Popping, stealCount, ownerVars
<1>17. QED
  BY <1>1, <1>2, <1>3, <1>4, <1>5, <1>6, <1>7, <1>8, <1>9, <1>10, <1>11, <1>12, <1>13,
     <1>14, <1>15, <1>16 DEF Next, Owner, PopSteps, Thief

\* What a thief is after stays until top_ moves.
LEMMA ThiefStep ==
    ASSUME NoWrap, TypeOK, IndexInv, ThiefInv, CountInv, Next
    PROVE  ThiefInv'
<1>a. /\ Width \in Nat /\ MaxPush \in Nat /\ pushed \in Nat /\ pushed <= MaxPush
      /\ NUMBER_OF_ITEMS \in Nat /\ NUMBER_OF_ITEMS > 0 /\ 2 * NUMBER_OF_ITEMS < Width
      /\ MaxPush < Width
      /\ bottom \in Nat /\ top \in Nat /\ b1 \in Nat /\ bottom < Width /\ top < Width
      /\ b1 < Width
      /\ LogicalBottom \in Nat /\ top <= LogicalBottom /\ LogicalBottom <= pushed
      /\ pc \notin Popping => LogicalBottom = bottom
      /\ pc \in Popping => LogicalBottom = bottom + 1 /\ b1 = bottom + 1
  BY Bounds
<1>b. Cardinality(Counting) \in Nat
  BY FS_CardinalityType DEF CountInv
<1>1. CASE pushCheck
  BY <1>1, <1>a DEF ThiefInv, TypeOK, Index, LogicalBottom, Popping, pushCheck, HandOut,
     thiefVars
<1>2. CASE pushItem
  <2>1. /\ UNCHANGED <<top, at, stealTop, stealItem>> /\ LogicalBottom' = LogicalBottom
        /\ LogicalBottom = bottom /\ items' = [items EXCEPT ![Slot(bottom)] = pushed]
    BY <1>2, <1>a DEF pushItem, thiefVars, LogicalBottom, Popping
  <2>2. top < bottom => items'[Slot(top)] = items[Slot(top)]
    <3>1. LogicalBottom - top < NUMBER_OF_ITEMS
      BY <1>2, <1>a, <1>b DEF pushItem, CountInv, Held, Pushing
    <3>2. QED
      BY <1>a, <2>1, <3>1, SlotLemma, SlotRange DEF TypeOK
  <2>3. QED
    BY <2>1, <2>2 DEF ThiefInv
<1>3. CASE pushBottom
  <2>1. /\ UNCHANGED <<top, at, stealTop, stealItem, items>> /\ LogicalBottom' = LogicalBottom + 1
    BY <1>3, <1>a, PlusLemma DEF pushBottom, thiefVars, LogicalBottom, Popping, Pushing,
       IndexInv
  <2>2. QED
    BY <1>a, <2>1 DEF ThiefInv
<1>4. CASE pushCount
  BY <1>4, <1>a DEF ThiefInv, TypeOK, Index, LogicalBottom, Popping, pushCount, thiefVars
<1>5. CASE popCheck
  BY <1>5, <1>a DEF ThiefInv, TypeOK, Index, LogicalBottom, Popping, popCheck, thiefVars
<1>6. CASE popDecrement
  <2>1. UNCHANGED <<top, at, stealTop, stealItem, items>> /\ LogicalBottom' = LogicalBottom
    BY <1>6, <1>a DEF popDecrement, thiefVars, LogicalBottom, Popping
  <2>2. QED
    BY <2>1 DEF ThiefInv
<1>7. CASE popTop
  <2>1. Plus(b1, -1) = bottom /\ top <= bottom + 1 /\ LogicalBottom = bottom + 1
    BY <1>7, <1>a, PlusLemma DEF popTop, Popping
  <2>2. topLessThanBottom(top, bottom) <=> top < bottom
    BY <2>1, CompareIndexes DEF TypeOK
  <2>3. CASE top # bottom /\ topLessThanBottom(top, bottom)
    <3>1. /\ pc = "popTop" /\ pc' = "popCount" /\ top < bottom /\ LogicalBottom' = bottom
          /\ UNCHANGED <<bottom, top, items, num_queued, b1, pushed, at, stealTop, stealItem>>
          /\ HandOut(items[Slot(bottom)])
      BY <1>7, <2>1, <2>2, <2>3 DEF popTop, thiefVars, LogicalBottom
    <3>2. QED
      BY <1>a, <3>1 DEF ThiefInv
  <2>4. CASE top = bottom \/ ~topLessThanBottom(top, bottom)
    <3>1. /\ pc = "popTop" /\ pc' \in {"popLast", "popRestore"} /\ LogicalBottom' = LogicalBottom
          /\ UNCHANGED <<bottom, top, items, num_queued, b1, pushed, at, stealTop, stealItem, took>>
      BY <1>7, <2>1, <2>4 DEF popTop, thiefVars, LogicalBottom
    <3>2. QED
      BY <3>1 DEF ThiefInv
  <2>5. QED
    BY <2>3, <2>4
<1>8. CASE popLast
  <2>1. /\ UNCHANGED <<bottom, items, num_queued, b1, pushed, at, stealTop, stealItem>>
        /\ pc = "popLast"
    BY <1>8 DEF popLast, thiefVars
  <2>2. CASE top = bottom
    <3>1. /\ top' = top + 1 /\ pc' = "popStore" /\ HandOut(items[Slot(top)])
          /\ LogicalBottom' = LogicalBottom /\ LogicalBottom = top + 1
      BY <1>8, <1>a, <2>2, PlusLemma DEF popLast, LogicalBottom, Popping
    <3>2. QED
      BY <1>a, <2>1, <3>1 DEF ThiefInv, TypeOK, Index
  <2>3. CASE top # bottom
    <3>1. UNCHANGED <<top, took>> /\ pc' = "popRestore" /\ LogicalBottom' = LogicalBottom
      BY <1>8, <2>3 DEF popLast, LogicalBottom
    <3>2. QED
      BY <2>1, <3>1 DEF ThiefInv
  <2>4. QED
    BY <2>2, <2>3
<1>9. CASE popRestore
  BY <1>9, <1>a DEF ThiefInv, TypeOK, Index, LogicalBottom, Popping, popRestore, thiefVars
<1>10. CASE popStore
  <2>1. UNCHANGED <<top, at, stealTop, stealItem, items>> /\ LogicalBottom' = LogicalBottom
    BY <1>10, <1>a, PlusLemma DEF popStore, thiefVars, LogicalBottom, Popping
  <2>2. QED
    BY <2>1 DEF ThiefInv
<1>11. CASE popCount
  BY <1>11, <1>a DEF ThiefInv, TypeOK, Index, LogicalBottom, Popping, popCount, thiefVars
<1>12. ASSUME NEW t \in Thieves, stealLoadTop(t)
      PROVE  ThiefInv'
  BY <1>12, <1>a DEF ThiefInv, TypeOK, Index, LogicalBottom, Popping, stealLoadTop,
     ownerVars
<1>13. ASSUME NEW t \in Thieves, stealLoadBottom(t)
      PROVE  ThiefInv'
  <2>1. UNCHANGED <<bottom, top, items, pc, b1, stealTop, stealItem>>
        /\ LogicalBottom' = LogicalBottom
    BY <1>13 DEF stealLoadBottom, ownerVars, LogicalBottom
  <2>2. /\ \A u \in Thieves \ {t} : at'[u] = at[u]
        /\ at'[t] = "idle" \/ (at'[t] = "item" /\ topLessThanBottom(stealTop[t], bottom))
    BY <1>13 DEF stealLoadBottom, TypeOK
  <2>3. stealTop[t] \in Index /\ stealTop[t] <= bottom + 1
    BY <1>a DEF ThiefInv, TypeOK, Index
  <2>4. topLessThanBottom(stealTop[t], bottom) => stealTop[t] < bottom
    BY <2>3, CompareIndexes DEF TypeOK
  <2>5. QED
    BY <1>a, <2>1, <2>2, <2>4 DEF ThiefInv
<1>14. ASSUME NEW t \in Thieves, stealLoadItem(t)
      PROVE  ThiefInv'
  BY <1>14, <1>a DEF ThiefInv, TypeOK, Index, LogicalBottom, Popping, stealLoadItem,
     ownerVars
<1>15. ASSUME NEW t \in Thieves, stealCas(t)
      PROVE  ThiefInv'
  <2>1. UNCHANGED <<bottom, items, num_queued, pc, b1, pushed, stealTop, stealItem>>
        /\ LogicalBottom' = LogicalBottom /\ at[t] = "cas"
    BY <1>15 DEF stealCas, ownerVars, LogicalBottom
  <2>2. CASE top = stealTop[t]
    <3>1. /\ top < LogicalBottom /\ top' = top + 1 /\ at' = [at EXCEPT ![t] = "count"]
          /\ HandOut(items[Slot(top)])
      BY <1>15, <1>a, <2>2, PlusLemma DEF stealCas, ThiefInv
    <3>2. QED
      BY <1>a, <2>1, <3>1 DEF ThiefInv, TypeOK, Index
  <2>3. CASE top # stealTop[t]
    <3>1. UNCHANGED <<top, took>> /\ at' = [at EXCEPT ![t] = "idle"]
      BY <1>15, <2>3 DEF stealCas
    <3>2. QED
      BY <2>1, <3>1 DEF ThiefInv, TypeOK, Index
  <2>4. QED
    BY <2>2, <2>3
<1>16. ASSUME NEW t \in Thieves, stealCount(t)
      PROVE  ThiefInv'
  BY <1>16, <1>a DEF ThiefInv, TypeOK, Index, LogicalBottom, Popping, stealCount, ownerVars
<1>17. QED
  BY <1>1, <1>2, <1>3, <1>4, <1>5, <1>6, <1>7, <1>8, <1>9, <1>10, <1>11, <1>12, <1>13,
     <1>14, <1>15, <1>16 DEF Next, Owner, PopSteps, Thief

\* num_queued_ is what the calls in progress leave it to be.
LEMMA CountStep ==
    ASSUME NoWrap, TypeOK, IndexInv, ThiefInv, CountInv, Next
    PROVE  CountInv'
<1>a. /\ Width \in Nat /\ MaxPush \in Nat /\ pushed \in Nat /\ pushed <= MaxPush
      /\ NUMBER_OF_ITEMS \in Nat /\ NUMBER_OF_ITEMS > 0 /\ 2 * NUMBER_OF_ITEMS < Width
      /\ MaxPush < Width
      /\ bottom \in Nat /\ top \in Nat /\ b1 \in Nat /\ bottom < Width /\ top < Width
      /\ b1 < Width
      /\ LogicalBottom \in Nat /\ top <= LogicalBottom /\ LogicalBottom <= pushed
      /\ pc \notin Popping => LogicalBottom = bottom
      /\ pc \in Popping => LogicalBottom = bottom + 1 /\ b1 = bottom + 1
  BY Bounds
<1>b. Cardinality(Counting) \in Nat
  BY FS_CardinalityType DEF CountInv
<1>c. Held \in Nat
  BY <1>a, <1>b DEF Held
<1>1. CASE pushCheck
  <2>1. /\ UNCHANGED <<num_queued, top, at>> /\ LogicalBottom' = LogicalBottom /\ pc = "idle"
        /\ pc' = "idle" \/ (pc' = "pushItem" /\ num_queued # NUMBER_OF_ITEMS)
    BY <1>1, <1>a DEF pushCheck, thiefVars, LogicalBottom, Popping
  <2>2. Counting' = Counting /\ Held' = Held /\ num_queued = Held
    BY <2>1 DEF Counting, Held, CountInv
  <2>3. QED
    BY <1>a, <1>c, <2>1, <2>2 DEF CountInv, Pushing
<1>2. CASE pushItem
  <2>1. /\ UNCHANGED <<num_queued, top, at>> /\ LogicalBottom' = LogicalBottom
        /\ pc = "pushItem" /\ pc' = "pushBottom"
    BY <1>2, <1>a DEF pushItem, thiefVars, LogicalBottom, Popping
  <2>2. Counting' = Counting /\ Held' = Held
    BY <2>1 DEF Counting, Held
  <2>3. QED
    BY <2>1, <2>2 DEF CountInv, Pushing
<1>3. CASE pushBottom
  <2>1. /\ UNCHANGED <<num_queued, top, at>> /\ LogicalBottom' = LogicalBottom + 1
        /\ pc = "pushBottom" /\ pc' = "pushCount"
    BY <1>3, <1>a, PlusLemma DEF pushBottom, thiefVars, LogicalBottom, Popping, Pushing,
       IndexInv
  <2>2. Counting' = Counting /\ Held' = Held + 1
    BY <1>a, <1>b, <2>1 DEF Counting, Held
  <2>3. num_queued = Held /\ Held < NUMBER_OF_ITEMS
    BY <2>1 DEF CountInv, Pushing
  <2>4. Plus(Held + 1, -1) = Held
    BY <1>a, <1>c, <2>3, PlusLemma
  <2>5. QED
    BY <1>a, <1>c, <2>1, <2>2, <2>3, <2>4 DEF CountInv, Pushing
<1>4. CASE pushCount
  <2>1. /\ UNCHANGED <<top, at>> /\ LogicalBottom' = LogicalBottom
        /\ pc = "pushCount" /\ pc' = "idle" /\ num_queued' = Plus(num_queued, 1)
    BY <1>4, <1>a DEF pushCount, thiefVars, LogicalBottom, Popping
  <2>2. Counting' = Counting /\ Held' = Held
    BY <2>1 DEF Counting, Held
  <2>3. num_queued = Plus(Held, -1) /\ Held <= NUMBER_OF_ITEMS
    BY <2>1 DEF CountInv
  <2>4. Plus(Plus(Held, -1), 1) = Held
    <3>1. CASE Held = 0
      BY <1>a, <3>1 DEF Plus
    <3>2. CASE Held > 0
      <4>1. Plus(Held, -1) = Held - 1
        BY <1>a, <1>c, <2>3, <3>2, PlusLemma
      <4>2. QED
        BY <1>a, <1>c, <2>3, <3>2, <4>1, PlusLemma
    <3>3. QED
      BY <1>c, <3>1, <3>2
  <2>5. QED
    BY <2>1, <2>2, <2>3, <2>4 DEF CountInv, Pushing
<1>5. CASE popCheck
  <2>1. /\ UNCHANGED <<num_queued, top, at>> /\ LogicalBottom' = LogicalBottom
        /\ pc \in {"idle", "popAgain"} /\ pc' \in {"idle", "popDecrement"}
    BY <1>5, <1>a DEF popCheck, thiefVars, LogicalBottom, Popping
  <2>2. Counting' = Counting /\ Held' = Held
    BY <2>1 DEF Counting, Held
  <2>3. QED
    BY <2>1, <2>2 DEF CountInv, Pushing
<1>6. CASE popDecrement
  <2>1. /\ UNCHANGED <<num_queued, top, at>> /\ LogicalBottom' = LogicalBottom
        /\ pc = "popDecrement" /\ pc' = "popTop"
    BY <1>6, <1>a DEF popDecrement, thiefVars, LogicalBottom, Popping
  <2>2. Counting' = Counting /\ Held' = Held
    BY <2>1 DEF Counting, Held
  <2>3. QED
    BY <2>1, <2>2 DEF CountInv, Pushing
<1>7. CASE popTop
  <2>1. Plus(b1, -1) = bottom /\ top <= bottom + 1 /\ LogicalBottom = bottom + 1
    BY <1>7, <1>a, PlusLemma DEF popTop, Popping
  <2>2. topLessThanBottom(top, bottom) <=> top < bottom
    BY <2>1, CompareIndexes DEF TypeOK
  <2>3. CASE top # bottom /\ topLessThanBottom(top, bottom)
    <3>1. /\ pc = "popTop" /\ pc' = "popCount" /\ top < bottom /\ LogicalBottom' = bottom
          /\ UNCHANGED <<bottom, top, items, num_queued, b1, pushed, at, stealTop, stealItem>>
          /\ HandOut(items[Slot(bottom)])
      BY <1>7, <2>1, <2>2, <2>3 DEF popTop, thiefVars, LogicalBottom
    <3>2. Counting' = Counting /\ Held' = Held
      BY <1>a, <1>b, <2>1, <3>1 DEF Counting, Held
    <3>3. QED
      BY <3>1, <3>2 DEF CountInv, Pushing
  <2>4. CASE top = bottom \/ ~topLessThanBottom(top, bottom)
    <3>1. /\ pc = "popTop" /\ pc' \in {"popLast", "popRestore"} /\ LogicalBottom' = LogicalBottom
          /\ UNCHANGED <<bottom, top, items, num_queued, b1, pushed, at, stealTop, stealItem, took>>
      BY <1>7, <2>1, <2>4 DEF popTop, thiefVars, LogicalBottom
    <3>2. Counting' = Counting /\ Held' = Held
      BY <3>1 DEF Counting, Held
    <3>3. QED
      BY <3>1, <3>2 DEF CountInv, Pushing
  <2>5. QED
    BY <2>3, <2>4
<1>8. CASE popLast
  <2>1. /\ UNCHANGED <<bottom, items, num_queued, b1, pushed, at, stealTop, stealItem>>
        /\ pc = "popLast"
    BY <1>8 DEF popLast, thiefVars
  <2>2. CASE top = bottom
    <3>1. /\ top' = top + 1 /\ pc' = "popStore" /\ HandOut(items[Slot(top)])
          /\ LogicalBottom' = LogicalBottom /\ LogicalBottom = top + 1
      BY <1>8, <1>a, <2>2, PlusLemma DEF popLast, LogicalBottom, Popping
    <3>2. Counting' = Counting /\ Held' = Held
      BY <1>a, <1>b, <2>1, <3>1 DEF Counting, Held
    <3>3. QED
      BY <1>a, <1>b, <2>1, <3>1, <3>2 DEF CountInv, Pushing
  <2>3. CASE top # bottom
    <3>1. UNCHANGED <<top, took>> /\ pc' = "popRestore" /\ LogicalBottom' = LogicalBottom
      BY <1>8, <2>3 DEF popLast, LogicalBottom
    <3>2. Counting' = Counting /\ Held' = Held
      BY <2>1, <3>1 DEF Counting, Held
    <3>3. QED
      BY <2>1, <3>1, <3>2 DEF CountInv, Pushing
  <2>4. QED
    BY <2>2, <2>3
<1>9. CASE popRestore
  <2>1. /\ UNCHANGED <<num_queued, top, at>> /\ LogicalBottom' = LogicalBottom
        /\ pc = "popRestore" /\ pc' = "popAgain"
    BY <1>9, <1>a DEF popRestore, thiefVars, LogicalBottom, Popping
  <2>2. Counting' = Counting /\ Held' = Held
    BY <2>1 DEF Counting, Held
  <2>3. QED
    BY <2>1, <2>2 DEF CountInv, Pushing
<1>10. CASE popStore
  <2>1. /\ UNCHANGED <<num_queued, top, at>> /\ LogicalBottom' = LogicalBottom
        /\ pc = "popStore" /\ pc' = "popCount"
    BY <1>10, <1>a, PlusLemma DEF popStore, thiefVars, LogicalBottom, Popping
  <2>2. Counting' = Counting /\ Held' = Held
    BY <2>1 DEF Counting, Held
  <2>3. QED
    BY <2>1, <2>2 DEF CountInv, Pushing
<1>11. CASE popCount
  <2>1. /\ UNCHANGED <<top, at>> /\ LogicalBottom' = LogicalBottom
        /\ pc = "popCount" /\ pc' = "idle" /\ num_queued' = Plus(num_queued, -1)
    BY <1>11, <1>a DEF popCount, thiefVars, LogicalBottom, Popping
  <2>2. Counting' = Counting /\ Held' = Held - 1 /\ Held >= 1
    BY <1>a, <1>b, <2>1 DEF Counting, Held
  <2>3. num_queued = Held /\ Held <= NUMBER_OF_ITEMS
    BY <2>1 DEF CountInv
  <2>4. Plus(Held, -1) = Held - 1
    BY <1>a, <1>c, <2>2, <2>3, PlusLemma
  <2>5. QED
    BY <1>a, <1>c, <2>1, <2>2, <2>3, <2>4 DEF CountInv, Pushing
<1>12. ASSUME NEW t \in Thieves, stealLoadTop(t)
      PROVE  CountInv'
  <2>1. /\ UNCHANGED <<num_queued, top, pc>> /\ LogicalBottom' = LogicalBottom
        /\ \A u \in Thieves : at'[u] = "count" <=> at[u] = "count"
    BY <1>12 DEF stealLoadTop, ownerVars, LogicalBottom, TypeOK
  <2>2. Counting' = Counting
    BY <2>1 DEF Counting
  <2>3. Held' = Held
    BY <2>1, <2>2 DEF Held
  <2>4. QED
    BY <2>1, <2>2, <2>3 DEF CountInv
<1>13. ASSUME NEW t \in Thieves, stealLoadBottom(t)
      PROVE  CountInv'
  <2>1. /\ UNCHANGED <<num_queued, top, pc>> /\ LogicalBottom' = LogicalBottom
        /\ \A u \in Thieves : at'[u] = "count" <=> at[u] = "count"
    BY <1>13 DEF stealLoadBottom, ownerVars, LogicalBottom, TypeOK
  <2>2. Counting' = Counting
    BY <2>1 DEF Counting
  <2>3. Held' = Held
    BY <2>1, <2>2 DEF Held
  <2>4. QED
    BY <2>1, <2>2, <2>3 DEF CountInv
<1>14. ASSUME NEW t \in Thieves, stealLoadItem(t)
      PROVE  CountInv'
  <2>1. /\ UNCHANGED <<num_queued, top, pc>> /\ LogicalBottom' = LogicalBottom
        /\ \A u \in Thieves : at'[u] = "count" <=> at[u] = "count"
    BY <1>14 DEF stealLoadItem, ownerVars, LogicalBottom, TypeOK
  <2>2. Counting' = Counting
    BY <2>1 DEF Counting
  <2>3. Held' = Held
    BY <2>1, <2>2 DEF Held
  <2>4. QED
    BY <2>1, <2>2, <2>3 DEF CountInv
<1>15. ASSUME NEW t \in Thieves, stealCas(t)
      PROVE  CountInv'
  <2>1. UNCHANGED <<bottom, items, num_queued, pc, b1, pushed, stealTop, stealItem>>
        /\ LogicalBottom' = LogicalBottom /\ at[t] = "cas"
    BY <1>15 DEF stealCas, ownerVars, LogicalBottom
  <2>2. CASE top = stealTop[t]
    <3>1. /\ top < LogicalBottom /\ top' = top + 1 /\ at' = [at EXCEPT ![t] = "count"]
          /\ HandOut(items[Slot(top)])
      BY <1>15, <1>a, <2>2, PlusLemma DEF stealCas, ThiefInv
    <3>2. Counting' = Counting \cup {t} /\ t \notin Counting
      BY <2>1, <3>1 DEF Counting, TypeOK
    <3>3. IsFiniteSet(Counting') /\ Cardinality(Counting') = Cardinality(Counting) + 1
      BY <3>2, CountingAdd DEF CountInv
    <3>4. Held' = Held
      BY <1>a, <1>b, <2>1, <3>1, <3>3 DEF Held
    <3>5. QED
      BY <1>a, <1>b, <2>1, <3>1, <3>3, <3>4 DEF CountInv
  <2>3. CASE top # stealTop[t]
    <3>1. UNCHANGED <<top, took>> /\ at' = [at EXCEPT ![t] = "idle"]
      BY <1>15, <2>3 DEF stealCas
    <3>2. Counting' = Counting
      BY <2>1, <3>1 DEF Counting, TypeOK
    <3>3. Held' = Held
      BY <2>1, <3>1, <3>2 DEF Held
    <3>4. QED
      BY <2>1, <3>1, <3>2, <3>3 DEF CountInv
  <2>4. QED
    BY <2>2, <2>3
<1>16. ASSUME NEW t \in Thieves, stealCount(t)
      PROVE  CountInv'
  <2>1. /\ UNCHANGED <<top, pc>> /\ LogicalBottom' = LogicalBottom
        /\ num_queued' = Plus(num_queued, -1)
        /\ at[t] = "count" /\ at' = [at EXCEPT ![t] = "idle"]
    BY <1>16 DEF stealCount, ownerVars, LogicalBottom
  <2>2. Counting' = Counting \ {t} /\ t \in Counting
    BY <2>1 DEF Counting, TypeOK
  <2>3. /\ IsFiniteSet(Counting') /\ Cardinality(Counting') = Cardinality(Counting) - 1
        /\ Cardinality(Counting) > 0
    BY <2>2, CountingAdd DEF CountInv
  <2>4. Held' = Held - 1 /\ Held >= 1
    BY <1>a, <1>b, <2>1, <2>3 DEF Held
  <2>5. Plus(Held, -1) = Held - 1
    BY <1>a, <1>c, <2>4, PlusLemma DEF CountInv
  <2>6. num_queued' = (IF pc = "pushCount" THEN Plus(Held - 1, -1) ELSE Held - 1)
    BY <2>1, <2>5 DEF CountInv
  <2>7. QED
    BY <1>a, <1>b, <1>c, <2>1, <2>3, <2>4, <2>6 DEF CountInv
<1>17. QED
  BY <1>1, <1>2, <1>3, <1>4, <1>5, <1>6, <1>7, <1>8, <1>9, <1>10, <1>11, <1>12, <1>13,
     <1>14, <1>15, <1>16 DEF Next, Owner, PopSteps, Thief

\* An item of the queue is handed out: the others stay as they were.
LEMMA HandOutLive ==
    ASSUME NoWrap, TypeOK, IndexInv, ItemInv, NEW k \in Live, HandOut(items[Slot(k)])
    PROVE  /\ items[Slot(k)] \in Item
           /\ took' \in [Item -> 0 .. 2]
           /\ \A j \in Live \ {k} : took'[items[Slot(j)]] = 0
           /\ \A i \in Item : took'[i] <= 1 /\ (i > pushed => took'[i] = 0)
           /\ pc \in Pushing => took'[pushed] = 0
<1>1. /\ pushed \in Nat /\ pushed <= MaxPush /\ MaxPush \in Nat
      /\ top \in Nat /\ LogicalBottom \in Nat
  BY Bounds
<1>2. items[Slot(k)] \in 1 .. pushed /\ took[items[Slot(k)]] = 0
  BY DEF ItemInv
<1>3. items[Slot(k)] \in Item
  BY <1>1, <1>2 DEF Item
<1>4. /\ took \in [Item -> 0 .. 2] /\ took' = [took EXCEPT ![items[Slot(k)]] = @ + 1]
  BY DEF TypeOK, HandOut
<1>5. took'[items[Slot(k)]] = 1 /\ \A i \in Item \ {items[Slot(k)]} : took'[i] = took[i]
  BY <1>2, <1>3, <1>4
<1>6. took' \in [Item -> 0 .. 2]
  BY <1>2, <1>3, <1>4
<1>7. ASSUME NEW j \in Live \ {k} PROVE took'[items[Slot(j)]] = 0
  <2>1. items[Slot(j)] \in 1 .. pushed /\ took[items[Slot(j)]] = 0 /\ j \in Int /\ k \in Int
    BY <1>1 DEF ItemInv, Live
  <2>2. items[Slot(j)] # items[Slot(k)]
    BY <1>2, <2>1 DEF ItemInv
  <2>3. QED
    BY <1>1, <1>5, <2>1, <2>2 DEF Item
<1>8. \A i \in Item : took'[i] <= 1 /\ (i > pushed => took'[i] = 0)
  BY <1>1, <1>2, <1>5 DEF ItemInv, Item
<1>9. pc \in Pushing => took'[pushed] = 0
  <2>1. SUFFICES ASSUME pc \in Pushing PROVE took'[pushed] = 0
    OBVIOUS
  <2>2. took[pushed] = 0 /\ items[Slot(k)] < pushed /\ pushed \in Item
    BY <1>1, <1>2, <2>1 DEF ItemInv, Item
  <2>3. QED
    BY <1>1, <1>2, <1>5, <2>2
<1>10. QED
  BY <1>3, <1>6, <1>7, <1>8, <1>9

\* The items in the queue stay in order, and none is handed out while it is there.
LEMMA ItemStep ==
    ASSUME NoWrap, TypeOK, IndexInv, ThiefInv, CountInv, ItemInv, Next
    PROVE  ItemInv'
<1>a. /\ Width \in Nat /\ MaxPush \in Nat /\ pushed \in Nat /\ pushed <= MaxPush
      /\ NUMBER_OF_ITEMS \in Nat /\ NUMBER_OF_ITEMS > 0 /\ 2 * NUMBER_OF_ITEMS < Width
      /\ MaxPush < Width
      /\ bottom \in Nat /\ top \in Nat /\ b1 \in Nat /\ bottom < Width /\ top < Width
      /\ b1 < Width
      /\ LogicalBottom \in Nat /\ top <= LogicalBottom /\ LogicalBottom <= pushed
      /\ pc \notin Popping => LogicalBottom = bottom
      /\ pc \in Popping => LogicalBottom = bottom + 1 /\ b1 = bottom + 1
  BY Bounds
<1>b. Cardinality(Counting) \in Nat
  BY FS_CardinalityType DEF CountInv
<1>1. CASE pushCheck
  <2>1. /\ UNCHANGED <<items, top, bottom>> /\ LogicalBottom' = LogicalBottom /\ pc = "idle"
        /\ pushed' = pushed + 1 /\ pushed + 1 \in Item /\ pushed < MaxPush
        /\ \/ HandOut(pushed + 1) /\ pc' = "idle"
           \/ pc' = "pushItem" /\ took' = took
    BY <1>1, <1>a DEF pushCheck, LogicalBottom, Popping, Item
  <2>2. Live' = Live
    BY <2>1 DEF Live
  <2>3. /\ \A i \in 1 .. pushed : took'[i] = took[i]
        /\ \A i \in Item : took'[i] <= 1 /\ (i > pushed + 1 => took'[i] = 0)
        /\ pc' = "pushItem" => took'[pushed + 1] = 0
    BY <1>a, <2>1 DEF HandOut, TypeOK, ItemInv, Item
  <2>4. \A k \in Live : items[Slot(k)] \in 1 .. pushed /\ took[items[Slot(k)]] = 0
    BY DEF ItemInv
  <2>5. /\ \A k \in Live' : items'[Slot(k)] \in 1 .. pushed' /\ took'[items'[Slot(k)]] = 0
        /\ \A k \in Live' : items'[Slot(k)] < pushed'
    BY <1>a, <2>1, <2>2, <2>3, <2>4
  <2>6. \A j, k \in Live' : j < k => items'[Slot(j)] < items'[Slot(k)]
    BY <2>1, <2>2 DEF ItemInv
  <2>7. QED
    BY <2>1, <2>3, <2>5, <2>6 DEF ItemInv, Pushing
<1>2. CASE pushItem
  <2>1. /\ UNCHANGED <<bottom, top, took, pushed>> /\ LogicalBottom' = LogicalBottom
        /\ LogicalBottom = bottom /\ items' = [items EXCEPT ![Slot(bottom)] = pushed]
        /\ pc = "pushItem" /\ pc' = "pushBottom"
    BY <1>2, <1>a DEF pushItem, LogicalBottom, Popping
  <2>2. Live' = Live
    BY <2>1 DEF Live
  <2>3. LogicalBottom - top < NUMBER_OF_ITEMS
    BY <1>a, <1>b, <2>1 DEF CountInv, Held, Pushing
  <2>4. \A k \in Live : items'[Slot(k)] = items[Slot(k)]
    <3>1. SUFFICES ASSUME NEW k \in Live PROVE items'[Slot(k)] = items[Slot(k)]
      OBVIOUS
    <3>2. k \in Nat /\ k < bottom /\ bottom - k < NUMBER_OF_ITEMS
      BY <1>a, <2>1, <2>3 DEF Live
    <3>3. Slot(k) # Slot(bottom) /\ Slot(k) \in 0 .. (NUMBER_OF_ITEMS - 1)
      BY <1>a, <3>2, SlotLemma, SlotRange
    <3>4. QED
      BY <2>1, <3>3 DEF TypeOK
  <2>5. items'[Slot(bottom)] = pushed
    BY <1>a, <2>1, SlotRange DEF TypeOK
  <2>6. QED
    BY <2>1, <2>2, <2>4, <2>5 DEF ItemInv, Pushing
<1>3. CASE pushBottom
  <2>1. /\ UNCHANGED <<top, items, took, pushed>> /\ LogicalBottom' = bottom + 1
        /\ LogicalBottom = bottom /\ pc = "pushBottom" /\ pc' = "pushCount"
    BY <1>3, <1>a, PlusLemma DEF pushBottom, LogicalBottom, Popping, Pushing, IndexInv
  <2>2. \A k \in Live' : k \in Live \/ k = bottom
    BY <1>a, <2>1 DEF Live
  <2>3. items[Slot(bottom)] = pushed /\ took[pushed] = 0 /\ pushed \in 1 .. pushed
        /\ \A k \in Live : items[Slot(k)] < pushed /\ k < bottom
    BY <1>a, <2>1 DEF ItemInv, Pushing, IndexInv, Live
  <2>4. \A k \in Live' : items'[Slot(k)] \in 1 .. pushed' /\ took'[items'[Slot(k)]] = 0
    BY <2>1, <2>2, <2>3 DEF ItemInv
  <2>5. ASSUME NEW j \in Live', NEW k \in Live', j < k
        PROVE  items'[Slot(j)] < items'[Slot(k)]
    <3>1. j \in Live
      BY <1>a, <2>1, <2>2, <2>5 DEF Live
    <3>2. QED
      BY <2>1, <2>2, <2>3, <2>5, <3>1 DEF ItemInv
  <2>6. QED
    BY <2>1, <2>4, <2>5 DEF ItemInv, Pushing
<1>4. CASE pushCount
  <2>1. /\ UNCHANGED <<top, items, took, pushed>> /\ LogicalBottom' = LogicalBottom
        /\ pc' \in {"idle"}
    BY <1>4, <1>a DEF pushCount, LogicalBottom, Popping
  <2>2. Live' = Live
    BY <2>1 DEF Live
  <2>3. QED
    BY <2>1, <2>2 DEF ItemInv, Pushing
<1>5. CASE popCheck
  <2>1. /\ UNCHANGED <<top, items, took, pushed>> /\ LogicalBottom' = LogicalBottom
        /\ pc' \in {"idle", "popDecrement"}
    BY <1>5, <1>a DEF popCheck, LogicalBottom, Popping
  <2>2. Live' = Live
    BY <2>1 DEF Live
  <2>3. QED
    BY <2>1, <2>2 DEF ItemInv, Pushing
<1>6. CASE popDecrement
  <2>1. /\ UNCHANGED <<top, items, took, pushed>> /\ LogicalBottom' = LogicalBottom
        /\ pc' \in {"popTop"}
    BY <1>6, <1>a DEF popDecrement, LogicalBottom, Popping
  <2>2. Live' = Live
    BY <2>1 DEF Live
  <2>3. QED
    BY <2>1, <2>2 DEF ItemInv, Pushing
<1>7. CASE popTop
  <2>1. Plus(b1, -1) = bottom /\ top <= bottom + 1 /\ LogicalBottom = bottom + 1
    BY <1>7, <1>a, PlusLemma DEF popTop, Popping
  <2>2. topLessThanBottom(top, bottom) <=> top < bottom
    BY <2>1, CompareIndexes DEF TypeOK
  <2>3. CASE top # bottom /\ topLessThanBottom(top, bottom)
    <3>1. /\ pc = "popTop" /\ pc' = "popCount" /\ top < bottom /\ LogicalBottom' = bottom
          /\ UNCHANGED <<bottom, top, items, num_queued, b1, pushed, at, stealTop, stealItem>>
          /\ HandOut(items[Slot(bottom)])
      BY <1>7, <2>1, <2>2, <2>3 DEF popTop, thiefVars, LogicalBottom
    <3>2. bottom \in Live /\ Live' = Live \ {bottom}
      BY <1>a, <2>1, <3>1 DEF Live
    <3>3. /\ \A j \in Live \ {bottom} : took'[items[Slot(j)]] = 0
          /\ \A i \in Item : took'[i] <= 1 /\ (i > pushed => took'[i] = 0)
      BY <3>1, <3>2, HandOutLive
    <3>4. QED
      BY <3>1, <3>2, <3>3 DEF ItemInv, Pushing
  <2>4. CASE top = bottom \/ ~topLessThanBottom(top, bottom)
    <3>1. /\ pc = "popTop" /\ pc' \in {"popLast", "popRestore"} /\ LogicalBottom' = LogicalBottom
          /\ UNCHANGED <<bottom, top, items, num_queued, b1, pushed, at, stealTop, stealItem, took>>
      BY <1>7, <2>1, <2>4 DEF popTop, thiefVars, LogicalBottom
    <3>2. Live' = Live
      BY <3>1 DEF Live
    <3>3. QED
      BY <3>1, <3>2 DEF ItemInv, Pushing
  <2>5. QED
    BY <2>3, <2>4
<1>8. CASE popLast
  <2>1. /\ UNCHANGED <<bottom, items, num_queued, b1, pushed, at, stealTop, stealItem>>
        /\ pc = "popLast"
    BY <1>8 DEF popLast, thiefVars
  <2>2. CASE top = bottom
    <3>1. /\ top' = top + 1 /\ pc' = "popStore" /\ HandOut(items[Slot(top)])
          /\ LogicalBottom' = LogicalBottom /\ LogicalBottom = top + 1
      BY <1>8, <1>a, <2>2, PlusLemma DEF popLast, LogicalBottom, Popping
    <3>2. top \in Live /\ Live' = {}
      BY <1>a, <2>1, <3>1 DEF Live
    <3>3. \A i \in Item : took'[i] <= 1 /\ (i > pushed => took'[i] = 0)
      BY <3>1, <3>2, HandOutLive
    <3>4. QED
      BY <2>1, <3>1, <3>2, <3>3 DEF ItemInv, Pushing
  <2>3. CASE top # bottom
    <3>1. UNCHANGED <<top, took>> /\ pc' = "popRestore" /\ LogicalBottom' = LogicalBottom
      BY <1>8, <2>3 DEF popLast, LogicalBottom
    <3>2. Live' = Live
      BY <3>1 DEF Live
    <3>3. QED
      BY <2>1, <3>1, <3>2 DEF ItemInv, Pushing
  <2>4. QED
    BY <2>2, <2>3
<1>9. CASE popRestore
  <2>1. /\ UNCHANGED <<top, items, took, pushed>> /\ LogicalBottom' = LogicalBottom
        /\ pc' \in {"popAgain"}
    BY <1>9, <1>a DEF popRestore, LogicalBottom, Popping
  <2>2. Live' = Live
    BY <2>1 DEF Live
  <2>3. QED
    BY <2>1, <2>2 DEF ItemInv, Pushing
<1>10. CASE popStore
  <2>1. /\ UNCHANGED <<top, items, took, pushed>> /\ LogicalBottom' = LogicalBottom
        /\ pc' \in {"popCount"}
    BY <1>10, <1>a, PlusLemma DEF popStore, LogicalBottom, Popping
  <2>2. Live' = Live
    BY <2>1 DEF Live
  <2>3. QED
    BY <2>1, <2>2 DEF ItemInv, Pushing
<1>11. CASE popCount
  <2>1. /\ UNCHANGED <<top, items, took, pushed>> /\ LogicalBottom' = LogicalBottom
        /\ pc' \in {"idle"}
    BY <1>11, <1>a DEF popCount, LogicalBottom, Popping
  <2>2. Live' = Live
    BY <2>1 DEF Live
  <2>3. QED
    BY <2>1, <2>2 DEF ItemInv, Pushing
<1>12. ASSUME NEW t \in Thieves, stealLoadTop(t)
      PROVE  ItemInv'
  <2>1. /\ UNCHANGED <<top, bottom, items, took, pushed, pc>> /\ LogicalBottom' = LogicalBottom
    BY <1>12 DEF stealLoadTop, ownerVars, LogicalBottom
  <2>2. Live' = Live
    BY <2>1 DEF Live
  <2>3. QED
    BY <2>1, <2>2 DEF ItemInv
<1>13. ASSUME NEW t \in Thieves, stealLoadBottom(t)
      PROVE  ItemInv'
  <2>1. /\ UNCHANGED <<top, bottom, items, took, pushed, pc>> /\ LogicalBottom' = LogicalBottom
    BY <1>13 DEF stealLoadBottom, ownerVars, LogicalBottom
  <2>2. Live' = Live
    BY <2>1 DEF Live
  <2>3. QED
    BY <2>1, <2>2 DEF ItemInv
<1>14. ASSUME NEW t \in Thieves, stealLoadItem(t)
      PROVE  ItemInv'
  <2>1. /\ UNCHANGED <<top, bottom, items, took, pushed, pc>> /\ LogicalBottom' = LogicalBottom
    BY <1>14 DEF stealLoadItem, ownerVars, LogicalBottom
  <2>2. Live' = Live
    BY <2>1 DEF Live
  <2>3. QED
    BY <2>1, <2>2 DEF ItemInv
<1>15. ASSUME NEW t \in Thieves, stealCas(t)
      PROVE  ItemInv'
  <2>1. UNCHANGED <<bottom, items, num_queued, pc, b1, pushed, stealTop, stealItem>>
        /\ LogicalBottom' = LogicalBottom /\ at[t] = "cas"
    BY <1>15 DEF stealCas, ownerVars, LogicalBottom
  <2>2. CASE top = stealTop[t]
    <3>1. /\ top < LogicalBottom /\ top' = top + 1 /\ at' = [at EXCEPT ![t] = "count"]
          /\ HandOut(items[Slot(top)])
      BY <1>15, <1>a, <2>2, PlusLemma DEF stealCas, ThiefInv
    <3>2. top \in Live /\ Live' = Live \ {top}
      BY <1>a, <2>1, <3>1 DEF Live
    <3>3. /\ \A j \in Live \ {top} : took'[items[Slot(j)]] = 0
          /\ \A i \in Item : took'[i] <= 1 /\ (i > pushed => took'[i] = 0)
          /\ pc \in Pushing => took'[pushed] = 0
      BY <3>1, <3>2, HandOutLive
    <3>4. QED
      BY <2>1, <3>2, <3>3 DEF ItemInv
  <2>3. CASE top # stealTop[t]
    <3>1. UNCHANGED <<top, took>> /\ at' = [at EXCEPT ![t] = "idle"]
      BY <1>15, <2>3 DEF stealCas
    <3>2. Live' = Live
      BY <2>1, <3>1 DEF Live
    <3>3. QED
      BY <2>1, <3>1, <3>2 DEF ItemInv
  <2>4. QED
    BY <2>2, <2>3
<1>16. ASSUME NEW t \in Thieves, stealCount(t)
      PROVE  ItemInv'
  <2>1. /\ UNCHANGED <<top, bottom, items, took, pushed, pc>> /\ LogicalBottom' = LogicalBottom
    BY <1>16 DEF stealCount, ownerVars, LogicalBottom
  <2>2. Live' = Live
    BY <2>1 DEF Live
  <2>3. QED
    BY <2>1, <2>2 DEF ItemInv
<1>17. QED
  BY <1>1, <1>2, <1>3, <1>4, <1>5, <1>6, <1>7, <1>8, <1>9, <1>10, <1>11, <1>12, <1>13,
     <1>14, <1>15, <1>16 DEF Next, Owner, PopSteps, Thief

\* Every step keeps the types.
LEMMA TypeStep ==
    ASSUME NoWrap, TypeOK, IndexInv, ThiefInv, CountInv, ItemInv, Next
    PROVE  TypeOK'
<1>a. /\ Width \in Nat /\ MaxPush \in Nat /\ pushed \in Nat /\ pushed <= MaxPush
      /\ NUMBER_OF_ITEMS \in Nat /\ NUMBER_OF_ITEMS > 0 /\ 2 * NUMBER_OF_ITEMS < Width
      /\ MaxPush < Width
      /\ bottom \in Nat /\ top \in Nat /\ b1 \in Nat /\ bottom < Width /\ top < Width
      /\ b1 < Width
      /\ LogicalBottom \in Nat /\ top <= LogicalBottom /\ LogicalBottom <= pushed
      /\ pc \notin Popping => LogicalBottom = bottom
      /\ pc \in Popping => LogicalBottom = bottom + 1 /\ b1 = bottom + 1
  BY Bounds
<1>1. CASE pushCheck
  <2>1. took' \in [Item -> 0 .. 2] /\ pushed' \in 0 .. MaxPush
    <3>1. pushed < MaxPush => pushed + 1 \in Item /\ took[pushed + 1] = 0
      BY <1>a DEF ItemInv, Item
    <3>2. QED
      BY <1>1, <1>a, <3>1 DEF pushCheck, HandOut, TypeOK
  <2>2. QED
    BY <1>1, <2>1 DEF pushCheck, thiefVars, TypeOK
<1>2. CASE pushItem
  <2>1. pushed \in Item
    BY <1>2, <1>a DEF pushItem, IndexInv, Pushing, Item
  <2>2. QED
    BY <1>2, <2>1 DEF pushItem, thiefVars, TypeOK
<1>3. CASE pushBottom
  <2>1. \A i \in Index : Plus(i, 1) \in Index /\ Plus(i, -1) \in Index
    BY <1>a DEF Plus, Index
  <2>2. QED
    BY <1>3, <2>1 DEF pushBottom, thiefVars, TypeOK
<1>4. CASE pushCount
  <2>1. \A i \in Index : Plus(i, 1) \in Index /\ Plus(i, -1) \in Index
    BY <1>a DEF Plus, Index
  <2>2. QED
    BY <1>4, <2>1 DEF pushCount, thiefVars, TypeOK
<1>5. CASE popCheck
  BY <1>5, <1>a DEF TypeOK, popCheck, thiefVars
<1>6. CASE popDecrement
  <2>1. \A i \in Index : Plus(i, 1) \in Index /\ Plus(i, -1) \in Index
    BY <1>a DEF Plus, Index
  <2>2. QED
    BY <1>6, <2>1 DEF popDecrement, thiefVars, TypeOK
<1>7. CASE popTop
  <2>1. Plus(b1, -1) = bottom /\ top <= bottom + 1 /\ LogicalBottom = bottom + 1
    BY <1>7, <1>a, PlusLemma DEF popTop, Popping
  <2>2. topLessThanBottom(top, bottom) <=> top < bottom
    BY <2>1, CompareIndexes DEF TypeOK
  <2>3. CASE top # bottom /\ topLessThanBottom(top, bottom)
    <3>1. /\ pc = "popTop" /\ pc' = "popCount" /\ top < bottom /\ LogicalBottom' = bottom
          /\ UNCHANGED <<bottom, top, items, num_queued, b1, pushed, at, stealTop, stealItem>>
          /\ stolen' = stolen /\ HandOut(items[Slot(bottom)])
      BY <1>7, <2>1, <2>2, <2>3 DEF popTop, thiefVars, LogicalBottom
    <3>2. bottom \in Live
      BY <1>a, <2>1, <3>1 DEF Live
    <3>3. took' \in [Item -> 0 .. 2]
      BY <3>1, <3>2, HandOutLive
    <3>4. QED
      BY <3>1, <3>3 DEF TypeOK
  <2>4. CASE top = bottom \/ ~topLessThanBottom(top, bottom)
    <3>1. /\ pc = "popTop" /\ pc' \in {"popLast", "popRestore"} /\ LogicalBottom' = LogicalBottom
          /\ UNCHANGED <<bottom, top, items, num_queued, b1, pushed, at, stealTop, stealItem, took, stolen>>
      BY <1>7, <2>1, <2>4 DEF popTop, thiefVars, LogicalBottom
    <3>2. QED
      BY <3>1 DEF TypeOK
  <2>5. QED
    BY <2>3, <2>4
<1>8. CASE popLast
  <2>1. /\ UNCHANGED <<bottom, items, num_queued, b1, pushed, at, stealTop, stealItem>>
        /\ stolen' = stolen /\ pc = "popLast"
    BY <1>8 DEF popLast, thiefVars
  <2>2. CASE top = bottom
    <3>1. /\ top' = top + 1 /\ pc' = "popStore" /\ HandOut(items[Slot(top)])
          /\ LogicalBottom' = LogicalBottom /\ LogicalBottom = top + 1
      BY <1>8, <1>a, <2>2, PlusLemma DEF popLast, LogicalBottom, Popping
    <3>2. top \in Live /\ top' \in Index
      BY <1>a, <2>1, <3>1 DEF Live, Index
    <3>3. took' \in [Item -> 0 .. 2]
      BY <3>1, <3>2, HandOutLive
    <3>4. QED
      BY <2>1, <3>1, <3>2, <3>3 DEF TypeOK
  <2>3. CASE top # bottom
    <3>1. UNCHANGED <<top, took>> /\ pc' = "popRestore" /\ LogicalBottom' = LogicalBottom
      BY <1>8, <2>3 DEF popLast, LogicalBottom
    <3>2. QED
      BY <2>1, <3>1 DEF TypeOK
  <2>4. QED
    BY <2>2, <2>3
<1>9. CASE popRestore
  BY <1>9, <1>a DEF TypeOK, popRestore, thiefVars
<1>10. CASE popStore
  <2>1. \A i \in Index : Plus(i, 1) \in Index /\ Plus(i, -1) \in Index
    BY <1>a DEF Plus, Index
  <2>2. QED
    BY <1>10, <2>1 DEF popStore, thiefVars, TypeOK
<1>11. CASE popCount
  <2>1. \A i \in Index : Plus(i, 1) \in Index /\ Plus(i, -1) \in Index
    BY <1>a DEF Plus, Index
  <2>2. QED
    BY <1>11, <2>1 DEF popCount, thiefVars, TypeOK
<1>12. ASSUME NEW t \in Thieves, stealLoadTop(t)
      PROVE  TypeOK'
  BY <1>12, <1>a DEF TypeOK, stealLoadTop, ownerVars
<1>13. ASSUME NEW t \in Thieves, stealLoadBottom(t)
      PROVE  TypeOK'
  BY <1>13, <1>a DEF TypeOK, stealLoadBottom, ownerVars
<1>14. ASSUME NEW t \in Thieves, stealLoadItem(t)
      PROVE  TypeOK'
  <2>1. items[Slot(stealTop[t])] \in Item \cup {Garbage}
    BY <1>a, SlotRange DEF TypeOK, Index
  <2>2. QED
    BY <1>14, <2>1 DEF stealLoadItem, ownerVars, TypeOK
<1>15. ASSUME NEW t \in Thieves, stealCas(t)
      PROVE  TypeOK'
  <2>1. UNCHANGED <<bottom, items, num_queued, pc, b1, pushed, stealTop, stealItem>>
        /\ LogicalBottom' = LogicalBottom /\ at[t] = "cas"
    BY <1>15 DEF stealCas, ownerVars, LogicalBottom
  <2>2. CASE top = stealTop[t]
    <3>1. /\ top < LogicalBottom /\ top' = top + 1 /\ at' = [at EXCEPT ![t] = "count"]
          /\ stealItem[t] = items[Slot(top)] /\ HandOut(items[Slot(top)])
          /\ stolen' = stolen \cup {items[Slot(top)]}
      BY <1>15, <1>a, <2>2, PlusLemma DEF stealCas, ThiefInv
    <3>2. top \in Live /\ top' \in Index
      BY <1>a, <2>1, <3>1 DEF Live, Index
    <3>3. took' \in [Item -> 0 .. 2]
      BY <3>1, <3>2, HandOutLive
    <3>4. stolen' \subseteq Item
      <4>1. items[Slot(top)] \in 1 .. pushed /\ stolen \subseteq Item
        BY <3>2 DEF ItemInv, TypeOK
      <4>2. items[Slot(top)] \in Item
        BY <1>a, <4>1 DEF Item
      <4>3. QED
        BY <3>1, <4>1, <4>2
    <3>5. QED
      BY <2>1, <3>1, <3>2, <3>3, <3>4 DEF TypeOK
  <2>3. CASE top # stealTop[t]
    <3>1. UNCHANGED <<top, took, stolen>> /\ at' = [at EXCEPT ![t] = "idle"]
      BY <1>15, <2>3 DEF stealCas
    <3>2. QED
      BY <2>1, <3>1 DEF TypeOK
  <2>4. QED
    BY <2>2, <2>3
<1>16. ASSUME NEW t \in Thieves, stealCount(t)
      PROVE  TypeOK'
  <2>1. \A i \in Index : Plus(i, 1) \in Index /\ Plus(i, -1) \in Index
    BY <1>a DEF Plus, Index
  <2>2. QED
    BY <1>16, <2>1 DEF stealCount, ownerVars, TypeOK
<1>17. QED
  BY <1>1, <1>2, <1>3, <1>4, <1>5, <1>6, <1>7, <1>8, <1>9, <1>10, <1>11, <1>12, <1>13,
     <1>14, <1>15, <1>16 DEF Next, Owner, PopSteps, Thief

-----------------------------------------------------------------------------
(* The inductive invariant holds, and with it the properties.              *)

\* The inductive invariant holds initially.
LEMMA QInvInit ==
    ASSUME NoWrap, Init
    PROVE  QInv
<1>1. Width \in Nat /\ NUMBER_OF_ITEMS \in Nat \ {0} /\ MaxPush \in Nat /\ Width > 0
  BY ThreadQueueAssumption
<1>2. TypeOK
  BY <1>1 DEF Init, TypeOK, Index
<1>3. LogicalBottom = 0 /\ Live = {} /\ Counting = {} /\ Cardinality({}) = 0 /\ IsFiniteSet({})
  BY FS_EmptySet DEF Init, LogicalBottom, Live, Counting
<1>4. Held = 0
  BY <1>3 DEF Init, Held
<1>5. IndexInv /\ ThiefInv /\ CountInv
  BY <1>1, <1>3, <1>4 DEF Init, IndexInv, ThiefInv, CountInv, Pushing, Popping
<1>6. ItemInv
  BY <1>3 DEF Init, ItemInv, Pushing
<1>7. QED
  BY <1>2, <1>5, <1>6 DEF QInv

\* Every step preserves the inductive invariant.
LEMMA QInvStep ==
    ASSUME NoWrap, QInv, [Next]_vars
    PROVE  QInv'
<1>1. CASE Next
  <2>1. TypeOK' /\ IndexInv' /\ ThiefInv' /\ CountInv' /\ ItemInv'
    BY <1>1, TypeStep, IndexStep, ThiefStep, CountStep, ItemStep DEF QInv
  <2>2. QED
    BY <2>1 DEF QInv
<1>2. CASE UNCHANGED vars
  <2>1. /\ UNCHANGED <<bottom, top, items, num_queued, pc, b1, pushed>>
        /\ UNCHANGED <<at, stealTop, stealItem, took, stolen>>
    BY <1>2 DEF vars, ownerVars, thiefVars
  <2>2. LogicalBottom' = LogicalBottom /\ Counting' = Counting
    BY <2>1 DEF LogicalBottom, Counting
  <2>3. Live' = Live /\ Held' = Held
    BY <2>1, <2>2 DEF Live, Held
  <2>4. TypeOK' /\ IndexInv' /\ ThiefInv'
    BY <2>1, <2>2 DEF QInv, TypeOK, IndexInv, ThiefInv
  <2>5. CountInv' /\ ItemInv'
    BY <2>1, <2>2, <2>3 DEF QInv, CountInv, ItemInv
  <2>6. QED
    BY <2>4, <2>5 DEF QInv
<1>3. QED
  BY <1>1, <1>2

\* The inductive invariant holds in every reachable state.
THEOREM QInvAlways ==
    ASSUME NoWrap
    PROVE  Spec => []QInv
<1>1. Init => QInv
  BY QInvInit
<1>2. QInv /\ [Next]_vars => QInv'
  BY QInvStep
<1>3. QED
  BY <1>1, <1>2, PTL DEF Spec

\* Every variable keeps its type.
THEOREM TypeCorrect ==
    ASSUME NoWrap
    PROVE  Spec => []TypeOK
<1>1. QInv => TypeOK
  BY DEF QInv
<1>2. Spec => []QInv
  BY QInvAlways
<1>3. QED
  BY <1>1, <1>2, PTL

\* No item is handed out twice, whoever races for it: the compare-and-swaps of top_ in
\* pop and steal have one winner (base/thread_pool_impl.h).
THEOREM HandedOutOnceCorrect ==
    ASSUME NoWrap
    PROVE  Spec => []HandedOutOnce
<1>1. QInv => HandedOutOnce
  BY DEF QInv, ItemInv, HandedOutOnce
<1>2. Spec => []QInv
  BY QInvAlways
<1>3. QED
  BY <1>1, <1>2, PTL

\* The number of items, when no index wraps.
LEMMA LengthLemma ==
    ASSUME NoWrap, QInv
    PROVE  /\ Length = LogicalBottom - top /\ Length \in Nat
           /\ Length <= Held /\ Held <= NUMBER_OF_ITEMS
<1>1. /\ Width \in Nat /\ top \in Nat /\ LogicalBottom \in Nat /\ top <= LogicalBottom
      /\ LogicalBottom < Width
  BY Bounds DEF QInv
<1>2. Length = LogicalBottom - top
  BY <1>1, PlusLemma DEF Length
<1>3. Cardinality(Counting) \in Nat /\ Held <= NUMBER_OF_ITEMS
  BY FS_CardinalityType DEF QInv, CountInv
<1>4. QED
  BY <1>1, <1>2, <1>3 DEF Held

\* When push finds room by num_queued_, which is updated after the indexes, there is
\* room (base/thread_pool_impl.h).
THEOREM RoomWhenPushingCorrect ==
    ASSUME NoWrap
    PROVE  Spec => []RoomWhenPushing
<1>1. QInv => RoomWhenPushing
  <2>1. SUFFICES ASSUME QInv, pc \in Pushing PROVE Length < NUMBER_OF_ITEMS
    BY DEF RoomWhenPushing, Pushing
  <2>2. Held < NUMBER_OF_ITEMS
    BY <2>1 DEF QInv, CountInv
  <2>3. /\ Length \in Nat /\ Length <= Held
    BY <2>1, LengthLemma
  <2>4. Held \in Int /\ NUMBER_OF_ITEMS \in Nat
    <3>1. Cardinality(Counting) \in Nat
      BY <2>1, FS_CardinalityType DEF QInv, CountInv
    <3>2. LogicalBottom \in Nat /\ top \in Nat /\ NUMBER_OF_ITEMS \in Nat
      BY <2>1, Bounds DEF QInv
    <3>3. QED
      BY <3>1, <3>2 DEF Held
  <2>5. QED
    BY <2>2, <2>3, <2>4
<1>2. Spec => []QInv
  BY QInvAlways
<1>3. QED
  BY <1>1, <1>2, PTL

\* An owner whose pop reports an empty queue leaves nothing in it
\* (base/thread_pool_impl.h).
THEOREM NoWorkLeftBehindCorrect ==
    ASSUME NoWrap
    PROVE  Spec => []NoWorkLeftBehind
<1>1. QInv => NoWorkLeftBehind
  <2>1. SUFFICES ASSUME QInv, pc \in {"idle", "popAgain"}, num_queued = 0 PROVE Length = 0
    BY DEF NoWorkLeftBehind
  <2>2. Held = 0
    BY <2>1 DEF QInv, CountInv
  <2>3. /\ Length \in Nat /\ Length <= Held
    BY <2>1, LengthLemma
  <2>4. QED
    BY <2>2, <2>3
<1>2. Spec => []QInv
  BY QInvAlways
<1>3. QED
  BY <1>1, <1>2, PTL

-----------------------------------------------------------------------------
(* Refinement: the queue is a deque.                                       *)

\* The items from index tp to lb, as the refinement of ThreadQueue has them.
Queue(it, tp, lb) == [k \in 1 .. Plus(lb, -tp) |-> it[Slot(Plus(tp, k - 1))]]

\* The abstract queue is a sequence of items, one for each index between top and bottom.
LEMMA QueueItems ==
    ASSUME NEW it, NEW tp \in Nat, NEW lb \in Nat, tp <= lb, lb < Width,
           \A k \in tp .. (lb - 1) : it[Slot(k)] \in Item
    PROVE  /\ Queue(it, tp, lb) \in Seq(Item)
           /\ Len(Queue(it, tp, lb)) = lb - tp
           /\ \A k \in 1 .. (lb - tp) : Queue(it, tp, lb)[k] = it[Slot(tp + k - 1)]
<1>1. Width \in Nat
  BY ThreadQueueAssumption
<1>2. Plus(lb, -tp) = lb - tp /\ lb - tp \in Nat
  BY <1>1, PlusLemma
<1>3. \A k \in 1 .. (lb - tp) : Plus(tp, k - 1) = tp + k - 1 /\ tp + k - 1 \in tp .. (lb - 1)
  BY <1>1, PlusLemma
<1>4. /\ Queue(it, tp, lb) \in [1 .. (lb - tp) -> Item]
      /\ \A k \in 1 .. (lb - tp) : Queue(it, tp, lb)[k] = it[Slot(tp + k - 1)]
  BY <1>2, <1>3 DEF Queue
<1>5. QED
  BY <1>2, <1>4

\* The slots outside [top, bottom) do not matter to the abstract queue.
LEMMA QueueSame ==
    ASSUME NEW it, NEW jt, NEW tp \in Nat, NEW lb \in Nat, tp <= lb, lb < Width,
           \A k \in tp .. (lb - 1) : it[Slot(k)] = jt[Slot(k)]
    PROVE  Queue(it, tp, lb) = Queue(jt, tp, lb)
<1>1. Width \in Nat
  BY ThreadQueueAssumption
<1>2. Plus(lb, -tp) = lb - tp
  BY <1>1, PlusLemma
<1>3. \A k \in 1 .. (lb - tp) : Plus(tp, k - 1) = tp + k - 1 /\ tp + k - 1 \in tp .. (lb - 1)
  BY <1>1, PlusLemma
<1>4. QED
  BY <1>2, <1>3 DEF Queue

\* A push is an Append to the abstract queue.
LEMMA QueuePush ==
    ASSUME NEW it, NEW tp \in Nat, NEW lb \in Nat, tp <= lb, lb + 1 < Width,
           \A k \in tp .. lb : it[Slot(k)] \in Item
    PROVE  Queue(it, tp, lb + 1) = Append(Queue(it, tp, lb), it[Slot(lb)])
<1>a. Width \in Nat
  BY ThreadQueueAssumption
<1>1. /\ Queue(it, tp, lb) \in Seq(Item) /\ Len(Queue(it, tp, lb)) = lb - tp
      /\ \A k \in 1 .. (lb - tp) : Queue(it, tp, lb)[k] = it[Slot(tp + k - 1)]
  BY <1>a, QueueItems
<1>2. /\ Queue(it, tp, lb + 1) \in Seq(Item) /\ Len(Queue(it, tp, lb + 1)) = lb + 1 - tp
      /\ \A k \in 1 .. (lb + 1 - tp) : Queue(it, tp, lb + 1)[k] = it[Slot(tp + k - 1)]
  BY <1>a, QueueItems
<1>3. it[Slot(lb)] \in Item
  OBVIOUS
<1> DEFINE a == Append(Queue(it, tp, lb), it[Slot(lb)])
<1>4. /\ a \in Seq(Item) /\ Len(a) = lb - tp + 1
      /\ \A k \in 1 .. (lb - tp) : a[k] = it[Slot(tp + k - 1)]
      /\ a[lb - tp + 1] = it[Slot(lb)]
  BY <1>1, <1>3, AppendProperties
<1> HIDE DEF a
<1>5. \A k \in 1 .. (lb + 1 - tp) : Queue(it, tp, lb + 1)[k] = a[k]
  <2>1. SUFFICES ASSUME NEW k \in 1 .. (lb + 1 - tp) PROVE Queue(it, tp, lb + 1)[k] = a[k]
    OBVIOUS
  <2>2. CASE k \in 1 .. (lb - tp)
    BY <1>2, <1>4, <2>2
  <2>3. CASE k = lb - tp + 1
    <3>1. tp + k - 1 = lb
      BY <2>3
    <3>2. QED
      BY <1>2, <1>4, <2>3, <3>1
  <2>4. QED
    BY <2>2, <2>3
<1>6. Queue(it, tp, lb + 1) = a
  <2>1. Len(Queue(it, tp, lb + 1)) = Len(a)
    BY <1>2, <1>4
  <2>2. \A k \in 1 .. Len(Queue(it, tp, lb + 1)) : Queue(it, tp, lb + 1)[k] = a[k]
    BY <1>2, <1>5
  <2>3. QED
    BY <1>2, <1>4, <2>1, <2>2, SeqEqual
<1>7. QED
  BY <1>6 DEF a

\* A pop by the owner takes the last item off the abstract queue.
LEMMA QueuePop ==
    ASSUME NEW it, NEW tp \in Nat, NEW lb \in Nat, tp < lb, lb < Width,
           \A k \in tp .. (lb - 1) : it[Slot(k)] \in Item
    PROVE  /\ Queue(it, tp, lb) # <<>>
           /\ Queue(it, tp, lb - 1) =
                 SubSeq(Queue(it, tp, lb), 1, Len(Queue(it, tp, lb)) - 1)
<1>a. Width \in Nat
  BY ThreadQueueAssumption
<1>1. /\ Queue(it, tp, lb) \in Seq(Item) /\ Len(Queue(it, tp, lb)) = lb - tp
      /\ \A k \in 1 .. (lb - tp) : Queue(it, tp, lb)[k] = it[Slot(tp + k - 1)]
  BY <1>a, QueueItems
<1>2. /\ Queue(it, tp, lb - 1) \in Seq(Item) /\ Len(Queue(it, tp, lb - 1)) = lb - 1 - tp
      /\ \A k \in 1 .. (lb - 1 - tp) : Queue(it, tp, lb - 1)[k] = it[Slot(tp + k - 1)]
  <2>1. lb - 1 \in Nat /\ tp <= lb - 1 /\ lb - 1 < Width
    BY <1>a
  <2>2. \A k \in tp .. ((lb - 1) - 1) : it[Slot(k)] \in Item
    OBVIOUS
  <2>3. QED
    BY <2>1, <2>2, QueueItems
<1> DEFINE a == SubSeq(Queue(it, tp, lb), 1, lb - tp - 1)
<1>3. \A k \in 1 .. (lb - tp - 1) : Queue(it, tp, lb)[k] \in Item
  BY <1>1
<1>4. /\ a \in Seq(Item) /\ Len(a) = lb - tp - 1
      /\ \A k \in 1 .. (lb - tp - 1) : a[k] = Queue(it, tp, lb)[k]
  <2>1. /\ a \in Seq(Item) /\ Len(a) = (IF 1 <= lb - tp - 1 THEN lb - tp - 1 - 1 + 1 ELSE 0)
        /\ \A k \in 1 .. (lb - tp - 1 - 1 + 1) : a[k] = Queue(it, tp, lb)[1 + k - 1]
    BY <1>3, SubSeqProperties
  <2>2. \A k \in 1 .. (lb - tp - 1) : 1 + k - 1 = k
    OBVIOUS
  <2> HIDE DEF a
  <2>3. QED
    BY <2>1, <2>2
<1> HIDE DEF a
<1>5. Queue(it, tp, lb - 1) = a
  <2>1. \A k \in 1 .. (lb - 1 - tp) : Queue(it, tp, lb - 1)[k] = a[k]
    BY <1>1, <1>2, <1>4
  <2>2. QED
    BY <1>2, <1>4, <2>1, SeqEqual
<1>6. Queue(it, tp, lb) # <<>>
  BY <1>1
<1>7. QED
  BY <1>1, <1>5, <1>6 DEF a

\* A steal takes the first item off the abstract queue.
LEMMA QueueSteal ==
    ASSUME NEW it, NEW tp \in Nat, NEW lb \in Nat, tp < lb, lb < Width,
           \A k \in tp .. (lb - 1) : it[Slot(k)] \in Item
    PROVE  /\ Queue(it, tp, lb) # <<>>
           /\ Queue(it, tp + 1, lb) = Tail(Queue(it, tp, lb))
<1>a. Width \in Nat
  BY ThreadQueueAssumption
<1>1. /\ Queue(it, tp, lb) \in Seq(Item) /\ Len(Queue(it, tp, lb)) = lb - tp
      /\ \A k \in 1 .. (lb - tp) : Queue(it, tp, lb)[k] = it[Slot(tp + k - 1)]
  BY <1>a, QueueItems
<1>2. /\ Queue(it, tp + 1, lb) \in Seq(Item) /\ Len(Queue(it, tp + 1, lb)) = lb - (tp + 1)
      /\ \A k \in 1 .. (lb - (tp + 1)) : Queue(it, tp + 1, lb)[k] = it[Slot(tp + 1 + k - 1)]
  <2>1. tp + 1 \in Nat /\ tp + 1 <= lb
    OBVIOUS
  <2>2. \A k \in (tp + 1) .. (lb - 1) : it[Slot(k)] \in Item
    OBVIOUS
  <2>3. QED
    BY <2>1, <2>2, QueueItems
<1>3. Queue(it, tp, lb) # <<>>
  BY <1>1
<1> DEFINE a == Tail(Queue(it, tp, lb))
<1>4. /\ a \in Seq(Item) /\ Len(a) = lb - tp - 1
      /\ \A k \in 1 .. (lb - tp - 1) : a[k] = Queue(it, tp, lb)[k + 1]
  BY <1>1, <1>3, HeadTailProperties
<1> HIDE DEF a
<1>5. \A k \in 1 .. (lb - tp - 1) : Queue(it, tp + 1, lb)[k] = a[k]
  <2>1. SUFFICES ASSUME NEW k \in 1 .. (lb - tp - 1) PROVE Queue(it, tp + 1, lb)[k] = a[k]
    OBVIOUS
  <2>2. tp + 1 + k - 1 = tp + (k + 1) - 1 /\ k + 1 \in 1 .. (lb - tp)
    OBVIOUS
  <2>3. QED
    BY <1>1, <1>2, <1>4, <2>2
<1>6. Queue(it, tp + 1, lb) = a
  BY <1>2, <1>4, <1>5, SeqEqual
<1>7. QED
  BY <1>3, <1>6 DEF a

\* The two ends of the abstract queue.
LEMMA QueueEnds ==
    ASSUME NEW it, NEW tp \in Nat, NEW lb \in Nat, tp < lb, lb < Width,
           \A k \in tp .. (lb - 1) : it[Slot(k)] \in Item
    PROVE  /\ Queue(it, tp, lb)[1] = it[Slot(tp)]
           /\ Queue(it, tp, lb)[Len(Queue(it, tp, lb))] = it[Slot(lb - 1)]
           /\ it[Slot(tp)] \in Item /\ it[Slot(lb - 1)] \in Item
<1>1. /\ Len(Queue(it, tp, lb)) = lb - tp
      /\ \A k \in 1 .. (lb - tp) : Queue(it, tp, lb)[k] = it[Slot(tp + k - 1)]
  BY QueueItems, ThreadQueueAssumption
<1>2. /\ 1 \in 1 .. (lb - tp) /\ lb - tp \in 1 .. (lb - tp)
      /\ tp + 1 - 1 = tp /\ tp + (lb - tp) - 1 = lb - 1
  OBVIOUS
<1>3. QED
  BY <1>1, <1>2

\* The last item is taken from the top: the same as from the bottom.
LEMMA QueueLast ==
    ASSUME NEW it, NEW tp \in Nat, NEW lb \in Nat, lb = tp + 1, lb < Width,
           \A k \in tp .. (lb - 1) : it[Slot(k)] \in Item
    PROVE  /\ Queue(it, tp, lb) # <<>>
           /\ Queue(it, tp + 1, lb) =
                 SubSeq(Queue(it, tp, lb), 1, Len(Queue(it, tp, lb)) - 1)
<1>1. /\ Queue(it, tp, lb) # <<>>
      /\ Queue(it, tp, lb - 1) =
            SubSeq(Queue(it, tp, lb), 1, Len(Queue(it, tp, lb)) - 1)
  BY QueuePop
<1>2. Queue(it, tp, lb - 1) = Queue(it, tp + 1, lb)
  <2>1. Plus(lb - 1, -tp) = 0 /\ Plus(lb, -(tp + 1)) = 0
    BY PlusLemma, ThreadQueueAssumption
  <2>2. QED
    BY <2>1 DEF Queue
<1>3. QED
  BY <1>1, <1>2

\* What a call returns, as WorkDeque has it.
Returned(i) == i \in Item /\ took' = [took EXCEPT ![i] = @ + 1]

\* A step of WorkDeque on the items of the queue.
DequeStep ==
    LET deque == Queue(items, top, LogicalBottom)
        next == Queue(items', top', LogicalBottom')
    IN  \/ next = deque /\ UNCHANGED <<Given, took, stolen>>
        \/ /\ Given + 1 \in Item /\ Given' = Given + 1
           /\ next = Append(deque, Given')
           /\ UNCHANGED <<took, stolen>>
        \/ /\ Given' = Given + 1 /\ Returned(Given')
           /\ next = deque /\ UNCHANGED stolen
        \/ /\ deque # <<>> /\ Returned(deque[Len(deque)])
           /\ next = SubSeq(deque, 1, Len(deque) - 1)
           /\ UNCHANGED <<Given, stolen>>
        \/ /\ deque # <<>> /\ Returned(deque[1])
           /\ stolen' = stolen \cup {deque[1]}
           /\ next = Tail(deque) /\ UNCHANGED Given

\* Every step of the queue is a step of the deque, or changes nothing in it.
LEMMA DequeStepHolds ==
    ASSUME NoWrap, TypeOK, IndexInv, ThiefInv, CountInv, ItemInv, Next
    PROVE  DequeStep
<1>a. /\ Width \in Nat /\ MaxPush \in Nat /\ pushed \in Nat /\ pushed <= MaxPush
      /\ NUMBER_OF_ITEMS \in Nat /\ NUMBER_OF_ITEMS > 0 /\ 2 * NUMBER_OF_ITEMS < Width
      /\ MaxPush < Width
      /\ bottom \in Nat /\ top \in Nat /\ b1 \in Nat /\ bottom < Width /\ top < Width
      /\ b1 < Width
      /\ LogicalBottom \in Nat /\ top <= LogicalBottom /\ LogicalBottom <= pushed
      /\ pc \notin Popping => LogicalBottom = bottom
      /\ pc \in Popping => LogicalBottom = bottom + 1 /\ b1 = bottom + 1
  BY Bounds
<1>b. Cardinality(Counting) \in Nat
  BY FS_CardinalityType DEF CountInv
<1>c. \A k \in top .. (LogicalBottom - 1) : items[Slot(k)] \in Item
  <2>1. \A k \in Live : items[Slot(k)] \in 1 .. pushed
    BY DEF ItemInv
  <2>2. QED
    BY <1>a, <2>1 DEF Live, Item
<1>1. CASE pushCheck
  <2>1. /\ UNCHANGED <<top, items, stolen>> /\ LogicalBottom' = LogicalBottom
        /\ pushed' = pushed + 1 /\ pushed' \in Item /\ Given = pushed
    BY <1>1, <1>a DEF pushCheck, ownerVars, LogicalBottom, Popping, Given, Item
  <2>2. \/ Given' = Given + 1 /\ Returned(Given')
        \/ Given' = Given /\ took' = took
    BY <1>1, <1>a, <2>1 DEF pushCheck, HandOut, Returned, Given
  <2>3. QED
    BY <2>1, <2>2 DEF DequeStep
<1>2. CASE pushItem
  <2>1. /\ UNCHANGED <<top, took, stolen>> /\ LogicalBottom' = LogicalBottom
        /\ LogicalBottom = bottom /\ items' = [items EXCEPT ![Slot(bottom)] = pushed]
        /\ Given' = Given
    BY <1>2, <1>a DEF pushItem, LogicalBottom, Popping, Given
  <2>2. LogicalBottom - top < NUMBER_OF_ITEMS
    BY <1>2, <1>a, <1>b DEF pushItem, CountInv, Held, Pushing
  <2>3. \A k \in top .. (LogicalBottom - 1) : items'[Slot(k)] = items[Slot(k)]
    <3>1. SUFFICES ASSUME NEW k \in top .. (LogicalBottom - 1)
                   PROVE  items'[Slot(k)] = items[Slot(k)]
      OBVIOUS
    <3>2. k \in Nat /\ k < bottom /\ bottom - k < NUMBER_OF_ITEMS
      BY <1>a, <2>1, <2>2
    <3>3. Slot(k) # Slot(bottom) /\ Slot(k) \in 0 .. (NUMBER_OF_ITEMS - 1)
      BY <1>a, <3>2, SlotLemma, SlotRange
    <3>4. QED
      BY <2>1, <3>3 DEF TypeOK
  <2>4. Queue(items', top, LogicalBottom) = Queue(items, top, LogicalBottom)
    BY <1>a, <2>3, QueueSame
  <2>5. QED
    BY <2>1, <2>4 DEF DequeStep
<1>3. CASE pushBottom
  <2>1. /\ UNCHANGED <<top, items>> /\ LogicalBottom' = LogicalBottom + 1
        /\ LogicalBottom = bottom /\ LogicalBottom + 1 < Width
    BY <1>3, <1>a, PlusLemma DEF pushBottom, LogicalBottom, Popping, Pushing, IndexInv
  <2>2. items[Slot(LogicalBottom)] \in Item /\ items[Slot(LogicalBottom)] = pushed
    BY <1>3, <1>a, <2>1 DEF pushBottom, ItemInv, IndexInv, Pushing, Item
  <2>a. UNCHANGED <<took, stolen>> /\ Given + 1 = pushed /\ Given' = pushed
    BY <1>3, <1>a DEF pushBottom, Given
  <2>3. \A k \in top .. LogicalBottom : items[Slot(k)] \in Item
    <3>1. \A k \in top .. LogicalBottom : k \in top .. (LogicalBottom - 1) \/ k = LogicalBottom
      BY <1>a
    <3>2. QED
      BY <1>c, <2>2, <3>1
  <2>4. Queue(items, top, LogicalBottom + 1)
          = Append(Queue(items, top, LogicalBottom), items[Slot(LogicalBottom)])
    BY <1>a, <2>1, <2>3, QueuePush
  <2>5. QED
    BY <2>1, <2>2, <2>a, <2>4 DEF DequeStep
<1>4. CASE pushCount
  <2>1. /\ UNCHANGED <<top, items, took, stolen>> /\ Given' = Given
        /\ LogicalBottom' = LogicalBottom
    BY <1>4, <1>a DEF pushCount, ownerVars, LogicalBottom, Popping, Given
  <2>2. QED
    BY <2>1 DEF DequeStep
<1>5. CASE popCheck
  <2>1. /\ UNCHANGED <<top, items, took, stolen>> /\ Given' = Given
        /\ LogicalBottom' = LogicalBottom
    BY <1>5, <1>a DEF popCheck, ownerVars, LogicalBottom, Popping, Given
  <2>2. QED
    BY <2>1 DEF DequeStep
<1>6. CASE popDecrement
  <2>1. /\ UNCHANGED <<top, items, took, stolen>> /\ Given' = Given
        /\ LogicalBottom' = LogicalBottom
    BY <1>6, <1>a DEF popDecrement, ownerVars, LogicalBottom, Popping, Given
  <2>2. QED
    BY <2>1 DEF DequeStep
<1>7. CASE popTop
  <2>1. Plus(b1, -1) = bottom /\ top <= bottom + 1 /\ LogicalBottom = bottom + 1
    BY <1>7, <1>a, PlusLemma DEF popTop, Popping
  <2>2. topLessThanBottom(top, bottom) <=> top < bottom
    BY <2>1, CompareIndexes DEF TypeOK
  <2>3. CASE top # bottom /\ topLessThanBottom(top, bottom)
    <3>1. /\ pc = "popTop" /\ pc' = "popCount" /\ top < bottom /\ LogicalBottom' = bottom
          /\ UNCHANGED <<bottom, top, items, num_queued, b1, pushed, stolen>>
          /\ HandOut(items[Slot(bottom)]) /\ Given' = Given
      BY <1>7, <2>1, <2>2, <2>3 DEF popTop, thiefVars, LogicalBottom, Given
    <3>2. /\ Queue(items, top, LogicalBottom) # <<>>
          /\ Queue(items, top, LogicalBottom - 1) =
                SubSeq(Queue(items, top, LogicalBottom), 1, Len(Queue(items, top, LogicalBottom)) - 1)
      BY <1>a, <1>c, <2>1, <3>1, QueuePop
    <3>3. LogicalBottom - 1 = LogicalBottom'
      BY <1>a, <2>1, <3>1
    <3>4. Queue(items, top, LogicalBottom)[Len(Queue(items, top, LogicalBottom))]
            = items[Slot(bottom)] /\ items[Slot(bottom)] \in Item
      BY <1>a, <1>c, <2>1, <3>1, QueueEnds
    <3>5. QED
      BY <3>1, <3>2, <3>3, <3>4 DEF DequeStep, Returned, HandOut
  <2>4. CASE top = bottom \/ ~topLessThanBottom(top, bottom)
    <3>1. /\ pc = "popTop" /\ pc' \in {"popLast", "popRestore"} /\ LogicalBottom' = LogicalBottom
          /\ UNCHANGED <<bottom, top, items, num_queued, b1, pushed, took, stolen>>
          /\ Given' = Given
      BY <1>7, <2>1, <2>4 DEF popTop, thiefVars, LogicalBottom, Given
    <3>2. QED
      BY <3>1 DEF DequeStep
  <2>5. QED
    BY <2>3, <2>4
<1>8. CASE popLast
  <2>1. /\ UNCHANGED <<bottom, items, num_queued, b1, pushed, stolen>>
        /\ pc = "popLast" /\ Given' = Given
    BY <1>8 DEF popLast, thiefVars, Given
  <2>2. CASE top = bottom
    <3>1. /\ top' = top + 1 /\ pc' = "popStore" /\ HandOut(items[Slot(top)])
          /\ LogicalBottom' = LogicalBottom /\ LogicalBottom = top + 1
      BY <1>8, <1>a, <2>2, PlusLemma DEF popLast, LogicalBottom, Popping
    <3>2. /\ Queue(items, top, LogicalBottom) # <<>>
          /\ Queue(items, top + 1, LogicalBottom) =
                SubSeq(Queue(items, top, LogicalBottom), 1, Len(Queue(items, top, LogicalBottom)) - 1)
      BY <1>a, <1>c, <3>1, QueueLast
    <3>3. Queue(items, top, LogicalBottom)[Len(Queue(items, top, LogicalBottom))]
            = items[Slot(top)] /\ items[Slot(top)] \in Item
      BY <1>a, <1>c, <3>1, QueueEnds
    <3>4. QED
      BY <2>1, <3>1, <3>2, <3>3 DEF DequeStep, Returned, HandOut
  <2>3. CASE top # bottom
    <3>1. UNCHANGED <<top, took>> /\ pc' = "popRestore" /\ LogicalBottom' = LogicalBottom
      BY <1>8, <2>3 DEF popLast, LogicalBottom
    <3>2. QED
      BY <2>1, <3>1 DEF DequeStep
  <2>4. QED
    BY <2>2, <2>3
<1>9. CASE popRestore
  <2>1. /\ UNCHANGED <<top, items, took, stolen>> /\ Given' = Given
        /\ LogicalBottom' = LogicalBottom
    BY <1>9, <1>a DEF popRestore, ownerVars, LogicalBottom, Popping, Given
  <2>2. QED
    BY <2>1 DEF DequeStep
<1>10. CASE popStore
  <2>1. /\ UNCHANGED <<top, items, took, stolen>> /\ Given' = Given
        /\ LogicalBottom' = LogicalBottom
    BY <1>10, <1>a, PlusLemma DEF popStore, ownerVars, LogicalBottom, Popping, Given
  <2>2. QED
    BY <2>1 DEF DequeStep
<1>11. CASE popCount
  <2>1. /\ UNCHANGED <<top, items, took, stolen>> /\ Given' = Given
        /\ LogicalBottom' = LogicalBottom
    BY <1>11, <1>a DEF popCount, ownerVars, LogicalBottom, Popping, Given
  <2>2. QED
    BY <2>1 DEF DequeStep
<1>12. ASSUME NEW t \in Thieves, stealLoadTop(t)
      PROVE  DequeStep
  <2>1. /\ UNCHANGED <<top, items, took, stolen>> /\ Given' = Given
        /\ LogicalBottom' = LogicalBottom
    BY <1>12, <1>a DEF stealLoadTop, ownerVars, LogicalBottom, Popping, Given
  <2>2. QED
    BY <2>1 DEF DequeStep
<1>13. ASSUME NEW t \in Thieves, stealLoadBottom(t)
      PROVE  DequeStep
  <2>1. /\ UNCHANGED <<top, items, took, stolen>> /\ Given' = Given
        /\ LogicalBottom' = LogicalBottom
    BY <1>13, <1>a DEF stealLoadBottom, ownerVars, LogicalBottom, Popping, Given
  <2>2. QED
    BY <2>1 DEF DequeStep
<1>14. ASSUME NEW t \in Thieves, stealLoadItem(t)
      PROVE  DequeStep
  <2>1. /\ UNCHANGED <<top, items, took, stolen>> /\ Given' = Given
        /\ LogicalBottom' = LogicalBottom
    BY <1>14, <1>a DEF stealLoadItem, ownerVars, LogicalBottom, Popping, Given
  <2>2. QED
    BY <2>1 DEF DequeStep
<1>15. ASSUME NEW t \in Thieves, stealCas(t)
      PROVE  DequeStep
  <2>1. /\ UNCHANGED <<bottom, items, num_queued, pc, b1, pushed, stealTop, stealItem>>
        /\ LogicalBottom' = LogicalBottom /\ at[t] = "cas" /\ Given' = Given
    BY <1>15 DEF stealCas, ownerVars, LogicalBottom, Given
  <2>2. CASE top = stealTop[t]
    <3>1. /\ top < LogicalBottom /\ top' = top + 1 /\ at' = [at EXCEPT ![t] = "count"]
          /\ HandOut(items[Slot(top)]) /\ stolen' = stolen \cup {items[Slot(top)]}
      BY <1>15, <1>a, <2>2, PlusLemma DEF stealCas, ThiefInv
    <3>2. /\ Queue(items, top, LogicalBottom) # <<>>
          /\ Queue(items, top + 1, LogicalBottom) = Tail(Queue(items, top, LogicalBottom))
      BY <1>a, <1>c, <3>1, QueueSteal
    <3>3. Queue(items, top, LogicalBottom)[1] = items[Slot(top)] /\ items[Slot(top)] \in Item
      BY <1>a, <1>c, <3>1, QueueEnds
    <3>4. QED
      BY <2>1, <3>1, <3>2, <3>3 DEF DequeStep, Returned, HandOut
  <2>3. CASE top # stealTop[t]
    <3>1. UNCHANGED <<top, took, stolen>> /\ at' = [at EXCEPT ![t] = "idle"]
      BY <1>15, <2>3 DEF stealCas
    <3>2. QED
      BY <2>1, <3>1 DEF DequeStep
  <2>4. QED
    BY <2>2, <2>3
<1>16. ASSUME NEW t \in Thieves, stealCount(t)
      PROVE  DequeStep
  <2>1. /\ UNCHANGED <<top, items, took, stolen>> /\ Given' = Given
        /\ LogicalBottom' = LogicalBottom
    BY <1>16, <1>a DEF stealCount, ownerVars, LogicalBottom, Popping, Given
  <2>2. QED
    BY <2>1 DEF DequeStep
<1>17. QED
  BY <1>1, <1>2, <1>3, <1>4, <1>5, <1>6, <1>7, <1>8, <1>9, <1>10, <1>11, <1>12, <1>13,
     <1>14, <1>15, <1>16 DEF Next, Owner, PopSteps, Thief

\* The queue is a linearizable deque: every step of push, pop and steal is one
\* operation of WorkDeque or none, and what pop and steal return is the newest
\* and the oldest item of it (base/thread_pool_impl.h:37-129).
THEOREM ImplementsDequeCorrect ==
    ASSUME NoWrap
    PROVE  Spec => ImplementsDeque
<1>1. Init => Deque!DequeInit
  <2>1. SUFFICES ASSUME Init PROVE Deque!DequeInit
    OBVIOUS
  <2>2. Length = 0
    <3>1. LogicalBottom = 0 /\ top = 0 /\ Width \in Nat /\ Width > 0
      BY <2>1, ThreadQueueAssumption DEF Init, LogicalBottom
    <3>2. QED
      BY <3>1, PlusLemma DEF Length
  <2>3. Given = 0 /\ took = [i \in Item |-> 0] /\ stolen = {}
    BY <2>1 DEF Init, Given
  <2>4. QED
    BY <2>2, <2>3 DEF Deque!DequeInit
<1>2. QInv /\ [Next]_vars =>
        [Deque!Push \/ Deque!Refuse \/ Deque!Pop \/ Deque!Steal]_<<
            [k \in 1 .. Length |-> items[Slot(Plus(top, k - 1))]], Given, took, stolen>>
  <2>1. SUFFICES ASSUME QInv, [Next]_vars
                 PROVE  [Deque!Push \/ Deque!Refuse \/ Deque!Pop \/ Deque!Steal]_<<
                            [k \in 1 .. Length |-> items[Slot(Plus(top, k - 1))]],
                            Given, took, stolen>>
    OBVIOUS
  <2>2. CASE Next
    <3>1. DequeStep
      BY <2>1, <2>2, DequeStepHolds DEF QInv
    <3>2. QED
      BY <3>1 DEF DequeStep, Queue, Length, Returned, Deque!Push, Deque!Refuse, Deque!Pop,
         Deque!Steal, Deque!Return
  <2>3. CASE UNCHANGED vars
    BY <2>3 DEF vars, ownerVars, Length, LogicalBottom, Given
  <2>4. QED
    BY <2>1, <2>2, <2>3
<1>3. Spec => []QInv
  BY QInvAlways
<1>4. QED
  BY <1>1, <1>2, <1>3, PTL DEF Spec, ImplementsDeque, Deque!DequeSpec


=============================================================================
