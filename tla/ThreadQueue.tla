---------------------------- MODULE ThreadQueue -----------------------------
(***************************************************************************)
(* The work-stealing queue of base/thread_pool_impl.h.  The thread that    *)
(* owns the queue pushes and pops at the bottom, other threads steal from  *)
(* the top.  One action is one access to a shared atomic, in the order of  *)
(* the program.  Each push brings a new item, numbered from 1.             *)
(***************************************************************************)
EXTENDS Integers, Sequences, FiniteSets

CONSTANTS
    Thieves,
    NUMBER_OF_ITEMS,   \* slots
    Width,             \* indexes wrap here: 2^w for a w-bit uint_fast32_t
    MaxPush            \* bound: number of items ever pushed

ASSUME ThreadQueueAssumption ==
    /\ NUMBER_OF_ITEMS \in Nat \ {0}
    /\ Width \in Nat /\ Width > 2 * NUMBER_OF_ITEMS
    /\ Width % NUMBER_OF_ITEMS = 0
    /\ MaxPush \in Nat

Index == 0 .. (Width - 1)

Item == 1 .. MaxPush

\* The uninitialised content of a slot: never an item.
Garbage == 0

VARIABLES
    bottom, top,      \* bottom_, top_
    items,            \* items[]
    num_queued,       \* num_queued_
    pc,               \* where the owner is
    b1,               \* pop: bottom_ before it was decremented
    pushed,           \* how many items push was called with so far
    at,               \* where each thief is
    stealTop,         \* steal: its copy of top_
    stealItem,        \* steal: the item read
    took,             \* history: how often each item was handed out,
    stolen            \* and which ones by steal

ownerVars == <<pc, b1, pushed>>
thiefVars == <<at, stealTop, stealItem>>
vars == <<bottom, top, items, num_queued, ownerVars, thiefVars, took, stolen>>

-----------------------------------------------------------------------------
\* Unsigned arithmetic on indexes.
Plus(i, n) == (i + n) % Width

Slot(i) == i % NUMBER_OF_ITEMS

topLessThanBottom(t, b) == t < b \/ Plus(t, -b) > NUMBER_OF_ITEMS

Init ==
    /\ bottom = 0 /\ top = 0
    /\ items = [s \in 0 .. (NUMBER_OF_ITEMS - 1) |-> Garbage]
    /\ num_queued = 0
    /\ pc = "idle" /\ b1 = 0 /\ pushed = 0
    /\ at = [t \in Thieves |-> "idle"]
    /\ stealTop = [t \in Thieves |-> 0]
    /\ stealItem = [t \in Thieves |-> Garbage]
    /\ took = [i \in Item |-> 0] /\ stolen = {}

\* Item i leaves the queue for good.
HandOut(i) == took' = [took EXCEPT ![i] = @ + 1]

-----------------------------------------------------------------------------
(* push.                                                                   *)

\* Fault: the queue may get one item too many.
pushCheckLate ==
    /\ pc = "idle" /\ pushed < MaxPush
    /\ pushed' = pushed + 1
    /\ IF num_queued = NUMBER_OF_ITEMS + 1
       THEN HandOut(pushed') /\ UNCHANGED pc
       ELSE pc' = "pushItem" /\ UNCHANGED took
    /\ UNCHANGED <<bottom, top, items, num_queued, b1, thiefVars, stolen>>

\* A full queue gives the item back to the caller.
pushCheck ==
    /\ pc = "idle" /\ pushed < MaxPush
    /\ pushed' = pushed + 1
    /\ IF num_queued = NUMBER_OF_ITEMS
       THEN HandOut(pushed') /\ UNCHANGED pc
       ELSE pc' = "pushItem" /\ UNCHANGED took
    /\ UNCHANGED <<bottom, top, items, num_queued, b1, thiefVars, stolen>>

pushItem ==
    /\ pc = "pushItem"
    /\ items' = [items EXCEPT ![Slot(bottom)] = pushed]
    /\ pc' = "pushBottom"
    /\ UNCHANGED <<bottom, top, num_queued, b1, pushed, thiefVars, took, stolen>>

pushBottom ==
    /\ pc = "pushBottom"
    /\ bottom' = Plus(bottom, 1)
    /\ pc' = "pushCount"
    /\ UNCHANGED <<top, items, num_queued, b1, pushed, thiefVars, took, stolen>>

pushCount ==
    /\ pc = "pushCount"
    /\ num_queued' = Plus(num_queued, 1)
    /\ pc' = "idle"
    /\ UNCHANGED <<bottom, top, items, b1, pushed, thiefVars, took, stolen>>

-----------------------------------------------------------------------------
(* pop.                                                                    *)

\* The loop condition; with nothing queued the call returns nullptr.
popCheck ==
    /\ pc \in {"idle", "popAgain"}
    /\ pc' = IF num_queued = 0 THEN "idle" ELSE "popDecrement"
    /\ UNCHANGED <<bottom, top, items, num_queued, b1, pushed, thiefVars, took, stolen>>

popDecrement ==
    /\ pc = "popDecrement"
    /\ b1' = bottom
    /\ bottom' = Plus(bottom, -1)
    /\ pc' = "popTop"
    /\ UNCHANGED <<top, items, num_queued, pushed, thiefVars, took, stolen>>

\* Load top_: the item is ours unless it is the last one.
popTop ==
    /\ pc = "popTop"
    /\ LET b == Plus(b1, -1)
       IN  IF top # b /\ topLessThanBottom(top, b)
           THEN pc' = "popCount" /\ HandOut(items[Slot(b)])
           ELSE pc' = (IF top = b THEN "popLast" ELSE "popRestore") /\ UNCHANGED took
    /\ UNCHANGED <<bottom, top, items, num_queued, b1, pushed, thiefVars, stolen>>

\* The compare-and-swap for the last item, expecting the loaded top_, which
\* is bottom_ here.
popLast ==
    /\ pc = "popLast"
    /\ IF top = bottom
       THEN /\ top' = Plus(top, 1)
            /\ pc' = "popStore"
            /\ HandOut(items[Slot(bottom)])
       ELSE pc' = "popRestore" /\ UNCHANGED <<top, took>>
    /\ UNCHANGED <<bottom, items, num_queued, b1, pushed, thiefVars, stolen>>

\* Fault: the item that was lost to a thief is counted off here too.
popRestoreCounts ==
    /\ pc = "popRestore"
    /\ bottom' = b1
    /\ num_queued' = Plus(num_queued, -1)
    /\ pc' = "popAgain"
    /\ UNCHANGED <<top, items, b1, pushed, thiefVars, took, stolen>>

\* The race was lost or the queue was empty: put bottom_ back and try again.
popRestore ==
    /\ pc = "popRestore"
    /\ bottom' = b1
    /\ pc' = "popAgain"
    /\ UNCHANGED <<top, items, num_queued, b1, pushed, thiefVars, took, stolen>>

\* The race was won: bottom_ becomes t + 1, which is b1.
popStore ==
    /\ pc = "popStore"
    /\ bottom' = Plus(bottom, 1)
    /\ pc' = "popCount"
    /\ UNCHANGED <<top, items, num_queued, b1, pushed, thiefVars, took, stolen>>

popCount ==
    /\ pc = "popCount"
    /\ num_queued' = Plus(num_queued, -1)
    /\ pc' = "idle"
    /\ UNCHANGED <<bottom, top, items, b1, pushed, thiefVars, took, stolen>>

-----------------------------------------------------------------------------
(* steal.                                                                  *)

stealLoadTop(t) ==
    /\ at[t] = "idle"
    /\ stealTop' = [stealTop EXCEPT ![t] = top]
    /\ at' = [at EXCEPT ![t] = "bottom"]
    /\ UNCHANGED <<bottom, top, items, num_queued, ownerVars, stealItem, took, stolen>>

stealLoadBottom(t) ==
    /\ at[t] = "bottom"
    /\ at' = [at EXCEPT ![t] =
                IF stealTop[t] # bottom /\ topLessThanBottom(stealTop[t], bottom)
                THEN "item" ELSE "idle"]
    /\ UNCHANGED <<bottom, top, items, num_queued, ownerVars, stealTop, stealItem, took, stolen>>

\* Fault: the item after the oldest one is read.
stealLoadNext(t) ==
    /\ at[t] = "item"
    /\ stealItem' = [stealItem EXCEPT ![t] = items[Slot(Plus(stealTop[t], 1))]]
    /\ at' = [at EXCEPT ![t] = "cas"]
    /\ UNCHANGED <<bottom, top, items, num_queued, ownerVars, stealTop, took, stolen>>

stealLoadItem(t) ==
    /\ at[t] = "item"
    /\ stealItem' = [stealItem EXCEPT ![t] = items[Slot(stealTop[t])]]
    /\ at' = [at EXCEPT ![t] = "cas"]
    /\ UNCHANGED <<bottom, top, items, num_queued, ownerVars, stealTop, took, stolen>>

\* Fault: top_ is stored, not compared.
stealStore(t) ==
    /\ at[t] = "cas"
    /\ top' = Plus(stealTop[t], 1)
    /\ HandOut(stealItem[t])
    /\ stolen' = stolen \cup {stealItem[t]}
    /\ at' = [at EXCEPT ![t] = "count"]
    /\ UNCHANGED <<bottom, items, num_queued, ownerVars, stealTop, stealItem>>

stealCas(t) ==
    /\ at[t] = "cas"
    /\ IF top = stealTop[t]
       THEN /\ top' = Plus(top, 1)
            /\ HandOut(stealItem[t])
            /\ stolen' = stolen \cup {stealItem[t]}
            /\ at' = [at EXCEPT ![t] = "count"]
       ELSE /\ at' = [at EXCEPT ![t] = "idle"]
            /\ UNCHANGED <<top, took, stolen>>
    /\ UNCHANGED <<bottom, items, num_queued, ownerVars, stealTop, stealItem>>

\* Fault: the stolen item stays counted.
stealCountNot(t) ==
    /\ at[t] = "count"
    /\ at' = [at EXCEPT ![t] = "idle"]
    /\ UNCHANGED <<bottom, top, items, num_queued, ownerVars, stealTop, stealItem, took, stolen>>

stealCount(t) ==
    /\ at[t] = "count"
    /\ num_queued' = Plus(num_queued, -1)
    /\ at' = [at EXCEPT ![t] = "idle"]
    /\ UNCHANGED <<bottom, top, items, ownerVars, stealTop, stealItem, took, stolen>>

-----------------------------------------------------------------------------
PopSteps ==
    \/ (pc = "popAgain" /\ popCheck)
    \/ popDecrement \/ popTop \/ popLast \/ popRestore \/ popStore \/ popCount

Owner == pushCheck \/ pushItem \/ pushBottom \/ pushCount \/ popCheck \/ PopSteps

Thief(t) ==
    \/ stealLoadTop(t) \/ stealLoadBottom(t) \/ stealLoadItem(t)
    \/ stealCas(t) \/ stealCount(t)

Next == Owner \/ \E t \in Thieves : Thief(t)

Spec == Init /\ [][Next]_vars

\* A pop or a steal that has begun goes on.
Fairness ==
    /\ WF_vars(PopSteps)
    /\ \A t \in Thieves : WF_vars(at[t] # "idle" /\ Thief(t))

FairSpec == Spec /\ Fairness

-----------------------------------------------------------------------------
(* Refinement: the items between top_ and the bottom that a pop in progress *)
(* has not yet made its own.                                               *)

LogicalBottom ==
    IF pc \in {"popTop", "popLast", "popRestore", "popStore"} THEN b1 ELSE bottom

Length == Plus(LogicalBottom, -top)

\* The last item that push has put in the queue or given back.
Given == IF pc \in {"pushItem", "pushBottom"} THEN pushed - 1 ELSE pushed

Deque == INSTANCE WorkDeque WITH
    deque <- [k \in 1 .. Length |-> items[Slot(Plus(top, k - 1))]],
    given <- Given

\* The queue is a linearizable deque: what pop returns is the newest and what
\* steal returns the oldest item at the moment the race is decided, that item
\* and no other leaves the queue, and an item that push refuses is not put in
\* it (base/thread_pool_impl.h:37-129).
ImplementsDeque == Deque!DequeSpec

-----------------------------------------------------------------------------
(* Properties.                                                             *)

\* The shape of the state.
TypeOK ==
    /\ bottom \in Index /\ top \in Index /\ num_queued \in Index
    /\ items \in [0 .. (NUMBER_OF_ITEMS - 1) -> Item \cup {Garbage}]
    /\ pc \in {"idle", "pushItem", "pushBottom", "pushCount", "popAgain",
               "popDecrement", "popTop", "popLast", "popRestore", "popStore",
               "popCount"}
    /\ b1 \in Index
    /\ pushed \in 0 .. MaxPush
    /\ at \in [Thieves -> {"idle", "bottom", "item", "cas", "count"}]
    /\ stealTop \in [Thieves -> Index]
    /\ stealItem \in [Thieves -> Item \cup {Garbage}]
    /\ took \in [Item -> 0 .. 2] /\ stolen \subseteq Item

\* No item is handed out twice, whichever of a pop, a steal and the
\* overflow return of push raced for it (base/thread_pool_impl.h:68-72,
\* 104-117).
HandedOutOnce == \A i \in Item : took[i] <= 1

\* num_queued_ lags behind the indexes, but only on the safe side: when push
\* finds room there is room, so that the slot it writes holds no live item
\* (base/thread_pool_impl.h:41-47).
RoomWhenPushing ==
    pc \in {"pushItem", "pushBottom"} => Length < NUMBER_OF_ITEMS

\* When pop gives up because num_queued_ is zero there is nothing in the
\* queue, although the count and the indexes are never changed together: the
\* owner never goes away leaving work of its own behind
\* (base/thread_pool_impl.h:87, 128).
NoWorkLeftBehind ==
    pc \in {"idle", "popAgain"} /\ num_queued = 0 => Length = 0

\* A pop that was begun returns, even if it keeps losing the race for the
\* last item (base/thread_pool_impl.h:87-127).
PopReturns == pc \in {"popDecrement", "popAgain"} ~> pc = "idle"

=============================================================================
