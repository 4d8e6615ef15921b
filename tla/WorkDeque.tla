------------------------------ MODULE WorkDeque -----------------------------
(***************************************************************************)
(* What ThreadQueue promises (base/thread_pool_impl.h): a deque whose owner*)
(* adds and removes at one end and from whose other end anyone steals.     *)
(* Items are numbered in the order in which they are given to push.        *)
(* A call that finds nothing, or loses a race, changes nothing.            *)
(***************************************************************************)
EXTENDS Naturals, Sequences

CONSTANT Item

VARIABLES
    deque,
    given,     \* the last item given to push
    took,      \* how often each item was returned by a call
    stolen     \* the items returned by steal

DequeInit ==
    /\ deque = <<>> /\ given = 0
    /\ took = [i \in Item |-> 0] /\ stolen = {}

Return(i) == i \in Item /\ took' = [took EXCEPT ![i] = @ + 1]

Push ==
    /\ given + 1 \in Item /\ given' = given + 1
    /\ deque' = Append(deque, given')
    /\ UNCHANGED <<took, stolen>>

\* push has no room and gives the item back.
Refuse ==
    /\ given' = given + 1 /\ Return(given')
    /\ UNCHANGED <<deque, stolen>>

\* The owner gets the newest item.
Pop ==
    /\ deque # <<>> /\ Return(deque[Len(deque)])
    /\ deque' = SubSeq(deque, 1, Len(deque) - 1)
    /\ UNCHANGED <<given, stolen>>

\* A thief gets the oldest item.
Steal ==
    /\ deque # <<>> /\ Return(deque[1])
    /\ stolen' = stolen \cup {deque[1]}
    /\ deque' = Tail(deque)
    /\ UNCHANGED given

DequeSpec ==
    DequeInit /\ [][Push \/ Refuse \/ Pop \/ Steal]_<<deque, given, took, stolen>>

=============================================================================
