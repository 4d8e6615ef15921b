-------------------------- MODULE MCRestCollection --------------------------
(***************************************************************************)
(* Instances of RestCollection for TLC: which client calls what.           *)
(***************************************************************************)
EXTENDS RestCollection

CONSTANTS c1, c2

\* Two jobs race with a deletion, a clear and a watch.
CanAll == [c \in Clients |->
    IF c = c1 THEN {"addBackgroundJob", "watchElements", "addEntry", "setEntry"}
    ELSE {"addBackgroundJob", "clear", "deleteEntry", "cancel"}]

\* A job against its cancellation.
CanCancel == [c \in Clients |-> IF c = c1 THEN {"addBackgroundJob"} ELSE {"cancel"}]

\* A job against a clear.
CanClear == [c \in Clients |-> IF c = c1 THEN {"addBackgroundJob"} ELSE {"clear"}]
=============================================================================
