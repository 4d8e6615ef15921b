---------------------------- MODULE MCMessageLoop ----------------------------
(***************************************************************************)
(* Instances of MessageLoop for TLC: which client makes which calls.       *)
(***************************************************************************)
EXTENDS MessageLoop

CONSTANTS c1, c2

\* c1 owns the sources and pushes to them; c2 pushes, has functions run in the
\* loop's thread and stops the loop.
CanAll == [c \in Clients |->
    IF c = c1 THEN {"addSource", "removeSourceSync", "push"}
    ELSE {"push", "tryPush", "run", "shutdown"}]

\* Nothing but messages: the loop runs until the end of time.
CanPush == [c \in Clients |->
    IF c = c1 THEN {"addSource", "push"} ELSE {"push", "tryPush"}]

\* c1 owns the sources, c2 pushes.
CanOwn == [c \in Clients |->
    IF c = c1 THEN {"addSource", "removeSourceSync"} ELSE {"push"}]

=============================================================================
