---------------------------- MODULE MCThreadPool ----------------------------
(***************************************************************************)
(* Instances of ThreadPool for TLC: who adds which job.                    *)
(***************************************************************************)
EXTENDS ThreadPool

CONSTANTS j1, j2, j3

\* The clients add every job.
NoSpawns == [j \in Jobs |-> {}]

\* Job j1 adds j2: jobs may add jobs to the pool they run in.
OneSpawn == [j \in Jobs |-> IF j = j1 THEN {j2} ELSE {}]

=============================================================================
