----------------------------- MODULE MCJobQueue -----------------------------
(***************************************************************************)
(* Instances of JobQueue: two or three jobs, two workers.                  *)
(***************************************************************************)
EXTENDS JobQueue, TLC

CONSTANTS j1, j2, j3, k, w1, w2

\* The first two enqueue calls have the same key; the third job goes first.
MCKeyOf == [j \in Jobs |-> IF j = j3 THEN None ELSE k]
NoKeys == [j \in Jobs |-> None]
MCPriority == [j \in Jobs |-> IF j = j3 THEN 1 ELSE 0]
=============================================================================
