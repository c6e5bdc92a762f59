--------------------------- MODULE MCActorRuntime ---------------------------
(***************************************************************************)
(* Instances of ActorRuntime for TLC.  The calls c1 and c2 are the same    *)
(* request of the actor act1, c3 and c5 are calls of act1 without a request *)
(* id, c4 calls act2.                                                       *)
(***************************************************************************)
EXTENDS ActorRuntime

CONSTANTS c1, c2, c3, c4, c5, act1, act2, q, d1, r1, r2

MCTarget == [c \in Calls |-> IF c = c4 THEN act2 ELSE act1]

MCRequestId == [c \in Calls |-> IF c \in {c1, c2} THEN q ELSE None]

MCVictim == [d \in Deactivations |-> act1]

\* r1 drains, r2 fails the calls that have not started.
MCPolicy == [r \in Reloads |-> IF r = r1 THEN "drain" ELSE "fail"]
=============================================================================
