---------------------------- MODULE SerialActor ----------------------------
(***************************************************************************)
(* What the actor runtime promises its callers: the calls of an actor act  *)
(* as if each ran alone on the committed state, a request id takes effect  *)
(* at most once and its repeats get the same response, and an answer, once *)
(* given, is final.  A method is abstracted to "read the state, write its  *)
(* successor, return it", so that a lost or repeated update shows.         *)
(***************************************************************************)
EXTENDS Naturals

CONSTANTS Calls, Actors, Requests, None, Target, RequestId

VARIABLES
  committed,  (* state of each actor                                       *)
  records,    (* response committed for each request id; 0: none           *)
  outcome,    (* of each call: pending, ok or refused                      *)
  reply       (* response of each call that is ok                          *)

vars == <<committed, records, outcome, reply>>

Init ==
  /\ committed = [a \in Actors |-> 0]
  /\ records = [q \in Requests |-> 0]
  /\ outcome = [c \in Calls |-> "pending"]
  /\ reply = [c \in Calls |-> 0]

\* The call takes effect, once per request id.
Apply(c) ==
  LET next == committed[Target[c]] + 1 IN
  /\ outcome[c] = "pending"
  /\ RequestId[c] # None => records[RequestId[c]] = 0
  /\ committed' = [committed EXCEPT ![Target[c]] = next]
  /\ records' = [q \in Requests |-> IF q = RequestId[c] THEN next ELSE records[q]]
  /\ outcome' = [outcome EXCEPT ![c] = "ok"]
  /\ reply' = [reply EXCEPT ![c] = next]

\* A repeated request gets the response its first execution committed.
Replay(c) ==
  /\ outcome[c] = "pending"
  /\ RequestId[c] # None /\ records[RequestId[c]] # 0
  /\ outcome' = [outcome EXCEPT ![c] = "ok"]
  /\ reply' = [reply EXCEPT ![c] = records[RequestId[c]]]
  /\ UNCHANGED <<committed, records>>

\* Calls are refused or fail, without an effect.
Refuse(S) ==
  /\ \A c \in S : outcome[c] = "pending"
  /\ outcome' = [c \in Calls |-> IF c \in S THEN "refused" ELSE outcome[c]]
  /\ UNCHANGED <<committed, records, reply>>

Next ==
  \/ \E c \in Calls : Apply(c) \/ Replay(c)
  \/ \E S \in SUBSET Calls : Refuse(S)

Spec == Init /\ [][Next]_vars
=============================================================================
