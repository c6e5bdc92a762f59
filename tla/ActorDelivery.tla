---------------------------- MODULE ActorDelivery ----------------------------
(***************************************************************************)
(* Remote invocations of one actor (packages/di-framework-actors:           *)
(* distributed/client.ts, dispatcher.ts and transport.ts), composed with    *)
(* the ownership protocol of module ActorOwnership.                         *)
(*                                                                         *)
(* A client sends a request to a host, again and again under the same       *)
(* request id as long as the transport fails; a host that has not found the *)
(* request among the recorded ones runs it in its mailbox, and commits its  *)
(* effect together with the record of its answer.                           *)
(***************************************************************************)
EXTENDS Naturals

CONSTANTS
  Hosts, NoHost, LeaseTtl, Never, Modes, MaxGeneration, MaxVersion,
  Requests,    (* the remote calls, each a requestId                         *)
  MaxRetries,  (* maxRetries of the client                                   *)
  None,        (* no record, no call                                         *)
  Failure      (* the answer success: false                                  *)

VARIABLES
  own, version, tx, up, auto,  (* of ActorOwnership                          *)
  client,    (* per request, how far invokeRemote has come                   *)
  net,       (* requests on their way to a host                              *)
  calls,     (* per host, the deliveries it has accepted and not answered    *)
  turn,      (* per host, the delivery that has the actor's mailbox          *)
  replies,   (* responses on their way back                                  *)
  record,    (* _actor_idempotency: the recorded answer of a request         *)
  executed   (* how many times the effect of a request has been committed    *)

ownVars == <<own, version, tx, up, auto>>
hostVars == <<calls, turn, record, executed>>
vars == <<ownVars, client, net, replies, hostVars>>

O == INSTANCE ActorOwnership

ASSUME DeliveryAssumption ==
  /\ O!OwnershipAssumption
  /\ MaxRetries \in Nat
  /\ None \notin Nat
  /\ Failure \notin Nat

Deliveries == [request : Requests, attempt : 1..(MaxRetries + 1), host : Hosts]
Answers == Nat \union {Failure}

ASSUME NoneIsNoDelivery == None \notin Deliveries

TypeOK ==
  /\ O!TypeOK
  /\ client \in [Requests -> [pc      : {"idle", "waiting", "backoff", "answered", "failed"},
                              attempt : 0..(MaxRetries + 1),
                              answer  : Answers \union {None}]]
  /\ net \subseteq Deliveries
  /\ calls \in [Hosts -> SUBSET Deliveries]
  /\ turn \in [Hosts -> Deliveries \union {None}]
  /\ replies \subseteq [request : Requests, answer : Answers]
  /\ record \in [Requests -> Nat \union {None}]
  /\ executed \in [Requests -> Nat]

Init ==
  /\ O!Init
  /\ client = [r \in Requests |-> [pc |-> "idle", attempt |-> 0, answer |-> None]]
  /\ net = {}
  /\ calls = [h \in Hosts |-> {}]
  /\ turn = [h \in Hosts |-> None]
  /\ replies = {}
  /\ record = [r \in Requests |-> None]
  /\ executed = [r \in Requests |-> 0]

-----------------------------------------------------------------------------
(* The client.                                                               *)

\* invokeRemote sends the request; the transport chooses the host.
Send(r) ==
  /\ client[r].pc \in {"idle", "backoff"}
  /\ client' = [client EXCEPT ![r].pc = "waiting", ![r].attempt = @ + 1]
  /\ \E h \in Hosts :
       net' = net \union {[request |-> r, attempt |-> client[r].attempt + 1, host |-> h]}
  /\ UNCHANGED <<ownVars, replies, hostVars>>

\* The call ends; responses that come later find nobody.
Ends(r, pc, answer) ==
  /\ client' = [client EXCEPT ![r] = [pc |-> pc, attempt |-> @.attempt, answer |-> answer]]
  /\ replies' = {p \in replies : p.request # r}

\* A response ends the call, be it the one to an earlier attempt: the
\* transport matches responses by request id, and no failure the host reports
\* is retried.
Receive(r) ==
  /\ client[r].pc = "waiting"
  /\ \E p \in replies :
       /\ p.request = r
       /\ Ends(r, IF p.answer = Failure THEN "failed" ELSE "answered", p.answer)
  /\ UNCHANGED <<ownVars, net, hostVars>>

\* The attempts of a call are used up.
Exhausted(r) == client[r].attempt > MaxRetries

\* The transport throws: the client waits a little and sends again.
TransportFails(r) ==
  /\ client[r].pc = "waiting"
  /\ IF Exhausted(r)
     THEN Ends(r, "failed", None)
     ELSE client' = [client EXCEPT ![r].pc = "backoff"] /\ UNCHANGED replies
  /\ UNCHANGED <<ownVars, net, hostVars>>

\* The deadline passes while the client waits, or between two attempts.
DeadlineExceeded(r) ==
  /\ client[r].pc \in {"waiting", "backoff"}
  /\ Ends(r, "failed", None)
  /\ UNCHANGED <<ownVars, net, hostVars>>

-----------------------------------------------------------------------------
(* The hosts.                                                                *)

\* A request arrives, at any time after it was sent, or never.
Deliver(m) ==
  /\ m \in net
  /\ m.host \in up
  /\ net' = net \ {m}
  /\ calls' = [calls EXCEPT ![m.host] = @ \union {m}]
  /\ UNCHANGED <<ownVars, client, replies, turn, record, executed>>

\* The deliveries at h that do not have the mailbox.
Waiting(h) == calls[h] \ {turn[h]}

\* The call of delivery m ends at its host, together with the deliveries of
\* the same request that have joined it in flight.
Answer(m, answer) ==
  /\ \E joined \in SUBSET {n \in Waiting(m.host) : n.request = m.request} :
       calls' = [calls EXCEPT ![m.host] = @ \ (joined \union {m})]
  /\ replies' = IF client[m.request].pc \in {"waiting", "backoff"}
                THEN replies \union {[request |-> m.request, answer |-> answer]}
                ELSE replies

\* dispatch or invoke refuses the request: its deadline has passed, the
\* policy denies it, the mailbox is full.
Refuse(h, m) ==
  /\ m \in Waiting(h)
  /\ Answer(m, Failure)
  /\ UNCHANGED <<ownVars, client, net, turn, record, executed>>

\* Bug: the recorded request is answered with what a new run would return.
LookupHitRecomputed(h, m) ==
  /\ m \in Waiting(h)
  /\ record[m.request] # None
  /\ Answer(m, version + 1)
  /\ UNCHANGED <<ownVars, client, net, turn, record, executed>>

\* The look-up before the mailbox, or the one after the wait in it, finds the
\* request recorded.
LookupHit(h, m) ==
  /\ m \in Waiting(h)
  /\ record[m.request] # None
  /\ Answer(m, record[m.request])
  /\ UNCHANGED <<ownVars, client, net, turn, record, executed>>

\* Bug: no second look-up after the wait for the mailbox.
LookupMissUnchecked(h, m) ==
  /\ m \in Waiting(h)
  /\ turn[h] = None
  /\ turn' = [turn EXCEPT ![h] = m]
  /\ UNCHANGED <<ownVars, client, net, calls, replies, record, executed>>

\* The call gets the mailbox and the second look-up finds nothing.
LookupMiss(h, m) ==
  /\ m \in Waiting(h)
  /\ turn[h] = None
  /\ record[m.request] = None
  /\ turn' = [turn EXCEPT ![h] = m]
  /\ UNCHANGED <<ownVars, client, net, calls, replies, record, executed>>

\* Only then does it resolve its fencing token, ...
ResolveToken(h) ==
  /\ turn[h] # None
  /\ O!ResolveToken(h)
  /\ UNCHANGED <<client, net, replies, hostVars>>

\* ... open the transaction and run the method, ...
OpenTransaction(h) ==
  /\ O!OpenTransaction(h)
  /\ UNCHANGED <<client, net, replies, hostVars>>

\* ... and commit its effect and the record of its answer, which are one.
Commit(h) ==
  LET r == turn[h].request IN
  /\ O!Commit(h)
  /\ Answer(turn[h], version')
  /\ turn' = [turn EXCEPT ![h] = None]
  /\ record' = [record EXCEPT ![r] = version']
  /\ executed' = [executed EXCEPT ![r] = @ + 1]
  /\ UNCHANGED <<client, net>>

\* The call fails: another host owns the actor, the method throws, or the
\* fencing check rejects the commit.
Fail(h) ==
  /\ turn[h] # None
  /\ IF tx[h].pc = "idle" THEN UNCHANGED ownVars ELSE O!Rollback(h)
  /\ Answer(turn[h], Failure)
  /\ turn' = [turn EXCEPT ![h] = None]
  /\ UNCHANGED <<client, net, record, executed>>

Crash(h) ==
  /\ O!Crash(h)
  /\ calls' = [calls EXCEPT ![h] = {}]
  /\ turn' = [turn EXCEPT ![h] = None]
  /\ UNCHANGED <<client, net, replies, record, executed>>

\* What happens to the ownership row apart from the calls.
OwnershipStep ==
  /\ \/ O!Tick
     \/ \E h \in Hosts : O!Restart(h) \/ \E force \in BOOLEAN : O!Acquire(h, force)
  /\ UNCHANGED <<client, net, replies, hostVars>>

-----------------------------------------------------------------------------
ClientStep(r) == Send(r) \/ Receive(r) \/ TransportFails(r) \/ DeadlineExceeded(r)

HostStep(h) ==
  \/ \E m \in calls[h] : Refuse(h, m) \/ LookupHit(h, m) \/ LookupMiss(h, m)
  \/ ResolveToken(h)
  \/ OpenTransaction(h)
  \/ Fail(h)
  \/ Crash(h)

\* Everything but the commits.
Rest ==
  \/ \E r \in Requests : ClientStep(r)
  \/ \E m \in net : Deliver(m)
  \/ \E h \in Hosts : HostStep(h)
  \/ OwnershipStep

Next == Rest \/ \E h \in Hosts : Commit(h)

Spec == Init /\ [][Next]_vars

\* A host is in the gap between its look-up and its fencing token (the time
\* the migrations of the actor take, say).
InGap(h) == turn[h] # None /\ tx[h].pc = "idle"

\* No host commits while another one is in that gap.
NextWithoutGap ==
  \/ Rest
  \/ (\A h \in Hosts : ~InGap(h)) /\ \E h \in Hosts : Commit(h)

SpecWithoutGap == Init /\ [][NextWithoutGap]_vars

-----------------------------------------------------------------------------
\* However often a request is sent, to however many hosts, and whatever they
\* do to each other's ownership, its effect is committed once ("guarantees
\* exactly-once execution semantics", README.md:307 of the package).
ExactlyOnce == \A r \in Requests : executed[r] <= 1

\* A client is told of success only with the answer that was committed, the
\* same for every retry.
AnswerIsCommitted ==
  \A r \in Requests : client[r].pc = "answered" => client[r].answer = record[r]
=============================================================================
