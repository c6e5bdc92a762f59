------------------------ MODULE ActorDelivery_proofs ------------------------
(***************************************************************************)
(* Exactly-once execution proved for any hosts, requests, retries and       *)
(* leases, when no host commits between another one's look-up and its       *)
(* fencing token: the ownership protocol's own invariant is taken from      *)
(* ActorOwnership, and the one of the requests is built on it.             *)
(***************************************************************************)
EXTENDS ActorDelivery, TLAPS


\* A call with a token is the one that has the mailbox.
Turned == \A h \in Hosts : tx[h].pc # "idle" => turn[h] # None

\* What a host in the gap has not found is not recorded.
Missed == \A h \in Hosts : InGap(h) => record[turn[h].request] = None

\* Nor is it as long as the token of the call is good.
Tokened ==
  \A h \in Hosts :
    (tx[h].pc # "idle" /\ tx[h].generation = own.generation /\ own.owner = h) =>
      record[turn[h].request] = None

\* A request has been executed if and only if its answer is recorded ...
Counted ==
  \A r \in Requests : executed[r] = IF record[r] = None THEN 0 ELSE 1

\* ... and no response, nor any client, says anything but what is recorded.
Told ==
  /\ \A p \in replies : p.answer # Failure => p.answer = record[p.request]
  /\ \A r \in Requests : client[r].pc = "answered" => client[r].answer \in Nat
  /\ AnswerIsCommitted

\* A client that may send has an attempt left.
Spare ==
  \A r \in Requests : client[r].pc \in {"idle", "backoff"} => client[r].attempt <= MaxRetries

HostInv == Turned /\ Missed /\ Tokened /\ Counted

IInv == O!IInv /\ TypeOK /\ HostInv /\ Spare /\ Told

-----------------------------------------------------------------------------
LEMMA OwnAssumption == O!OwnershipAssumption
BY DeliveryAssumption DEF O!OwnershipAssumption

LEMMA InitIInv == Init => IInv
<1> SUFFICES ASSUME Init PROVE IInv
  OBVIOUS
<1>1. O!IInv
  <2>1. O!Init
    BY DEF Init, O!Init, O!NoRecord, O!FreshLease, O!IdleTx
  <2> QED
    BY <2>1, OwnAssumption, O!InitIInv
<1>2. TypeOK
  BY <1>1, DeliveryAssumption
     DEF Init, TypeOK, O!IInv, O!TypeOK, O!Leases, O!TxRecords
<1>3. \A h \in Hosts : tx[h].pc = "idle" /\ turn[h] = None
  BY DEF Init, O!Init, O!IdleTx
<1>4. Turned /\ Missed /\ Tokened
  BY <1>3 DEF Turned, Missed, Tokened, InGap
<1>5. Counted /\ Told /\ Spare
  BY DeliveryAssumption DEF Init, Counted, Told, Spare, AnswerIsCommitted
<1> QED
  BY <1>1, <1>2, <1>4, <1>5 DEF IInv, HostInv

-----------------------------------------------------------------------------
\* What the steps of the composition are to the ownership protocol.
LEMMA OwnershipMoves ==
  ASSUME NextWithoutGap \/ UNCHANGED vars
  PROVE  O!Next \/ UNCHANGED ownVars
<1>1. ASSUME NEW r \in Requests, ClientStep(r)
      PROVE  UNCHANGED ownVars
  BY <1>1 DEF ClientStep, Send, Receive, TransportFails, DeadlineExceeded
<1>2. ASSUME NEW m \in net, Deliver(m)
      PROVE  UNCHANGED ownVars
  BY <1>2 DEF Deliver
<1>3. ASSUME NEW h \in Hosts, HostStep(h)
      PROVE  O!Next \/ UNCHANGED ownVars
  <2>1. ASSUME NEW m \in calls[h], Refuse(h, m) \/ LookupHit(h, m) \/ LookupMiss(h, m)
        PROVE  UNCHANGED ownVars
    BY <2>1 DEF Refuse, LookupHit, LookupMiss
  <2>2. ResolveToken(h) => O!ResolveToken(h)
    BY DEF ResolveToken, O!ResolveToken, O!AcquireToken, O!AdoptToken, O!AcquireOwnership, O!Granted,
         O!Absent, O!Expired, O!FreshLease, O!Holding
  <2>3. OpenTransaction(h) => O!OpenTransaction(h)
    BY DEF OpenTransaction, O!OpenTransaction
  <2>4. Fail(h) => O!Rollback(h) \/ UNCHANGED ownVars
    BY DEF Fail, O!Rollback, O!IdleTx
  <2>5. Crash(h) => O!Crash(h)
    BY DEF Crash, O!Crash, O!IdleTx
  <2> QED
    BY <1>3, <2>1, <2>2, <2>3, <2>4, <2>5 DEF HostStep, O!Next, O!HostStep
<1>4. OwnershipStep => O!Next
  BY DEF OwnershipStep, O!Next, O!HostStep, O!Tick, O!Restart, O!Acquire, O!AcquireOwnership,
         O!Granted, O!Absent, O!Expired, O!FreshLease
<1>5. ASSUME NEW h \in Hosts, Commit(h)
      PROVE  O!Next
  <2>1. O!Commit(h)
    BY <1>5 DEF Commit, O!Commit, O!StaleOwner, O!Absent, O!IdleTx
  <2> QED
    BY <2>1 DEF O!Next, O!HostStep
<1>6. UNCHANGED vars => UNCHANGED ownVars
  BY DEF vars, ownVars
<1> QED
  BY <1>1, <1>2, <1>3, <1>4, <1>5, <1>6 DEF NextWithoutGap, Rest

\* So the ownership protocol keeps its invariant within the composition.
LEMMA OwnershipKept ==
  ASSUME IInv, NextWithoutGap \/ UNCHANGED vars
  PROVE  O!IInv'
<1>1. O!Next \/ UNCHANGED O!vars
  BY OwnershipMoves DEF ownVars, O!vars
<1> QED
  BY <1>1, OwnAssumption, O!NextIInv DEF IInv

-----------------------------------------------------------------------------
\* The rest of the invariant, step by step.  The ownership protocol keeps its
\* own types.
LEMMA OwnTyped ==
  ASSUME O!IInv'
  PROVE  O!TypeOK'
BY DEF O!IInv, O!TypeOK, O!Leases, O!TxRecords

LEMMA SendKeepsIInv ==
  ASSUME IInv, O!IInv', NEW r \in Requests, Send(r)
  PROVE  IInv'
<1>1. /\ client[r].pc \in {"idle", "backoff"}
      /\ client' = [client EXCEPT ![r] = [pc |-> "waiting", attempt |-> client[r].attempt + 1, answer |-> client[r].answer]]
      /\ UNCHANGED <<own, tx, version, up, auto, replies, calls, turn, record, executed>>
  BY DEF Send, ownVars, hostVars, IInv, TypeOK
<1>2. client[r].attempt + 1 \in 1..(MaxRetries + 1)
  BY <1>1, DeliveryAssumption DEF IInv, TypeOK, Spare
<1>3. TypeOK'
  <2>1. net' \subseteq Deliveries
    BY <1>2 DEF Send, IInv, TypeOK, Deliveries
  <2>2. O!TypeOK'
    BY <1>1 DEF IInv, TypeOK, O!TypeOK
  <2> QED
    BY <1>1, <1>2, <2>1, <2>2 DEF IInv, TypeOK
<1>4. HostInv'
  BY <1>1 DEF IInv, HostInv, Turned, Missed, Tokened, Counted, InGap
<1>5. Spare' /\ Told'
  BY <1>1 DEF IInv, TypeOK, Spare, Told, AnswerIsCommitted
<1> QED
  BY <1>3, <1>4, <1>5 DEF IInv

\* A call that ends keeps what is said of it true.
LEMMA EndKeepsIInv ==
  ASSUME IInv, O!IInv', NEW r \in Requests, NEW pc \in {"answered", "failed"},
         NEW answer \in Answers \union {None}, Ends(r, pc, answer),
         pc = "answered" => answer \in Nat /\ answer = record[r],
         UNCHANGED <<ownVars, net, hostVars>>
  PROVE  IInv'
<1>1. UNCHANGED <<own, tx, version, up, auto, net, calls, turn, record, executed>>
  BY DEF ownVars, hostVars
<1>2. /\ client' = [client EXCEPT ![r] = [pc |-> pc, attempt |-> client[r].attempt, answer |-> answer]]
      /\ replies' \subseteq replies
  BY DEF Ends
<1>3. TypeOK'
  <2>1. O!TypeOK'
    BY <1>1 DEF IInv, TypeOK, O!TypeOK
  <2> QED
    BY <1>1, <1>2, <2>1 DEF IInv, TypeOK
<1>4. HostInv'
  BY <1>1 DEF IInv, HostInv, Turned, Missed, Tokened, Counted, InGap
<1>5. Spare' /\ Told'
  BY <1>1, <1>2 DEF IInv, TypeOK, Spare, Told, AnswerIsCommitted
<1> QED
  BY <1>3, <1>4, <1>5 DEF IInv

LEMMA ClientKeepsIInv ==
  ASSUME IInv, O!IInv', NEW r \in Requests, ClientStep(r)
  PROVE  IInv'
<1>1. CASE Send(r)
  BY <1>1, SendKeepsIInv
<1>2. CASE Receive(r)
  <2>1. PICK p \in replies :
          p.request = r /\ Ends(r, IF p.answer = Failure THEN "failed" ELSE "answered", p.answer)
    BY <1>2 DEF Receive
  <2>2. p.answer \in Answers /\ (p.answer # Failure => p.answer \in Nat /\ p.answer = record[r])
    BY <2>1 DEF IInv, TypeOK, Told, Answers
  <2> QED
    BY <1>2, <2>1, <2>2, EndKeepsIInv DEF Receive
<1>3. CASE TransportFails(r) /\ ~Exhausted(r)
  <2>1. /\ client' = [client EXCEPT ![r] = [pc |-> "backoff", attempt |-> client[r].attempt, answer |-> client[r].answer]]
        /\ client[r].attempt <= MaxRetries
        /\ UNCHANGED <<own, tx, version, up, auto, net, replies, calls, turn, record, executed>>
    BY <1>3, DeliveryAssumption DEF TransportFails, Exhausted, ownVars, hostVars, IInv, TypeOK
  <2>2. TypeOK'
    <3>1. O!TypeOK'
      BY <2>1 DEF IInv, TypeOK, O!TypeOK
    <3> QED
      BY <2>1, <3>1 DEF IInv, TypeOK
  <2>3. HostInv'
    BY <2>1 DEF IInv, HostInv, Turned, Missed, Tokened, Counted, InGap
  <2>4. Spare' /\ Told'
    BY <2>1 DEF IInv, TypeOK, Spare, Told, AnswerIsCommitted
  <2> QED
    BY <2>2, <2>3, <2>4 DEF IInv
<1>4. CASE (TransportFails(r) /\ Exhausted(r)) \/ DeadlineExceeded(r)
  BY <1>4, EndKeepsIInv DEF TransportFails, DeadlineExceeded
<1> QED
  BY <1>1, <1>2, <1>3, <1>4 DEF ClientStep

-----------------------------------------------------------------------------
\* A call that is answered with a failure, or with what is recorded.
LEMMA AnswerTyped ==
  ASSUME IInv, NEW m \in Deliveries, NEW answer \in Answers, Answer(m, answer)
  PROVE  /\ calls' \in [Hosts -> SUBSET Deliveries]
         /\ replies' \subseteq [request : Requests, answer : Answers]
         /\ replies' \subseteq replies \union {[request |-> m.request, answer |-> answer]}
<1>1. calls' \in [Hosts -> SUBSET Deliveries]
  BY DEF Answer, IInv, TypeOK, Deliveries
<1>2. replies' \subseteq replies \union {[request |-> m.request, answer |-> answer]}
  BY DEF Answer
<1> QED
  BY <1>1, <1>2 DEF IInv, TypeOK, Deliveries

\* Steps that touch the deliveries of a host, but no token and no record.
LEMMA QueueKeepsIInv ==
  ASSUME IInv, O!IInv', NEW h \in Hosts, NEW m \in calls[h],
         Refuse(h, m) \/ LookupHit(h, m) \/ LookupMiss(h, m)
  PROVE  IInv'
<1>1. m \in Deliveries /\ m.request \in Requests /\ m # None
  BY NoneIsNoDelivery DEF IInv, TypeOK, Deliveries
<1>2. UNCHANGED <<own, tx, version, up, auto, client, net, record, executed>>
  BY DEF Refuse, LookupHit, LookupMiss, ownVars
<1>3. O!TypeOK'
  BY <1>2 DEF IInv, TypeOK, O!TypeOK
<1>4. Counted' /\ Spare'
  BY <1>2 DEF IInv, HostInv, Counted, Spare
<1>5. CASE Refuse(h, m) \/ LookupHit(h, m)
  <2>1. PICK answer \in Answers : Answer(m, answer) /\ (answer # Failure => answer = record[m.request])
    <3>1. Failure \in Answers /\ (record[m.request] # None => record[m.request] \in Answers)
      BY <1>1 DEF Answers, IInv, TypeOK
    <3> QED
      BY <1>5, <3>1 DEF Refuse, LookupHit
  <2>2. /\ calls' \in [Hosts -> SUBSET Deliveries]
        /\ replies' \subseteq [request : Requests, answer : Answers]
        /\ replies' \subseteq replies \union {[request |-> m.request, answer |-> answer]}
    BY <1>1, <2>1, AnswerTyped
  <2>3. UNCHANGED turn
    BY <1>5 DEF Refuse, LookupHit
  <2>4. TypeOK'
    BY <1>2, <1>3, <2>2, <2>3 DEF IInv, TypeOK
  <2>5. Turned' /\ Missed' /\ Tokened'
    BY <1>2, <2>3 DEF IInv, HostInv, Turned, Missed, Tokened, InGap
  <2>6. Told'
    BY <1>2, <2>1, <2>2 DEF IInv, Told, AnswerIsCommitted
  <2> QED
    BY <1>4, <2>4, <2>5, <2>6 DEF IInv, HostInv
<1>6. CASE LookupMiss(h, m)
  <2>1. /\ turn[h] = None /\ record[m.request] = None
        /\ turn' = [turn EXCEPT ![h] = m]
        /\ UNCHANGED <<calls, replies>>
    BY <1>6 DEF LookupMiss
  <2>2. TypeOK'
    BY <1>1, <1>2, <1>3, <2>1 DEF IInv, TypeOK
  <2>3. tx[h].pc = "idle"
    BY <2>1 DEF IInv, HostInv, Turned
  <2>4. Turned' /\ Missed' /\ Tokened'
    BY <1>1, <1>2, <2>1, <2>3 DEF IInv, HostInv, TypeOK, Turned, Missed, Tokened, InGap
  <2>5. Told'
    BY <1>2, <2>1 DEF IInv, Told, AnswerIsCommitted
  <2> QED
    BY <1>4, <2>2, <2>4, <2>5 DEF IInv, HostInv
<1> QED
  BY <1>5, <1>6

LEMMA DeliverKeepsIInv ==
  ASSUME IInv, O!IInv', NEW m \in net, Deliver(m)
  PROVE  IInv'
<1>1. UNCHANGED <<own, tx, version, up, auto, client, replies, turn, record, executed>>
  BY DEF Deliver, ownVars
<1>2. TypeOK'
  <2>1. O!TypeOK'
    BY <1>1 DEF IInv, TypeOK, O!TypeOK
  <2>2. net' \subseteq Deliveries /\ calls' \in [Hosts -> SUBSET Deliveries]
    BY DEF Deliver, IInv, TypeOK
  <2> QED
    BY <1>1, <2>1, <2>2 DEF IInv, TypeOK
<1>3. HostInv' /\ Spare' /\ Told'
  BY <1>1 DEF IInv, HostInv, Turned, Missed, Tokened, Counted, InGap, Spare, Told, AnswerIsCommitted
<1> QED
  BY <1>2, <1>3 DEF IInv

-----------------------------------------------------------------------------
\* When the row changes hands every token that names the new owner is old.
LEMMA TokensStayGood ==
  ASSUME IInv, NEW h \in Hosts,
         own' = O!Granted(h), UNCHANGED record, UNCHANGED turn,
         NEW k \in Hosts, tx'[k] = tx[k],
         tx'[k].pc # "idle", tx'[k].generation = own'.generation, own'.owner = k
  PROVE  record'[turn'[k].request] = None
<1>1. /\ own'.owner = h
      /\ own.owner # h => own'.generation > own.generation
      /\ own.owner = h => own'.generation = own.generation
      /\ own'.generation \in Nat
  BY OwnAssumption, O!GrantedRow DEF IInv, O!IInv
<1>2. tx[k].generation \in 1..own.generation /\ own.generation \in Nat
  BY DEF IInv, O!IInv, O!TokenInv, O!TypeOK
<1>3. own.owner = k /\ tx[k].generation = own.generation
  BY <1>1, <1>2
<1> QED
  BY <1>3 DEF IInv, HostInv, Tokened

LEMMA ResolveKeepsIInv ==
  ASSUME IInv, O!IInv', NEW h \in Hosts, ResolveToken(h)
  PROVE  IInv'
<1>1. /\ turn[h] # None /\ tx[h].pc = "idle"
      /\ UNCHANGED <<version, up, auto, client, net, replies, calls, turn, record, executed>>
  BY DEF ResolveToken, O!ResolveToken, hostVars
<1>2. \A k \in Hosts : k # h => tx'[k] = tx[k]
  BY DEF ResolveToken, O!ResolveToken, O!AcquireToken, O!AdoptToken, IInv, O!IInv, O!TypeOK
<1>3. own' = O!Granted(h) \/ UNCHANGED own
  BY DEF ResolveToken, O!ResolveToken, O!AcquireToken, O!AdoptToken, O!AcquireOwnership, O!Granted,
         O!Absent, O!FreshLease
<1>4. record[turn[h].request] = None
  BY <1>1 DEF IInv, HostInv, Missed, InGap
<1>5. TypeOK'
  BY <1>1, OwnTyped DEF IInv, TypeOK
<1>6. Turned' /\ Missed'
  BY <1>1, <1>2, <1>4 DEF IInv, HostInv, Turned, Missed, InGap
<1>7. Tokened'
  <2> SUFFICES ASSUME NEW k \in Hosts, tx'[k].pc # "idle", tx'[k].generation = own'.generation, own'.owner = k
               PROVE  record'[turn'[k].request] = None
    BY DEF Tokened
  <2>1. CASE k = h
    BY <1>1, <1>4, <2>1
  <2>2. CASE k # h /\ UNCHANGED own
    BY <1>1, <1>2, <2>2 DEF IInv, HostInv, Tokened
  <2>3. CASE k # h /\ own' = O!Granted(h)
    BY <1>1, <1>2, <2>3, TokensStayGood
  <2> QED
    BY <1>3, <2>1, <2>2, <2>3
<1>8. Counted' /\ Spare' /\ Told'
  BY <1>1 DEF IInv, HostInv, Counted, Spare, Told, AnswerIsCommitted
<1> QED
  BY <1>5, <1>6, <1>7, <1>8 DEF IInv, HostInv

LEMMA OpenKeepsIInv ==
  ASSUME IInv, O!IInv', NEW h \in Hosts, OpenTransaction(h)
  PROVE  IInv'
<1>1. /\ tx[h].pc = "fenced"
      /\ tx' = [tx EXCEPT ![h] = [pc |-> "open", generation |-> tx[h].generation, base |-> version]]
      /\ UNCHANGED <<own, version, up, auto, client, net, replies, calls, turn, record, executed>>
  BY DEF OpenTransaction, O!OpenTransaction, hostVars, IInv, O!IInv, O!TypeOK
<1>2. TypeOK'
  BY <1>1, OwnTyped DEF IInv, TypeOK
<1>3. Turned' /\ Missed' /\ Tokened'
  BY <1>1 DEF IInv, O!IInv, O!TypeOK, HostInv, Turned, Missed, Tokened, InGap
<1>4. Counted' /\ Spare' /\ Told'
  BY <1>1 DEF IInv, HostInv, Counted, Spare, Told, AnswerIsCommitted
<1> QED
  BY <1>2, <1>3, <1>4 DEF IInv, HostInv

\* A failed call and a crash give up the mailbox and the token together.
LEMMA GiveUpKeepsIInv ==
  ASSUME IInv, O!IInv', NEW h \in Hosts, Fail(h) \/ Crash(h)
  PROVE  IInv'
<1>1. /\ turn' = [turn EXCEPT ![h] = None]
      /\ UNCHANGED <<own, client, net, record, executed>>
  BY DEF Fail, Crash, O!Rollback, O!Crash, ownVars
<1>2. tx'[h].pc = "idle" /\ \A k \in Hosts : k # h => tx'[k] = tx[k]
  BY DEF Fail, Crash, O!Rollback, O!Crash, O!IdleTx, ownVars, IInv, O!IInv, O!TypeOK
<1>3. calls' \in [Hosts -> SUBSET Deliveries]
      /\ replies' \subseteq [request : Requests, answer : Answers]
      /\ \A p \in replies' : p \in replies \/ p.answer = Failure
  <2>1. CASE Fail(h)
    <3>1. turn[h] \in Deliveries /\ Failure \in Answers
      BY <2>1 DEF Fail, IInv, TypeOK, Answers
    <3> QED
      BY <2>1, <3>1, AnswerTyped DEF Fail
  <2>2. CASE Crash(h)
    BY <2>2 DEF Crash, IInv, TypeOK
  <2> QED
    BY <2>1, <2>2
<1>4. TypeOK'
  BY <1>1, <1>3, OwnTyped DEF IInv, TypeOK
<1>5. Turned' /\ Missed' /\ Tokened'
  BY <1>1, <1>2 DEF IInv, TypeOK, HostInv, Turned, Missed, Tokened, InGap
<1>6. Counted' /\ Spare' /\ Told'
  BY <1>1, <1>3 DEF IInv, HostInv, Counted, Spare, Told, AnswerIsCommitted
<1> QED
  BY <1>4, <1>5, <1>6 DEF IInv, HostInv

\* The commit of a call: its token is good, so its request is not recorded,
\* and no other host's token is good any more than its own.
LEMMA CommitKeepsIInv ==
  ASSUME IInv, O!IInv', NEW h \in Hosts, Commit(h), \A k \in Hosts : ~InGap(k)
  PROVE  IInv'
<1> DEFINE r == turn[h].request
<1>1. /\ tx[h].pc = "open" /\ ~O!StaleOwner(h)
      /\ version' = version + 1
      /\ tx' = [tx EXCEPT ![h] = O!IdleTx]
      /\ UNCHANGED <<own, up, auto, client, net>>
      /\ Answer(turn[h], version')
      /\ turn' = [turn EXCEPT ![h] = None]
      /\ record' = [record EXCEPT ![r] = version']
      /\ executed' = [executed EXCEPT ![r] = executed[r] + 1]
  BY DEF Commit, O!Commit
<1>2. turn[h] \in Deliveries /\ r \in Requests /\ version' \in Nat /\ version' \in Answers
  <2>1. turn[h] # None
    BY <1>1 DEF IInv, HostInv, Turned
  <2>2. turn[h] \in Deliveries
    BY <2>1 DEF IInv, TypeOK
  <2>3. version' \in Nat
    BY <1>1 DEF IInv, O!IInv, O!TypeOK
  <2> QED
    BY <2>2, <2>3 DEF Deliveries, Answers
<1>3. own.owner = h /\ tx[h].generation = own.generation
  BY <1>1 DEF IInv, O!IInv, O!TypeOK, O!TokenInv, O!Absent, O!StaleOwner
<1>4. record[r] = None
  BY <1>1, <1>3 DEF IInv, HostInv, Tokened
<1>5. /\ calls' \in [Hosts -> SUBSET Deliveries]
      /\ replies' \subseteq [request : Requests, answer : Answers]
      /\ replies' \subseteq replies \union {[request |-> r, answer |-> version']}
  BY <1>1, <1>2, AnswerTyped
<1>6. TypeOK'
  <2>1. O!TypeOK'
    BY OwnTyped
  <2>2. record' \in [Requests -> Nat \union {None}] /\ turn' \in [Hosts -> Deliveries \union {None}]
    BY <1>1, <1>2 DEF IInv, TypeOK
  <2>3. executed' \in [Requests -> Nat]
    BY <1>1, <1>2 DEF IInv, TypeOK
  <2> QED
    BY <1>1, <1>5, <2>1, <2>2, <2>3 DEF IInv, TypeOK
<1>7. tx'[h].pc = "idle" /\ turn'[h] = None /\ \A k \in Hosts : k # h => tx'[k] = tx[k] /\ turn'[k] = turn[k]
  BY <1>1 DEF IInv, TypeOK, O!IInv, O!TypeOK, O!IdleTx
<1>8. Turned' /\ Missed' /\ Tokened'
  BY <1>1, <1>3, <1>7 DEF IInv, HostInv, Turned, Missed, Tokened, InGap
<1>9. Counted'
  <2>1. version' # None
    BY <1>2, DeliveryAssumption
  <2>2. executed[r] = 0
    BY <1>2, <1>4 DEF IInv, HostInv, Counted
  <2>3. record'[r] = version' /\ executed'[r] = 1
    BY <1>1, <1>2, <2>2 DEF IInv, TypeOK
  <2>4. \A s \in Requests : s # r => record'[s] = record[s] /\ executed'[s] = executed[s]
    BY <1>1 DEF IInv, TypeOK
  <2> QED
    BY <2>1, <2>3, <2>4 DEF IInv, HostInv, Counted
<1>10. Spare'
  BY <1>1 DEF IInv, Spare
<1>11. Told'
  <2>1. ASSUME NEW p \in replies', p.answer # Failure
        PROVE  p.answer = record'[p.request]
    <3>1. CASE p = [request |-> r, answer |-> version']
      BY <1>1, <1>2, <3>1 DEF IInv, TypeOK
    <3>2. CASE p \in replies /\ p.request # r
      BY <1>1, <2>1, <3>2 DEF IInv, TypeOK, Told
    <3>3. CASE p \in replies /\ p.request = r
      BY <1>4, <2>1, <3>3, DeliveryAssumption DEF IInv, TypeOK, Told, Answers
    <3> QED
      BY <1>5, <3>1, <3>2, <3>3
  <2>2. ASSUME NEW q \in Requests, client'[q].pc = "answered"
        PROVE  client'[q].answer \in Nat /\ client'[q].answer = record'[q]
    BY <1>1, <1>4, <2>2, DeliveryAssumption DEF IInv, TypeOK, Told, AnswerIsCommitted
  <2> QED
    BY <2>1, <2>2 DEF Told, AnswerIsCommitted
<1> QED
  BY <1>6, <1>8, <1>9, <1>10, <1>11 DEF IInv, HostInv

\* Renewals, takeovers, restarts and the clock.
LEMMA OwnershipStepKeepsIInv ==
  ASSUME IInv, O!IInv', OwnershipStep
  PROVE  IInv'
<1>1. UNCHANGED <<version, tx, auto, client, net, replies, calls, turn, record, executed>>
  BY DEF OwnershipStep, O!Tick, O!Restart, O!Acquire, hostVars
<1>2. TypeOK'
  BY <1>1, OwnTyped DEF IInv, TypeOK
<1>3. Turned' /\ Missed'
  BY <1>1 DEF IInv, HostInv, Turned, Missed, InGap
<1>4. Tokened'
  <2>1. CASE O!Tick \/ \E h \in Hosts : O!Restart(h)
    <3>1. own'.owner = own.owner /\ own'.generation = own.generation
      BY <2>1 DEF O!Tick, O!Restart, IInv, O!IInv, O!TypeOK
    <3> QED
      BY <1>1, <3>1 DEF IInv, HostInv, Tokened
  <2>2. ASSUME NEW h \in Hosts, NEW force \in BOOLEAN, O!Acquire(h, force)
        PROVE  Tokened'
    <3>1. own' = O!Granted(h)
      BY <2>2 DEF O!Acquire, O!AcquireOwnership, O!Granted, O!Absent, O!FreshLease
    <3> QED
      BY <1>1, <3>1, TokensStayGood DEF Tokened
  <2> QED
    BY <2>1, <2>2 DEF OwnershipStep
<1>5. Counted' /\ Spare' /\ Told'
  BY <1>1 DEF IInv, HostInv, Counted, Spare, Told, AnswerIsCommitted
<1> QED
  BY <1>2, <1>3, <1>4, <1>5 DEF IInv, HostInv

-----------------------------------------------------------------------------
LEMMA NextIInv == IInv /\ [NextWithoutGap]_vars => IInv'
<1> SUFFICES ASSUME IInv, NextWithoutGap \/ UNCHANGED vars
             PROVE  IInv'
  OBVIOUS
<1>1. O!IInv'
  BY OwnershipKept
<1>2. CASE \E r \in Requests : ClientStep(r)
  BY <1>1, <1>2, ClientKeepsIInv
<1>3. CASE \E m \in net : Deliver(m)
  BY <1>1, <1>3, DeliverKeepsIInv
<1>4. CASE \E h \in Hosts : HostStep(h)
  BY <1>1, <1>4, QueueKeepsIInv, ResolveKeepsIInv, OpenKeepsIInv, GiveUpKeepsIInv DEF HostStep
<1>5. CASE OwnershipStep
  BY <1>1, <1>5, OwnershipStepKeepsIInv
<1>6. CASE (\A h \in Hosts : ~InGap(h)) /\ \E h \in Hosts : Commit(h)
  BY <1>1, <1>6, CommitKeepsIInv
<1>7. CASE UNCHANGED vars
  <2>1. UNCHANGED <<own, version, tx, up, auto, client, net, replies, calls, turn, record, executed>>
    BY <1>7 DEF vars, ownVars, hostVars
  <2>2. TypeOK'
    BY <2>1 DEF IInv, TypeOK, O!TypeOK
  <2>3. HostInv' /\ Spare' /\ Told'
    BY <2>1 DEF IInv, HostInv, Turned, Missed, Tokened, Counted, InGap, Spare, Told, AnswerIsCommitted
  <2> QED
    BY <1>1, <2>2, <2>3 DEF IInv
<1> QED
  BY <1>2, <1>3, <1>4, <1>5, <1>6, <1>7 DEF NextWithoutGap, Rest

LEMMA IInvariance == SpecWithoutGap => []IInv
BY InitIInv, NextIInv, PTL DEF SpecWithoutGap

\* The variables keep their types; a call is sent MaxRetries + 1 times at most.
THEOREM DeliveryTypeCorrect == SpecWithoutGap => []TypeOK
<1>1. IInv => TypeOK
  BY DEF IInv
<1> QED
  BY <1>1, IInvariance, PTL

\* No request is executed twice, however often it is sent and whatever the
\* hosts do to each other's ownership.
THEOREM RequestsExecuteOnce == SpecWithoutGap => []ExactlyOnce
<1>1. IInv => ExactlyOnce
  BY DEF IInv, HostInv, Counted, ExactlyOnce
<1> QED
  BY <1>1, IInvariance, PTL

\* A successful answer is the committed one.
THEOREM AnswersAreCommitted == SpecWithoutGap => []AnswerIsCommitted
<1>1. IInv => AnswerIsCommitted
  BY DEF IInv, Told
<1> QED
  BY <1>1, IInvariance, PTL
=============================================================================
