------------------------ MODULE ActorRuntime_proofs ------------------------
(***************************************************************************)
(* Proofs about ActorRuntime: its type invariant under everything it does,  *)
(* and, for any number of calls, actors and mailboxes and one hot reload,    *)
(* that the calls of an actor are strictly serialized, that a release meets *)
(* no call, that what a reload shuts it opens, that an instance which was    *)
(* abandoned is left alone, and that the runtime implements SerialActor.    *)
(* The last part is about the lock file of ActorFileLock.                   *)
(***************************************************************************)
EXTENDS ActorRuntime, ActorFileLock, TLAPS

-----------------------------------------------------------------------------
(* Type correctness.                                                       *)

\* An in-flight table stays one when promises settle or a call is admitted.
LEMMA InFlightTables ==
  ASSUME TypeOK, NEW S
  PROVE  /\ Forget(S) \in [Requests -> Calls \union {None}]
         /\ \A c \in Calls : Announce(c) \in [Requests -> Calls \union {None}]
BY DEF TypeOK, Forget, Announce

\* No step of a call breaks the types.
LEMMA TypeCallStep ==
  ASSUME TypeOK, NEW c \in Calls, CallStep(c)
  PROVE  TypeOK'
<1> USE RuntimeAssumption DEF TypeOK, CallStates, Executing, Settled, callVars, txVars, boxVars,
        storageVars, adminVars, reloadVars
<1>1. CASE Invoke(c)
  BY <1>1 DEF Invoke
<1>2. CASE Refuse(c)
  BY <1>2 DEF Refuse
<1>3. CASE Join(c)
  BY <1>3 DEF Join, InFlight
<1>4. CASE JoinedReplies(c)
  BY <1>4 DEF JoinedReplies
<1>5. CASE Lookup(c)
  BY <1>5 DEF Lookup, InFlight
<1>6. CASE LookupHit(c)
  BY <1>6 DEF LookupHit, Recorded
<1>7. CASE AdmissionFails(c)
  BY <1>7, InFlightTables DEF AdmissionFails
<1>8. CASE Enqueue(c)
  <2> DEFINE m == MailboxOf(c)
  <2>1. m \in Calls
    BY DEF MailboxOf
  <2>2. mailboxes' \in [Actors -> Calls \union {None}] /\ box' \in [Calls -> Calls \union {None}]
    BY <1>8, <2>1 DEF Enqueue
  <2>3. queue' \in [Calls -> Seq(Calls)] /\ pc' \in [Calls -> CallStates]
    <3>1. Append(queue[m], c) \in Seq(Calls)
      BY <2>1
    <3>2. CASE Busy(m)
      <4>1. queue' = [queue EXCEPT ![m] = Append(queue[m], c)] /\ pc' = [pc EXCEPT ![c] = "queued"]
        BY <1>8, <3>2 DEF Enqueue
      <4> QED
        BY <3>1, <4>1
    <3>3. CASE ~Busy(m)
      <4>1. queue' = queue /\ pc' = [pc EXCEPT ![c] = "preflight"]
        BY <1>8, <3>3 DEF Enqueue
      <4> QED
        BY <4>1
    <3> QED
      BY <3>2, <3>3
  <2>4. inFlight' \in [Requests -> Calls \union {None}]
    BY <1>8, InFlightTables DEF Enqueue
  <2>5. \A d \in Calls : pc'[d] = "joined" => joined'[d] # None
    BY <1>8 DEF Enqueue
  <2> QED
    BY <1>8, <2>2, <2>3, <2>4, <2>5 DEF Enqueue
<1>9. CASE Dequeue(c)
  <2>1. box[c] \in Calls => Tail(queue[box[c]]) \in Seq(Calls)
    BY <1>9 DEF Dequeue
  <2>2. queue' \in [Calls -> Seq(Calls)]
    BY <1>9, <2>1 DEF Dequeue
  <2> QED
    BY <1>9, <2>2 DEF Dequeue
<1>10. CASE PreflightHit(c)
  BY <1>10, InFlightTables, SMTT(60) DEF PreflightHit, Recorded
<1>11. CASE PreflightFails(c)
  BY <1>11, InFlightTables DEF PreflightFails
<1>12. CASE CheckMigrated(c)
  BY <1>12 DEF CheckMigrated
<1>13. CASE Migrated(c)
  BY <1>13 DEF Migrated
<1>14. CASE OpenTransaction(c)
  <2>1. fresh' \in [Calls -> BOOLEAN]
    BY <1>14, Zenon DEF OpenTransaction
  <2>2. /\ pc' \in [Calls -> CallStates] /\ inst' \in [Calls -> Calls \union {None}]
        /\ base' \in [Calls -> Nat]
        /\ \A d \in Calls : pc'[d] = "joined" => joined'[d] # None
    <3>1. CASE instances[Target[c]] = None
      <4>1. /\ pc' = [pc EXCEPT ![c] = "activating"] /\ inst' = [inst EXCEPT ![c] = c]
            /\ base' = base /\ joined' = joined /\ pc[c] = "opening"
        BY <1>14, <3>1, Zenon DEF OpenTransaction
      <4> QED
        BY <4>1
    <3>2. CASE instances[Target[c]] # None
      <4>1. /\ pc' = [pc EXCEPT ![c] = "method"]
            /\ inst' = [inst EXCEPT ![c] = instances[Target[c]]]
            /\ base' = [base EXCEPT ![c] = committed[Target[c]]]
            /\ joined' = joined /\ pc[c] = "opening"
        BY <1>14, <3>2, Zenon DEF OpenTransaction
      <4> QED
        BY <4>1
    <3> QED
      BY <3>1, <3>2
  <2> QED
    BY <1>14, <2>1, <2>2 DEF OpenTransaction
<1>15. CASE Activated(c)
  <2>1. instances' \in [Actors -> Calls \union {None}] /\ base' \in [Calls -> Nat]
    BY <1>15 DEF Activated
  <2>2. /\ pc' \in [Calls -> CallStates]
        /\ \A d \in Calls : pc'[d] = "joined" => joined'[d] # None
    BY <1>15 DEF Activated
  <2> QED
    BY <1>15, <2>1, <2>2 DEF Activated
<1>16. CASE Commit(c)
  <2>1. committed' \in [Actors -> Nat] /\ reply' \in [Calls -> Nat]
    BY <1>16 DEF Commit
  <2>2. records' \in [Requests -> Nat]
    BY <1>16 DEF Commit
  <2>3. inFlight' \in [Requests -> Calls \union {None}]
    BY <1>16, InFlightTables DEF Commit
  <2>4. /\ pc' \in [Calls -> CallStates] /\ live' \in [Calls -> BOOLEAN]
        /\ \A d \in Calls : pc'[d] = "joined" => joined'[d] # None
    BY <1>16 DEF Commit
  <2> QED
    BY <1>16, <2>1, <2>2, <2>3, <2>4 DEF Commit
<1>17. CASE Throw(c)
  <2>1. inFlight' \in [Requests -> Calls \union {None}]
    BY <1>17, InFlightTables DEF Throw
  <2>2. instances' \in [Actors -> Calls \union {None}]
    BY <1>17 DEF Throw
  <2>3. /\ pc' \in [Calls -> CallStates] /\ live' \in [Calls -> BOOLEAN]
        /\ \A d \in Calls : pc'[d] = "joined" => joined'[d] # None
    BY <1>17 DEF Throw
  <2> QED
    BY <1>17, <2>1, <2>2, <2>3 DEF Throw
<1>18. CASE TimeOut(c)
  <2>1. inFlight' \in [Requests -> Calls \union {None}]
    BY <1>18, InFlightTables DEF TimeOut
  <2>2. instances' \in [Actors -> Calls \union {None}] /\ abandoned' \in SUBSET Calls
    BY <1>18 DEF TimeOut
  <2>3. /\ pc' \in [Calls -> CallStates] /\ live' \in [Calls -> BOOLEAN]
        /\ \A d \in Calls : pc'[d] = "joined" => joined'[d] # None
    BY <1>18 DEF TimeOut
  <2> QED
    BY <1>18, <2>1, <2>2, <2>3 DEF TimeOut
<1>19. CASE AbandonedEnds(c)
  BY <1>19 DEF AbandonedEnds
<1> QED
  BY <1>1, <1>2, <1>3, <1>4, <1>5, <1>6, <1>7, <1>8, <1>9, <1>10, <1>11, <1>12, <1>13, <1>14, <1>15, <1>16, <1>17, <1>18, <1>19 DEF CallStep

\* Rejecting calls leaves pc a function of call states and joins nobody.
LEMMA RejectedCalls ==
  ASSUME TypeOK, NEW S
  PROVE  /\ Reject(S) \in [Calls -> CallStates]
         /\ \A c \in Calls : Reject(S)[c] = "joined" => joined[c] # None
BY DEF TypeOK, Reject, CallStates, Settled

\* Draining the next actor only rejects calls and moves the reload's cursor.
LEMMA TypeDrainNext ==
  ASSUME TypeOK, NEW r \in Reloads, NEW todo \in SUBSET Actors, DrainNext(r, todo),
         joined' = joined
  PROVE  /\ pc' \in [Calls -> CallStates] /\ inFlight' \in [Requests -> Calls \union {None}]
         /\ \A c \in Calls : pc'[c] = "joined" => joined'[c] # None
         /\ queue' \in [Calls -> Seq(Calls)]
         /\ rpc' \in [Reloads -> ReloadStates] /\ pending' \in [Reloads -> SUBSET Actors]
         /\ at' \in [Reloads -> Actors \union {None}]
         /\ waitsFor' \in [Reloads -> Calls \union {None}]
<1>1. PICK a \in todo :
        /\ mailboxes[a] # None
        /\ rpc' = [rpc EXCEPT ![r] = "draining"]
        /\ pending' = [pending EXCEPT ![r] = todo \ {a}]
        /\ at' = [at EXCEPT ![r] = a]
        /\ waitsFor' = [waitsFor EXCEPT ![r] = mailboxes[a]]
        /\ \E S : pc' = Reject(S) /\ inFlight' = Forget(S)
        /\ queue' = [queue EXCEPT ![mailboxes[a]] = IF Policy[r] = "fail" THEN <<>> ELSE @]
  BY DEF DrainNext
<1>2. mailboxes[a] \in Calls /\ a \in Actors
  BY <1>1 DEF TypeOK
<1>3. queue' \in [Calls -> Seq(Calls)]
  BY <1>1, <1>2 DEF TypeOK
<1>4. /\ pc' \in [Calls -> CallStates] /\ inFlight' \in [Requests -> Calls \union {None}]
      /\ \A c \in Calls : pc'[c] = "joined" => joined'[c] # None
  BY <1>1, RejectedCalls, InFlightTables
<1> QED
  BY <1>1, <1>2, <1>3, <1>4 DEF TypeOK, ReloadStates

LEMMA TypeReleaseNext ==
  ASSUME TypeOK, NEW r \in Reloads, NEW todo \in SUBSET Actors, ReleaseNext(r, todo)
  PROVE  /\ rpc' \in [Reloads -> ReloadStates] /\ pending' \in [Reloads -> SUBSET Actors]
         /\ at' \in [Reloads -> Actors \union {None}]
         /\ waitsFor' \in [Reloads -> Calls \union {None}]
BY DEF TypeOK, ReleaseNext, ReloadStates

\* No step of a deactivation or a reload breaks the types.
LEMMA TypeAdminStep ==
  ASSUME TypeOK,
         \/ \E d \in Deactivations : StartDeactivate(d) \/ FinishDeactivate(d)
         \/ \E r \in Reloads : ReloadStep(r)
  PROVE  TypeOK'
<1> USE RuntimeAssumption DEF callVars, txVars, boxVars, storageVars, adminVars, reloadVars
<1>1. ASSUME NEW d \in Deactivations, StartDeactivate(d) PROVE TypeOK'
  BY <1>1 DEF StartDeactivate, TypeOK
<1>2. ASSUME NEW d \in Deactivations, FinishDeactivate(d) PROVE TypeOK'
  <2>1. \E S : pc' = Reject(S) /\ inFlight' = Forget(S)
    BY <1>2 DEF FinishDeactivate
  <2>2. /\ pc' \in [Calls -> CallStates] /\ inFlight' \in [Requests -> Calls \union {None}]
        /\ \A c \in Calls : pc'[c] = "joined" => joined[c] # None
    BY <2>1, RejectedCalls, InFlightTables
  <2>3. live' \in [Calls -> BOOLEAN]
    BY <1>2 DEF FinishDeactivate, CloseActor, TypeOK
  <2>4. queue' \in [Calls -> Seq(Calls)]
    BY <1>2 DEF FinishDeactivate, TypeOK
  <2> QED
    BY <1>2, <2>2, <2>3, <2>4 DEF FinishDeactivate, TypeOK
<1>3. ASSUME NEW r \in Reloads, StartReload(r) PROVE TypeOK'
  <2> DEFINE S == {a \in Actors : instances[a] # None \/ mailboxes[a] # None}
  <2>1. closed' \in [Calls -> BOOLEAN] /\ affected' \in [Reloads -> SUBSET Actors]
    BY <1>3 DEF StartReload, StopAdmission, TypeOK
  <2>0. UNCHANGED <<callVars, txVars, mailboxes, instances, storageVars, dpc>>
    BY <1>3 DEF StartReload
  <2>2. CASE S = {}
    <3>1. /\ rpc' = [rpc EXCEPT ![r] = "done"] /\ registered' = r /\ migrated' = {}
          /\ UNCHANGED <<pc, inFlight, queue, pending, at, waitsFor>>
      BY <1>3, <2>2 DEF StartReload
    <3>2. rpc' \in [Reloads -> ReloadStates] /\ registered' \in Classes
      BY <3>1 DEF TypeOK, Classes, ReloadStates
    <3> QED
      BY <2>0, <2>1, <3>1, <3>2 DEF TypeOK
  <2>3. CASE S # {} /\ HasMailbox(S) # {}
    <3>1. DrainNext(r, S) /\ joined' = joined /\ UNCHANGED <<registered, migrated>>
      BY <1>3, <2>3 DEF StartReload
    <3>2. /\ pc' \in [Calls -> CallStates] /\ inFlight' \in [Requests -> Calls \union {None}]
          /\ \A c \in Calls : pc'[c] = "joined" => joined'[c] # None
          /\ queue' \in [Calls -> Seq(Calls)]
          /\ rpc' \in [Reloads -> ReloadStates] /\ pending' \in [Reloads -> SUBSET Actors]
          /\ at' \in [Reloads -> Actors \union {None}]
          /\ waitsFor' \in [Reloads -> Calls \union {None}]
      BY <3>1, TypeDrainNext
    <3>3. UNCHANGED <<registered, migrated>>
      BY <3>1
    <3> HIDE DEF S
    <3> QED
      BY <2>0, <2>1, <3>2, <3>3 DEF TypeOK
  <2>4. CASE S # {} /\ HasMailbox(S) = {}
    <3>1. ReleaseNext(r, S) /\ UNCHANGED <<pc, inFlight, queue, registered, migrated>>
      BY <1>3, <2>4 DEF StartReload
    <3>2. /\ rpc' \in [Reloads -> ReloadStates] /\ pending' \in [Reloads -> SUBSET Actors]
          /\ at' \in [Reloads -> Actors \union {None}]
          /\ waitsFor' \in [Reloads -> Calls \union {None}]
      BY <3>1, TypeReleaseNext
    <3>3. UNCHANGED <<pc, inFlight, queue, registered, migrated>>
      BY <3>1
    <3> HIDE DEF S
    <3> QED
      BY <2>0, <2>1, <3>2, <3>3 DEF TypeOK
  <2> QED
    BY <2>2, <2>3, <2>4
<1>4. ASSUME NEW r \in Reloads, Drained(r) PROVE TypeOK'
  <2>1. pending[r] \in SUBSET Actors /\ affected[r] \in SUBSET Actors
    BY DEF TypeOK
  <2>2. CASE HasMailbox(pending[r]) # {}
    BY <1>4, <2>1, <2>2, TypeDrainNext DEF Drained, TypeOK
  <2>3. CASE HasMailbox(pending[r]) = {}
    BY <1>4, <2>1, <2>3, TypeReleaseNext DEF Drained, TypeOK
  <2> QED
    BY <2>2, <2>3
<1>5. ASSUME NEW r \in Reloads, DrainTimesOut(r) PROVE TypeOK'
  BY <1>5 DEF DrainTimesOut, ResumeAdmission, TypeOK, ReloadStates
<1>6. ASSUME NEW r \in Reloads, ReleaseInstance(r) PROVE TypeOK'
  <2>1. live' \in [Calls -> BOOLEAN]
    BY <1>6 DEF ReleaseInstance, CloseActor, TypeOK
  <2> QED
    BY <1>6, <2>1 DEF ReleaseInstance, TypeOK, ReloadStates
<1>7. ASSUME NEW r \in Reloads, RemoveMailbox(r) PROVE TypeOK'
  <2>1. \E S : pc' = Reject(S) /\ inFlight' = Forget(S)
    BY <1>7 DEF RemoveMailbox
  <2>2. /\ pc' \in [Calls -> CallStates] /\ inFlight' \in [Requests -> Calls \union {None}]
        /\ \A c \in Calls : pc'[c] = "joined" => joined[c] # None
    BY <2>1, RejectedCalls, InFlightTables
  <2>3. /\ queue' = [n \in Calls |-> IF n = mailboxes[at[r]] THEN <<>> ELSE queue[n]]
        /\ mailboxes' = [mailboxes EXCEPT ![at[r]] = None]
    BY <1>7 DEF RemoveMailbox
  <2>4. queue' \in [Calls -> Seq(Calls)] /\ mailboxes' \in [Actors -> Calls \union {None}]
    <3>1. \A n \in Calls : queue[n] \in Seq(Calls)
      BY DEF TypeOK
    <3>2. queue' \in [Calls -> Seq(Calls)]
      BY <2>3, <3>1
    <3>3. mailboxes' \in [Actors -> Calls \union {None}]
      BY <2>3 DEF TypeOK
    <3> QED
      BY <3>2, <3>3
  <2>0. UNCHANGED <<callVars, txVars, closed, instances, storageVars, dpc, affected>>
    BY <1>7 DEF RemoveMailbox
  <2>5. CASE pending[r] # {}
    <3>1. /\ pending[r] \in SUBSET Actors /\ ReleaseNext(r, pending[r])
          /\ UNCHANGED <<registered, migrated>>
      BY <1>7, <2>5 DEF RemoveMailbox, TypeOK
    <3>2. /\ rpc' \in [Reloads -> ReloadStates] /\ pending' \in [Reloads -> SUBSET Actors]
          /\ at' \in [Reloads -> Actors \union {None}]
          /\ waitsFor' \in [Reloads -> Calls \union {None}]
      BY <3>1, TypeReleaseNext
    <3>3. UNCHANGED <<registered, migrated>>
      BY <3>1
    <3> QED
      BY <2>0, <2>2, <2>4, <3>2, <3>3 DEF TypeOK
  <2>6. CASE pending[r] = {}
    <3>1. /\ rpc' = [rpc EXCEPT ![r] = "done"] /\ registered' = r /\ migrated' = {}
          /\ UNCHANGED <<pending, at, waitsFor>>
      BY <1>7, <2>6 DEF RemoveMailbox
    <3>2. rpc' \in [Reloads -> ReloadStates] /\ registered' \in Classes
      BY <3>1 DEF TypeOK, ReloadStates, Classes
    <3> QED
      BY <2>0, <2>2, <2>4, <3>1, <3>2 DEF TypeOK
  <2> QED
    BY <2>5, <2>6
<1> QED
  BY <1>1, <1>2, <1>3, <1>4, <1>5, <1>6, <1>7 DEF ReloadStep

LEMMA TypeNext == TypeOK /\ [Next]_vars => TypeOK'
<1> SUFFICES ASSUME TypeOK, [Next]_vars PROVE TypeOK'
  OBVIOUS
<1>1. CASE Serve
  BY <1>1, TypeCallStep DEF Serve
<1>2. CASE \/ \E d \in Deactivations : StartDeactivate(d) \/ FinishDeactivate(d)
           \/ \E r \in Reloads : ReloadStep(r)
  BY <1>2, TypeAdminStep
<1>3. CASE UNCHANGED vars
  BY <1>3 DEF vars, callVars, txVars, boxVars, storageVars, adminVars, reloadVars, TypeOK
<1> QED
  BY <1>1, <1>2, <1>3 DEF Next

LEMMA TypeInit == Init => TypeOK
BY RuntimeAssumption DEF Init, TypeOK, CallStates, Classes, ReloadStates

\* The state of the runtime stays well formed whatever callers, deactivations
\* and reloads do: any call that waits on another waits on a real one, every
\* mailbox and instance is one that a call created.
THEOREM RuntimeTypeCorrect == Spec => []TypeOK
BY TypeInit, TypeNext, PTL DEF Spec

-----------------------------------------------------------------------------
(* Serialization.  The mailbox lets one of its calls run at a time; the     *)
(* invariant shows that the calls inside the runtime are all in the present *)
(* mailbox of their actor, because a reload removes a mailbox only once     *)
(* nobody is in it and nobody can enter.                                   *)

\* Two reloads can undo each other's admission control.
AtMostOneReload == \A r, s \in Reloads : r = s

Inside == Executing \union {"queued"}

\* A call that waits or runs does so in the present mailbox of its actor.
InPresentMailbox ==
  \A c \in Calls : pc[c] \in Inside =>
    box[c] # None /\ mailboxes[Target[c]] = box[c]

\* A call that waits is in the queue of its mailbox.
QueuedInBox ==
  \A c \in Calls : pc[c] = "queued" =>
    \E i \in 1 .. Len(queue[box[c]]) : queue[box[c]][i] = c

\* An active actor has a mailbox, so a reload drains before it releases.
ActiveHasMailbox ==
  \A a \in Actors : instances[a] # None => mailboxes[a] # None

Shut(a) == mailboxes[a] # None /\ closed[mailboxes[a]]

Quiet(a) == \A c \in Calls : Target[c] = a => pc[c] \notin Inside

\* A draining reload has shut all its actors; those behind it are quiet.
DrainInv ==
  \A r \in Reloads : rpc[r] = "draining" =>
    /\ at[r] \in affected[r] \ pending[r]
    /\ pending[r] \subseteq affected[r]
    /\ waitsFor[r] = mailboxes[at[r]]
    /\ \A a \in affected[r] : Shut(a)
    /\ \A a \in affected[r] \ (pending[r] \union {at[r]}) : Quiet(a)

\* A releasing reload finds the actors still to release shut and quiet.
ReleaseInv ==
  \A r \in Reloads : rpc[r] \in Releasing =>
    /\ at[r] \in Actors \ pending[r]
    /\ \A a \in pending[r] \union {at[r]} : Shut(a) /\ Quiet(a)
    /\ rpc[r] = "closing" => instances[at[r]] = None

IInv ==
  /\ TypeOK
  /\ InPresentMailbox
  /\ QueuedInBox
  /\ ActiveHasMailbox
  /\ DrainInv
  /\ ReleaseInv
  /\ Serialized

\* No call enters a mailbox or starts.
NoneStarts ==
  \A c \in Calls :
    /\ pc'[c] \in Executing => pc[c] \in Executing
    /\ pc'[c] = "queued" => pc[c] = "queued"

LEMMA InitIInv == Init => IInv
<1> SUFFICES ASSUME Init PROVE IInv
  OBVIOUS
<1>1. TypeOK
  BY TypeInit
<1>2. \A c \in Calls : pc[c] \notin Inside
  BY DEF Init, Inside, Executing
<1>3. InPresentMailbox /\ QueuedInBox /\ Serialized
  BY <1>2 DEF InPresentMailbox, QueuedInBox, Serialized, Inside
<1>4. ActiveHasMailbox /\ DrainInv /\ ReleaseInv
  BY DEF Init, ActiveHasMailbox, DrainInv, ReleaseInv, Releasing
<1> QED
  BY <1>1, <1>3, <1>4 DEF IInv

\* A step that lets nobody in and moves no mailbox keeps the invariant.
LEMMA NoneStartsKeepsIInv ==
  ASSUME IInv, TypeOK', NoneStarts, UNCHANGED <<box, boxVars, reloadVars>>,
         \A a \in Actors : instances'[a] # None => instances[a] # None
  PROVE  IInv'
<1> USE DEF boxVars, reloadVars
<1>1. \A c \in Calls : pc'[c] \in Inside => pc[c] \in Inside
  BY DEF NoneStarts, Inside
<1>2. InPresentMailbox'
  BY <1>1 DEF IInv, InPresentMailbox
<1>3. QueuedInBox'
  BY DEF IInv, QueuedInBox, NoneStarts
<1>4. ActiveHasMailbox'
  BY DEF IInv, ActiveHasMailbox
<1>5. \A a \in Actors : (Quiet(a) => Quiet(a)') /\ (Shut(a) => Shut(a)')
  BY <1>1 DEF Quiet, Shut
<1>6. DrainInv'
  BY <1>5 DEF IInv, DrainInv, TypeOK
<1>7. ReleaseInv'
  BY <1>5 DEF IInv, ReleaseInv, TypeOK
<1>8. Serialized'
  BY DEF IInv, Serialized, NoneStarts
<1> QED
  BY <1>2, <1>3, <1>4, <1>6, <1>7, <1>8 DEF IInv

\* A call that is let in finds its actor neither shut nor replaced.
LEMMA EnqueueKeepsIInv ==
  ASSUME IInv, TypeOK', NEW c \in Calls, Enqueue(c)
  PROVE  IInv'
<1> DEFINE m == MailboxOf(c)
           t == Target[c]
<1> USE RuntimeAssumption DEF adminVars, reloadVars
<1>1. /\ TypeOK /\ InPresentMailbox /\ QueuedInBox /\ ActiveHasMailbox
      /\ DrainInv /\ ReleaseInv /\ Serialized
  BY DEF IInv
<1>2. /\ m \in Calls /\ t \in Actors /\ m # None /\ ~closed[m]
      /\ mailboxes[t] # None => mailboxes[t] = m
      /\ mailboxes' = [mailboxes EXCEPT ![t] = m]
      /\ box' = [box EXCEPT ![c] = m]
      /\ closed' = closed /\ instances' = instances
      /\ UNCHANGED reloadVars
  BY <1>1 DEF Enqueue, MailboxOf, TypeOK
<1>3. \/ Busy(m) /\ pc' = [pc EXCEPT ![c] = "queued"]
                 /\ queue' = [queue EXCEPT ![m] = Append(queue[m], c)]
      \/ ~Busy(m) /\ pc' = [pc EXCEPT ![c] = "preflight"] /\ queue' = queue
  BY DEF Enqueue
<1>4. \A d \in Calls \ {c} : pc'[d] = pc[d] /\ box'[d] = box[d]
  <2>1. pc \in [Calls -> CallStates] /\ box \in [Calls -> Calls \union {None}]
    BY <1>1 DEF TypeOK
  <2>2. \A d \in Calls \ {c} : pc'[d] = pc[d]
    BY <1>3, <2>1
  <2> QED
    BY <1>2, <2>1, <2>2
<1>5. InPresentMailbox'
  <2> SUFFICES ASSUME NEW d \in Calls, pc'[d] \in Inside
               PROVE  box'[d] # None /\ mailboxes'[Target[d]] = box'[d]
    BY DEF InPresentMailbox
  <2>1. box'[c] = m /\ mailboxes'[t] = m
    BY <1>1, <1>2 DEF TypeOK
  <2>2. CASE d = c
    BY <1>2, <2>1, <2>2
  <2>3. CASE d # c
    <3>1. box[d] # None /\ mailboxes[Target[d]] = box[d] /\ box'[d] = box[d]
      BY <1>1, <1>4, <2>3 DEF InPresentMailbox
    <3>2. Target[d] \in Actors /\ mailboxes \in [Actors -> Calls \union {None}]
      BY <1>1 DEF TypeOK
    <3> QED
      BY <1>2, <2>1, <3>1, <3>2
  <2> QED
    BY <2>2, <2>3
<1>6. QueuedInBox'
  <2> SUFFICES ASSUME NEW d \in Calls, pc'[d] = "queued"
               PROVE  \E i \in 1 .. Len(queue'[box'[d]]) : queue'[box'[d]][i] = d
    BY DEF QueuedInBox
  <2>1. queue[m] \in Seq(Calls)
    BY <1>1, <1>2 DEF TypeOK
  <2>2. CASE d = c
    <3>1. queue'[m] = Append(queue[m], c) /\ box'[d] = m
      BY <1>1, <1>2, <1>3, <2>2 DEF TypeOK
    <3>2. Len(queue[m]) + 1 \in 1 .. Len(queue'[m]) /\ queue'[m][Len(queue[m]) + 1] = c
      BY <2>1, <3>1
    <3> QED
      BY <2>2, <3>1, <3>2
  <2>3. CASE d # c
    <3>1. PICK i \in 1 .. Len(queue[box[d]]) : queue[box[d]][i] = d
      BY <1>1, <1>4, <2>3 DEF QueuedInBox
    <3>2. CASE box[d] = m /\ Busy(m)
      <4>1. queue'[m] = Append(queue[m], c)
        BY <1>1, <1>2, <1>3, <3>2 DEF TypeOK
      <4>2. i \in 1 .. Len(queue'[m]) /\ queue'[m][i] = d
        BY <2>1, <3>1, <3>2, <4>1
      <4> QED
        BY <1>4, <2>3, <3>2, <4>2
    <3>3. CASE box[d] # m \/ ~Busy(m)
      <4>1. box[d] \in Calls /\ queue \in [Calls -> Seq(Calls)]
        BY <1>1, <1>4, <2>3 DEF InPresentMailbox, Inside, TypeOK
      <4>2. queue'[box[d]] = queue[box[d]]
        BY <1>3, <3>3, <4>1
      <4> QED
        BY <1>4, <2>3, <3>1, <4>2
    <3> QED
      BY <3>2, <3>3
  <2> QED
    BY <2>2, <2>3
<1>7. ActiveHasMailbox'
  BY <1>1, <1>2 DEF ActiveHasMailbox, TypeOK
<1>8. \A a \in Actors : Shut(a) => a # t /\ Shut(a)' /\ mailboxes'[a] = mailboxes[a]
  BY <1>1, <1>2 DEF Shut, TypeOK
<1>9. \A a \in Actors : a # t /\ Quiet(a) => Quiet(a)'
  BY <1>4 DEF Quiet
<1>10. DrainInv'
  <2> SUFFICES ASSUME NEW r \in Reloads, rpc[r] = "draining"
               PROVE  /\ at[r] \in affected[r] \ pending[r]
                      /\ pending[r] \subseteq affected[r]
                      /\ waitsFor[r] = mailboxes'[at[r]]
                      /\ \A a \in affected[r] : Shut(a)'
                      /\ \A a \in affected[r] \ (pending[r] \union {at[r]}) : Quiet(a)'
    BY <1>2 DEF DrainInv
  <2>1. affected[r] \subseteq Actors
    BY <1>1 DEF TypeOK
  <2> QED
    BY <1>1, <1>8, <1>9, <2>1 DEF DrainInv
<1>11. ReleaseInv'
  <2> SUFFICES ASSUME NEW r \in Reloads, rpc[r] \in Releasing
               PROVE  /\ at[r] \in Actors \ pending[r]
                      /\ \A a \in pending[r] \union {at[r]} : Shut(a)' /\ Quiet(a)'
                      /\ rpc[r] = "closing" => instances[at[r]] = None
    BY <1>2 DEF ReleaseInv
  <2>1. pending[r] \subseteq Actors
    BY <1>1 DEF TypeOK
  <2> QED
    BY <1>1, <1>8, <1>9, <2>1 DEF ReleaseInv
<1>12. Serialized'
  <2>1. pc'[c] \in Executing => ~Busy(m)
    BY <1>1, <1>3 DEF TypeOK, Executing
  <2>2. \A d \in Calls \ {c} :
          pc'[c] \in Executing /\ Target[d] = t => pc'[d] \notin Executing
    BY <1>1, <1>2, <1>4, <2>1 DEF InPresentMailbox, Inside, Busy
  <2> QED
    BY <1>1, <1>4, <2>2 DEF Serialized
<1> QED
  BY <1>5, <1>6, <1>7, <1>10, <1>11, <1>12 DEF IInv

\* The head of the queue starts: it was inside, so its actor was not quiet.
LEMMA DequeueKeepsIInv ==
  ASSUME IInv, TypeOK', NEW c \in Calls, Dequeue(c)
  PROVE  IInv'
<1> DEFINE m == box[c]
<1> USE DEF callVars, adminVars, reloadVars
<1>1. /\ TypeOK /\ InPresentMailbox /\ QueuedInBox /\ ActiveHasMailbox
      /\ DrainInv /\ ReleaseInv /\ Serialized
  BY DEF IInv
<1>2. /\ pc[c] = "queued" /\ queue[m] # <<>> /\ Head(queue[m]) = c
      /\ \A d \in Calls : box[d] = m => pc[d] \notin Executing
      /\ pc' = [pc EXCEPT ![c] = "preflight"]
      /\ queue' = [queue EXCEPT ![m] = Tail(queue[m])]
      /\ UNCHANGED <<box, mailboxes, closed, instances, reloadVars>>
  BY DEF Dequeue
<1>3. \A d \in Calls : pc'[d] \in Inside => pc[d] \in Inside
  BY <1>1, <1>2 DEF Inside, TypeOK
<1>4. m \in Calls /\ queue[m] \in Seq(Calls)
  BY <1>1, <1>2 DEF InPresentMailbox, Inside, TypeOK
<1>5. InPresentMailbox'
  BY <1>1, <1>2, <1>3 DEF InPresentMailbox
<1>6. QueuedInBox'
  <2> SUFFICES ASSUME NEW d \in Calls, pc'[d] = "queued"
               PROVE  \E i \in 1 .. Len(queue'[box[d]]) : queue'[box[d]][i] = d
    BY <1>2 DEF QueuedInBox
  <2>1. d # c /\ pc[d] = "queued" /\ box[d] \in Calls
    BY <1>1, <1>2 DEF InPresentMailbox, Inside, TypeOK
  <2>2. PICK i \in 1 .. Len(queue[box[d]]) : queue[box[d]][i] = d
    BY <1>1, <2>1 DEF QueuedInBox
  <2>3. CASE box[d] = m
    <3>1. queue[m][1] = c
      BY <1>2, <1>4
    <3>2. i - 1 \in 1 .. Len(Tail(queue[m])) /\ Tail(queue[m])[i - 1] = d
      BY <1>4, <2>1, <2>2, <2>3, <3>1
    <3>3. queue'[m] = Tail(queue[m])
      BY <1>1, <1>2, <1>4 DEF TypeOK
    <3> QED
      BY <2>3, <3>2, <3>3
  <2>4. CASE box[d] # m
    <3>1. queue'[box[d]] = queue[box[d]]
      BY <1>1, <1>2, <2>1, <2>4 DEF TypeOK
    <3> QED
      BY <2>2, <3>1
  <2> QED
    BY <2>3, <2>4
<1>7. ActiveHasMailbox'
  BY <1>1, <1>2 DEF ActiveHasMailbox
<1>8. \A a \in Actors : (Shut(a) => Shut(a)') /\ (Quiet(a) => Quiet(a)')
  BY <1>2, <1>3 DEF Shut, Quiet
<1>9. DrainInv'
  BY <1>1, <1>2, <1>8 DEF DrainInv, TypeOK
<1>10. ReleaseInv'
  <2>1. pending \in [Reloads -> SUBSET Actors]
    BY <1>1 DEF TypeOK
  <2> QED
    BY <1>1, <1>2, <1>8, <2>1 DEF ReleaseInv
<1>11. Serialized'
  <2>1. \A d \in Calls : pc[d] \in Executing => Target[d] # Target[c]
    BY <1>1, <1>2 DEF InPresentMailbox, Inside
  <2>2. \A d \in Calls \ {c} : pc'[d] = pc[d]
    BY <1>1, <1>2 DEF TypeOK
  <2> QED
    BY <1>1, <2>1, <2>2 DEF Serialized
<1> QED
  BY <1>5, <1>6, <1>7, <1>9, <1>10, <1>11 DEF IInv

\* The instance of an executing call may be made active: its actor has a
\* mailbox, and is not one that a reload has released.
LEMMA ActivatedKeepsIInv ==
  ASSUME IInv, TypeOK', NEW c \in Calls, Activated(c)
  PROVE  IInv'
<1> DEFINE t == Target[c]
<1> USE RuntimeAssumption DEF callVars, boxVars, adminVars, reloadVars
<1>1. /\ TypeOK /\ InPresentMailbox /\ QueuedInBox /\ ActiveHasMailbox
      /\ DrainInv /\ ReleaseInv /\ Serialized
  BY DEF IInv
<1>2. /\ pc[c] = "activating" /\ pc' = [pc EXCEPT ![c] = "method"]
      /\ instances' = [instances EXCEPT ![t] = c]
      /\ UNCHANGED <<box, mailboxes, queue, closed, reloadVars>>
  BY DEF Activated
<1>3. /\ \A d \in Calls : pc'[d] \in Executing => pc[d] \in Executing
      /\ \A d \in Calls : pc'[d] = "queued" => pc[d] = "queued"
      /\ pc[c] \in Inside
  BY <1>1, <1>2 DEF Executing, Inside, TypeOK
<1>4. InPresentMailbox' /\ QueuedInBox' /\ Serialized'
  BY <1>1, <1>2, <1>3 DEF InPresentMailbox, QueuedInBox, Serialized, Inside
<1>5. ActiveHasMailbox'
  BY <1>1, <1>2, <1>3 DEF ActiveHasMailbox, InPresentMailbox, TypeOK
<1>6. \A a \in Actors : (Shut(a) => Shut(a)') /\ (Quiet(a) => Quiet(a)' /\ a # t)
  BY <1>2, <1>3 DEF Shut, Quiet, Inside
<1>7. DrainInv'
  BY <1>1, <1>2, <1>6 DEF DrainInv, TypeOK
<1>8. ReleaseInv'
  BY <1>1, <1>2, <1>6 DEF ReleaseInv, TypeOK
<1> QED
  BY <1>4, <1>5, <1>7, <1>8 DEF IInv

\* Every other step of a call lets nobody in.
LEMMA CallStepKeepsIInv ==
  ASSUME IInv, TypeOK', NEW c \in Calls, CallStep(c)
  PROVE  IInv'
<1> USE DEF IInv, TypeOK, NoneStarts, Executing, Settled, callVars, boxVars, adminVars, reloadVars
<1>1. CASE Invoke(c)
  BY <1>1, NoneStartsKeepsIInv DEF Invoke
<1>2. CASE Refuse(c)
  BY <1>2, NoneStartsKeepsIInv DEF Refuse
<1>3. CASE Join(c)
  BY <1>3, NoneStartsKeepsIInv DEF Join
<1>4. CASE JoinedReplies(c)
  BY <1>4, NoneStartsKeepsIInv DEF JoinedReplies
<1>5. CASE Lookup(c)
  BY <1>5, NoneStartsKeepsIInv DEF Lookup
<1>6. CASE LookupHit(c)
  BY <1>6, NoneStartsKeepsIInv DEF LookupHit
<1>7. CASE AdmissionFails(c)
  BY <1>7, NoneStartsKeepsIInv DEF AdmissionFails
<1>8. CASE PreflightHit(c)
  BY <1>8, NoneStartsKeepsIInv DEF PreflightHit
<1>9. CASE PreflightFails(c)
  BY <1>9, NoneStartsKeepsIInv DEF PreflightFails
<1>10. CASE CheckMigrated(c)
  <2>1. \/ pc' = [pc EXCEPT ![c] = "opening"]
        \/ pc' = [pc EXCEPT ![c] = "migrating"]
    BY <1>10 DEF CheckMigrated
  <2> QED
    BY <1>10, <2>1, NoneStartsKeepsIInv DEF CheckMigrated, MayRun
<1>11. CASE Migrated(c)
  BY <1>11, NoneStartsKeepsIInv DEF Migrated
<1>12. CASE OpenTransaction(c)
  <2>1. /\ pc[c] = "opening"
        /\ \/ pc' = [pc EXCEPT ![c] = "activating"]
           \/ pc' = [pc EXCEPT ![c] = "method"]
        /\ UNCHANGED <<box, boxVars, instances, reloadVars>>
    BY <1>12, Zenon DEF OpenTransaction
  <2>2. NoneStarts
    BY <2>1
  <2> QED
    BY <2>1, <2>2, NoneStartsKeepsIInv
<1>13. CASE Commit(c)
  BY <1>13, NoneStartsKeepsIInv DEF Commit
<1>14. CASE Throw(c)
  BY <1>14, NoneStartsKeepsIInv, ZenonT(60) DEF Throw
<1>15. CASE TimeOut(c)
  BY <1>15, NoneStartsKeepsIInv DEF TimeOut
<1>16. CASE AbandonedEnds(c)
  BY <1>16, NoneStartsKeepsIInv DEF AbandonedEnds
<1>17. CASE Enqueue(c)
  BY <1>17, EnqueueKeepsIInv
<1>18. CASE Dequeue(c)
  BY <1>18, DequeueKeepsIInv
<1>19. CASE Activated(c)
  BY <1>19, ActivatedKeepsIInv
<1> QED
  BY <1>1, <1>2, <1>3, <1>4, <1>5, <1>6, <1>7, <1>8, <1>9, <1>10,
     <1>11, <1>12, <1>13, <1>14, <1>15, <1>16, <1>17, <1>18, <1>19 DEF CallStep

-----------------------------------------------------------------------------
(* The steps of a reload, when there is only one.                          *)

\* Rejecting the calls that wait in a mailbox and emptying its queue.
Cleared(m) ==
  /\ pc' = Reject(Queued(m))
  /\ queue' = [n \in Calls |-> IF n = m THEN <<>> ELSE queue[n]]

LEMMA ClearedRejects ==
  ASSUME TypeOK, QueuedInBox, InPresentMailbox, NEW m \in Calls, Cleared(m), box' = box
  PROVE  NoneStarts /\ QueuedInBox'
<1>1. NoneStarts
  BY DEF Cleared, Reject, NoneStarts, Executing, Settled
<1>2. \A d \in Calls : pc'[d] = "queued" => pc[d] = "queued" /\ box[d] # m
  BY DEF Cleared, Reject, Queued
<1>3. \A d \in Calls : pc'[d] = "queued" /\ box[d] \in Calls => queue'[box[d]] = queue[box[d]]
  BY <1>2 DEF Cleared
<1>4. \A d \in Calls : pc[d] = "queued" => box[d] \in Calls
  BY DEF TypeOK, InPresentMailbox, Inside
<1>5. QueuedInBox'
  <2> SUFFICES ASSUME NEW d \in Calls, pc'[d] = "queued"
               PROVE  \E i \in 1 .. Len(queue'[box[d]]) : queue'[box[d]][i] = d
    BY DEF QueuedInBox
  <2>1. queue'[box[d]] = queue[box[d]] /\ pc[d] = "queued"
    BY <1>2, <1>3, <1>4
  <2> QED
    BY <2>1 DEF QueuedInBox
<1> QED
  BY <1>1, <1>5

\* What an actor that nobody enters and nobody starts on keeps.
LEMMA NoneStartsKeeps ==
  ASSUME TypeOK, InPresentMailbox, Serialized, NoneStarts, box' = box,
         \A c \in Calls : pc[c] \in Inside => mailboxes'[Target[c]] = mailboxes[Target[c]]
  PROVE  InPresentMailbox' /\ Serialized' /\ \A a \in Actors : Quiet(a) => Quiet(a)'
<1>1. \A c \in Calls : pc'[c] \in Inside => pc[c] \in Inside
  BY DEF NoneStarts, Inside
<1> QED
  BY <1>1 DEF InPresentMailbox, Serialized, NoneStarts, Quiet

\* Draining the next actor of todo, all of them shut: the cursor moves to a
\* shut actor, and nobody but rejected calls changes place.
LEMMA DrainNextShut ==
  ASSUME TypeOK, InPresentMailbox, QueuedInBox, NEW r \in Reloads, NEW todo \in SUBSET Actors,
         DrainNext(r, todo), box' = box
  PROVE  \E a \in todo :
           /\ rpc' = [rpc EXCEPT ![r] = "draining"]
           /\ pending' = [pending EXCEPT ![r] = todo \ {a}]
           /\ at' = [at EXCEPT ![r] = a]
           /\ waitsFor' = [waitsFor EXCEPT ![r] = mailboxes[a]]
           /\ NoneStarts /\ QueuedInBox'
<1>1. PICK a \in todo :
        /\ mailboxes[a] # None
        /\ rpc' = [rpc EXCEPT ![r] = "draining"]
        /\ pending' = [pending EXCEPT ![r] = todo \ {a}]
        /\ at' = [at EXCEPT ![r] = a]
        /\ waitsFor' = [waitsFor EXCEPT ![r] = mailboxes[a]]
        /\ pc' = Reject(IF Policy[r] = "fail" THEN Queued(mailboxes[a]) ELSE {})
        /\ queue' = [queue EXCEPT ![mailboxes[a]] = IF Policy[r] = "fail" THEN <<>> ELSE @]
  BY DEF DrainNext
<1>2. mailboxes[a] \in Calls
  BY <1>1 DEF TypeOK
<1>3. CASE Policy[r] = "fail"
  <2>1. Cleared(mailboxes[a])
    BY <1>1, <1>2, <1>3 DEF Cleared, TypeOK
  <2> QED
    BY <1>1, <1>2, <2>1, ClearedRejects
<1>4. CASE Policy[r] # "fail"
  <2>1. pc' = pc /\ queue' = queue
    BY <1>1, <1>2, <1>4 DEF Reject, TypeOK
  <2> QED
    BY <1>1, <2>1 DEF NoneStarts, QueuedInBox
<1> QED
  BY <1>3, <1>4

LEMMA StartReloadKeepsIInv ==
  ASSUME IInv, TypeOK', AtMostOneReload, NEW r \in Reloads, StartReload(r)
  PROVE  IInv'
<1> DEFINE S == {a \in Actors : instances[a] # None \/ mailboxes[a] # None}
<1>1. /\ TypeOK /\ InPresentMailbox /\ QueuedInBox /\ ActiveHasMailbox /\ Serialized
      /\ \A s \in Reloads : s = r
  BY DEF IInv, AtMostOneReload
<1>2. /\ affected' = [affected EXCEPT ![r] = S]
      /\ closed' = StopAdmission(S)
      /\ UNCHANGED <<box, mailboxes, instances>>
  BY DEF StartReload, callVars
<1>3. \A a \in S : mailboxes[a] \in Calls
  BY <1>1 DEF ActiveHasMailbox, TypeOK
<1>4. \A a \in S : Shut(a)'
  <2> SUFFICES ASSUME NEW a \in S PROVE mailboxes'[a] # None /\ closed'[mailboxes'[a]]
    BY DEF Shut
  <2>1. mailboxes'[a] = mailboxes[a] /\ mailboxes[a] \in Calls
    BY <1>2, <1>3
  <2>2. StopAdmission(S)[mailboxes[a]]
    BY <2>1 DEF StopAdmission
  <2> QED
    BY <1>2, <2>1, <2>2, RuntimeAssumption
<1>5. affected'[r] = S
  BY <1>1, <1>2 DEF TypeOK
<1>6. CASE S = {}
  <2>1. rpc' = [rpc EXCEPT ![r] = "done"] /\ pc' = pc /\ queue' = queue
    BY <1>6 DEF StartReload
  <2>2. DrainInv' /\ ReleaseInv'
    BY <1>1, <2>1 DEF DrainInv, ReleaseInv, Releasing, TypeOK
  <2>3. InPresentMailbox' /\ QueuedInBox' /\ ActiveHasMailbox' /\ Serialized'
    BY <1>1, <1>2, <2>1 DEF InPresentMailbox, QueuedInBox, ActiveHasMailbox, Serialized
  <2> QED
    BY <2>2, <2>3 DEF IInv
<1>7. CASE S # {}
  <2>1. HasMailbox(S) # {}
    BY <1>1, <1>3, <1>7, RuntimeAssumption DEF HasMailbox
  <2>2. DrainNext(r, S)
    BY <1>7, <2>1 DEF StartReload
  <2>3. PICK a \in S :
          /\ rpc' = [rpc EXCEPT ![r] = "draining"]
          /\ pending' = [pending EXCEPT ![r] = S \ {a}]
          /\ at' = [at EXCEPT ![r] = a]
          /\ waitsFor' = [waitsFor EXCEPT ![r] = mailboxes[a]]
          /\ NoneStarts /\ QueuedInBox'
    BY <1>1, <1>2, <2>2, DrainNextShut
  <2>4. /\ rpc'[r] = "draining" /\ pending'[r] = S \ {a} /\ at'[r] = a
        /\ waitsFor'[r] = mailboxes[a]
    BY <1>1, <2>3 DEF TypeOK
  <2>5. InPresentMailbox' /\ Serialized' /\ ActiveHasMailbox'
    BY <1>1, <1>2, <2>3, NoneStartsKeeps DEF ActiveHasMailbox
  <2>6. DrainInv'
    BY <1>1, <1>2, <1>4, <1>5, <2>4 DEF DrainInv
  <2>7. ReleaseInv'
    BY <1>1, <2>4 DEF ReleaseInv, Releasing
  <2> QED
    BY <2>3, <2>5, <2>6, <2>7 DEF IInv
<1> QED
  BY <1>6, <1>7

\* A drained actor is quiet: its mailbox is its only one and is empty.
LEMMA DrainedKeepsIInv ==
  ASSUME IInv, TypeOK', AtMostOneReload, NEW r \in Reloads, Drained(r)
  PROVE  IInv'
<1>1. /\ TypeOK /\ InPresentMailbox /\ QueuedInBox /\ ActiveHasMailbox /\ Serialized
      /\ \A s \in Reloads : s = r
  BY DEF IInv, AtMostOneReload
<1>2. /\ at[r] \in affected[r] \ pending[r]
      /\ pending[r] \subseteq affected[r]
      /\ waitsFor[r] = mailboxes[at[r]]
      /\ \A a \in affected[r] : Shut(a)
      /\ \A a \in affected[r] \ (pending[r] \union {at[r]}) : Quiet(a)
      /\ affected[r] \subseteq Actors
  BY DEF IInv, DrainInv, Drained, TypeOK
<1>3. ~Busy(mailboxes[at[r]]) /\ UNCHANGED <<box, mailboxes, closed, instances, affected>>
  BY <1>2 DEF Drained, callVars
<1>4. Quiet(at[r])
  <2> SUFFICES ASSUME NEW c \in Calls, Target[c] = at[r], pc[c] \in Inside PROVE FALSE
    BY DEF Quiet
  <2>1. box[c] = mailboxes[at[r]]
    BY <1>1 DEF InPresentMailbox
  <2>2. queue[box[c]] = <<>> /\ pc[c] = "queued"
    BY <1>3, <2>1 DEF Busy, Inside
  <2> QED
    BY <1>1, <2>2 DEF QueuedInBox
<1>5. \A a \in affected[r] : Shut(a)'
  BY <1>2, <1>3 DEF Shut
<1>6. CASE pending[r] # {}
  <2>1. HasMailbox(pending[r]) # {}
    BY <1>2, <1>6 DEF HasMailbox, Shut
  <2>2. DrainNext(r, pending[r]) /\ pending[r] \in SUBSET Actors
    BY <1>2, <2>1 DEF Drained
  <2>3. PICK a \in pending[r] :
          /\ rpc' = [rpc EXCEPT ![r] = "draining"]
          /\ pending' = [pending EXCEPT ![r] = pending[r] \ {a}]
          /\ at' = [at EXCEPT ![r] = a]
          /\ waitsFor' = [waitsFor EXCEPT ![r] = mailboxes[a]]
          /\ NoneStarts /\ QueuedInBox'
    BY <1>1, <1>3, <2>2, DrainNextShut
  <2>4. /\ rpc'[r] = "draining" /\ pending'[r] = pending[r] \ {a} /\ at'[r] = a
        /\ waitsFor'[r] = mailboxes'[a]
    BY <1>1, <1>3, <2>3 DEF TypeOK
  <2>5. /\ InPresentMailbox' /\ Serialized' /\ ActiveHasMailbox'
        /\ \A b \in Actors : Quiet(b) => Quiet(b)'
    BY <1>1, <1>3, <2>3, NoneStartsKeeps DEF ActiveHasMailbox
  <2>6. \A b \in affected[r] \ (pending'[r] \union {at'[r]}) : Quiet(b)'
    BY <1>2, <1>4, <2>4, <2>5
  <2>7. DrainInv'
    BY <1>1, <1>2, <1>3, <1>5, <2>4, <2>6 DEF DrainInv
  <2>8. ReleaseInv'
    BY <1>1, <2>4 DEF ReleaseInv, Releasing
  <2> QED
    BY <2>3, <2>5, <2>7, <2>8 DEF IInv
<1>7. CASE pending[r] = {}
  <2>1. HasMailbox(pending[r]) = {}
    BY <1>7 DEF HasMailbox
  <2>2. ReleaseNext(r, affected[r]) /\ pc' = pc /\ queue' = queue
    BY <2>1 DEF Drained
  <2>3. PICK a \in affected[r] :
          /\ rpc' = [rpc EXCEPT ![r] = "hook"]
          /\ pending' = [pending EXCEPT ![r] = affected[r] \ {a}]
          /\ at' = [at EXCEPT ![r] = a]
    BY <2>2 DEF ReleaseNext
  <2>4. rpc'[r] = "hook" /\ pending'[r] = affected[r] \ {a} /\ at'[r] = a
    BY <1>1, <2>3 DEF TypeOK
  <2>5. \A b \in affected[r] : Quiet(b)'
    BY <1>2, <1>4, <1>7, <2>2 DEF Quiet
  <2>6. DrainInv' /\ ReleaseInv'
    BY <1>1, <1>2, <1>5, <2>4, <2>5 DEF DrainInv, ReleaseInv
  <2>7. InPresentMailbox' /\ QueuedInBox' /\ ActiveHasMailbox' /\ Serialized'
    BY <1>1, <1>3, <2>2 DEF InPresentMailbox, QueuedInBox, ActiveHasMailbox, Serialized
  <2> QED
    BY <2>6, <2>7 DEF IInv
<1> QED
  BY <1>6, <1>7

LEMMA DrainTimesOutKeepsIInv ==
  ASSUME IInv, TypeOK', AtMostOneReload, NEW r \in Reloads, DrainTimesOut(r)
  PROVE  IInv'
<1>1. /\ TypeOK /\ InPresentMailbox /\ QueuedInBox /\ ActiveHasMailbox /\ Serialized
      /\ \A s \in Reloads : s = r
  BY DEF IInv, AtMostOneReload
<1>2. /\ rpc' = [rpc EXCEPT ![r] = "aborted"]
      /\ UNCHANGED <<pc, box, mailboxes, queue, instances>>
  BY DEF DrainTimesOut, callVars
<1>3. DrainInv' /\ ReleaseInv'
  BY <1>1, <1>2 DEF DrainInv, ReleaseInv, Releasing, TypeOK
<1>4. InPresentMailbox' /\ QueuedInBox' /\ ActiveHasMailbox' /\ Serialized'
  BY <1>1, <1>2 DEF InPresentMailbox, QueuedInBox, ActiveHasMailbox, Serialized
<1> QED
  BY <1>3, <1>4 DEF IInv

LEMMA ReleaseInstanceKeepsIInv ==
  ASSUME IInv, TypeOK', AtMostOneReload, NEW r \in Reloads, ReleaseInstance(r)
  PROVE  IInv'
<1>1. /\ TypeOK /\ InPresentMailbox /\ QueuedInBox /\ ActiveHasMailbox /\ Serialized
      /\ \A s \in Reloads : s = r
  BY DEF IInv, AtMostOneReload
<1>2. /\ at[r] \in Actors \ pending[r]
      /\ \A a \in pending[r] \union {at[r]} : Shut(a) /\ Quiet(a)
  BY DEF IInv, ReleaseInv, ReleaseInstance, Releasing
<1>3. /\ rpc' = [rpc EXCEPT ![r] = "closing"]
      /\ instances' = [instances EXCEPT ![at[r]] = None]
      /\ UNCHANGED <<pc, box, mailboxes, queue, closed, pending, at>>
  BY DEF ReleaseInstance, callVars, boxVars
<1>4. rpc'[r] = "closing" /\ instances'[at[r]] = None
  BY <1>1, <1>2, <1>3 DEF TypeOK
<1>5. \A a \in pending[r] \union {at[r]} : Shut(a)' /\ Quiet(a)'
  BY <1>2, <1>3 DEF Shut, Quiet
<1>6. DrainInv' /\ ReleaseInv'
  BY <1>1, <1>2, <1>3, <1>4, <1>5 DEF DrainInv, ReleaseInv
<1>7. InPresentMailbox' /\ QueuedInBox' /\ Serialized'
  BY <1>1, <1>3 DEF InPresentMailbox, QueuedInBox, Serialized
<1>8. ActiveHasMailbox'
  BY <1>1, <1>3 DEF ActiveHasMailbox, TypeOK
<1> QED
  BY <1>6, <1>7, <1>8 DEF IInv

\* The removed mailbox is one that nobody is in.
LEMMA RemoveMailboxKeepsIInv ==
  ASSUME IInv, TypeOK', AtMostOneReload, NEW r \in Reloads, RemoveMailbox(r)
  PROVE  IInv'
<1> DEFINE m == mailboxes[at[r]]
<1>1. /\ TypeOK /\ InPresentMailbox /\ QueuedInBox /\ ActiveHasMailbox /\ Serialized
      /\ \A s \in Reloads : s = r
  BY DEF IInv, AtMostOneReload
<1>2. /\ at[r] \in Actors \ pending[r]
      /\ \A a \in pending[r] \union {at[r]} : Shut(a) /\ Quiet(a)
      /\ instances[at[r]] = None
      /\ pending[r] \subseteq Actors
  BY DEF IInv, ReleaseInv, RemoveMailbox, Releasing, TypeOK
<1>3. m \in Calls /\ m # None
  BY <1>1, <1>2 DEF Shut, TypeOK
<1>4. /\ Cleared(m)
      /\ mailboxes' = [mailboxes EXCEPT ![at[r]] = None]
      /\ UNCHANGED <<box, closed, instances>>
  BY <1>3 DEF RemoveMailbox, Cleared, callVars
<1>5. NoneStarts /\ QueuedInBox'
  BY <1>1, <1>3, <1>4, ClearedRejects
<1>6. \A a \in Actors : a # at[r] => mailboxes'[a] = mailboxes[a]
  BY <1>1, <1>4 DEF TypeOK
<1>7. \A c \in Calls : pc[c] \in Inside => mailboxes'[Target[c]] = mailboxes[Target[c]]
  BY <1>2, <1>6, RuntimeAssumption DEF Quiet
<1>8. InPresentMailbox' /\ Serialized' /\ \A a \in Actors : Quiet(a) => Quiet(a)'
  BY <1>1, <1>4, <1>5, <1>7, NoneStartsKeeps
<1>9. ActiveHasMailbox'
  BY <1>1, <1>2, <1>4, <1>6 DEF ActiveHasMailbox
<1>10. \A a \in pending[r] : Shut(a)' /\ Quiet(a)'
  BY <1>2, <1>4, <1>6, <1>8 DEF Shut
<1>11. CASE pending[r] = {}
  <2>1. rpc' = [rpc EXCEPT ![r] = "done"]
    BY <1>11 DEF RemoveMailbox
  <2>2. DrainInv' /\ ReleaseInv'
    BY <1>1, <2>1 DEF DrainInv, ReleaseInv, Releasing, TypeOK
  <2> QED
    BY <1>5, <1>8, <1>9, <2>2 DEF IInv
<1>12. CASE pending[r] # {}
  <2>1. PICK a \in pending[r] :
          /\ rpc' = [rpc EXCEPT ![r] = "hook"]
          /\ pending' = [pending EXCEPT ![r] = pending[r] \ {a}]
          /\ at' = [at EXCEPT ![r] = a]
    BY <1>12 DEF RemoveMailbox, ReleaseNext
  <2>2. rpc'[r] = "hook" /\ pending'[r] = pending[r] \ {a} /\ at'[r] = a
    BY <1>1, <2>1 DEF TypeOK
  <2>3. DrainInv' /\ ReleaseInv'
    BY <1>1, <1>2, <1>10, <2>2 DEF DrainInv, ReleaseInv
  <2> QED
    BY <1>5, <1>8, <1>9, <2>3 DEF IInv
<1> QED
  BY <1>11, <1>12

LEMMA NextIInv == AtMostOneReload /\ IInv /\ [NextReload]_vars => IInv'
<1> SUFFICES ASSUME AtMostOneReload, IInv, [NextReload]_vars PROVE IInv'
  OBVIOUS
<1>1. TypeOK'
  BY TypeNext DEF IInv, NextReload, Next
<1>2. CASE Serve
  BY <1>1, <1>2, CallStepKeepsIInv DEF Serve
<1>3. ASSUME NEW r \in Reloads, ReloadStep(r) PROVE IInv'
  BY <1>1, <1>3, StartReloadKeepsIInv, DrainedKeepsIInv, DrainTimesOutKeepsIInv,
     ReleaseInstanceKeepsIInv, RemoveMailboxKeepsIInv DEF ReloadStep
<1>4. CASE UNCHANGED vars
  <2>1. NoneStarts /\ UNCHANGED <<box, boxVars, reloadVars, instances>>
    BY <1>4 DEF vars, callVars, adminVars, NoneStarts
  <2> QED
    BY <1>1, <2>1, NoneStartsKeepsIInv
<1> QED
  BY <1>2, <1>3, <1>4 DEF NextReload

\* The calls of an actor never overlap, in a runtime with any number of actors,
\* calls and mailboxes, across admission, queueing, timeouts and a hot reload
\* that drains, fails, aborts or completes.
THEOREM CallsAreSerialized ==
  ASSUME AtMostOneReload
  PROVE  SpecReload => []Serialized
<1>1. IInv /\ [NextReload]_vars => IInv'
  BY NextIInv
<1>2. IInv => Serialized
  BY DEF IInv
<1> QED
  BY InitIInv, <1>1, <1>2, PTL DEF SpecReload

-----------------------------------------------------------------------------
(* What a reload meets.                                                     *)

\* With one reload and no deactivation, what the reload has yet to release executes no
\* call, and a mailbox that is shut is one that it has yet to release or drain.
THEOREM ReleasesMeetNoCall ==
  ASSUME AtMostOneReload
  PROVE  SpecReload => []NoCallDuringRelease
<1>1. IInv /\ [NextReload]_vars => IInv'
  BY NextIInv
<1>2. IInv => NoCallDuringRelease
  BY RuntimeAssumption DEF IInv, ReleaseInv, Quiet, Inside, NoCallDuringRelease
<1> QED
  BY InitIInv, <1>1, <1>2, PTL DEF SpecReload

\* Reload r has yet to reopen or to remove the mailbox of a.
ToReopen(r, a) ==
  /\ a \in affected[r]
  /\ rpc[r] = "draining" \/ (rpc[r] \in Releasing /\ a \in pending[r] \union {at[r]})

\* Only such a reload shuts an actor, and what it releases it has shut.
ShutForReload ==
  /\ \A a \in Actors : Shut(a) => \E r \in Reloads : ToReopen(r, a)
  /\ \A r \in Reloads : rpc[r] \in Releasing => pending[r] \union {at[r]} \subseteq affected[r]

\* A call shuts nothing, and no step of a call touches a reload.
LEMMA CallsShutNothing ==
  ASSUME TypeOK, NEW c \in Calls, CallStep(c)
  PROVE  UNCHANGED reloadVars /\ \A a \in Actors : Shut(a)' => Shut(a)
<1>1. UNCHANGED <<reloadVars, closed>>
  BY Zenon DEF CallStep, Invoke, Refuse, Join, JoinedReplies, Lookup, LookupHit, AdmissionFails, Enqueue,
     Dequeue, PreflightHit, PreflightFails, CheckMigrated, Migrated, OpenTransaction, Activated,
     Commit, Throw, TimeOut, AbandonedEnds, adminVars, boxVars
<1>2. CASE Enqueue(c)
  <2>1. ~closed[MailboxOf(c)] /\ mailboxes' = [mailboxes EXCEPT ![Target[c]] = MailboxOf(c)]
    BY <1>2 DEF Enqueue
  <2>2. \A a \in Actors : mailboxes'[a] = mailboxes[a] \/ mailboxes'[a] = MailboxOf(c)
    BY <2>1 DEF TypeOK
  <2> QED
    BY <1>1, <2>1, <2>2 DEF Shut
<1>3. CASE ~Enqueue(c)
  <2>1. mailboxes' = mailboxes
    BY <1>3, Zenon DEF CallStep, Invoke, Refuse, Join, JoinedReplies, Lookup, LookupHit, AdmissionFails,
       Dequeue, PreflightHit, PreflightFails, CheckMigrated, Migrated, OpenTransaction, Activated,
       Commit, Throw, TimeOut, AbandonedEnds, boxVars
  <2> QED
    BY <1>1, <2>1 DEF Shut
<1> QED
  BY <1>1, <1>2, <1>3

\* The cursor of a reload that drains, or releases, moves within its actors.
LEMMA CursorMoves ==
  ASSUME TypeOK, NEW r \in Reloads, NEW S \in SUBSET Actors
  PROVE  /\ DrainNext(r, S) => rpc'[r] = "draining"
         /\ ReleaseNext(r, S) =>
              /\ rpc'[r] = "hook" /\ at'[r] \in S /\ pending'[r] = S \ {at'[r]}
              /\ pending'[r] \union {at'[r]} = S
BY DEF TypeOK, DrainNext, ReleaseNext

\* Every step of a runtime with one reload keeps what is shut accounted for.
LEMMA ShutInductive ==
  ASSUME AtMostOneReload, IInv, ShutForReload, [NextReload]_vars
  PROVE  ShutForReload'
<1>1. TypeOK /\ \A r, s \in Reloads : r = s
  BY DEF IInv, AtMostOneReload
<1>2. ASSUME UNCHANGED reloadVars, \A a \in Actors : Shut(a)' => Shut(a)
      PROVE  ShutForReload'
  BY <1>2 DEF ShutForReload, ToReopen, reloadVars
<1>3. CASE Serve
  BY <1>1, <1>2, <1>3, CallsShutNothing DEF Serve
<1>4. CASE UNCHANGED vars
  BY <1>2, <1>4 DEF vars, adminVars, boxVars, Shut
<1>5. ASSUME NEW r \in Reloads, StartReload(r) PROVE ShutForReload'
  <2> DEFINE S == {a \in Actors : instances[a] # None \/ mailboxes[a] # None}
  <2>1. affected'[r] = S /\ mailboxes' = mailboxes
    BY <1>1, <1>5 DEF StartReload, TypeOK
  <2>2. \A a \in Actors : Shut(a)' => a \in S
    BY <2>1 DEF Shut
  <2>3. CASE S = {}
    <3>1. rpc'[r] = "done"
      BY <1>1, <1>5, <2>3 DEF StartReload, TypeOK
    <3> QED
      BY <1>1, <2>2, <2>3, <3>1 DEF ShutForReload, Releasing
  <2>4. CASE S # {}
    <3>1. DrainNext(r, S) \/ ReleaseNext(r, S)
      BY <1>5, <2>4 DEF StartReload
    <3>2. S \in SUBSET Actors
      OBVIOUS
    <3>3. rpc'[r] = "draining" \/ (rpc'[r] = "hook" /\ pending'[r] \union {at'[r]} = S)
      BY <1>1, <3>1, <3>2, CursorMoves
    <3> QED
      BY <1>1, <2>1, <2>2, <3>3 DEF ShutForReload, ToReopen, Releasing
  <2> QED
    BY <2>3, <2>4
<1>6. ASSUME NEW r \in Reloads, Drained(r) PROVE ShutForReload'
  <2>1. rpc[r] = "draining" /\ UNCHANGED <<mailboxes, closed, affected>>
    BY <1>6 DEF Drained
  <2>2. \A a \in Actors : Shut(a)' => a \in affected'[r]
    BY <1>1, <2>1 DEF ShutForReload, ToReopen, Shut
  <2>3. affected[r] \in SUBSET Actors /\ pending[r] \in SUBSET Actors
    BY <1>1 DEF TypeOK
  <2>4. DrainNext(r, pending[r]) \/ ReleaseNext(r, affected[r])
    BY <1>6 DEF Drained
  <2>5. rpc'[r] = "draining" \/ (rpc'[r] = "hook" /\ pending'[r] \union {at'[r]} = affected'[r])
    BY <1>1, <2>1, <2>3, <2>4, CursorMoves
  <2> QED
    BY <1>1, <2>2, <2>5 DEF ShutForReload, ToReopen, Releasing
<1>7. ASSUME NEW r \in Reloads, DrainTimesOut(r) PROVE ShutForReload'
  <2>1. /\ rpc' = [rpc EXCEPT ![r] = "aborted"] /\ mailboxes' = mailboxes
        /\ closed' = ResumeAdmission(affected[r])
    BY <1>7 DEF DrainTimesOut
  <2>2. \A a \in affected[r] : a \in Actors => ~Shut(a)'
    BY <1>1, <2>1, RuntimeAssumption DEF Shut, ResumeAdmission, TypeOK
  <2>3. \A a \in Actors : Shut(a)' => Shut(a)
    BY <1>1, <2>1, RuntimeAssumption DEF Shut, ResumeAdmission, TypeOK
  <2>4. \A a \in Actors : ~Shut(a)'
    BY <1>1, <2>2, <2>3 DEF ShutForReload, ToReopen
  <2> QED
    BY <1>1, <2>1, <2>4 DEF ShutForReload, Releasing, TypeOK
<1>8. ASSUME NEW r \in Reloads, ReleaseInstance(r) PROVE ShutForReload'
  <2>1. /\ rpc[r] = "hook" /\ rpc' = [rpc EXCEPT ![r] = "closing"]
        /\ UNCHANGED <<mailboxes, closed, affected, pending, at>>
    BY <1>8 DEF ReleaseInstance, boxVars
  <2>2. rpc'[r] = "closing"
    BY <1>1, <2>1 DEF TypeOK
  <2> QED
    BY <1>1, <2>1, <2>2 DEF ShutForReload, ToReopen, Shut, Releasing
<1>9. ASSUME NEW r \in Reloads, RemoveMailbox(r) PROVE ShutForReload'
  <2>1. /\ rpc[r] = "closing" /\ closed' = closed /\ affected' = affected
        /\ mailboxes' = [mailboxes EXCEPT ![at[r]] = None]
    BY <1>9 DEF RemoveMailbox
  <2>2. /\ at[r] \in Actors \ pending[r] /\ pending[r] \in SUBSET Actors
        /\ pending[r] \union {at[r]} \subseteq affected[r]
    BY <1>1, <2>1 DEF IInv, ReleaseInv, ShutForReload, Releasing, TypeOK
  <2>3. \A a \in Actors : Shut(a)' => a # at[r] /\ Shut(a)
    BY <1>1, <2>1, <2>2 DEF Shut, TypeOK
  <2>4. \A a \in Actors : Shut(a)' => a \in pending[r]
    BY <1>1, <2>1, <2>3 DEF ShutForReload, ToReopen, Releasing
  <2>5. CASE pending[r] = {}
    <3>1. rpc'[r] = "done"
      BY <1>1, <1>9, <2>5 DEF RemoveMailbox, TypeOK
    <3> QED
      BY <1>1, <2>4, <2>5, <3>1 DEF ShutForReload, Releasing
  <2>6. CASE pending[r] # {}
    <3>1. ReleaseNext(r, pending[r])
      BY <1>9, <2>6 DEF RemoveMailbox
    <3>2. rpc'[r] = "hook" /\ pending'[r] \union {at'[r]} = pending[r]
      BY <1>1, <2>2, <3>1, CursorMoves
    <3> QED
      BY <1>1, <2>1, <2>2, <2>4, <3>2 DEF ShutForReload, ToReopen, Releasing
  <2> QED
    BY <2>5, <2>6
<1> QED
  BY <1>3, <1>4, <1>5, <1>6, <1>7, <1>8, <1>9 DEF NextReload, ReloadStep

\* No actor is shut but while a reload that replaces it is under way: whether it
\* completes or its drain times out, every mailbox takes calls again.
THEOREM ReloadsReopen ==
  ASSUME AtMostOneReload
  PROVE  SpecReload => []ClosedOnlyDuringReload
<1>1. Init => IInv /\ ShutForReload
  <2>1. Init => ShutForReload
    BY DEF Init, ShutForReload, Shut, Releasing
  <2> QED
    BY <2>1, InitIInv
<1>2. IInv /\ ShutForReload /\ [NextReload]_vars => (IInv /\ ShutForReload)'
  BY NextIInv, ShutInductive
<1>3. ShutForReload => ClosedOnlyDuringReload
  BY DEF ShutForReload, ToReopen, Shut, ClosedOnlyDuringReload
<1> QED
  BY <1>1, <1>2, <1>3, PTL DEF SpecReload

-----------------------------------------------------------------------------
(* Instances.  An instance is named after the call that made it, and is used *)
(* by that call and later ones of its actor; the call that times out takes it *)
(* away for good, since nobody ever makes an instance of that name again.   *)

Opened == {"activating", "method"} \union Settled

InstInv ==
  /\ \A c \in Calls : inst[c] # None =>
       /\ Target[inst[c]] = Target[c] /\ pc[inst[c]] \in Opened
       /\ inst[c] # c => pc[inst[c]] # "activating"
  /\ \A a \in Actors : instances[a] # None =>
       Target[instances[a]] = a /\ pc[instances[a]] \in Opened \ {"activating"}
  /\ \A c \in Calls : pc[c] = "method" => inst[c] # None /\ inst[c] = instances[Target[c]]
  /\ \A c \in Calls : pc[c] = "activating" => inst[c] = c
  /\ \A c \in abandoned : pc[c] = "failed" /\ inst[c] # None /\ instances[Target[c]] # inst[c]

\* A step that opens and ends no transaction.
Calm ==
  /\ UNCHANGED <<inst, instances, abandoned>>
  /\ \A c \in Calls : IF pc[c] \in Opened THEN pc'[c] = pc[c] ELSE pc'[c] \notin {"activating", "method"}

LEMMA CalmKeepsInst ==
  ASSUME TypeOK, InstInv, Calm
  PROVE  InstInv'
<1>1. \A c \in Calls : inst[c] # None => inst[c] \in Calls
  BY DEF TypeOK
<1>2. \A a \in Actors : instances[a] # None => instances[a] \in Calls
  BY DEF TypeOK
<1>3. \A c \in abandoned : c \in Calls
  BY DEF TypeOK
<1>4. \A c \in Calls : pc'[c] \in {"activating", "method"} => pc[c] = pc'[c]
  BY DEF Calm
<1>5. \A c \in Calls : pc[c] \in Opened => pc'[c] = pc[c]
  BY DEF Calm
<1>6. UNCHANGED <<inst, instances, abandoned>>
  BY DEF Calm
<1> QED
  BY <1>1, <1>2, <1>3, <1>4, <1>5, <1>6 DEF InstInv, Opened, Settled

\* Rejecting calls that wait is calm.
LEMMA RejectIsCalm ==
  ASSUME NEW S, \A c \in S : c \in Calls /\ pc[c] = "queued", pc' = Reject(S),
         UNCHANGED <<inst, instances, abandoned>>
  PROVE  Calm
BY DEF Reject, Calm, Opened, Settled

\* The steps that are calm.
LEMMA CalmSteps ==
  ASSUME TypeOK
  PROVE  /\ \A c \in Calls :
              \/ Invoke(c) \/ Refuse(c) \/ Join(c) \/ JoinedReplies(c) \/ Lookup(c) \/ LookupHit(c)
              \/ AdmissionFails(c) \/ Enqueue(c) \/ Dequeue(c)
              \/ PreflightHit(c) \/ PreflightFails(c) \/ CheckMigrated(c) \/ Migrated(c)
              => Calm
         /\ \A r \in Reloads : StartReload(r) \/ Drained(r) \/ DrainTimesOut(r) \/ RemoveMailbox(r) => Calm
         /\ UNCHANGED vars => Calm
<1> USE DEF callVars, txVars
<1>a. ASSUME NEW c \in Calls, NEW v, pc[c] \notin Opened, v \notin {"activating", "method"},
             pc' = [pc EXCEPT ![c] = v], UNCHANGED <<inst, instances, abandoned>>
      PROVE  Calm
  <2>1. pc'[c] = v /\ \A d \in Calls \ {c} : pc'[d] = pc[d]
    BY <1>a DEF TypeOK
  <2>2. {"activating", "method"} \subseteq Opened
    BY DEF Opened
  <2> QED
    BY <1>a, <2>1, <2>2 DEF Calm
<1>b. ASSUME UNCHANGED <<pc, inst, instances, abandoned>> PROVE Calm
  BY <1>b DEF Calm, Opened
<1>c. ASSUME NEW r \in Reloads, NEW S, DrainNext(r, S), UNCHANGED <<inst, instances, abandoned>>
      PROVE  Calm
  <2>1. PICK m : pc' = Reject(IF Policy[r] = "fail" THEN Queued(m) ELSE {})
    BY <1>c DEF DrainNext
  <2> QED
    BY <1>c, <2>1, RejectIsCalm DEF Queued
<1>1. ASSUME NEW c \in Calls, Invoke(c) PROVE Calm
  BY <1>1, <1>a DEF Invoke, Opened, Settled
<1>2. ASSUME NEW c \in Calls, Refuse(c) PROVE Calm
  BY <1>2, <1>a DEF Refuse, Opened, Settled
<1>3. ASSUME NEW c \in Calls, Join(c) PROVE Calm
  BY <1>3, <1>a DEF Join, Opened, Settled
<1>4. ASSUME NEW c \in Calls, JoinedReplies(c) PROVE Calm
  <2>1. pc[joined[c]] \notin {"activating", "method"} /\ pc[c] \notin Opened
    BY <1>4 DEF JoinedReplies, Settled, Opened
  <2> QED
    BY <1>4, <1>a, <2>1 DEF JoinedReplies
<1>5. ASSUME NEW c \in Calls, Lookup(c) PROVE Calm
  BY <1>5, <1>a DEF Lookup, Opened, Settled
<1>6. ASSUME NEW c \in Calls, LookupHit(c) PROVE Calm
  BY <1>6, <1>a DEF LookupHit, Opened, Settled
<1>7. ASSUME NEW c \in Calls, AdmissionFails(c) PROVE Calm
  BY <1>7, <1>a DEF AdmissionFails, ReadyToEnqueue, Opened, Settled
<1>8. ASSUME NEW c \in Calls, Enqueue(c) PROVE Calm
  <2>1. /\ pc' = [pc EXCEPT ![c] = "queued"] \/ pc' = [pc EXCEPT ![c] = "preflight"]
        /\ pc[c] \notin Opened /\ UNCHANGED <<inst, instances, abandoned>>
    BY <1>8 DEF Enqueue, ReadyToEnqueue, Opened, Settled
  <2> QED
    BY <1>a, <2>1
<1>9. ASSUME NEW c \in Calls, Dequeue(c) PROVE Calm
  BY <1>9, <1>a DEF Dequeue, Opened, Settled
<1>10. ASSUME NEW c \in Calls, PreflightHit(c) PROVE Calm
  BY <1>10, <1>a DEF PreflightHit, Opened, Settled
<1>11. ASSUME NEW c \in Calls, PreflightFails(c) PROVE Calm
  BY <1>11, <1>a DEF PreflightFails, Opened, Settled
<1>12. ASSUME NEW c \in Calls, CheckMigrated(c) PROVE Calm
  <2>1. /\ pc' = [pc EXCEPT ![c] = "opening"] \/ pc' = [pc EXCEPT ![c] = "migrating"]
        /\ pc[c] \notin Opened /\ UNCHANGED <<inst, instances, abandoned>>
    BY <1>12 DEF CheckMigrated, MayRun, Opened, Settled
  <2> QED
    BY <1>a, <2>1
<1>13. ASSUME NEW c \in Calls, Migrated(c) PROVE Calm
  BY <1>13, <1>a DEF Migrated, Opened, Settled
<1>14. ASSUME NEW r \in Reloads, StartReload(r) PROVE Calm
  <2>1. UNCHANGED <<inst, instances, abandoned>> /\ (pc' = pc \/ \E S : DrainNext(r, S))
    BY <1>14 DEF StartReload
  <2> QED
    BY <1>b, <1>c, <2>1
<1>15. ASSUME NEW r \in Reloads, Drained(r) PROVE Calm
  <2>1. UNCHANGED <<inst, instances, abandoned>> /\ (pc' = pc \/ \E S : DrainNext(r, S))
    BY <1>15 DEF Drained
  <2> QED
    BY <1>b, <1>c, <2>1
<1>16. ASSUME NEW r \in Reloads, DrainTimesOut(r) PROVE Calm
  BY <1>16, <1>b DEF DrainTimesOut
<1>17. ASSUME NEW r \in Reloads, RemoveMailbox(r) PROVE Calm
  <2> DEFINE S == IF mailboxes[at[r]] = None THEN {} ELSE Queued(mailboxes[at[r]])
  <2>1. pc' = Reject(S) /\ UNCHANGED <<inst, instances, abandoned>>
    BY <1>17 DEF RemoveMailbox
  <2>2. \A c \in S : c \in Calls /\ pc[c] = "queued"
    BY DEF Queued
  <2> QED
    BY <2>1, <2>2, RejectIsCalm
<1>18. ASSUME UNCHANGED vars PROVE Calm
  BY <1>18, <1>b DEF vars
<1> QED
  BY <1>1, <1>2, <1>3, <1>4, <1>5, <1>6, <1>7, <1>8, <1>9, <1>10, <1>11, <1>12, <1>13,
     <1>14, <1>15, <1>16, <1>17, <1>18

\* The steps that are not: transactions that open and end, and the release.
LEMMA InstInductive ==
  ASSUME IInv, InstInv, [NextReload]_vars
  PROVE  InstInv'
<1>0. TypeOK /\ Serialized /\ ReleaseInv
  BY DEF IInv
<1> USE RuntimeAssumption DEF callVars, txVars
<1>1. CASE Calm
  BY <1>0, <1>1, CalmKeepsInst
<1>2. ASSUME NEW c \in Calls, OpenTransaction(c) PROVE InstInv'
  <2> DEFINE a == Target[c]
  <2>1. /\ pc[c] = "opening" /\ UNCHANGED <<instances, abandoned>>
        /\ \/ /\ instances[a] = None /\ pc' = [pc EXCEPT ![c] = "activating"]
              /\ inst' = [inst EXCEPT ![c] = c]
           \/ /\ instances[a] # None /\ pc' = [pc EXCEPT ![c] = "method"]
              /\ inst' = [inst EXCEPT ![c] = instances[a]]
    BY <1>2 DEF OpenTransaction
  <2>2. \A d \in Calls \ {c} : pc'[d] = pc[d] /\ inst'[d] = inst[d]
    BY <1>0, <2>1 DEF TypeOK
  <2>3. /\ \A d \in Calls : inst[d] # None => inst[d] \in Calls \ {c}
        /\ \A b \in Actors : instances[b] # None => instances[b] \in Calls \ {c}
        /\ c \notin abandoned /\ abandoned \subseteq Calls /\ a \in Actors
    <3>1. pc[c] \notin Opened /\ pc[c] # "failed"
      BY <2>1 DEF Opened, Settled
    <3>2. /\ \A d \in Calls : inst[d] # None => inst[d] \in Calls
          /\ \A b \in Actors : instances[b] # None => instances[b] \in Calls
          /\ abandoned \subseteq Calls /\ a \in Actors
      BY <1>0 DEF TypeOK
    <3>3. /\ \A d \in Calls : inst[d] # None => pc[inst[d]] \in Opened
          /\ \A b \in Actors : instances[b] # None => pc[instances[b]] \in Opened
          /\ \A d \in abandoned : pc[d] = "failed"
      BY DEF InstInv
    <3> QED
      BY <3>1, <3>2, <3>3
  <2>4. CASE instances[a] = None
    <3>1. pc'[c] = "activating" /\ inst'[c] = c
      BY <1>0, <2>1, <2>4 DEF TypeOK
    <3> QED
      BY <2>1, <2>2, <2>3, <3>1 DEF InstInv, Opened
  <2>5. CASE instances[a] # None
    <3>1. pc'[c] = "method" /\ inst'[c] = instances[a]
      BY <1>0, <2>1, <2>5 DEF TypeOK
    <3> QED
      BY <2>1, <2>2, <2>3, <2>5, <3>1 DEF InstInv, Opened
  <2> QED
    BY <2>4, <2>5
<1>3. ASSUME NEW c \in Calls, Activated(c) PROVE InstInv'
  <2> DEFINE a == Target[c]
  <2>1. /\ pc[c] = "activating" /\ UNCHANGED <<inst, abandoned>>
        /\ pc' = [pc EXCEPT ![c] = "method"] /\ instances' = [instances EXCEPT ![a] = c]
    BY <1>3 DEF Activated
  <2>2. /\ pc'[c] = "method" /\ instances'[a] = c /\ a \in Actors /\ abandoned \subseteq Calls
        /\ \A d \in Calls \ {c} : pc'[d] = pc[d]
        /\ \A b \in Actors \ {a} : instances'[b] = instances[b]
    BY <1>0, <2>1 DEF TypeOK
  <2>3. /\ \A d \in Calls : pc[d] = "method" => Target[d] # a
        /\ \A d \in abandoned : inst[d] # c
    BY <1>0, <2>1, <2>2 DEF Serialized, Executing, InstInv
  <2>4. /\ \A d \in Calls : inst[d] # None => inst[d] \in Calls
        /\ \A b \in Actors : instances[b] # None => instances[b] \in Calls
    BY <1>0 DEF TypeOK
  <2>5. \A d \in Calls : inst'[d] # None =>
          /\ Target[inst'[d]] = Target[d] /\ pc'[inst'[d]] \in Opened
          /\ inst'[d] # d => pc'[inst'[d]] # "activating"
    BY <2>1, <2>2, <2>4 DEF InstInv, Opened
  <2>6. \A b \in Actors : instances'[b] # None =>
          Target[instances'[b]] = b /\ pc'[instances'[b]] \in Opened \ {"activating"}
    BY <2>1, <2>2, <2>4 DEF InstInv, Opened
  <2>7. \A d \in Calls : pc'[d] = "method" => inst'[d] # None /\ inst'[d] = instances'[Target[d]]
    BY <2>1, <2>2, <2>3 DEF InstInv
  <2>8. \A d \in abandoned' : pc'[d] = "failed" /\ inst'[d] # None /\ instances'[Target[d]] # inst'[d]
    BY <2>1, <2>2, <2>3 DEF InstInv
  <2> QED
    BY <2>1, <2>2, <2>5, <2>6, <2>7, <2>8 DEF InstInv
<1>4. ASSUME NEW c \in Calls, Commit(c) \/ Throw(c) \/ TimeOut(c) PROVE InstInv'
  <2> DEFINE a == Target[c]
  <2>1. /\ pc[c] \in {"activating", "method"} /\ inst' = inst
        /\ \E v \in Settled : pc' = [pc EXCEPT ![c] = v]
        /\ instances' = instances \/ instances' = [instances EXCEPT ![a] = None]
        /\ \/ abandoned' = abandoned
           \/ /\ abandoned' = abandoned \union {c} /\ pc[c] = "method"
              /\ pc' = [pc EXCEPT ![c] = "failed"] /\ instances' = [instances EXCEPT ![a] = None]
    BY <1>4 DEF Commit, Throw, TimeOut, Settled
  <2>2. /\ pc'[c] \in Settled /\ a \in Actors /\ abandoned \subseteq Calls
        /\ \A d \in Calls \ {c} : pc'[d] = pc[d]
        /\ instances'[a] \in {instances[a], None}
        /\ \A b \in Actors \ {a} : instances'[b] = instances[b]
    BY <1>0, <2>1 DEF TypeOK
  <2>3. \A d \in Calls \ {c} : pc[d] = "method" => Target[d] # a
    BY <1>0, <2>1 DEF Serialized, Executing
  <2>4. /\ \A d \in Calls : inst[d] # None => inst[d] \in Calls
        /\ \A b \in Actors : instances[b] # None => instances[b] \in Calls
    BY <1>0 DEF TypeOK
  <2>5. \A d \in Calls : inst'[d] # None =>
          /\ Target[inst'[d]] = Target[d] /\ pc'[inst'[d]] \in Opened
          /\ inst'[d] # d => pc'[inst'[d]] # "activating"
    BY <2>1, <2>2, <2>4 DEF InstInv, Opened, Settled
  <2>6. \A b \in Actors : instances'[b] # None =>
          Target[instances'[b]] = b /\ pc'[instances'[b]] \in Opened \ {"activating"}
    BY <2>2, <2>4 DEF InstInv, Opened, Settled
  <2>7. \A d \in Calls : pc'[d] = "method" => inst'[d] # None /\ inst'[d] = instances'[Target[d]]
    BY <2>1, <2>2, <2>3 DEF InstInv, Settled
  <2>8. \A d \in Calls : pc'[d] = "activating" => inst'[d] = d
    BY <2>1, <2>2 DEF InstInv, Settled
  <2>9. \A d \in abandoned' : pc'[d] = "failed" /\ inst'[d] # None /\ instances'[Target[d]] # inst'[d]
    <3>1. ASSUME NEW d \in abandoned
          PROVE  pc'[d] = "failed" /\ inst'[d] # None /\ instances'[Target[d]] # inst'[d]
      <4>1. d \in Calls /\ d # c /\ pc[d] = "failed" /\ inst[d] # None /\ instances[Target[d]] # inst[d]
        BY <2>1, <2>2, <3>1 DEF InstInv
      <4> QED
        BY <2>1, <2>2, <4>1
    <3>2. c \in abandoned' \ abandoned =>
            pc'[c] = "failed" /\ inst'[c] # None /\ instances'[a] # inst'[c]
      BY <1>0, <2>1, <2>2 DEF InstInv, TypeOK
    <3> QED
      BY <2>1, <3>1, <3>2
  <2> QED
    BY <2>5, <2>6, <2>7, <2>8, <2>9 DEF InstInv
<1>5. ASSUME NEW c \in Calls, AbandonedEnds(c) PROVE InstInv'
  BY <1>5 DEF AbandonedEnds, InstInv
<1>6. ASSUME NEW r \in Reloads, ReleaseInstance(r) PROVE InstInv'
  <2>1. /\ UNCHANGED <<pc, inst, abandoned>> /\ instances' = [instances EXCEPT ![at[r]] = None]
        /\ at[r] \in Actors /\ Quiet(at[r])
    BY <1>0, <1>6 DEF ReleaseInstance, ReleaseInv, Releasing
  <2>2. /\ \A d \in Calls : pc[d] = "method" => Target[d] # at[r]
        /\ \A b \in Actors : instances'[b] = IF b = at[r] THEN None ELSE instances[b]
        /\ abandoned \subseteq Calls
    BY <1>0, <2>1 DEF Quiet, Inside, Executing, TypeOK
  <2> QED
    BY <2>1, <2>2 DEF InstInv
<1> QED
  BY <1>0, <1>1, <1>2, <1>3, <1>4, <1>5, <1>6, CalmSteps DEF NextReload, Serve, CallStep, ReloadStep

\* A method that timed out runs on, on an instance that no later call gets: with one reload
\* at most, and no deactivation.
THEOREM AbandonedStayAlone ==
  ASSUME AtMostOneReload
  PROVE  SpecReload => []NoAbandonedInstance
<1>1. Init => IInv /\ InstInv
  <2>1. Init => InstInv
    BY RuntimeAssumption DEF Init, InstInv
  <2> QED
    BY <2>1, InitIInv
<1>2. IInv /\ InstInv /\ [NextReload]_vars => (IInv /\ InstInv)'
  BY NextIInv, InstInductive
<1>3. IInv /\ InstInv => NoAbandonedInstance
  <2>1. IInv => abandoned \subseteq Calls
    BY DEF IInv, TypeOK
  <2> QED
    BY <2>1 DEF InstInv, NoAbandonedInstance
<1> QED
  BY <1>1, <1>2, <1>3, PTL DEF SpecReload

-----------------------------------------------------------------------------
(* The serial promise.  A call answers with what its own transaction, or the *)
(* first of its request, committed: the state it read is still the committed *)
(* one when it commits, since it alone executes for its actor, and then no   *)
(* record of its request exists, since a repeat calls the same actor.        *)

\* The states of a call whose preflight found no record of its request.
Begun == {"migrating", "opening", "activating", "method"}

\* Entries and joins are between calls of one request.
Linked ==
  /\ \A q \in Requests : inFlight[q] # None => RequestId[inFlight[q]] = q
  /\ \A c \in Calls : joined[c] # None =>
       RequestId[c] # None /\ RequestId[joined[c]] = RequestId[c]

\* What was answered is what is recorded, and what executes is not recorded yet.
Answered ==
  /\ \A c \in Calls : pc[c] # "ok" => reply[c] = 0
  /\ \A c \in Calls : pc[c] = "ok" /\ RequestId[c] # None =>
       records[RequestId[c]] = reply[c] /\ reply[c] # 0
  /\ \A c \in Calls : pc[c] \in Begun /\ RequestId[c] # None => records[RequestId[c]] = 0
  /\ \A c \in Calls : pc[c] = "method" => base[c] = committed[Target[c]]

SerialInv == IInv /\ Linked /\ Answered

\* A step that answers no call; it may fail some.
Mute ==
  /\ UNCHANGED <<committed, records, reply>>
  /\ \A c \in Calls :
       /\ pc[c] \in Settled => pc'[c] = pc[c]
       /\ pc'[c] = "ok" => pc[c] = "ok"

\* A step that begins no execution and enters no method.
Steady ==
  /\ base' = base
  /\ \A c \in Calls :
       /\ pc'[c] \in Begun => pc[c] \in Begun
       /\ pc'[c] = "method" => pc[c] = "method"

\* Failing the unsettled calls of a set is a refusal of the serial actor.
LEMMA MuteRefuses ==
  ASSUME TypeOK, Mute
  PROVE  \E S \in SUBSET Calls : Serial!Refuse(S)
<1> DEFINE Out == [c \in Calls |-> IF pc[c] = "ok" THEN "ok"
                                   ELSE IF pc[c] = "failed" THEN "refused" ELSE "pending"]
<1>1. PICK S \in SUBSET Calls : S = {c \in Calls : pc[c] \notin Settled /\ pc'[c] = "failed"}
  OBVIOUS
<1>2. \A c \in S : Out[c] = "pending"
  BY <1>1 DEF Settled
<1>3. \A c \in Calls : Out'[c] = IF c \in S THEN "refused" ELSE Out[c]
  BY <1>1 DEF Mute, Settled
<1>4. Out' = [c \in Calls |-> IF c \in S THEN "refused" ELSE Out[c]]
  BY <1>3
<1>5. Serial!Refuse(S)
  BY <1>2, <1>4 DEF Serial!Refuse, Mute
<1> QED
  BY <1>5

\* The steps of calls that answer nobody and begin nothing.
LEMMA MuteCallSteps ==
  ASSUME TypeOK, NEW c \in Calls,
         \/ Invoke(c) \/ Refuse(c) \/ Join(c) \/ Lookup(c) \/ AdmissionFails(c) \/ Enqueue(c)
         \/ Dequeue(c) \/ PreflightFails(c) \/ Migrated(c) \/ Throw(c) \/ TimeOut(c) \/ AbandonedEnds(c)
  PROVE  Mute /\ Steady
<1> USE DEF callVars, txVars, storageVars
<1>a. ASSUME NEW v, pc[c] \notin Settled, v # "ok", v # "method", v \in Begun => pc[c] \in Begun,
             pc' = [pc EXCEPT ![c] = v], UNCHANGED <<committed, records, reply, base>>
      PROVE  Mute /\ Steady
  <2>1. pc'[c] = v /\ \A d \in Calls \ {c} : pc'[d] = pc[d]
    BY <1>a DEF TypeOK
  <2> QED
    BY <1>a, <2>1 DEF Mute, Steady
<1>1. CASE Invoke(c)
  BY <1>1, <1>a DEF Invoke, Settled, Begun
<1>2. CASE Refuse(c)
  BY <1>2, <1>a DEF Refuse, Settled, Begun
<1>3. CASE Join(c)
  BY <1>3, <1>a DEF Join, Settled, Begun
<1>4. CASE Lookup(c)
  BY <1>4, <1>a DEF Lookup, Settled, Begun
<1>5. CASE AdmissionFails(c)
  BY <1>5, <1>a DEF AdmissionFails, ReadyToEnqueue, Settled, Begun
<1>6. CASE Enqueue(c)
  <2>1. /\ pc' = [pc EXCEPT ![c] = "queued"] \/ pc' = [pc EXCEPT ![c] = "preflight"]
        /\ pc[c] \notin Settled /\ UNCHANGED <<committed, records, reply, base>>
    BY <1>6 DEF Enqueue, ReadyToEnqueue, Settled
  <2> QED
    BY <1>a, <2>1 DEF Begun
<1>7. CASE Dequeue(c)
  BY <1>7, <1>a DEF Dequeue, Settled, Begun
<1>8. CASE PreflightFails(c)
  BY <1>8, <1>a DEF PreflightFails, Settled, Begun
<1>9. CASE Migrated(c)
  BY <1>9, <1>a DEF Migrated, Settled, Begun
<1>10. CASE Throw(c)
  BY <1>10, <1>a DEF Throw, Settled, Begun
<1>11. CASE TimeOut(c)
  BY <1>11, <1>a DEF TimeOut, Settled, Begun
<1>12. CASE AbandonedEnds(c)
  BY <1>12 DEF AbandonedEnds, Mute, Steady
<1> QED
  BY <1>1, <1>2, <1>3, <1>4, <1>5, <1>6, <1>7, <1>8, <1>9, <1>10, <1>11, <1>12

\* A reload answers nobody and begins nothing: at most it rejects calls that wait.
LEMMA MuteReloadSteps ==
  ASSUME TypeOK, NEW r \in Reloads, ReloadStep(r)
  PROVE  Mute /\ Steady
<1> USE DEF callVars, txVars, storageVars
<1>1. UNCHANGED <<committed, records, reply, base>>
  BY Zenon DEF ReloadStep, StartReload, Drained, DrainTimesOut, ReleaseInstance, RemoveMailbox
<1>2. pc' = pc \/ \E S : pc' = Reject(S) /\ \A c \in S : c \in Calls /\ pc[c] = "queued"
  <2>1. ASSUME NEW T, DrainNext(r, T)
        PROVE  \E S : pc' = Reject(S) /\ \A c \in S : c \in Calls /\ pc[c] = "queued"
    <3>1. PICK m : pc' = Reject(IF Policy[r] = "fail" THEN Queued(m) ELSE {})
      BY <2>1 DEF DrainNext
    <3>2. \A c \in IF Policy[r] = "fail" THEN Queued(m) ELSE {} : c \in Calls /\ pc[c] = "queued"
      BY DEF Queued
    <3> QED
      BY <3>1, <3>2
  <2>2. CASE StartReload(r)
    <3>1. pc' = pc \/ \E T : DrainNext(r, T)
      BY <2>2 DEF StartReload
    <3> QED
      BY <2>1, <3>1
  <2>3. CASE Drained(r)
    <3>1. pc' = pc \/ \E T : DrainNext(r, T)
      BY <2>3 DEF Drained
    <3> QED
      BY <2>1, <3>1
  <2>4. CASE DrainTimesOut(r) \/ ReleaseInstance(r)
    BY <2>4 DEF DrainTimesOut, ReleaseInstance
  <2>5. CASE RemoveMailbox(r)
    <3> DEFINE S == IF mailboxes[at[r]] = None THEN {} ELSE Queued(mailboxes[at[r]])
    <3>1. pc' = Reject(S)
      BY <2>5 DEF RemoveMailbox
    <3>2. \A c \in S : c \in Calls /\ pc[c] = "queued"
      BY DEF Queued
    <3> QED
      BY <3>1, <3>2
  <2> QED
    BY <2>2, <2>3, <2>4, <2>5 DEF ReloadStep
<1>3. \A c \in Calls : pc'[c] = pc[c] \/ (pc[c] = "queued" /\ pc'[c] = "failed")
  BY <1>2 DEF Reject
<1> QED
  BY <1>1, <1>3 DEF Mute, Steady, Settled, Begun

\* Such steps keep what was answered.
LEMMA SteadyKeepsAnswered ==
  ASSUME TypeOK, Answered, Mute, Steady
  PROVE  Answered'
BY DEF Answered, Mute, Steady, Settled

\* The steps towards a method answer nobody, and the state it reads is current.
LEMMA ApproachKeepsAnswered ==
  ASSUME TypeOK, Answered, NEW c \in Calls,
         CheckMigrated(c) \/ OpenTransaction(c) \/ Activated(c)
  PROVE  Mute /\ Answered'
<1> USE DEF callVars, txVars, storageVars
<1>1. /\ UNCHANGED <<committed, records, reply>>
      /\ pc[c] \in {"preflight", "opening", "activating"}
      /\ pc[c] = "preflight" => ~Recorded(c)
      /\ \/ base' = base
            /\ \E v \in {"opening", "migrating", "activating"} : pc' = [pc EXCEPT ![c] = v]
         \/ /\ base' = [base EXCEPT ![c] = committed[Target[c]]]
            /\ pc' = [pc EXCEPT ![c] = "method"]
  BY DEF CheckMigrated, OpenTransaction, Activated, MayRun
<1>2. /\ pc'[c] \in Begun /\ \A d \in Calls \ {c} : pc'[d] = pc[d] /\ base'[d] = base[d]
      /\ pc'[c] = "method" => base'[c] = committed[Target[c]]
  BY <1>1 DEF TypeOK, Begun
<1>3. RequestId[c] # None => records[RequestId[c]] = 0
  BY <1>1 DEF Answered, Begun, Recorded
<1>4. Mute
  BY <1>1, <1>2 DEF Mute, Settled, Begun
<1>5. Answered'
  BY <1>1, <1>2, <1>3 DEF Answered, Begun
<1> QED
  BY <1>4, <1>5

\* A call answered from the record of its request.
LEMMA ReplayStep ==
  ASSUME TypeOK, Answered, NEW c \in Calls, pc[c] \notin Settled, Recorded(c),
         pc' = [pc EXCEPT ![c] = "ok"], reply' = [reply EXCEPT ![c] = records[RequestId[c]]],
         UNCHANGED <<committed, records, base>>
  PROVE  Serial!Replay(c) /\ Answered'
<1> DEFINE Out == [d \in Calls |-> IF pc[d] = "ok" THEN "ok"
                                   ELSE IF pc[d] = "failed" THEN "refused" ELSE "pending"]
<1>1. /\ pc'[c] = "ok" /\ reply'[c] = records[RequestId[c]]
      /\ \A d \in Calls \ {c} : pc'[d] = pc[d] /\ reply'[d] = reply[d]
  BY DEF TypeOK
<1>2. Out[c] = "pending"
  BY DEF Settled
<1>3. Out' = [Out EXCEPT ![c] = "ok"]
  BY <1>1
<1>4. Serial!Replay(c)
  BY <1>2, <1>3 DEF Serial!Replay, Recorded
<1>5. Answered'
  BY <1>1 DEF Answered, Begun, Recorded
<1> QED
  BY <1>4, <1>5

\* A call that commits: it alone executes for its actor and for its request.
LEMMA ApplyStep ==
  ASSUME TypeOK, Serialized, Answered, NEW c \in Calls, Commit(c)
  PROVE  Serial!Apply(c) /\ Answered'
<1> DEFINE a == Target[c]
           Out == [d \in Calls |-> IF pc[d] = "ok" THEN "ok"
                                   ELSE IF pc[d] = "failed" THEN "refused" ELSE "pending"]
<1>1. /\ pc[c] = "method" /\ base' = base
      /\ pc' = [pc EXCEPT ![c] = "ok"]
      /\ reply' = [reply EXCEPT ![c] = base[c] + 1]
      /\ committed' = [committed EXCEPT ![a] = base[c] + 1]
      /\ records' = [q \in Requests |-> IF q = RequestId[c] THEN base[c] + 1 ELSE records[q]]
  BY DEF Commit
<1>2. /\ pc'[c] = "ok" /\ reply'[c] = base[c] + 1 /\ base[c] + 1 # 0 /\ a \in Actors
      /\ \A d \in Calls \ {c} : pc'[d] = pc[d] /\ reply'[d] = reply[d]
      /\ \A b \in Actors \ {a} : committed'[b] = committed[b]
  <2>1. base[c] \in Nat /\ a \in Actors
    BY RuntimeAssumption DEF TypeOK
  <2>2. pc'[c] = "ok" /\ \A d \in Calls \ {c} : pc'[d] = pc[d]
    BY <1>1 DEF TypeOK
  <2>3. reply'[c] = base[c] + 1 /\ \A d \in Calls \ {c} : reply'[d] = reply[d]
    BY <1>1 DEF TypeOK
  <2>4. \A b \in Actors \ {a} : committed'[b] = committed[b]
    BY <1>1 DEF TypeOK
  <2> HIDE DEF a
  <2> QED
    BY <2>1, <2>2, <2>3, <2>4
<1>3. base[c] = committed[a] /\ (RequestId[c] # None => records[RequestId[c]] = 0)
  BY <1>1 DEF Answered, Begun
<1>4. \A d \in Calls \ {c} : pc[d] \in Executing => Target[d] # a
  BY <1>1 DEF Serialized, Executing
<1>5. Out[c] = "pending" /\ Out' = [Out EXCEPT ![c] = "ok"]
  BY <1>1, <1>2
<1>6. Serial!Apply(c)
  BY <1>1, <1>3, <1>5 DEF Serial!Apply
<1>7. \A d \in Calls : pc'[d] = "ok" /\ RequestId[d] # None =>
        records'[RequestId[d]] = reply'[d] /\ reply'[d] # 0
  <2>1. RequestId[c] # None => records'[RequestId[c]] = base[c] + 1
    BY <1>1, RuntimeAssumption
  <2>2. ASSUME NEW d \in Calls \ {c}, pc'[d] = "ok", RequestId[d] # None
        PROVE  records'[RequestId[d]] = reply'[d] /\ reply'[d] # 0
    <3>1. records[RequestId[d]] = reply[d] /\ reply[d] # 0 /\ RequestId[d] \in Requests
      BY <1>2, <2>2, RuntimeAssumption DEF Answered
    <3>2. RequestId[d] # RequestId[c]
      BY <1>3, <2>2, <3>1
    <3> QED
      BY <1>1, <1>2, <3>1, <3>2
  <2> QED
    BY <1>2, <2>1, <2>2
<1>8. \A d \in Calls : pc'[d] \in Begun /\ RequestId[d] # None => records'[RequestId[d]] = 0
  <2>1. ASSUME NEW d \in Calls, pc'[d] \in Begun, RequestId[d] # None
        PROVE  records'[RequestId[d]] = 0
    <3>1. d # c /\ pc[d] \in Begun /\ pc[d] \in Executing /\ RequestId[d] \in Requests
      BY <1>2, <2>1, RuntimeAssumption DEF Begun, Executing
    <3>2. RequestId[d] # RequestId[c]
      BY <1>4, <2>1, <3>1, RuntimeAssumption
    <3> QED
      BY <1>1, <2>1, <3>1, <3>2 DEF Answered
  <2> QED
    BY <2>1
<1>9. \A d \in Calls : pc'[d] = "method" => base'[d] = committed'[Target[d]]
  BY <1>1, <1>2, <1>4, RuntimeAssumption DEF Answered, Executing
<1>10. \A d \in Calls : pc'[d] # "ok" => reply'[d] = 0
  BY <1>2 DEF Answered
<1> QED
  BY <1>6, <1>7, <1>8, <1>9, <1>10 DEF Answered

\* A repeat gets what the call that it joined got.
LEMMA JoinedStep ==
  ASSUME TypeOK, Linked, Answered, NEW c \in Calls, JoinedReplies(c)
  PROVE  Answered' /\ (Serial!Replay(c) \/ Mute)
<1> DEFINE j == joined[c]
<1>1. /\ pc[c] = "joined" /\ pc[j] \in Settled /\ j \in Calls
      /\ pc' = [pc EXCEPT ![c] = pc[j]] /\ reply' = [reply EXCEPT ![c] = reply[j]]
      /\ UNCHANGED <<committed, records, base>>
      /\ RequestId[c] # None /\ RequestId[j] = RequestId[c]
  BY DEF JoinedReplies, TypeOK, Linked, txVars, storageVars
<1>2. CASE pc[j] = "ok"
  <2>1. reply[j] = records[RequestId[c]] /\ reply[j] # 0
    BY <1>1, <1>2 DEF Answered
  <2>2. Recorded(c) /\ pc[c] \notin Settled
    BY <1>1, <2>1 DEF Recorded, Settled
  <2> QED
    BY <1>1, <1>2, <2>1, <2>2, ReplayStep
<1>3. CASE pc[j] = "failed"
  <2>1. reply[j] = 0 /\ reply[c] = 0
    BY <1>1, <1>3 DEF Answered
  <2>2. reply' = reply
    BY <1>1, <2>1 DEF TypeOK
  <2>3. pc'[c] = "failed" /\ \A d \in Calls \ {c} : pc'[d] = pc[d]
    BY <1>1, <1>3 DEF TypeOK
  <2>4. Mute /\ Steady
    BY <1>1, <2>2, <2>3 DEF Mute, Steady, Settled, Begun
  <2> QED
    BY <2>4, SteadyKeepsAnswered
<1> QED
  BY <1>1, <1>2, <1>3 DEF Settled

\* In-flight entries are made by a call for its own request, and joined by request.
LEMMA LinkedInductive ==
  ASSUME TypeOK, Linked, [NextReload]_vars
  PROVE  Linked'
<1>a. ASSUME UNCHANGED joined, inFlight' = inFlight \/ \E S : inFlight' = Forget(S)
      PROVE  Linked'
  BY <1>a DEF Linked, Forget
<1>1. CASE Serve
  <2>1. PICK c \in Calls : CallStep(c)
    BY <1>1 DEF Serve
  <2>2. CASE Join(c)
    <3>1. /\ joined' = [joined EXCEPT ![c] = inFlight[RequestId[c]]] /\ inFlight' = inFlight
          /\ RequestId[c] # None
      BY <2>2 DEF Join, InFlight
    <3>2. RequestId[c] \in Requests
      BY <3>1, RuntimeAssumption
    <3>3. joined'[c] = inFlight[RequestId[c]] /\ \A d \in Calls \ {c} : joined'[d] = joined[d]
      BY <3>1 DEF TypeOK
    <3> QED
      BY <3>1, <3>2, <3>3 DEF Linked
  <2>3. CASE Enqueue(c)
    <3>1. joined' = joined /\ inFlight' = Announce(c)
      BY <2>3 DEF Enqueue
    <3> QED
      BY <3>1 DEF Linked, Announce
  <2>4. CASE ~Join(c) /\ ~Enqueue(c)
    <3>1. joined' = joined /\ (inFlight' = inFlight \/ \E S : inFlight' = Forget(S))
      BY <2>1, <2>4, Zenon DEF CallStep, Invoke, Refuse, JoinedReplies, Lookup, LookupHit, AdmissionFails,
         Dequeue, PreflightHit, PreflightFails, CheckMigrated, Migrated, OpenTransaction, Activated,
         Commit, Throw, TimeOut, AbandonedEnds, callVars
    <3> QED
      BY <1>a, <3>1
  <2> QED
    BY <2>2, <2>3, <2>4
<1>2. ASSUME NEW r \in Reloads, ReloadStep(r) PROVE Linked'
  <2>1. joined' = joined
    BY <1>2, Zenon DEF ReloadStep, StartReload, Drained, DrainTimesOut, ReleaseInstance, RemoveMailbox, callVars
  <2>2. inFlight' = inFlight \/ \E S : inFlight' = Forget(S)
    BY <1>2 DEF ReloadStep, StartReload, Drained, DrainTimesOut, ReleaseInstance, RemoveMailbox, DrainNext
  <2> QED
    BY <1>a, <2>1, <2>2
<1>3. CASE UNCHANGED vars
  BY <1>3 DEF vars, callVars, Linked
<1> QED
  BY <1>1, <1>2, <1>3 DEF NextReload

\* Every step of the runtime is one of the serial actor, or none of its business.
LEMMA StepSimulation ==
  ASSUME SerialInv, [NextReload]_vars
  PROVE  Answered' /\ [Serial!Next]_(Serial!vars)
<1>0. TypeOK /\ Serialized /\ Linked /\ Answered
  BY DEF SerialInv, IInv
<1>a. Mute => [Serial!Next]_(Serial!vars)
  BY <1>0, MuteRefuses DEF Serial!Next
<1>1. CASE Serve
  <2>1. PICK c \in Calls : CallStep(c)
    BY <1>1 DEF Serve
  <2>2. CASE \/ Invoke(c) \/ Refuse(c) \/ Join(c) \/ Lookup(c) \/ AdmissionFails(c) \/ Enqueue(c)
             \/ Dequeue(c) \/ PreflightFails(c) \/ Migrated(c) \/ Throw(c) \/ TimeOut(c) \/ AbandonedEnds(c)
    BY <1>0, <1>a, <2>2, MuteCallSteps, SteadyKeepsAnswered
  <2>3. CASE CheckMigrated(c) \/ OpenTransaction(c) \/ Activated(c)
    BY <1>0, <1>a, <2>3, ApproachKeepsAnswered
  <2>4. CASE LookupHit(c)
    <3>1. /\ pc[c] \notin Settled /\ Recorded(c) /\ pc' = [pc EXCEPT ![c] = "ok"]
          /\ reply' = [reply EXCEPT ![c] = records[RequestId[c]]]
          /\ UNCHANGED <<committed, records, base>>
      BY <2>4 DEF LookupHit, Settled, txVars, storageVars
    <3> QED
      BY <1>0, <3>1, ReplayStep DEF Serial!Next
  <2>5. CASE PreflightHit(c)
    <3>1. /\ pc[c] \notin Settled /\ Recorded(c) /\ pc' = [pc EXCEPT ![c] = "ok"]
          /\ reply' = [reply EXCEPT ![c] = records[RequestId[c]]]
          /\ UNCHANGED <<committed, records, base>>
      BY <2>5 DEF PreflightHit, Settled, txVars, storageVars
    <3> QED
      BY <1>0, <3>1, ReplayStep DEF Serial!Next
  <2>6. CASE JoinedReplies(c)
    BY <1>0, <1>a, <2>6, JoinedStep DEF Serial!Next
  <2>7. CASE Commit(c)
    BY <1>0, <2>7, ApplyStep DEF Serial!Next
  <2> QED
    BY <2>1, <2>2, <2>3, <2>4, <2>5, <2>6, <2>7 DEF CallStep
<1>2. ASSUME NEW r \in Reloads, ReloadStep(r) PROVE Answered' /\ Mute
  BY <1>0, <1>2, MuteReloadSteps, SteadyKeepsAnswered
<1>3. CASE UNCHANGED vars
  <2>1. UNCHANGED <<pc, committed, records, reply, base>>
    BY <1>3 DEF vars, callVars, txVars, storageVars
  <2>2. Mute /\ Steady
    BY <2>1 DEF Mute, Steady
  <2> QED
    BY <1>0, <1>a, <2>2, SteadyKeepsAnswered
<1> QED
  BY <1>a, <1>1, <1>2, <1>3 DEF NextReload

LEMMA SerialInit == Init => SerialInv /\ Serial!Init
<1> SUFFICES ASSUME Init PROVE SerialInv /\ Serial!Init
  OBVIOUS
<1>1. Linked /\ Answered
  BY RuntimeAssumption DEF Init, Linked, Answered, Begun
<1>2. Serial!Init
  BY DEF Init, Serial!Init
<1> QED
  BY <1>1, <1>2, InitIInv DEF SerialInv

\* Whatever calls, timeouts and a hot reload interleave, but for deactivations, callers
\* cannot tell the runtime from an actor that serves one call after the other and keeps
\* the response of each request.
THEOREM RuntimeIsSerial ==
  ASSUME AtMostOneReload
  PROVE  SpecReload => KeepsSerialPromise
<1>1. SerialInv /\ [NextReload]_vars => SerialInv'
  <2> SUFFICES ASSUME SerialInv, [NextReload]_vars PROVE SerialInv'
    OBVIOUS
  <2>1. IInv'
    BY NextIInv DEF SerialInv
  <2>2. Linked'
    BY LinkedInductive DEF SerialInv, IInv
  <2>3. Answered'
    BY StepSimulation
  <2> QED
    BY <2>1, <2>2, <2>3 DEF SerialInv
<1>2. SerialInv /\ [NextReload]_vars => [Serial!Next]_(Serial!vars)
  BY StepSimulation
<1> QED
  BY SerialInit, <1>1, <1>2, PTL DEF SpecReload, KeepsSerialPromise, Serial!Spec
-----------------------------------------------------------------------------
(* The lock file of an actor excludes two live writers, for any number of    *)
(* processes, deaths and nested guards.                                      *)

\* A file with a pid in it was written by the process that created it.
WrittenByCreator == \A d \in Paths : payload[d] # Nobody => creator[d] = payload[d]

\* What a process that lives has on disk at each step.  Two processes cannot
\* have the same file, so no two are at the same step of the same path.
HasItsFiles(p) ==
  /\ stage[p] = "held" => path[p] = 0 /\ payload[0] = p
  /\ stage[p] \in Guarded => payload[path[p] + 1] = p
  /\ stage[p] \in {"write", "retryWrite"} => creator[path[p]] = p /\ payload[path[p]] = Nobody
  /\ stage[p] = "leave" => payload[path[p]] = p
  /\ stage[p] = "unlink" => Stale(path[p])

LockIInv ==
  /\ LockTypeOK
  /\ WrittenByCreator
  /\ \A p \in alive : HasItsFiles(p)

LEMMA LockInitIInv == LockInit => LockIInv
BY LockAssumption DEF LockInit, LockIInv, LockTypeOK, WrittenByCreator, HasItsFiles, Paths, Steps, Guarded

\* No step of one process disturbs the files of another.
LEMMA LockNextIInv == LockIInv /\ [LockNext]_lockVars => LockIInv'
<1> SUFFICES ASSUME LockIInv, [LockNext]_lockVars PROVE LockIInv'
  OBVIOUS
<1> USE LockAssumption DEF LockTypeOK, WrittenByCreator, HasItsFiles, Paths, Steps, Guarded
<1>1. ASSUME NEW p \in alive, Begin(p) PROVE LockIInv'
  BY <1>1 DEF LockIInv, Begin, Stale
<1>2. ASSUME NEW p \in alive, Create(p) PROVE LockIInv'
  BY <1>2 DEF LockIInv, Create, Stale
<1>3. ASSUME NEW p \in alive, Exists(p) PROVE LockIInv'
  BY <1>3 DEF LockIInv, Exists, Stale
<1>4. ASSUME NEW p \in alive, Write(p) PROVE LockIInv'
  <2>1. CASE stage[p] = "write" /\ path[p] = 0
    <3>1. stage' = [stage EXCEPT ![p] = "held"] /\ path' = [path EXCEPT ![p] = 0]
      BY <1>4, <2>1 DEF Write, Return
    <3> QED
      BY <1>4, <2>1, <3>1 DEF LockIInv, Write, Stale
  <2>2. CASE stage[p] = "write" /\ path[p] # 0
    <3>1. stage' = [stage EXCEPT ![p] = "retry"] /\ path' = [path EXCEPT ![p] = path[p] - 1]
      BY <1>4, <2>2 DEF Write, Return
    <3> QED
      BY <1>4, <2>2, <3>1 DEF LockIInv, Write, Stale
  <2>3. CASE stage[p] = "retryWrite"
    <3>1. stage' = [stage EXCEPT ![p] = "leave"] /\ path' = path
      BY <1>4, <2>3 DEF Write
    <3> QED
      BY <1>4, <2>3, <3>1 DEF LockIInv, Write, Stale
  <2> QED
    BY <1>4, <2>1, <2>2, <2>3 DEF Write
<1>5. ASSUME NEW p \in alive, ReadLock(p) PROVE LockIInv'
  <2>1. CASE Stale(path[p])
    <3>1. stage' = [stage EXCEPT ![p] = "create"] /\ path' = [path EXCEPT ![p] = path[p] + 1]
      BY <1>5, <2>1 DEF ReadLock
    <3> QED
      BY <1>5, <2>1, <3>1 DEF LockIInv, ReadLock, Stale
  <2>2. CASE ~Stale(path[p])
    <3>1. stage' = [stage EXCEPT ![p] = "idle"] /\ path' = path
      BY <1>5, <2>2 DEF ReadLock
    <3> QED
      BY <1>5, <3>1 DEF LockIInv, ReadLock, Stale
  <2> QED
    BY <2>1, <2>2
<1>6. ASSUME NEW p \in alive, Reread(p) PROVE LockIInv'
  BY <1>6 DEF LockIInv, Reread, Stale
<1>7. ASSUME NEW p \in alive, Unlink(p) PROVE LockIInv'
  BY <1>7 DEF LockIInv, Unlink, Stale
<1>8. ASSUME NEW p \in alive, LeaveGuard(p) PROVE LockIInv'
  \* It removes its own guard, path[p] + 1, and no other file.
  <2>1. /\ creator' = [creator EXCEPT ![path[p] + 1] = Nobody]
        /\ payload' = [payload EXCEPT ![path[p] + 1] = Nobody]
        /\ payload[path[p] + 1] = p
    BY <1>8 DEF LockIInv, LeaveGuard, RemoveOwn
  <2>2. CASE stage[p] = "leave" /\ path[p] = 0
    <3>1. stage' = [stage EXCEPT ![p] = "held"] /\ path' = [path EXCEPT ![p] = 0]
      BY <1>8, <2>2 DEF LeaveGuard, Return
    <3> QED
      BY <1>8, <2>1, <2>2, <3>1 DEF LockIInv, LeaveGuard, Stale
  <2>3. CASE stage[p] = "leave" /\ path[p] # 0
    <3>1. stage' = [stage EXCEPT ![p] = "retry"] /\ path' = [path EXCEPT ![p] = path[p] - 1]
      BY <1>8, <2>3 DEF LeaveGuard, Return
    <3> QED
      BY <1>8, <2>1, <2>3, <3>1 DEF LockIInv, LeaveGuard, Stale
  <2>4. CASE stage[p] = "giveUp"
    <3>1. stage' = [stage EXCEPT ![p] = "idle"] /\ path' = path
      BY <1>8, <2>4 DEF LeaveGuard
    <3> QED
      BY <1>8, <2>1, <2>4, <3>1 DEF LockIInv, LeaveGuard, Stale
  <2> QED
    BY <1>8, <2>2, <2>3, <2>4 DEF LeaveGuard
<1>9. ASSUME NEW p \in alive, Release(p) PROVE LockIInv'
  <2>1. /\ creator' = [creator EXCEPT ![0] = Nobody]
        /\ payload' = [payload EXCEPT ![0] = Nobody]
        /\ payload[0] = p
    BY <1>9 DEF LockIInv, Release, RemoveOwn
  <2> QED
    BY <1>9, <2>1 DEF LockIInv, Release, Stale
<1>10. ASSUME NEW p \in alive, ProcessDies(p) PROVE LockIInv'
  BY <1>10 DEF LockIInv, ProcessDies, Stale
<1>11. CASE UNCHANGED lockVars
  BY <1>11 DEF LockIInv, lockVars, Stale
<1> QED
  BY <1>1, <1>2, <1>3, <1>4, <1>5, <1>6, <1>7, <1>8, <1>9, <1>10, <1>11 DEF LockNext, Acquiring

THEOREM LockTypeCorrect == LockSpec => []LockTypeOK
<1>1. LockIInv => LockTypeOK
  BY DEF LockIInv
<1> QED
  BY LockInitIInv, LockNextIInv, <1>1, PTL DEF LockSpec

\* Two processes that live never both hold the lock of an actor.
THEOREM OneWriter == LockSpec => []SingleWriter
<1>1. LockIInv => SingleWriter
  BY LockAssumption DEF LockIInv, HasItsFiles, SingleWriter, Holds
<1> QED
  BY LockInitIInv, LockNextIInv, <1>1, PTL DEF LockSpec

\* The file of a process that lives is removed by that process alone.
THEOREM LocksAreNotStolen == LockSpec => LiveLockKept
<1>1. ASSUME LockIInv, [LockNext]_lockVars PROVE [KeepsLiveLocks]_lockVars
  <2> SUFFICES ASSUME NEW d \in Paths, NEW p \in alive, payload[d] = p, payload'[d] # p,
                      NEW q \in alive, Begin(q) \/ Acquiring(q) \/ Release(q) \/ ProcessDies(q)
               PROVE  stage[p] \in {"held", "leave", "giveUp"} /\ stage'[p] # stage[p]
    BY <1>1 DEF KeepsLiveLocks, LockNext, lockVars
  <2> USE LockAssumption, <1>1 DEF LockIInv, LockTypeOK, Paths
  <2>1. ASSUME Write(q) PROVE FALSE
    BY <2>1 DEF Write, HasItsFiles
  <2>2. ASSUME Unlink(q) PROVE FALSE
    BY <2>2 DEF Unlink, HasItsFiles, Stale
  <2>3. CASE LeaveGuard(q)
    <3>1. p = q
      BY <2>3 DEF LeaveGuard, RemoveOwn
    <3>2. stage'[q] # stage[q]
      BY <2>3 DEF LeaveGuard, Return
    <3> QED
      BY <2>3, <3>1, <3>2 DEF LeaveGuard
  <2>4. CASE Release(q)
    BY <2>4 DEF Release, RemoveOwn, Steps
  <2> QED
    BY <2>1, <2>2, <2>3, <2>4
      DEF Acquiring, Begin, Create, Exists, ReadLock, Reread, ProcessDies
<1> QED
  BY LockInitIInv, LockNextIInv, <1>1, PTL DEF LockSpec, LiveLockKept
=============================================================================
