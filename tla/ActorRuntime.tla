---------------------------- MODULE ActorRuntime ----------------------------
(***************************************************************************)
(* The actor runtime of one process (packages/di-framework-actors,         *)
(* runtime/runtime.ts and runtime/mailbox.ts): calls are admitted to the   *)
(* mailbox of their actor, run one at a time in a storage transaction,     *)
(* deduplicated by request id, and cut short by method timeouts, while     *)
(* deactivations and hot reloads replace mailboxes, instances and classes. *)
(*                                                                         *)
(* An action is what the event loop runs between two awaits.  A mailbox    *)
(* and an instance are named after the call that created them.             *)
(***************************************************************************)
EXTENDS Naturals, Sequences, FiniteSets

CONSTANTS
  Calls,          (* invocations, each made once                           *)
  Actors,         (* composite ids                                         *)
  Requests,       (* request ids                                           *)
  Deactivations,  (* calls of deactivate, each made once                   *)
  Reloads,        (* hot reloads, each run once; also names the class it sets *)
  None,
  First,          (* the class registered before any reload                *)
  Target,         (* Target[c]: the actor that c calls                     *)
  RequestId,      (* RequestId[c]: its request id, or None                 *)
  Victim,         (* Victim[d]: the actor that d deactivates               *)
  Policy,         (* Policy[r]: "drain" or "fail"                          *)
  MaxQueue        (* maxMailboxSize                                        *)

ASSUME RuntimeAssumption ==
  /\ Target \in [Calls -> Actors]
  /\ RequestId \in [Calls -> Requests \union {None}]
  /\ None \notin Calls \union Actors \union Requests \union Reloads
  /\ First \notin Reloads
  /\ \A c, d \in Calls :
       RequestId[c] = RequestId[d] /\ RequestId[c] # None => Target[c] = Target[d]
  /\ Victim \in [Deactivations -> Actors]
  /\ Policy \in [Reloads -> {"drain", "fail"}]
  /\ MaxQueue \in Nat \ {0}

VARIABLES
  \* the calls
  pc,          (* where each call stands                                   *)
  class,       (* the registration it resolved                             *)
  joined,      (* the in-flight call whose promise it awaits               *)
  box,         (* the mailbox it was enqueued in                           *)
  inst,        (* the instance it runs on                                  *)
  fresh,       (* it activated that instance (not wasActive)               *)
  live,        (* the connection of its transaction is open                *)
  base,        (* the committed state it has read                          *)
  reply,       (* what it returned                                         *)
  abandoned,   (* calls that timed out while their method still runs       *)
  \* the runtime
  registered,  (* the class new calls resolve                              *)
  mailboxes,   (* actor to mailbox                                         *)
  queue,       (* unstarted calls of each mailbox                          *)
  closed,      (* admission to each mailbox                                *)
  instances,   (* actor to instance                                        *)
  migrated,    (* actors whose migrations count as applied                 *)
  inFlight,    (* request id to the call whose promise repeats join        *)
  \* the storage
  committed, records, schema,
  \* deactivations and reloads
  dpc, rpc,
  affected,    (* the actors each reload replaces                          *)
  pending,     (* those it has yet to drain, then those yet to release     *)
  at,          (* the one it is at                                         *)
  waitsFor     (* the mailbox whose drain it awaits                        *)

callVars    == <<class, joined, box, reply, abandoned>>
txVars      == <<inst, fresh, live, base>>
boxVars     == <<mailboxes, queue, closed>>
storageVars == <<committed, records, schema>>
reloadVars  == <<rpc, affected, pending, at, waitsFor>>
adminVars   == <<registered, dpc, reloadVars>>
vars == <<pc, callVars, txVars, boxVars, instances, migrated, inFlight, storageVars, adminVars>>

Executing == {"preflight", "migrating", "opening", "activating", "method"}
Settled   == {"ok", "failed"}
Classes   == Reloads \union {First}

CallStates   == {"idle", "authorizing", "joined", "lookup", "queued"} \union Executing \union Settled
ReloadStates == {"idle", "draining", "hook", "closing", "done", "aborted"}
Releasing    == {"hook", "closing"}

TypeOK ==
  /\ pc \in [Calls -> CallStates]
  /\ class \in [Calls -> Classes]
  /\ joined \in [Calls -> Calls \union {None}]
  /\ \A c \in Calls : pc[c] = "joined" => joined[c] # None
  /\ box \in [Calls -> Calls \union {None}]
  /\ inst \in [Calls -> Calls \union {None}]
  /\ fresh \in [Calls -> BOOLEAN]
  /\ live \in [Calls -> BOOLEAN]
  /\ base \in [Calls -> Nat]
  /\ reply \in [Calls -> Nat]
  /\ abandoned \in SUBSET Calls
  /\ registered \in Classes
  /\ mailboxes \in [Actors -> Calls \union {None}]
  /\ queue \in [Calls -> Seq(Calls)]
  /\ closed \in [Calls -> BOOLEAN]
  /\ instances \in [Actors -> Calls \union {None}]
  /\ migrated \in SUBSET Actors
  /\ inFlight \in [Requests -> Calls \union {None}]
  /\ committed \in [Actors -> Nat]
  /\ records \in [Requests -> Nat]
  /\ schema \in [Actors -> SUBSET Classes]
  /\ dpc \in [Deactivations -> {"idle", "hook", "done"}]
  /\ rpc \in [Reloads -> ReloadStates]
  /\ affected \in [Reloads -> SUBSET Actors]
  /\ pending \in [Reloads -> SUBSET Actors]
  /\ at \in [Reloads -> Actors \union {None}]
  /\ waitsFor \in [Reloads -> Calls \union {None}]

Init ==
  /\ pc = [c \in Calls |-> "idle"]
  /\ class = [c \in Calls |-> First]
  /\ joined = [c \in Calls |-> None]
  /\ box = [c \in Calls |-> None]
  /\ inst = [c \in Calls |-> None]
  /\ fresh = [c \in Calls |-> FALSE]
  /\ live = [c \in Calls |-> FALSE]
  /\ base = [c \in Calls |-> 0]
  /\ reply = [c \in Calls |-> 0]
  /\ abandoned = {}
  /\ registered = First
  /\ mailboxes = [a \in Actors |-> None]
  /\ queue = [m \in Calls |-> <<>>]
  /\ closed = [m \in Calls |-> FALSE]
  /\ instances = [a \in Actors |-> None]
  /\ migrated = {}
  /\ inFlight = [q \in Requests |-> None]
  /\ committed = [a \in Actors |-> 0]
  /\ records = [q \in Requests |-> 0]
  /\ schema = [a \in Actors |-> {}]
  /\ dpc = [d \in Deactivations |-> "idle"]
  /\ rpc = [r \in Reloads |-> "idle"]
  /\ affected = [r \in Reloads |-> {}]
  /\ pending = [r \in Reloads |-> {}]
  /\ at = [r \in Reloads |-> None]
  /\ waitsFor = [r \in Reloads |-> None]

-----------------------------------------------------------------------------
(* Admission: from invoke to the mailbox.                                  *)

Recorded(c) == RequestId[c] # None /\ records[RequestId[c]] # 0

\* Bug: the mailbox starts a call although one runs (no processing flag).
BusyWithQueueOnly(m) == queue[m] # <<>>

\* Bug: the processing flag is not lowered when the queue runs dry.
BusyOnceUsed(m) == \E d \in Calls : box[d] = m

\* The mailbox has calls to start, or one that runs (its processing flag).
Busy(m) ==
  \/ queue[m] # <<>>
  \/ \E d \in Calls : box[d] = m /\ pc[d] \in Executing

\* The in-flight entries once the promises of S have settled: the entry of
\* their request goes, whichever call it holds by now.
Forget(S) == [q \in Requests |-> IF \E c \in S : RequestId[c] = q THEN None ELSE inFlight[q]]

\* The in-flight entries once c is admitted.
Announce(c) == [q \in Requests |-> IF RequestId[c] = q THEN c ELSE inFlight[q]]

\* The registration is resolved before the first await.
Invoke(c) ==
  /\ pc[c] = "idle"
  /\ pc' = [pc EXCEPT ![c] = "authorizing"]
  /\ class' = [class EXCEPT ![c] = registered]
  /\ UNCHANGED <<joined, box, txVars, reply, abandoned, adminVars, boxVars,
                 instances, migrated, inFlight, storageVars>>

\* Deadline passed, or not authorized.
Refuse(c) ==
  /\ pc[c] = "authorizing"
  /\ pc' = [pc EXCEPT ![c] = "failed"]
  /\ UNCHANGED <<callVars, txVars, adminVars, boxVars, instances,
                 migrated, inFlight, storageVars>>

InFlight(c) == RequestId[c] # None /\ inFlight[RequestId[c]] # None

\* A repeat of a request in flight awaits the promise of the first.
Join(c) ==
  /\ pc[c] = "authorizing"
  /\ InFlight(c)
  /\ pc' = [pc EXCEPT ![c] = "joined"]
  /\ joined' = [joined EXCEPT ![c] = inFlight[RequestId[c]]]
  /\ UNCHANGED <<class, box, txVars, reply, abandoned, adminVars, boxVars,
                 instances, migrated, inFlight, storageVars>>

JoinedReplies(c) ==
  /\ pc[c] = "joined"
  /\ pc[joined[c]] \in Settled
  /\ pc' = [pc EXCEPT ![c] = pc[joined[c]]]
  /\ reply' = [reply EXCEPT ![c] = reply[joined[c]]]
  /\ UNCHANGED <<class, joined, box, txVars, abandoned, adminVars, boxVars,
                 instances, migrated, inFlight, storageVars>>

Lookup(c) ==
  /\ pc[c] = "authorizing"
  /\ RequestId[c] # None /\ ~InFlight(c)
  /\ pc' = [pc EXCEPT ![c] = "lookup"]
  /\ UNCHANGED <<callVars, txVars, adminVars, boxVars, instances,
                 migrated, inFlight, storageVars>>

LookupHit(c) ==
  /\ pc[c] = "lookup"
  /\ Recorded(c)
  /\ pc' = [pc EXCEPT ![c] = "ok"]
  /\ reply' = [reply EXCEPT ![c] = records[RequestId[c]]]
  /\ UNCHANGED <<class, joined, box, txVars, abandoned, adminVars, boxVars,
                 instances, migrated, inFlight, storageVars>>

\* The call is past its checks and asks for its mailbox.
ReadyToEnqueue(c) ==
  \/ pc[c] = "authorizing" /\ RequestId[c] = None
  \/ pc[c] = "lookup" /\ ~Recorded(c)

MailboxOf(c) == IF mailboxes[Target[c]] = None THEN c ELSE mailboxes[Target[c]]

\* Admission is closed, or the queue is full.
AdmissionFails(c) ==
  /\ ReadyToEnqueue(c)
  /\ closed[MailboxOf(c)] \/ Len(queue[MailboxOf(c)]) >= MaxQueue
  /\ pc' = [pc EXCEPT ![c] = "failed"]
  /\ inFlight' = Forget({c})
  /\ UNCHANGED <<callVars, txVars, adminVars, boxVars, instances, migrated, storageVars>>

\* An idle mailbox, made for the call if there is none, starts it at once.
Enqueue(c) ==
  LET m == MailboxOf(c) IN
  /\ ReadyToEnqueue(c)
  /\ ~closed[m] /\ Len(queue[m]) < MaxQueue
  /\ mailboxes' = [mailboxes EXCEPT ![Target[c]] = m]
  /\ box' = [box EXCEPT ![c] = m]
  /\ inFlight' = Announce(c)
  /\ IF Busy(m)
     THEN /\ pc' = [pc EXCEPT ![c] = "queued"]
          /\ queue' = [queue EXCEPT ![m] = Append(@, c)]
     ELSE /\ pc' = [pc EXCEPT ![c] = "preflight"]
          /\ UNCHANGED queue
  /\ UNCHANGED <<class, joined, txVars, reply, abandoned, adminVars,
                 closed, instances, migrated, storageVars>>

-----------------------------------------------------------------------------
(* Execution: the task the mailbox runs.                                   *)

\* The mailbox, whose last task has ended, takes the head of its queue.
Dequeue(c) ==
  LET m == box[c] IN
  /\ pc[c] = "queued"
  /\ queue[m] # <<>> /\ Head(queue[m]) = c
  /\ \A d \in Calls : box[d] = m => pc[d] \notin Executing
  /\ pc' = [pc EXCEPT ![c] = "preflight"]
  /\ queue' = [queue EXCEPT ![m] = Tail(@)]
  /\ UNCHANGED <<callVars, txVars, adminVars, mailboxes, closed, instances,
                 migrated, inFlight, storageVars>>

\* The request was committed while the call waited.
PreflightHit(c) ==
  /\ pc[c] = "preflight"
  /\ Recorded(c)
  /\ pc' = [pc EXCEPT ![c] = "ok"]
  /\ reply' = [reply EXCEPT ![c] = records[RequestId[c]]]
  /\ inFlight' = Forget({c})
  /\ UNCHANGED <<class, joined, box, txVars, abandoned, adminVars,
                 boxVars, instances, migrated, storageVars>>

\* Deadline passed, a migration failed, another owner, or no connection.
PreflightFails(c) ==
  /\ pc[c] \in {"preflight", "migrating", "opening"}
  /\ pc' = [pc EXCEPT ![c] = "failed"]
  /\ inFlight' = Forget({c})
  /\ UNCHANGED <<callVars, txVars, adminVars, boxVars, instances, migrated, storageVars>>

\* Bug: the idempotency record is not read again after the queue.
MayRunUnchecked(c) == pc[c] = "preflight"

MayRun(c) == pc[c] = "preflight" /\ ~Recorded(c)

\* ensureActorMigrated: nothing to do if the actor counts as migrated, else
\* the migrations of the class that the call resolved are awaited.
CheckMigrated(c) ==
  /\ MayRun(c)
  /\ pc' = [pc EXCEPT ![c] = IF Target[c] \in migrated THEN "opening" ELSE "migrating"]
  /\ UNCHANGED <<callVars, txVars, adminVars, boxVars, instances, migrated, inFlight, storageVars>>

Migrated(c) ==
  LET a == Target[c] IN
  /\ pc[c] = "migrating"
  /\ pc' = [pc EXCEPT ![c] = "opening"]
  /\ migrated' = migrated \union {a}
  /\ schema' = [schema EXCEPT ![a] = @ \union {class[c]}]
  /\ UNCHANGED <<callVars, txVars, adminVars, boxVars, instances, inFlight, committed, records>>

\* The transaction begins; the method runs on the active instance, or one is
\* constructed and its onActivate awaited.
OpenTransaction(c) ==
  LET a == Target[c] IN
  /\ pc[c] = "opening"
  /\ live' = [live EXCEPT ![c] = TRUE]
  /\ fresh' = [fresh EXCEPT ![c] = instances[a] = None]
  /\ IF instances[a] = None
     THEN /\ pc' = [pc EXCEPT ![c] = "activating"]
          /\ inst' = [inst EXCEPT ![c] = c]
          /\ UNCHANGED base
     ELSE /\ pc' = [pc EXCEPT ![c] = "method"]
          /\ inst' = [inst EXCEPT ![c] = instances[a]]
          /\ base' = [base EXCEPT ![c] = committed[a]]
  /\ UNCHANGED <<callVars, adminVars, boxVars, instances, migrated, inFlight, storageVars>>

Activated(c) ==
  LET a == Target[c] IN
  /\ pc[c] = "activating"
  /\ pc' = [pc EXCEPT ![c] = "method"]
  /\ instances' = [instances EXCEPT ![a] = c]
  /\ base' = [base EXCEPT ![c] = committed[a]]
  /\ UNCHANGED <<callVars, inst, fresh, live, adminVars, boxVars,
                 migrated, inFlight, storageVars>>

\* The method returns and its transaction, if the connection is still open,
\* commits the state and the idempotency record together.
Commit(c) ==
  LET a == Target[c] IN
  /\ pc[c] = "method"
  /\ live[c]
  /\ pc' = [pc EXCEPT ![c] = "ok"]
  /\ live' = [live EXCEPT ![c] = FALSE]
  /\ reply' = [reply EXCEPT ![c] = base[c] + 1]
  /\ committed' = [committed EXCEPT ![a] = base[c] + 1]
  /\ records' = [q \in Requests |-> IF q = RequestId[c] THEN base[c] + 1 ELSE records[q]]
  /\ inFlight' = Forget({c})
  /\ UNCHANGED <<class, joined, box, inst, fresh, base, abandoned, adminVars,
                 boxVars, instances, migrated, schema>>

\* onActivate, the method or the commit throws: an instance that this call
\* activated goes, the transaction is rolled back.
Throw(c) ==
  /\ pc[c] \in {"activating", "method"}
  /\ pc' = [pc EXCEPT ![c] = "failed"]
  /\ live' = [live EXCEPT ![c] = FALSE]
  /\ instances' = IF fresh[c] THEN [instances EXCEPT ![Target[c]] = None] ELSE instances
  /\ inFlight' = Forget({c})
  /\ UNCHANGED <<callVars, inst, fresh, base, adminVars, boxVars, migrated, storageVars>>

\* Bug: a method that timed out leaves its instance active.
TimeOutKeepingInstance(c) ==
  /\ pc[c] = "method"
  /\ pc' = [pc EXCEPT ![c] = "failed"]
  /\ abandoned' = abandoned \union {c}
  /\ live' = [live EXCEPT ![c] = FALSE]
  /\ instances' = IF fresh[c] THEN [instances EXCEPT ![Target[c]] = None] ELSE instances
  /\ inFlight' = Forget({c})
  /\ UNCHANGED <<class, joined, box, inst, fresh, base, reply,
                 adminVars, boxVars, migrated, storageVars>>

\* The timeout wins the race: the caller gets an error, the transaction is
\* rolled back and the instance discarded while the method runs on.
TimeOut(c) ==
  /\ pc[c] = "method"
  /\ pc' = [pc EXCEPT ![c] = "failed"]
  /\ abandoned' = abandoned \union {c}
  /\ live' = [live EXCEPT ![c] = FALSE]
  /\ instances' = [instances EXCEPT ![Target[c]] = None]
  /\ inFlight' = Forget({c})
  /\ UNCHANGED <<class, joined, box, inst, fresh, base, reply,
                 adminVars, boxVars, migrated, storageVars>>

\* The abandoned method ends, on a closed transaction.
AbandonedEnds(c) ==
  /\ c \in abandoned
  /\ abandoned' = abandoned \ {c}
  /\ UNCHANGED <<pc, class, joined, box, txVars, reply, adminVars, boxVars,
                 instances, migrated, inFlight, storageVars>>

CallStep(c) ==
  \/ Invoke(c) \/ Refuse(c) \/ Join(c) \/ JoinedReplies(c) \/ Lookup(c) \/ LookupHit(c)
  \/ AdmissionFails(c) \/ Enqueue(c) \/ Dequeue(c)
  \/ PreflightHit(c) \/ PreflightFails(c) \/ CheckMigrated(c) \/ Migrated(c)
  \/ OpenTransaction(c) \/ Activated(c) \/ Commit(c) \/ Throw(c) \/ TimeOut(c) \/ AbandonedEnds(c)

-----------------------------------------------------------------------------
(* deactivate, and what it shares with reload.                             *)

Queued(m) == {c \in Calls : box[c] = m /\ pc[c] = "queued"}

\* Bug: clear drops the queue and leaves the promises unsettled.
RejectNone(S) == pc

\* The calls once those of S are rejected.
Reject(S) == [c \in Calls |-> IF c \in S THEN "failed" ELSE pc[c]]

\* The connection of the actor is closed under the transactions that use it.
CloseActor(a) == [c \in Calls |-> live[c] /\ Target[c] # a]

StartDeactivate(d) ==
  /\ dpc[d] = "idle"
  /\ dpc' = [dpc EXCEPT ![d] = IF instances[Victim[d]] = None THEN "done" ELSE "hook"]
  /\ UNCHANGED <<pc, callVars, txVars, registered, boxVars, instances,
                 migrated, inFlight, storageVars, reloadVars>>

\* onDeactivate has returned.
FinishDeactivate(d) ==
  LET a == Victim[d]
      m == mailboxes[a]
      rejected == IF m = None THEN {} ELSE Queued(m)
  IN
  /\ dpc[d] = "hook"
  /\ dpc' = [dpc EXCEPT ![d] = "done"]
  /\ instances' = [instances EXCEPT ![a] = None]
  /\ migrated' = migrated \ {a}
  /\ pc' = Reject(rejected)
  /\ inFlight' = Forget(rejected)
  /\ queue' = [n \in Calls |-> IF n = m THEN <<>> ELSE queue[n]]
  /\ mailboxes' = [mailboxes EXCEPT ![a] = None]
  /\ live' = CloseActor(a)
  /\ UNCHANGED <<callVars, inst, fresh, base, registered, closed, storageVars, reloadVars>>

-----------------------------------------------------------------------------
(* Hot reload.                                                             *)

\* Drains the next actor of todo that has a mailbox; with policy "fail" its
\* unstarted calls are rejected first.
DrainNext(r, todo) ==
  \E a \in todo :
    LET m == mailboxes[a]
        rejected == IF Policy[r] = "fail" THEN Queued(m) ELSE {}
    IN
    /\ m # None
    /\ rpc' = [rpc EXCEPT ![r] = "draining"]
    /\ pending' = [pending EXCEPT ![r] = todo \ {a}]
    /\ at' = [at EXCEPT ![r] = a]
    /\ waitsFor' = [waitsFor EXCEPT ![r] = m]
    /\ pc' = Reject(rejected)
    /\ inFlight' = Forget(rejected)
    /\ queue' = [queue EXCEPT ![m] = IF Policy[r] = "fail" THEN <<>> ELSE @]

\* Releases the first of the actors of todo, whose onDeactivate is called.
ReleaseNext(r, todo) ==
  \E a \in todo :
    /\ rpc' = [rpc EXCEPT ![r] = "hook"]
    /\ pending' = [pending EXCEPT ![r] = todo \ {a}]
    /\ at' = [at EXCEPT ![r] = a]
    /\ waitsFor' = [waitsFor EXCEPT ![r] = None]

HasMailbox(S) == {a \in S : mailboxes[a] # None}

\* Bug: the mailboxes stay open while the reload drains them.
StopNoAdmission(S) == closed

StopAdmission(S) == [m \in Calls |-> closed[m] \/ \E a \in S : mailboxes[a] = m]

\* Bug: the mailboxes of an aborted reload stay closed.
ResumeNoAdmission(S) == closed

ResumeAdmission(S) == [m \in Calls |-> closed[m] /\ \A a \in S : mailboxes[a] # m]

StartReload(r) ==
  LET S == {a \in Actors : instances[a] # None \/ mailboxes[a] # None} IN
  /\ rpc[r] = "idle"
  /\ affected' = [affected EXCEPT ![r] = S]
  /\ closed' = StopAdmission(S)
  /\ IF S = {}
     THEN /\ rpc' = [rpc EXCEPT ![r] = "done"]
          /\ registered' = r
          /\ migrated' = {}
          /\ UNCHANGED <<pc, inFlight, queue, pending, at, waitsFor>>
     ELSE /\ UNCHANGED <<registered, migrated>>
          /\ IF HasMailbox(S) # {}
             THEN DrainNext(r, S)
             ELSE ReleaseNext(r, S) /\ UNCHANGED <<pc, inFlight, queue>>
  /\ UNCHANGED <<callVars, txVars, mailboxes, instances, storageVars, dpc>>

\* The awaited mailbox is empty and idle: on to the next, or to the release.
Drained(r) ==
  /\ rpc[r] = "draining"
  /\ ~Busy(waitsFor[r])
  /\ IF HasMailbox(pending[r]) # {}
     THEN DrainNext(r, pending[r])
     ELSE ReleaseNext(r, affected[r]) /\ UNCHANGED <<pc, inFlight, queue>>
  /\ UNCHANGED <<callVars, txVars, registered, mailboxes, closed, instances,
                 migrated, storageVars, dpc, affected>>

\* The drain takes longer than timeoutMs: admission resumes, reload throws.
DrainTimesOut(r) ==
  /\ rpc[r] = "draining"
  /\ Busy(waitsFor[r])
  /\ rpc' = [rpc EXCEPT ![r] = "aborted"]
  /\ closed' = ResumeAdmission(affected[r])
  /\ UNCHANGED <<pc, callVars, txVars, registered, mailboxes, queue, instances, migrated, inFlight, storageVars,
                 dpc, affected, pending, at, waitsFor>>

\* onDeactivate has returned; the storage begins to close the actor.
ReleaseInstance(r) ==
  /\ rpc[r] = "hook"
  /\ rpc' = [rpc EXCEPT ![r] = "closing"]
  /\ instances' = [instances EXCEPT ![at[r]] = None]
  /\ live' = CloseActor(at[r])
  /\ UNCHANGED <<pc, callVars, inst, fresh, base, registered, boxVars, migrated, inFlight, storageVars,
                 dpc, affected, pending, at, waitsFor>>

\* The actor is closed: its mailbox is cleared and removed; after the last
\* actor the new class is registered and the migration cache emptied.
RemoveMailbox(r) ==
  LET m == mailboxes[at[r]]
      rejected == IF m = None THEN {} ELSE Queued(m)
  IN
  /\ rpc[r] = "closing"
  /\ pc' = Reject(rejected)
  /\ inFlight' = Forget(rejected)
  /\ queue' = [n \in Calls |-> IF n = m THEN <<>> ELSE queue[n]]
  /\ mailboxes' = [mailboxes EXCEPT ![at[r]] = None]
  /\ IF pending[r] # {}
     THEN ReleaseNext(r, pending[r]) /\ UNCHANGED <<registered, migrated>>
     ELSE /\ rpc' = [rpc EXCEPT ![r] = "done"]
          /\ registered' = r
          /\ migrated' = {}
          /\ UNCHANGED <<pending, at, waitsFor>>
  /\ UNCHANGED <<callVars, txVars, closed, instances, storageVars, dpc, affected>>

ReloadStep(r) ==
  StartReload(r) \/ Drained(r) \/ DrainTimesOut(r) \/ ReleaseInstance(r) \/ RemoveMailbox(r)

-----------------------------------------------------------------------------
\* What the runtime does to serve calls.
Serve == \E c \in Calls : CallStep(c)

Next ==
  \/ Serve
  \/ \E d \in Deactivations : StartDeactivate(d) \/ FinishDeactivate(d)
  \/ \E r \in Reloads : ReloadStep(r)

Spec == Init /\ [][Next]_vars

\* Reloads, without deactivations.
NextReload == Serve \/ \E r \in Reloads : ReloadStep(r)
SpecReload == Init /\ [][NextReload]_vars

\* What the event loop does for an invocation that has been made: every await
\* of the runtime resumes, and a method, if no timeout cuts it short, ends.
\* Nothing makes a caller call, a policy refuse or a timeout fire.
Fairness ==
  /\ \A c \in Calls :
       /\ WF_vars(Join(c) \/ Lookup(c) \/ AdmissionFails(c) \/ Enqueue(c))
       /\ WF_vars(LookupHit(c) \/ JoinedReplies(c))
       /\ WF_vars(Dequeue(c))
       /\ WF_vars(PreflightHit(c) \/ CheckMigrated(c) \/ Migrated(c))
       /\ WF_vars(OpenTransaction(c) \/ Activated(c))
       /\ WF_vars(Commit(c) \/ Throw(c))
  /\ \A d \in Deactivations : WF_vars(FinishDeactivate(d))
  /\ \A r \in Reloads : WF_vars(Drained(r) \/ ReleaseInstance(r) \/ RemoveMailbox(r))

SpecFair == Spec /\ Fairness

-----------------------------------------------------------------------------
(* The calls of an actor are strictly serialized: no two are between the    *)
(* dequeue and the settling of their promise (the processing flag of the    *)
(* mailbox, mailbox.ts 74-92, and one mailbox per actor, runtime.ts 301).   *)
Serialized ==
  \A c, d \in Calls :
    pc[c] \in Executing /\ pc[d] \in Executing /\ Target[c] = Target[d] => c = d

(* A method that timed out runs on, but on an instance that no later call   *)
(* can get: the instance is discarded before the mailbox moves on           *)
(* (runtime.ts 686).                                                        *)
NoAbandonedInstance ==
  \A c \in abandoned :
    /\ instances[Target[c]] # inst[c]
    /\ \A d \in Calls : pc[d] = "method" => inst[d] # inst[c]

(* The runtime keeps the promise of SerialActor: each answered call acted    *)
(* alone on the state committed before it, a request id took effect at most *)
(* once and its repeats got its response, a call that failed left nothing.  *)
Serial == INSTANCE SerialActor WITH
  outcome <- [c \in Calls |-> IF pc[c] = "ok" THEN "ok"
                             ELSE IF pc[c] = "failed" THEN "refused" ELSE "pending"]

KeepsSerialPromise == Serial!Spec

(* While a reload releases the actors it has drained, none that it has yet  *)
(* to release executes a call: onDeactivate, closeActor and the removal of  *)
(* the mailbox meet no work in progress (runtime.ts 781-820).  An actor that *)
(* was released already may be called again before the reload is done.      *)
NoCallDuringRelease ==
  \A r \in Reloads : rpc[r] \in Releasing =>
    \A c \in Calls : Target[c] \in pending[r] \union {at[r]} => pc[c] \notin Executing

(* A mailbox that new calls find is closed only while a reload that replaces *)
(* its actor is under way: whether it completes or aborts, it leaves no     *)
(* actor shut for good (runtime.ts 773-795).                                *)
ClosedOnlyDuringReload ==
  \A a \in Actors : mailboxes[a] # None /\ closed[mailboxes[a]] =>
    \E r \in Reloads : a \in affected[r] /\ rpc[r] \in {"draining"} \union Releasing

(* A method never runs before the migrations of the class it was resolved    *)
(* to (runtime.ts 558, and 837-847 after a reload).                          *)
MigratedBeforeUse ==
  \A c \in Calls : pc[c] = "method" => class[c] \in schema[Target[c]]

(* Every invocation is answered, whatever deactivations and reloads do to    *)
(* its mailbox (mailbox.ts 74-92, 158-162; runtime.ts 511-514, 697-704).     *)
EveryCallSettles ==
  \A c \in Calls : pc[c] = "authorizing" ~> pc[c] \in Settled

(* Every reload comes to an end: done, or aborted by the drain timeout.      *)
EveryReloadEnds ==
  \A r \in Reloads : rpc[r] = "draining" ~> rpc[r] \in {"done", "aborted"}
=============================================================================
