--------------------------- MODULE SqlTransactions ---------------------------
(***************************************************************************)
(* The SqlDatabase handle of one SQLite connection                          *)
(* (repo/src/sqlite/sql-database.ts, repo/src/sql-lock.ts).  Tasks issue    *)
(* single statements or transactions on the handle or on the view that a    *)
(* transaction gives its callback.  A promise-chain mutex serialises them;  *)
(* work that belongs to an open transaction joins it without the mutex.     *)
(*                                                                         *)
(* A transaction has two leases: the one of its view ends with COMMIT or    *)
(* ROLLBACK, the one of the lock a few microtasks later.  Each end is a     *)
(* step, so other continuations run in between.                             *)
(***************************************************************************)
EXTENDS Naturals, Sequences, FiniteSets

CONSTANTS Tasks,         \* pieces of work on the handle
          Transactions,  \* the tasks that call transaction(fn)
          Parent,        \* the transaction in whose callback a task was created
          ViaView,       \* the tasks that use the callback view
          Awaited,       \* the tasks their parent's callback waits for
          NoTask

ASSUME SqlAssumption ==
  /\ Transactions \subseteq Tasks /\ ViaView \subseteq Tasks /\ Awaited \subseteq Tasks
  /\ Parent \in [Tasks -> Transactions \union {NoTask}]
  /\ NoTask \notin Tasks

VARIABLES
  tpc,      \* where each task is
  mutex,    \* AsyncMutex: the holder and those behind it, in order
  holder,   \* the task whose lock lease a task's async context carries
  conn,     \* the transaction that is open on the connection
  ranIn,    \* ghost: the transaction that was open when a task's statement ran
  slipped   \* ghost: transactions that began on the lease of an ended one

sqlVars == <<tpc, mutex, holder, conn, ranIn, slipped>>

TaskStates == {"idle", "waiting", "begin", "open", "ending", "closing", "done"}

SqlTypeOK ==
  /\ tpc \in [Tasks -> TaskStates]
  /\ mutex \in Seq(Tasks)
  /\ holder \in [Tasks -> Tasks \union {NoTask}]
  /\ conn \in Transactions \union {NoTask}
  /\ ranIn \in [Tasks -> Transactions \union {NoTask}]
  /\ slipped \in SUBSET Transactions

SqlInit ==
  /\ tpc = [t \in Tasks |-> "idle"]
  /\ mutex = <<>>
  /\ holder = [t \in Tasks |-> NoTask]
  /\ conn = NoTask
  /\ ranIn = [t \in Tasks |-> NoTask]
  /\ slipped = {}

\* The lease of the transaction's view: from BEGIN until COMMIT has returned.
ViewActive(t) == t # NoTask /\ tpc[t] \in {"open", "ending"}

\* Bug: the lease of the lock outlives its release.
LockNeverEnds(h) == h # NoTask /\ tpc[h] \notin {"idle", "waiting"}

\* The lease of the lock: until mutex.run goes on to release it.
LockActive(h) == h # NoTask /\ tpc[h] \in {"begin", "open", "ending", "closing"}

\* What held.getStore() returns in the context the task was created in.
InheritedLock(t) == IF Parent[t] = NoTask THEN NoTask ELSE holder[Parent[t]]

\* A task exists once the callback of its parent has started; an awaited one
\* is issued before the callback ends.
Created(t) ==
  /\ tpc[t] = "idle"
  /\ Parent[t] # NoTask =>
       tpc[Parent[t]] \in {"open"} \union (IF t \in Awaited THEN {} ELSE {"ending", "closing", "done"})

\* The work joins its parent's transaction: by the view's lease, or, on the
\* outer handle, by the transaction its async context is in.
Joins(t) == ViewActive(Parent[t]) /\ (t \in ViaView \/ t \in Transactions)

-----------------------------------------------------------------------------
\* run, query, first, exec or a nested transaction that joins: at once, on
\* whatever the connection has open.
RunDirectly(t) ==
  /\ Created(t)
  /\ Joins(t) \/ (t \notin Transactions /\ LockActive(InheritedLock(t)))
  /\ ranIn' = [ranIn EXCEPT ![t] = conn]
  /\ tpc' = [tpc EXCEPT ![t] = "done"]
  /\ UNCHANGED <<mutex, holder, conn, slipped>>

\* transaction() from a context whose view has ended and whose lock has not:
\* contextLock runs it without the mutex.
SlipIn(t) ==
  /\ Created(t) /\ t \in Transactions /\ ~Joins(t)
  /\ LockActive(InheritedLock(t))
  /\ holder' = [holder EXCEPT ![t] = InheritedLock(t)]
  /\ tpc' = [tpc EXCEPT ![t] = "begin"]
  /\ slipped' = slipped \union {t}
  /\ UNCHANGED <<mutex, conn, ranIn>>

\* Anything else appends itself to the chain of the mutex.
Wait(t) ==
  /\ Created(t) /\ ~Joins(t) /\ ~LockActive(InheritedLock(t))
  /\ mutex' = Append(mutex, t)
  /\ tpc' = [tpc EXCEPT ![t] = "waiting"]
  /\ UNCHANGED <<holder, conn, ranIn, slipped>>

Acquired(t) == tpc[t] = "waiting" /\ mutex # <<>> /\ Head(mutex) = t

\* The mutex reaches a single statement: it runs and the mutex goes on.
RunStatement(t) ==
  /\ Acquired(t) /\ t \notin Transactions
  /\ ranIn' = [ranIn EXCEPT ![t] = conn]
  /\ tpc' = [tpc EXCEPT ![t] = "done"]
  /\ mutex' = Tail(mutex)
  /\ UNCHANGED <<holder, conn, slipped>>

EnterTransaction(t) ==
  /\ Acquired(t) /\ t \in Transactions
  /\ holder' = [holder EXCEPT ![t] = t]
  /\ tpc' = [tpc EXCEPT ![t] = "begin"]
  /\ UNCHANGED <<mutex, conn, ranIn, slipped>>

\* BEGIN IMMEDIATE, which fails inside an open transaction; a failure ends the
\* lease without a ROLLBACK.
Begin(t) ==
  /\ tpc[t] = "begin"
  /\ \/ /\ conn = NoTask
        /\ conn' = t
        /\ tpc' = [tpc EXCEPT ![t] = "open"]
     \/ /\ tpc' = [tpc EXCEPT ![t] = "closing"]
        /\ UNCHANGED conn
  /\ UNCHANGED <<mutex, holder, ranIn, slipped>>

\* A statement of the callback itself, on its view.
TaskBody(t) ==
  /\ tpc[t] = "open" /\ ranIn[t] = NoTask
  /\ ranIn' = [ranIn EXCEPT ![t] = conn]
  /\ UNCHANGED <<tpc, mutex, holder, conn, slipped>>

\* Bug: the transaction that fails is not rolled back.
EndWithoutRollback(t) ==
  /\ tpc[t] = "open"
  /\ \A c \in Awaited : Parent[c] = t => tpc[c] \in {"idle", "done"}
  /\ tpc' = [tpc EXCEPT ![t] = "ending"]
  /\ \/ conn' = NoTask
     \/ UNCHANGED conn
  /\ UNCHANGED <<mutex, holder, ranIn, slipped>>

\* The callback returned and COMMIT ran, or something threw and ROLLBACK ran:
\* either closes what the connection has open.
End(t) ==
  /\ tpc[t] = "open"
  /\ \A c \in Awaited : Parent[c] = t => tpc[c] \in {"idle", "done"}
  /\ tpc' = [tpc EXCEPT ![t] = "ending"]
  /\ conn' = NoTask
  /\ UNCHANGED <<mutex, holder, ranIn, slipped>>

\* finally { tx.lease.active = false }.
EndView(t) ==
  /\ tpc[t] = "ending"
  /\ tpc' = [tpc EXCEPT ![t] = "closing"]
  /\ UNCHANGED <<mutex, holder, conn, ranIn, slipped>>

\* Bug: the mutex is not released after an error.
ReleaseOnSuccess(t) ==
  /\ tpc[t] = "closing"
  /\ tpc' = [tpc EXCEPT ![t] = "done"]
  /\ mutex' = IF holder[t] = t /\ ranIn[t] # NoTask THEN Tail(mutex) ELSE mutex
  /\ UNCHANGED <<holder, conn, ranIn, slipped>>

\* The lease of the lock ends and the mutex resolves the next waiter; a
\* transaction that slipped in has nothing to release.
Release(t) ==
  /\ tpc[t] = "closing"
  /\ tpc' = [tpc EXCEPT ![t] = "done"]
  /\ mutex' = IF holder[t] = t THEN Tail(mutex) ELSE mutex
  /\ UNCHANGED <<holder, conn, ranIn, slipped>>

-----------------------------------------------------------------------------
\* What goes on by itself once a task has been issued.
TaskStep(t) ==
  \/ RunStatement(t) \/ EnterTransaction(t) \/ Begin(t) \/ TaskBody(t)
  \/ End(t) \/ EndView(t) \/ Release(t)

SqlNext == \E t \in Tasks : RunDirectly(t) \/ SlipIn(t) \/ Wait(t) \/ TaskStep(t)

SqlSpec == SqlInit /\ [][SqlNext]_sqlVars

\* The engine answers every statement, and callbacks return.
SqlFairness == \A t \in Tasks : WF_sqlVars(TaskStep(t))

-----------------------------------------------------------------------------
\* A statement runs in no transaction but its own or its parent's, which
\* would otherwise decide whether it is kept: until a detached continuation
\* begins a transaction between the two leases of its parent, which takes
\* place outside the mutex (createSqlDatabase, contextLock).
OwnTransaction ==
  slipped = {} => \A t \in Tasks : ranIn[t] \in {NoTask, t, Parent[t]}

\* Whatever fails, the mutex is handed on: every task that waits is served.
EveryTaskServed == \A t \in Tasks : tpc[t] = "waiting" ~> tpc[t] = "done"
=============================================================================
