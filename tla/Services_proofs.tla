-------------------------- MODULE Services_proofs --------------------------
(***************************************************************************)
(* What the five services of MCServices promise, for every value of their   *)
(* constants: whose transaction a statement runs in, how an application     *)
(* comes up and goes down, which migrations a table records, which sessions *)
(* a secure socket may fail, and in which order a stream arrives.  Each     *)
(* part first states its inductive invariant and then its theorem, which is *)
(* about every behaviour of the component's own specification.              *)
(***************************************************************************)
EXTENDS MCServices, SequenceTheorems, WellFoundedInduction, TLAPS
-----------------------------------------------------------------------------
(* Transactions of a SQLite handle.  Whoever holds the mutex is its head; as *)
(* long as no transaction slipped in on a lease that is about to end, only   *)
(* the head is in a transaction, and what the connection has open is its.    *)

InTransaction == {"begin", "open", "ending", "closing"}

\* t runs a transaction for which it took the mutex.
HoldsMutex(t) == tpc[t] \in InTransaction /\ holder[t] = t

\* The mutex is a queue of tasks that wait, but for its head, which may hold it.
MutexInv ==
  /\ \A i, j \in 1 .. Len(mutex) : mutex[i] = mutex[j] => i = j
  /\ \A i \in 1 .. Len(mutex) : tpc[mutex[i]] = "waiting" \/ (i = 1 /\ HoldsMutex(mutex[i]))
  /\ \A t \in Tasks : HoldsMutex(t) => mutex # <<>> /\ mutex[1] = t

OwnInv ==
  /\ \A t \in Tasks : holder[t] \in {NoTask, t} /\ (tpc[t] \in InTransaction => holder[t] = t)
  /\ conn # NoTask => tpc[conn] = "open"
  /\ \A t \in Tasks : ranIn[t] \in {NoTask, t, Parent[t]}

SqlInv ==
  /\ SqlTypeOK
  /\ \A t \in Tasks : tpc[t] \in InTransaction => t \in Transactions
  /\ MutexInv
  /\ slipped = {} => OwnInv

\* A task keeps the types, and is in a transaction only if it calls for one.
LEMMA SqlTypes ==
  ASSUME SqlInv, NEW t \in Tasks, RunDirectly(t) \/ SlipIn(t) \/ Wait(t) \/ TaskStep(t)
  PROVE  SqlTypeOK' /\ \A u \in Tasks : tpc'[u] \in InTransaction => u \in Transactions
<1> USE SqlAssumption DEF SqlInv, SqlTypeOK, TaskStates, InTransaction
<1>1. CASE RunDirectly(t)
  BY <1>1 DEF RunDirectly
<1>2. CASE SlipIn(t)
  BY <1>2 DEF SlipIn, LockActive, InheritedLock
<1>3. CASE Wait(t)
  BY <1>3 DEF Wait
<1>4. CASE RunStatement(t)
  BY <1>4 DEF RunStatement, Acquired
<1>5. CASE EnterTransaction(t)
  BY <1>5 DEF EnterTransaction
<1>6. CASE Begin(t)
  BY <1>6 DEF Begin
<1>7. CASE TaskBody(t)
  BY <1>7 DEF TaskBody
<1>8. CASE End(t) \/ EndView(t)
  BY <1>8 DEF End, EndView
<1>9. CASE Release(t)
  BY <1>9 DEF Release, MutexInv, HoldsMutex
<1> QED
  BY <1>1, <1>2, <1>3, <1>4, <1>5, <1>6, <1>7, <1>8, <1>9 DEF TaskStep

\* The head of the mutex leaves it: those behind it move up.
LEMMA HeadLeaves ==
  ASSUME mutex \in Seq(Tasks), mutex # <<>>, mutex' = Tail(mutex)
  PROVE  /\ Len(mutex') = Len(mutex) - 1 /\ Len(mutex) \in Nat \ {0}
         /\ \A i \in 1 .. Len(mutex') : mutex'[i] = mutex[i + 1] /\ i + 1 \in 1 .. Len(mutex)
OBVIOUS

\* The queue of the mutex stays one.
LEMMA MutexInductive ==
  ASSUME SqlInv, NEW t \in Tasks, RunDirectly(t) \/ SlipIn(t) \/ Wait(t) \/ TaskStep(t)
  PROVE  MutexInv'
<1> DEFINE n == Len(mutex)
<1>0. /\ SqlTypeOK /\ MutexInv /\ n \in Nat
      /\ \A i \in 1 .. n : mutex[i] \in Tasks
  BY DEF SqlInv, SqlTypeOK
<1>a. ASSUME tpc[t] \notin {"waiting"} \union InTransaction, tpc'[t] # "waiting", ~HoldsMutex(t)',
             \A u \in Tasks \ {t} : tpc'[u] = tpc[u] /\ holder'[u] = holder[u], mutex' = mutex
      PROVE  MutexInv'
  BY <1>0, <1>a DEF MutexInv, HoldsMutex
<1>b. ASSUME \A u \in Tasks : tpc'[u] = "waiting" <=> tpc[u] = "waiting",
             \A u \in Tasks : HoldsMutex(u)' <=> HoldsMutex(u), mutex' = mutex
      PROVE  MutexInv'
  BY <1>0, <1>b DEF MutexInv
<1>c. ASSUME mutex # <<>>, mutex[1] = t, mutex' = Tail(mutex), tpc' = [tpc EXCEPT ![t] = "done"],
             holder' = holder
      PROVE  MutexInv'
  <2>1. /\ Len(mutex') = n - 1 /\ n \in Nat \ {0}
        /\ \A i \in 1 .. Len(mutex') : mutex'[i] = mutex[i + 1] /\ i + 1 \in 1 .. n
    BY <1>0, <1>c, HeadLeaves DEF SqlTypeOK
  <2>2. tpc'[t] = "done" /\ \A u \in Tasks \ {t} : tpc'[u] = tpc[u]
    BY <1>0, <1>c DEF SqlTypeOK
  <2>3. \A i \in 1 .. Len(mutex') : tpc[mutex'[i]] = "waiting" /\ mutex'[i] # t
    BY <1>0, <1>c, <2>1 DEF MutexInv
  <2>4. \A u \in Tasks : ~HoldsMutex(u)'
    BY <1>0, <1>c, <2>2 DEF MutexInv, HoldsMutex, InTransaction
  <2>5. \A i, j \in 1 .. Len(mutex') : mutex'[i] = mutex'[j] => i = j
    <3> TAKE i, j \in 1 .. Len(mutex')
    <3>1. mutex'[i] = mutex'[j] => i + 1 = j + 1
      BY <1>0, <2>1 DEF MutexInv
    <3> QED
      BY <2>1, <3>1
  <2>6. \A i \in 1 .. Len(mutex') : tpc'[mutex'[i]] = "waiting"
    BY <1>0, <2>1, <2>2, <2>3
  <2> QED
    BY <2>4, <2>5, <2>6 DEF MutexInv
<1>1. CASE RunDirectly(t)
  BY <1>0, <1>1, <1>a DEF RunDirectly, Created, InTransaction, HoldsMutex, SqlTypeOK
<1>2. CASE SlipIn(t)
  BY <1>2, <1>0, <1>a DEF SlipIn, Created, LockActive, InTransaction, HoldsMutex, SqlTypeOK
<1>3. CASE Wait(t)
  <2>1. /\ tpc[t] = "idle" /\ tpc' = [tpc EXCEPT ![t] = "waiting"]
        /\ mutex' = Append(mutex, t) /\ holder' = holder
    BY <1>3 DEF Wait, Created
  <2>2. tpc'[t] = "waiting" /\ \A u \in Tasks \ {t} : tpc'[u] = tpc[u]
    BY <1>0, <2>1 DEF SqlTypeOK
  <2>3. Len(mutex') = n + 1 /\ mutex'[n + 1] = t /\ \A i \in 1 .. n : mutex'[i] = mutex[i]
    BY <1>0, <2>1 DEF SqlTypeOK
  <2>4. \A i \in 1 .. n : mutex[i] # t
    BY <1>0, <2>1 DEF MutexInv, HoldsMutex, InTransaction
  <2>5. \A u \in Tasks : HoldsMutex(u)' <=> HoldsMutex(u)
    BY <2>1, <2>2 DEF HoldsMutex, InTransaction
  <2>6. \A i \in 1 .. n + 1 : i = n + 1 \/ i \in 1 .. n
    BY <1>0
  <2>7. \A i, j \in 1 .. n + 1 : mutex'[i] = mutex'[j] => i = j
    BY <1>0, <2>3, <2>4, <2>6 DEF MutexInv
  <2>8. \A i \in 1 .. n + 1 : tpc'[mutex'[i]] = "waiting" \/ (i = 1 /\ HoldsMutex(mutex[i])')
    <3>1. \A i \in 1 .. n : tpc'[mutex'[i]] = "waiting" \/ (i = 1 /\ HoldsMutex(mutex[i])')
      <4> TAKE i \in 1 .. n
      <4>1. mutex[i] \in Tasks /\ mutex'[i] = mutex[i] /\ tpc'[mutex[i]] = tpc[mutex[i]]
        BY <1>0, <2>2, <2>3, <2>4
      <4>2. tpc[mutex[i]] = "waiting" \/ (i = 1 /\ HoldsMutex(mutex[i]))
        BY <1>0 DEF MutexInv
      <4> QED
        BY <2>2, <2>1, <4>1, <4>2 DEF HoldsMutex
    <3> QED
      BY <2>2, <2>3, <2>6, <3>1
  <2>9. \A u \in Tasks : HoldsMutex(u)' => mutex' # <<>> /\ mutex'[1] = u
    BY <2>5, <1>0, <2>3 DEF MutexInv, SqlTypeOK
  <2> QED
    BY <2>3, <2>7, <2>8, <2>9 DEF MutexInv
<1>4. CASE RunStatement(t)
  BY <1>0, <1>4, <1>c DEF RunStatement, Acquired, SqlTypeOK
<1>5. CASE EnterTransaction(t)
  BY <1>0, <1>5 DEF EnterTransaction, Acquired, SqlTypeOK, HoldsMutex, InTransaction, MutexInv
<1>6. CASE Begin(t) \/ End(t) \/ EndView(t)
  BY <1>6, <1>0, <1>b DEF Begin, End, EndView, InTransaction, SqlTypeOK, HoldsMutex
<1>7. CASE TaskBody(t)
  BY <1>7, <1>b DEF TaskBody, HoldsMutex
<1>8. CASE Release(t)
  BY <1>8, <1>0, <1>c, <1>b DEF Release, MutexInv, HoldsMutex, InTransaction, SqlTypeOK
<1> QED
  BY <1>1, <1>2, <1>3, <1>4, <1>5, <1>6, <1>7, <1>8 DEF TaskStep

\* Until one slips in, what the connection has open is the head's.
LEMMA OwnInductive ==
  ASSUME SqlInv, slipped' = {}, NEW t \in Tasks, RunDirectly(t) \/ SlipIn(t) \/ Wait(t) \/ TaskStep(t)
  PROVE  OwnInv'
<1> USE SqlAssumption
<1>1. slipped = {} /\ ~SlipIn(t)
  BY DEF RunDirectly, SlipIn, Wait, TaskStep, RunStatement, EnterTransaction, Begin, TaskBody, End, EndView, Release
<1>2. SqlTypeOK /\ MutexInv /\ OwnInv
  BY <1>1 DEF SqlInv
<1>3. \A u \in Tasks : tpc[u] \in InTransaction => conn \in {NoTask, u}
  BY <1>2 DEF OwnInv, HoldsMutex, InTransaction, SqlTypeOK, MutexInv
<1>4. CASE RunDirectly(t)
  <2>1. /\ tpc[t] = "idle" /\ tpc' = [tpc EXCEPT ![t] = "done"] /\ holder' = holder /\ conn' = conn
        /\ ranIn' = [ranIn EXCEPT ![t] = conn]
    BY <1>4 DEF RunDirectly, Created
  <2>2. Parent[t] \in Tasks /\ tpc[Parent[t]] \in InTransaction
    BY <1>2, <1>4 DEF Joins, ViewActive, InTransaction, LockActive, InheritedLock, OwnInv, RunDirectly
  <2>3. conn \in {NoTask, Parent[t]}
    BY <1>3, <2>2
  <2>4. tpc'[t] = "done" /\ \A u \in Tasks \ {t} : tpc'[u] = tpc[u] /\ ranIn'[u] = ranIn[u]
    BY <1>2, <2>1 DEF SqlTypeOK
  <2>5. ranIn'[t] = conn
    BY <1>2, <2>1 DEF SqlTypeOK
  <2>6. conn' # NoTask => tpc'[conn'] = "open"
    BY <1>2, <2>1, <2>4 DEF OwnInv, SqlTypeOK
  <2> QED
    BY <1>2, <2>1, <2>3, <2>4, <2>5, <2>6 DEF OwnInv, InTransaction
<1>5. CASE Wait(t)
  BY <1>5, <1>2 DEF Wait, Created, OwnInv, SqlTypeOK, InTransaction
<1>6. CASE RunStatement(t)
  <2>1. /\ tpc[t] = "waiting" /\ mutex # <<>> /\ mutex[1] = t /\ tpc' = [tpc EXCEPT ![t] = "done"]
        /\ UNCHANGED <<holder, conn>> /\ ranIn' = [ranIn EXCEPT ![t] = conn]
    BY <1>2, <1>6 DEF RunStatement, Acquired, SqlTypeOK
  <2>2. conn = NoTask
    BY <1>2, <2>1 DEF OwnInv, HoldsMutex, InTransaction, SqlTypeOK, MutexInv
  <2> QED
    BY <1>2, <2>1, <2>2 DEF OwnInv, SqlTypeOK, InTransaction
<1>7. CASE EnterTransaction(t)
  BY <1>7, <1>2 DEF EnterTransaction, Acquired, OwnInv, SqlTypeOK, InTransaction
<1>8. CASE Begin(t)
  BY <1>8, <1>2 DEF Begin, OwnInv, SqlTypeOK, InTransaction
<1>9. CASE TaskBody(t)
  BY <1>9, <1>3, <1>2 DEF TaskBody, InTransaction, OwnInv, SqlTypeOK
<1>10. CASE End(t)
  BY <1>10, <1>2 DEF End, OwnInv, SqlTypeOK, InTransaction
<1>11. CASE EndView(t) \/ Release(t)
  BY <1>11, <1>2 DEF EndView, Release, OwnInv, SqlTypeOK, InTransaction
<1> QED
  BY <1>1, <1>4, <1>5, <1>6, <1>7, <1>8, <1>9, <1>10, <1>11 DEF TaskStep

\* Every step of a task keeps the invariant of the handle: the types, the queue
\* of the mutex, and whose transaction is open.
LEMMA SqlInvStep == SqlInv /\ [SqlNext]_sqlVars => SqlInv'
BY SqlTypes, MutexInductive, OwnInductive DEF SqlNext, SqlInv, sqlVars, SqlTypeOK, MutexInv, OwnInv, HoldsMutex

\* At the start nobody waits and nothing is open.
LEMMA SqlInvInit == SqlInit => SqlInv
BY SqlAssumption DEF SqlInit, SqlInv, SqlTypeOK, TaskStates, MutexInv, OwnInv, HoldsMutex, InTransaction

\* Every statement runs outside of any transaction, in its own or in its
\* parent's, for any tasks and however their transactions nest.
THEOREM StatementsRunInTheirOwn == SqlSpec => []OwnTransaction
<1>1. SqlInv => OwnTransaction
  BY DEF SqlInv, OwnInv, OwnTransaction
<1> QED
  BY SqlInvInit, SqlInvStep, <1>1, PTL DEF SqlSpec
-----------------------------------------------------------------------------
(* The life of an application.  The components that are up are a first part  *)
(* of them all and the list of what is started is that part, in order, so    *)
(* whoever pops takes the last; what is popped is in the hands of one call,  *)
(* and two calls hold components at once only if one came during the start.  *)

InHand(b) == \E c \in Cleaners : holds[c] = b

StartInv ==
  /\ context = "starting" <=> lpc[Starter] \in {"starting", "cleanup"}
  /\ context \in {"new", "stopped"} \/ lpc[Starter] # "idle"
  /\ context = "new" => lpc[Starter] = "idle" /\ ~timers /\ startedList = <<>>
  /\ lpc[Starter] = "idle" => position = 0 /\ \A b \in Components : component[b] = "new"
  /\ context \in {"started", "failed", "stopping"} => lpc[Starter] \in {"returned", "rejected"}
  /\ IF lpc[Starter] = "starting"
     THEN \A b \in Components :
            component[b] \in IF b < position THEN {"up"} ELSE IF b = position THEN {"up", "starting"} ELSE {"new"}
     ELSE \A b \in Components : component[b] # "starting"

ListInv ==
  /\ \A i, j \in 1 .. Len(startedList) : i < j => startedList[i] < startedList[j]
  /\ \A b \in Components : component[b] = "up" <=> \E i \in 1 .. Len(startedList) : startedList[i] = b

StopInv ==
  /\ \A c \in Stoppers : lpc[c] # "starting" /\ (lpc[c] = "wait" => c \in eager)
  /\ lpc[Starter] # "wait"
  /\ \A c \in Stoppers : lpc[c] = "cleanup" => context \in {"stopping", "stopped"}
  /\ context \in {"stopping", "stopped"} => lpc[Starter] \notin {"starting", "cleanup"}
  /\ \A c, d \in Stoppers \ eager : lpc[c] = "cleanup" /\ lpc[d] = "cleanup" => c = d
  /\ \A c \in Cleaners : holds[c] # 0 => lpc[c] = "cleanup" /\ component[holds[c]] = "stopping"
  /\ \A c, d \in Cleaners : holds[c] # 0 /\ holds[c] = holds[d] => c = d
  /\ \A b \in Components : component[b] = "stopping" => InHand(b)

GuardInv ==
  ~concurrent => \A x, y \in Runs : run[x] = "guarded" => guard /\ (run[y] = "guarded" => x = y)

AppInv ==
  /\ AppTypeOK /\ StartInv /\ ListInv /\ StopInv /\ GuardInv
  /\ NestedLifetimes /\ NothingLeftRunning

\* What is popped was up and is the last; the rest keeps its order.
LEMMA PopsTheLast ==
  ASSUME AppTypeOK, ListInv, startedList # <<>>
  PROVE  /\ Popped \in Components /\ component[Popped] = "up" /\ TheRest \in Seq(Components)
         /\ Len(TheRest) = Len(startedList) - 1 /\ Len(startedList) \in Nat \ {0}
         /\ Popped = startedList[Len(startedList)]
         /\ \A i \in 1 .. Len(startedList) - 1 : TheRest[i] = startedList[i]
<1>1. /\ startedList \in Seq(Components) /\ Len(startedList) \in Nat \ {0}
      /\ Len(startedList) \in 1 .. Len(startedList)
  BY DEF AppTypeOK
<1>2. Popped \in Components /\ component[Popped] = "up"
  BY <1>1 DEF Popped, ListInv
<1>3. TheRest \in Seq(Components) /\ Len(TheRest) = Len(startedList) - 1
  <2>1. \A i \in 1 .. Len(startedList) - 1 : startedList[i] \in Components
    BY <1>1
  <2>2. 1 \in Int /\ Len(startedList) - 1 \in Int /\ (1 <= Len(startedList) - 1 \/ Len(startedList) - 1 = 0)
    BY <1>1
  <2>3. /\ TheRest \in Seq(Components)
        /\ Len(TheRest) = IF 1 <= Len(startedList) - 1 THEN Len(startedList) - 1 - 1 + 1 ELSE 0
    BY <2>1, <2>2, SubSeqProperties DEF TheRest
  <2> QED
    BY <1>1, <2>2, <2>3
<1>4. \A i \in 1 .. Len(startedList) - 1 : TheRest[i] = startedList[i]
  BY <1>1 DEF TheRest
<1> QED
  BY <1>1, <1>2, <1>3, <1>4 DEF Popped

\* The steps of the application keep its types.
LEMMA AppTypes ==
  ASSUME AppInv, [AppNext]_appVars
  PROVE  AppTypeOK'
<1> USE ApplicationAssumption DEF AppTypeOK, Cleaners, Components, contextVars, stopVars, cronVars
<1>0. AppTypeOK /\ ListInv
  BY DEF AppInv
<1>1. CASE Start
  BY <1>0, <1>1 DEF Start
<1>2. ASSUME NEW b \in Components, StartNext(b) PROVE AppTypeOK'
  BY <1>0, <1>2 DEF StartNext
<1>3. ASSUME NEW b \in Components, StartEnds(b) PROVE AppTypeOK'
  BY <1>0, <1>3 DEF StartEnds, ListedComponents
<1>4. CASE Started
  BY <1>0, <1>4 DEF Started
<1>5. CASE StartFails
  BY <1>0, <1>5 DEF StartFails
<1>6. ASSUME NEW c \in Stoppers, Stop(c) PROVE AppTypeOK'
  BY <1>6, <1>0 DEF Stop
<1>7. ASSUME NEW c \in Stoppers, StopGoesOn(c) PROVE AppTypeOK'
  BY <1>0, <1>7 DEF StopGoesOn
<1>8. ASSUME NEW c \in Cleaners, StopNext(c) PROVE AppTypeOK'
  BY <1>0, <1>8, PopsTheLast DEF StopNext
<1>9. ASSUME NEW c \in Cleaners, NEW throws \in BOOLEAN, StopEnds(c, throws) PROVE AppTypeOK'
  BY <1>0, <1>9 DEF StopEnds
<1>10. ASSUME NEW c \in Cleaners, CleanupEnds(c) PROVE AppTypeOK'
  BY <1>10, <1>0 DEF CleanupEnds
<1>11. ASSUME NEW x \in Runs, TimerFires(x) \/ InvokeJob(x) \/ TimesOut(x) \/ RunEnds(x) PROVE AppTypeOK'
  BY <1>11, <1>0 DEF TimerFires, InvokeJob, TimesOut, RunEnds, RunStates
<1>12. CASE UNCHANGED appVars
  BY <1>0, <1>12 DEF appVars
<1> QED
  BY <1>1, <1>2, <1>3, <1>4, <1>5, <1>6, <1>7, <1>8, <1>9, <1>10, <1>11, <1>12 DEF AppNext, AppStep

\* The start: components come up one after the other, in their order.
LEMMA StartInductive ==
  ASSUME AppInv, [AppNext]_appVars
  PROVE  StartInv'
<1> USE ApplicationAssumption DEF contextVars, stopVars, cronVars
<1>0. /\ AppTypeOK /\ StartInv /\ StopInv /\ ListInv
      /\ Starter \in Cleaners /\ Stoppers \subseteq Cleaners /\ Starter \notin Stoppers
  BY DEF AppInv, Cleaners
<1>a. ASSUME lpc'[Starter] = lpc[Starter], UNCHANGED <<context, position, component, startedList, timers>>
      PROVE  StartInv'
  BY <1>0, <1>a DEF StartInv
<1>1. CASE Start
  BY <1>0, <1>1 DEF Start, StartInv, AppTypeOK
<1>2. ASSUME NEW b \in Components, StartNext(b) PROVE StartInv'
  <2>1. /\ lpc[Starter] = "starting" /\ b = position + 1 /\ position' = b
        /\ component' = [component EXCEPT ![b] = "starting"]
        /\ \A a \in Components : component[a] # "starting"
        /\ UNCHANGED <<context, startedList, lpc>>
    BY <1>2 DEF StartNext
  <2>2. \A a \in Components : component'[a] = IF a = b THEN "starting" ELSE component[a]
    BY <1>0, <2>1 DEF AppTypeOK
  <2>3. \A a \in Components : a < b \/ a = b \/ (a > b /\ a > position)
    BY <1>0, <2>1 DEF AppTypeOK, Components
  <2>4. \A a \in Components : a < b => a < position \/ a = position
    BY <1>0, <2>1 DEF AppTypeOK, Components
  <2>5. \A a \in Components :
          component'[a] \in IF a < position' THEN {"up"} ELSE IF a = position' THEN {"up", "starting"} ELSE {"new"}
    <3> TAKE a \in Components
    <3>1. CASE a < b
      BY <1>0, <2>1, <2>2, <2>4, <3>1 DEF StartInv
    <3>2. CASE a = b
      BY <2>1, <2>2, <3>2
    <3>3. CASE a > b
      BY <1>0, <2>1, <3>3, <2>2 DEF AppTypeOK, Components, StartInv
    <3> QED
      BY <2>3, <3>1, <3>2, <3>3
  <2>6. context = "starting"
    BY <1>0, <2>1 DEF StartInv
  <2> QED
    BY <2>1, <2>5, <2>6 DEF StartInv
<1>3. ASSUME NEW b \in Components, StartEnds(b) PROVE StartInv'
  BY <1>3, <1>0 DEF StartEnds, AppTypeOK, StartInv
<1>4. CASE Started
  BY <1>0, <1>4 DEF Started, AppTypeOK, StartInv
<1>5. CASE StartFails
  BY <1>0, <1>5 DEF StartFails, AppTypeOK, StartInv
<1>6. ASSUME NEW c \in Stoppers, Stop(c) PROVE StartInv'
  BY <1>0, <1>6 DEF Stop, AppTypeOK, StartInv
<1>7. ASSUME NEW c \in Stoppers, StopGoesOn(c) PROVE StartInv'
  BY <1>0, <1>7 DEF StopGoesOn, AppTypeOK, StartInv
<1>8. ASSUME NEW c \in Cleaners, StopNext(c) PROVE StartInv'
  BY <1>0, <1>8, PopsTheLast DEF StopNext, StopInv, StartInv, Cleaners, AppTypeOK
<1>9. ASSUME NEW c \in Cleaners, NEW throws \in BOOLEAN, StopEnds(c, throws) PROVE StartInv'
  BY <1>9, <1>0 DEF StopEnds, StopInv, AppTypeOK, StartInv, Cleaners
<1>10. ASSUME NEW c \in Cleaners, CleanupEnds(c) PROVE StartInv'
  BY <1>0, <1>10 DEF CleanupEnds, AppTypeOK, StopInv, StartInv, Cleaners
<1>11. ASSUME NEW x \in Runs, TimerFires(x) \/ InvokeJob(x) \/ TimesOut(x) \/ RunEnds(x) PROVE StartInv'
  BY <1>11, <1>a DEF TimerFires, InvokeJob, TimesOut, RunEnds
<1>12. CASE UNCHANGED appVars
  BY <1>12, <1>a DEF appVars
<1> QED
  BY <1>1, <1>2, <1>3, <1>4, <1>5, <1>6, <1>7, <1>8, <1>9, <1>10, <1>11, <1>12 DEF AppNext, AppStep

\* The list of what is started is what is up, in order, and nothing above a gap.
LEMMA ListInductive ==
  ASSUME AppInv, [AppNext]_appVars
  PROVE  ListInv' /\ NestedLifetimes'
<1> USE ApplicationAssumption DEF contextVars, stopVars, cronVars
<1> DEFINE n == Len(startedList)
<1>0. /\ AppTypeOK /\ StartInv /\ StopInv /\ ListInv /\ NestedLifetimes
      /\ n \in Nat /\ \A i \in 1 .. n : startedList[i] \in Components
  BY DEF AppInv, AppTypeOK
<1>a. ASSUME startedList' = startedList, \A b \in Components : component'[b] = "up" <=> component[b] = "up"
      PROVE  ListInv' /\ NestedLifetimes'
  BY <1>0, <1>a DEF ListInv, NestedLifetimes
<1>1. CASE Start
  BY <1>1, <1>a DEF Start
<1>2. ASSUME NEW b \in Components, StartNext(b) PROVE ListInv' /\ NestedLifetimes'
  BY <1>2, <1>0, <1>a DEF StartNext, AppTypeOK, StartInv
<1>3. ASSUME NEW b \in Components, StartEnds(b) PROVE ListInv' /\ NestedLifetimes'
  <2>1. /\ lpc[Starter] = "starting" /\ component[b] = "starting" /\ startedList' = Append(startedList, b)
        /\ component' = [component EXCEPT ![b] = "up"]
    BY <1>3 DEF StartEnds, ListedComponents
  <2>2. \A a \in Components : component'[a] = IF a = b THEN "up" ELSE component[a]
    BY <1>0, <2>1 DEF AppTypeOK
  <2>3. b = position
    BY <1>0, <2>1 DEF StartInv
  <2>4. Len(startedList') = n + 1 /\ startedList'[n + 1] = b /\ \A i \in 1 .. n : startedList'[i] = startedList[i]
    BY <1>0, <2>1 DEF AppTypeOK
  <2>5. \A a \in Components : component[a] = "up" => a < b
    BY <1>0, <2>1, <2>3 DEF StartInv
  <2>6. \A i \in 1 .. n : startedList[i] < b
    BY <1>0, <2>5 DEF ListInv
  <2>7. \A i \in 1 .. n + 1 : i = n + 1 \/ i \in 1 .. n
    BY <1>0
  <2>8. \A i, j \in 1 .. Len(startedList') : i < j => startedList'[i] < startedList'[j]
    BY <2>4, <1>0, <2>6, <2>7 DEF ListInv
  <2>9. \A a \in Components : component'[a] = "up" <=> \E i \in 1 .. n + 1 : startedList'[i] = a
    <3> TAKE a \in Components
    <3>1. CASE a = b
      BY <1>0, <2>2, <2>4, <3>1
    <3>2. CASE a # b
      BY <1>0, <2>2, <2>4, <2>7, <3>2 DEF ListInv
    <3> QED
      BY <3>1, <3>2
  <2>10. NestedLifetimes'
    BY <1>0, <2>1, <2>2, <2>3 DEF NestedLifetimes, StartInv
  <2> QED
    BY <2>4, <2>8, <2>9, <2>10 DEF ListInv
<1>4. CASE Started
  BY <1>4, <1>a DEF Started
<1>5. CASE StartFails
  BY <1>0, <1>5, <1>a DEF StartFails, AppTypeOK
<1>6. ASSUME NEW c \in Stoppers, Stop(c) \/ StopGoesOn(c) PROVE ListInv' /\ NestedLifetimes'
  BY <1>6, <1>a DEF Stop, StopGoesOn
<1>8. ASSUME NEW c \in Cleaners, StopNext(c) PROVE ListInv' /\ NestedLifetimes'
  <2>1. /\ Popped \in Components /\ component[Popped] = "up"
        /\ Len(TheRest) = n - 1 /\ n \in Nat \ {0} /\ Popped = startedList[n]
        /\ \A i \in 1 .. n - 1 : TheRest[i] = startedList[i]
    BY <1>0, <1>8, PopsTheLast DEF StopNext
  <2>2. startedList' = TheRest /\ \A b \in Components : component'[b] = IF b = Popped THEN "stopping" ELSE component[b]
    BY <1>0, <1>8 DEF StopNext, AppTypeOK
  <2>3. \A i \in 1 .. n - 1 : i \in 1 .. n /\ i < n
    BY <2>1
  <2>4. \A i \in 1 .. n - 1 : startedList[i] < Popped
    BY <1>0, <2>1, <2>3 DEF ListInv
  <2>5. \A i, j \in 1 .. Len(startedList') : i < j => startedList'[i] < startedList'[j]
    BY <1>0, <2>1, <2>2, <2>3 DEF ListInv
  <2>6. \A b \in Components : component'[b] = "up" <=> \E i \in 1 .. n - 1 : startedList'[i] = b
    <3> TAKE b \in Components
    <3>1. component[b] = "up" <=> \E i \in 1 .. n : startedList[i] = b
      BY <1>0 DEF ListInv
    <3>2. \A i \in 1 .. n : i = n \/ i \in 1 .. n - 1
      BY <1>0
    <3>3. \A i \in 1 .. n - 1 : startedList[i] # Popped
      BY <2>1, <2>3, <2>4 DEF Components
    <3> QED
      BY <2>1, <2>2, <2>3, <3>1, <3>2, <3>3
  <2>7. NestedLifetimes'
    <3> SUFFICES ASSUME NEW a \in Components, NEW e \in Components, a < e, component'[e] = "up"
                 PROVE  component'[a] = "up"
      BY DEF NestedLifetimes
    <3>1. e < Popped
      BY <2>1, <2>2, <2>4, <2>6
    <3>2. a # Popped
      BY <2>1, <3>1 DEF Components
    <3> QED
      BY <1>0, <2>2, <3>2 DEF NestedLifetimes
  <2> QED
    BY <2>1, <2>2, <2>5, <2>6, <2>7 DEF ListInv
<1>9. ASSUME NEW c \in Cleaners, NEW throws \in BOOLEAN, StopEnds(c, throws) PROVE ListInv' /\ NestedLifetimes'
  BY <1>9, <1>0, <1>a DEF StopEnds, StopInv, AppTypeOK
<1>10. ASSUME NEW c \in Cleaners, CleanupEnds(c) PROVE ListInv' /\ NestedLifetimes'
  BY <1>10, <1>a DEF CleanupEnds
<1>11. ASSUME NEW x \in Runs, TimerFires(x) \/ InvokeJob(x) \/ TimesOut(x) \/ RunEnds(x)
       PROVE  ListInv' /\ NestedLifetimes'
  BY <1>11, <1>a DEF TimerFires, InvokeJob, TimesOut, RunEnds
<1>12. CASE UNCHANGED appVars
  BY <1>12, <1>a DEF appVars
<1> QED
  BY <1>1, <1>2, <1>3, <1>4, <1>5, <1>6, <1>8, <1>9, <1>10, <1>11, <1>12 DEF AppNext, AppStep

\* The calls of stop: what is being stopped is in the hands of one of them, and of
\* those that did not come during the start only one cleans up.
LEMMA StopInductive ==
  ASSUME AppInv, [AppNext]_appVars
  PROVE  StopInv'
<1> USE ApplicationAssumption DEF contextVars, stopVars, cronVars
<1>0. /\ AppTypeOK /\ StartInv /\ StopInv /\ ListInv
      /\ Starter \in Cleaners /\ Stoppers \subseteq Cleaners /\ Starter \notin Stoppers
      /\ \A c \in Cleaners : c \in Stoppers \/ c = Starter
      /\ 0 \notin Components /\ \A c \in Cleaners : holds[c] \in Components \union {0}
  BY DEF AppInv, Cleaners, AppTypeOK, Components
<1>a. ASSUME UNCHANGED <<lpc, context, eager, holds>>,
             \A b \in Components : component'[b] = "stopping" <=> component[b] = "stopping"
      PROVE  StopInv'
  BY <1>0, <1>a DEF StopInv, InHand
<1>b. ASSUME UNCHANGED <<eager, holds, component>>,
             \A c \in Cleaners : lpc[c] = "cleanup" /\ holds[c] # 0 => lpc'[c] = "cleanup"
      PROVE  /\ \A c \in Cleaners : holds'[c] # 0 => lpc'[c] = "cleanup" /\ component'[holds'[c]] = "stopping"
             /\ \A c, d \in Cleaners : holds'[c] # 0 /\ holds'[c] = holds'[d] => c = d
             /\ \A b \in Components : component'[b] = "stopping" => InHand(b)'
  BY <1>0, <1>b DEF StopInv, InHand
<1>1. CASE Start
  BY <1>0, <1>1, <1>b DEF Start, AppTypeOK, StopInv
<1>2. ASSUME NEW b \in Components, StartNext(b) PROVE StopInv'
  BY <1>2, <1>0, <1>a DEF StartNext, AppTypeOK, StartInv
<1>3. ASSUME NEW b \in Components, StartEnds(b) PROVE StopInv'
  BY <1>3, <1>0, <1>a DEF StartEnds, AppTypeOK
<1>4. CASE Started
  BY <1>0, <1>4, <1>b DEF Started, AppTypeOK, StartInv, StopInv
<1>5. CASE StartFails
  BY <1>0, <1>5 DEF StartFails, AppTypeOK, StartInv, StopInv, InHand
<1>6. ASSUME NEW c \in Stoppers, Stop(c) PROVE StopInv'
  BY <1>0, <1>6 DEF Stop, AppTypeOK, StopInv, InHand, StartInv
<1>7. ASSUME NEW c \in Stoppers, StopGoesOn(c) PROVE StopInv'
  BY <1>0, <1>7, <1>b DEF StopGoesOn, AppTypeOK, StopInv
<1>8. ASSUME NEW c \in Cleaners, StopNext(c) PROVE StopInv'
  BY <1>0, <1>8, PopsTheLast DEF StopNext, AppTypeOK, StopInv, InHand
<1>9. ASSUME NEW c \in Cleaners, NEW throws \in BOOLEAN, StopEnds(c, throws) PROVE StopInv'
  <2> DEFINE p == holds[c]
  <2>1. /\ lpc[c] = "cleanup" /\ p # 0 /\ p \in Components /\ UNCHANGED <<lpc, context, eager>>
        /\ holds'[c] = 0 /\ \A d \in Cleaners \ {c} : holds'[d] = holds[d]
        /\ \A b \in Components : component'[b] = IF b = p THEN "down" ELSE component[b]
    BY <1>0, <1>9 DEF StopEnds, AppTypeOK
  <2>2. \A d \in Cleaners \ {c} : holds[d] # p
    BY <1>0, <2>1 DEF StopInv
  <2> HIDE DEF p
  <2>3. \A d \in Cleaners : holds'[d] # 0 => lpc'[d] = "cleanup" /\ component'[holds'[d]] = "stopping"
    BY <1>0, <2>1, <2>2 DEF StopInv
  <2>4. \A d, e \in Cleaners : holds'[d] # 0 /\ holds'[d] = holds'[e] => d = e
    BY <1>0, <2>1 DEF StopInv
  <2>5. \A b \in Components : component'[b] = "stopping" => \E d \in Cleaners : holds'[d] = b
    BY <2>1, <1>0 DEF StopInv, InHand, p
  <2> QED
    BY <1>0, <2>1, <2>3, <2>4, <2>5 DEF StopInv, InHand
<1>10. ASSUME NEW c \in Cleaners, CleanupEnds(c) PROVE StopInv'
  BY <1>0, <1>10, <1>b DEF CleanupEnds, AppTypeOK, StopInv
<1>11. ASSUME NEW x \in Runs, TimerFires(x) \/ InvokeJob(x) \/ TimesOut(x) \/ RunEnds(x) PROVE StopInv'
  BY <1>11, <1>a DEF TimerFires, InvokeJob, TimesOut, RunEnds
<1>12. CASE UNCHANGED appVars
  BY <1>12, <1>a DEF appVars
<1> QED
  BY <1>1, <1>2, <1>3, <1>4, <1>5, <1>6, <1>7, <1>8, <1>9, <1>10, <1>11, <1>12 DEF AppNext, AppStep

\* When the cleanup of a stop ends, no other call of stop holds a component, or one
\* of the two came during the start.
LEMMA LeftoverInductive ==
  ASSUME AppInv, [AppNext]_appVars
  PROVE  NothingLeftRunning'
<1> USE ApplicationAssumption DEF contextVars, stopVars, cronVars
<1> DEFINE Gone(b) == \/ component[b] \in {"new", "down", "failed"}
                      \/ component[b] = "stopping" /\ \E c \in eager, d \in Stoppers : c # d /\ lpc[d] # "idle"
           Over == context \in {"stopped", "failed"}
<1>0. /\ AppTypeOK /\ StartInv /\ StopInv /\ ListInv /\ NothingLeftRunning
      /\ Starter \in Cleaners /\ Stoppers \subseteq Cleaners /\ Starter \notin Stoppers
      /\ \A c \in Cleaners : c \in Stoppers \/ c = Starter
      /\ 0 \notin Components /\ \A c \in Cleaners : holds[c] \in Components \union {0}
  BY DEF AppInv, Cleaners, AppTypeOK, Components
<1>1. Over => lpc[Starter] # "starting" /\ \A b \in Components : component[b] \notin {"up", "starting"}
  BY <1>0 DEF StartInv, NothingLeftRunning
<1>2. ASSUME context' = context, timers' = timers \/ lpc[Starter] = "starting", eager \subseteq eager',
             \A c \in Stoppers : lpc[c] # "idle" => lpc'[c] # "idle",
             Over => \A b \in Components : component'[b] \in {component[b], "down"}
      PROVE  NothingLeftRunning'
  BY <1>0, <1>1, <1>2 DEF NothingLeftRunning
<1>3. ASSUME context' \notin {"stopped", "failed"} PROVE NothingLeftRunning'
  BY <1>3 DEF NothingLeftRunning
<1>4. CASE Start \/ Started
  BY <1>3, <1>4 DEF Start, Started
<1>5. ASSUME NEW b \in Components, StartNext(b) \/ StartEnds(b) PROVE NothingLeftRunning'
  BY <1>5, <1>1, <1>3 DEF StartNext, StartEnds
<1>6. CASE StartFails
  BY <1>6, <1>1, <1>3 DEF StartFails
<1>7. ASSUME NEW c \in Stoppers, Stop(c) PROVE NothingLeftRunning'
  BY <1>0, <1>7, <1>2, <1>3 DEF Stop, AppTypeOK, StartInv, NothingLeftRunning
<1>8. ASSUME NEW c \in Stoppers, StopGoesOn(c) PROVE NothingLeftRunning'
  BY <1>0, <1>8, <1>2, <1>3 DEF StopGoesOn, AppTypeOK
<1>9. ASSUME NEW c \in Cleaners, StopNext(c) PROVE NothingLeftRunning'
  BY <1>0, <1>9, PopsTheLast, <1>1, <1>3 DEF StopNext
<1>10. ASSUME NEW c \in Cleaners, NEW throws \in BOOLEAN, StopEnds(c, throws) PROVE NothingLeftRunning'
  BY <1>0, <1>10, <1>2 DEF StopEnds, AppTypeOK
<1>11. ASSUME NEW c \in Cleaners, CleanupEnds(c) PROVE NothingLeftRunning'
  <2>1. /\ lpc[c] = "cleanup" /\ holds[c] = 0 /\ startedList = <<>>
        /\ UNCHANGED <<component, holds, eager>>
        /\ \A d \in Cleaners \ {c} : lpc'[d] = lpc[d]
        /\ lpc'[c] \in {"returned", "rejected"}
    BY <1>0, <1>11 DEF CleanupEnds, AppTypeOK
  <2>2. \A b \in Components : component[b] # "up"
    BY <1>0, <2>1 DEF ListInv
  <2>3. \A d \in Stoppers : lpc[d] # "idle" => lpc'[d] # "idle"
    BY <1>0, <2>1
  <2>4. lpc[Starter] # "starting"
    BY <1>0, <2>1 DEF StopInv
  <2>5. \A b \in Components : component[b] \in {"new", "down", "failed", "stopping"}
    <3> TAKE b \in Components
    <3>1. component[b] \in {"new", "starting", "up", "stopping", "down", "failed"}
      BY <1>0 DEF AppTypeOK
    <3>2. component[b] # "starting"
      BY <1>0, <2>4 DEF StartInv
    <3> QED
      BY <2>2, <3>1, <3>2
  <2>6. ASSUME NEW b \in Components, component[b] = "stopping"
        PROVE  \E d \in Cleaners \ {c} : lpc[d] = "cleanup"
    BY <1>0, <2>6, <2>1 DEF StopInv, InHand
  <2>7. CASE c = Starter
    BY <1>11, <2>7, <1>0, <2>1, <2>6, <2>5 DEF CleanupEnds, StopInv, NothingLeftRunning
  <2>8. CASE c # Starter
    <3>1. c \in Stoppers /\ lpc[Starter] # "cleanup"
      BY <1>0, <2>1, <2>8 DEF StopInv
    <3>2. ASSUME NEW b \in Components, component[b] = "stopping"
          PROVE  \E e \in eager', d \in Stoppers : e # d /\ lpc'[d] # "idle"
      BY <1>0, <2>6, <3>1, <3>2, <2>1, <2>3 DEF StopInv
    <3>3. \A b \in Components : Gone(b)'
      BY <2>1, <2>5, <3>2
    <3>4. context' = "stopped" => ~timers'
      BY <1>11, <2>8, <1>0 DEF CleanupEnds, NothingLeftRunning
    <3> QED
      BY <3>3, <3>4 DEF NothingLeftRunning
  <2> QED
    BY <2>7, <2>8
<1>12. ASSUME NEW x \in Runs, TimerFires(x) \/ InvokeJob(x) \/ TimesOut(x) \/ RunEnds(x)
       PROVE  NothingLeftRunning'
  BY <1>0, <1>12 DEF TimerFires, InvokeJob, TimesOut, RunEnds, NothingLeftRunning
<1>13. CASE UNCHANGED appVars
  BY <1>0, <1>13 DEF appVars, NothingLeftRunning
<1> QED
  BY <1>4, <1>5, <1>6, <1>7, <1>8, <1>9, <1>10, <1>11, <1>12, <1>13 DEF AppNext, AppStep

\* The guard is set while a guarded execution goes on.
LEMMA GuardInductive ==
  ASSUME AppInv, [AppNext]_appVars
  PROVE  GuardInv'
<1> USE DEF contextVars, stopVars, cronVars
<1>0. AppTypeOK /\ GuardInv
  BY DEF AppInv
<1>1. ASSUME NEW x \in Runs, TimerFires(x) \/ InvokeJob(x) \/ TimesOut(x) \/ RunEnds(x) PROVE GuardInv'
  BY <1>1, <1>0 DEF TimerFires, InvokeJob, TimesOut, RunEnds, GuardInv, AppTypeOK, MayRun
<1>2. CASE UNCHANGED <<concurrent, guard, run>>
  BY <1>0, <1>2 DEF GuardInv
<1>3. CASE \/ AppStep \/ Start \/ StartFails
           \/ \E c \in Stoppers : Stop(c)
           \/ UNCHANGED appVars
  <2>1. UNCHANGED <<concurrent, guard, run>>
    BY <1>3, Zenon DEF AppStep, Start, StartFails, Stop, Started, StartNext, StartEnds, StopNext, CleanupEnds, StopEnds,
       StopGoesOn, appVars
  <2> QED
    BY <1>2, <2>1
<1> QED
  BY <1>1, <1>3 DEF AppNext

\* At the start nothing is up and nobody has called.
LEMMA AppInvInit == AppInit => AppInv
<1> SUFFICES ASSUME AppInit PROVE AppInv
  OBVIOUS
<1>1. AppTypeOK
  <2>1. startedList \in Seq(Components)
    BY DEF AppInit
  <2>2. component \in [Components -> {"new", "starting", "up", "stopping", "down", "failed"}]
    BY DEF AppInit
  <2>3. lpc \in [Cleaners -> {"idle", "starting", "wait", "cleanup", "returned", "rejected"}]
    BY DEF AppInit
  <2>4. holds \in [Cleaners -> Components \union {0}]
    BY DEF AppInit
  <2>5. run \in [Runs -> RunStates]
    BY DEF AppInit, RunStates
  <2>6. position \in 0..NumComponents
    BY ApplicationAssumption DEF AppInit
  <2>7. /\ context \in {"new", "starting", "started", "failed", "stopping", "stopped"}
        /\ broken \subseteq Cleaners /\ stopPromise \in Stoppers \union {Starter}
        /\ eager \subseteq Stoppers
        /\ timers \in BOOLEAN /\ concurrent \in BOOLEAN /\ guard \in BOOLEAN
    BY DEF AppInit
  <2> QED
    BY <2>1, <2>2, <2>3, <2>4, <2>5, <2>6, <2>7 DEF AppTypeOK
<1>2. Starter \notin Stoppers /\ Starter \in Cleaners /\ Stoppers \subseteq Cleaners /\ 0 \notin Components
  BY ApplicationAssumption DEF Cleaners, Components
<1>3. StartInv /\ ListInv /\ StopInv /\ GuardInv
  BY <1>2 DEF AppInit, StartInv, ListInv, StopInv, GuardInv
<1>4. NestedLifetimes /\ NothingLeftRunning
  BY DEF AppInit, NestedLifetimes, NothingLeftRunning
<1> QED
  BY <1>1, <1>3, <1>4 DEF AppInv

\* Lifetimes nest without any fairness of the scheduling.
LEMMA LifetimesHold == AppInit /\ [][AppNext]_appVars => []Lifetimes
<1>1. AppInv /\ [AppNext]_appVars => AppInv'
  BY AppTypes, StartInductive, ListInductive, StopInductive, LeftoverInductive, GuardInductive DEF AppInv
<1>2. AppInv => Lifetimes
  BY DEF AppInv, Lifetimes, GuardInv, GuardedRunsApart
<1> QED
  BY AppInvInit, <1>1, <1>2, PTL

\* The application context starts and stops its components like nested scopes,
\* whoever calls stop and when, and a job never overlaps itself behind its guard.
THEOREM ApplicationsAreNested == AppSpec => []Lifetimes
BY LifetimesHold, PTL DEF AppSpec

-----------------------------------------------------------------------------
(* The migration runner.  A version enters the table once, from the todo    *)
(* list of a runner whose deployment has it, and a todo list leaves out     *)
(* only what is applied already.  While all deployments agree, what is      *)
(* applied is a first part of what they have.                               *)

Applying == {"apply", "up"}

\* The runner has ended, or is about to end, with success.
Succeeding(r) == mpc[r] = "done" \/ (mpc[r] = "releasing" /\ outcome[r] = "done")

TodoInv ==
  \A r \in Runners :
    /\ mpc[r] = "up" => todo[r] # {}
    /\ mpc[r] \in Applying => \A v \in todo[r] : discovered[r][v] # None
    /\ mpc[r] \in Applying /\ mode[r] = "all" =>
         \A v \in Versions : discovered[r][v] # None => v \in todo[r] \/ history[v] = discovered[r][v]
    /\ Succeeding(r) /\ mode[r] = "all" =>
         \A v \in Versions : discovered[r][v] # None => history[v] = discovered[r][v]

HistoryInv ==
  /\ \A v \in Versions : history[v] # None <=> \E i \in 1 .. Len(applied) : applied[i] = v
  /\ \A v \in Versions : history[v] # None => \E r \in Runners : mpc[r] # "idle" /\ discovered[r][v] # None
  /\ \A i, j \in 1 .. Len(applied) : i # j => applied[i] # applied[j]

Agreed == \A r, q \in Runners : mpc[r] # "idle" /\ mpc[q] # "idle" => discovered[r] = discovered[q]

PrefixInv ==
  Agreed =>
    /\ \A v, w \in Versions, r \in Runners :
         history[v] # None /\ w < v /\ mpc[r] # "idle" /\ discovered[r][w] # None => history[w] # None
    /\ \A r \in Runners : mpc[r] \in Applying =>
         \A v \in todo[r], w \in Versions :
           w < v /\ discovered[r][w] # None => w \in todo[r] \/ history[w] # None
    /\ \A i, j \in 1 .. Len(applied) : i < j => applied[i] < applied[j]

LockInv ==
  immediate => \A r \in Runners :
    /\ mpc[r] # "deciding"
    /\ mpc[r] \in Body => lockRow.by = r \/ r \in robbed

MigrationIInv ==
  /\ MigrationTypeOK /\ TodoInv /\ HistoryInv /\ PrefixInv /\ LockInv

\* A set of natural numbers that is not empty has a lowest member.
LEMMA LowestIsLeast ==
  ASSUME NEW S, S \subseteq Nat, S # {}
  PROVE  Lowest(S) \in S /\ \A w \in S : Lowest(S) <= w
<1> DEFINE R == {ss \in Nat \X Nat : ss[1] < ss[2]}
<1>1. IsWellFoundedOn(R, Nat)
  BY NatLessThanWellFounded DEF OpToRel
<1> HIDE DEF R
<1>2. PICK x \in S : \A y \in S : ~ (<<y, x>> \in R)
  BY <1>1, WFMin
<1>3. \A y \in S : ~ (y < x)
  BY <1>2 DEF R
<1>4. \A y \in S : x <= y
  BY <1>3
<1> QED
  BY <1>4 DEF Lowest

\* What planning leaves to do: versions of the deployment that are not applied;
\* without the step option all of them, and none before one that is left out.
LEMMA PlanningIsExact ==
  ASSUME MigrationTypeOK, NEW r \in Runners, NEW m \in Modes
  PROVE  LET p == Pending(discovered[r], history)
             q == Planned(m, p)
         IN /\ q \subseteq p /\ p \subseteq Versions
            /\ m # "step" => q = p
            /\ \A v \in q, w \in p : w < v => w \in q
<1> DEFINE p == Pending(discovered[r], history)
           q == Planned(m, p)
<1>1. p \subseteq Versions /\ p \subseteq Nat
  BY MigrationAssumption DEF Pending
<1>2. CASE m = "step" /\ p # {}
  BY <1>2, <1>1, LowestIsLeast DEF Planned
<1>3. CASE ~(m = "step" /\ p # {})
  BY <1>3, <1>1 DEF Planned
<1> QED
  BY <1>2, <1>3

\* The version that a runner in its transaction is about to record.
LEMMA NextVersion ==
  ASSUME MigrationTypeOK, TodoInv, NEW r \in Runners, mpc[r] = "up"
  PROVE  /\ Lowest(todo[r]) \in todo[r] /\ Lowest(todo[r]) \in Versions
         /\ \A w \in todo[r] : w \in Versions /\ w \in Nat /\ Lowest(todo[r]) <= w
BY MigrationAssumption, LowestIsLeast DEF MigrationTypeOK, TodoInv

LEMMA TodoTyped ==
  ASSUME NEW lists \in [Runners -> SUBSET Versions], NEW r \in Runners, NEW vs \in SUBSET Versions
  PROVE  [lists EXCEPT ![r] = vs] \in [Runners -> SUBSET Versions]
  OBVIOUS

\* Every step keeps the types; the todo list lends the version that is recorded.
LEMMA MigrationTypes == MigrationTypeOK /\ TodoInv /\ [MigrationNext]_migrationVars => MigrationTypeOK'
<1> SUFFICES ASSUME MigrationTypeOK, TodoInv, [MigrationNext]_migrationVars PROVE MigrationTypeOK'
  OBVIOUS
<1> USE MigrationAssumption DEF MigrationTypeOK, RunnerStates, Body, Ended, Modes, LockRows
<1>1. ASSUME NEW r \in Runners, NEW d \in Deployments, NEW m \in Modes, Execute(r, d, m) PROVE MigrationTypeOK'
  BY <1>1 DEF Execute, lockVars, dbVars
<1>2. ASSUME NEW r \in Runners, NEW d \in Deployments, Status(r, d) PROVE MigrationTypeOK'
  BY <1>2 DEF Status, lockVars, dbVars
<1>3. ASSUME NEW r \in Runners, AcquireLock(r) PROVE MigrationTypeOK'
  <2>1. LockedBy(r) \in LockRows /\ Robbed(r) \subseteq Runners
    BY DEF LockedBy, Robbed
  <2>2. lockRow' \in LockRows /\ robbed' \in SUBSET Runners
    BY <1>3, <2>1 DEF AcquireLock
  <2>3. mpc' \in [Runners -> RunnerStates]
    <3>1. mpc' = [mpc EXCEPT ![r] = "locked"] \/ mpc' = [mpc EXCEPT ![r] = "failed"]
      BY <1>3 DEF AcquireLock
    <3> QED
      BY <3>1
  <2> QED
    BY <1>3, <2>2, <2>3 DEF AcquireLock, dbVars, runVars
<1>4. ASSUME NEW r \in Runners, AcquireBusy(r) PROVE MigrationTypeOK'
  BY <1>4 DEF AcquireBusy, lockVars, dbVars, runVars
<1>5. ASSUME NEW r \in Runners, ReadLock(r) PROVE MigrationTypeOK'
  BY <1>5 DEF ReadLock, dbVars, runVars
<1>6. ASSUME NEW r \in Runners, WriteLock(r) PROVE MigrationTypeOK'
  <2>1. LockedBy(r) \in LockRows /\ Robbed(r) \subseteq Runners /\ NoRow \in LockRows
    BY DEF LockedBy, Robbed, NoRow
  <2>2. lockRow' \in LockRows /\ robbed' \in SUBSET Runners /\ seenLock' \in [Runners -> LockRows]
    BY <1>6, <2>1 DEF WriteLock
  <2>3. mpc' \in [Runners -> RunnerStates]
    BY <1>6 DEF WriteLock
  <2> QED
    BY <1>6, <2>2, <2>3 DEF WriteLock, dbVars, runVars
<1>7. ASSUME NEW r \in Runners, Plan(r) PROVE MigrationTypeOK'
  <2>0. mode[r] \in Modes
    BY DEF MigrationTypeOK
  <2> DEFINE p == Pending(discovered[r], history)
             q == Planned(mode[r], p)
  <2>1. Planned(mode[r], Pending(discovered[r], history)) \subseteq Versions
    BY <2>0, PlanningIsExact
  <2> QED
    <3>1. todo' \in [Runners -> SUBSET Versions]
      BY <1>7, <2>1 DEF Plan
    <3>2. mpc' \in [Runners -> RunnerStates] /\ outcome' \in [Runners -> Ended]
      BY <1>7 DEF Plan
    <3> QED
      BY <1>7, <3>1, <3>2 DEF Plan, lockVars, dbVars
<1>8. ASSUME NEW r \in Runners, BeginMigration(r) PROVE MigrationTypeOK'
  BY <1>8 DEF BeginMigration, lockVars, runVars
<1>9. ASSUME NEW r \in Runners, CommitMigration(r) PROVE MigrationTypeOK'
  <2>1. PICK v \in Versions : v = Lowest(todo[r])
    BY <1>9, NextVersion DEF CommitMigration
  <2>2. Append(applied, v) \in Seq(Versions)
    OBVIOUS
  <2>3. discovered[r][v] \in Checksums \union {None}
    OBVIOUS
  <2>4. history' \in [Versions -> Checksums \union {None}]
    BY <1>9, <2>1, <2>3 DEF CommitMigration
  <2>5. applied' \in Seq(Versions)
    BY <1>9, <2>1, <2>2 DEF CommitMigration
  <2>6. todo' \in [Runners -> SUBSET Versions]
    <3>1. todo' = [todo EXCEPT ![r] = todo[r] \ {v}] \/ todo' = todo
      BY <1>9, <2>1 DEF CommitMigration
    <3>2. todo[r] \ {v} \in SUBSET Versions
      OBVIOUS
    <3>3. [todo EXCEPT ![r] = todo[r] \ {v}] \in [Runners -> SUBSET Versions] /\ todo \in [Runners -> SUBSET Versions]
      BY <3>2, TodoTyped
    <3> QED
      BY <3>1, <3>3, Zenon
  <2>7. mpc' \in [Runners -> RunnerStates] /\ outcome' \in [Runners -> Ended]
    <3>1. mpc' = [mpc EXCEPT ![r] = "releasing"] \/ mpc' = [mpc EXCEPT ![r] = "apply"]
      BY <1>9 DEF CommitMigration
    <3>2. outcome' = [outcome EXCEPT ![r] = "failed"] \/ outcome' = outcome
      BY <1>9 DEF CommitMigration
    <3> QED
      BY <3>1, <3>2, ZenonT(60)
  <2>8. writer' \in Runners \union {None}
    BY <1>9 DEF CommitMigration, Unlocked
  <2> QED
    BY <1>9, <2>4, <2>5, <2>6, <2>7, <2>8 DEF CommitMigration, lockVars
<1>10. ASSUME NEW r \in Runners, MigrationBusy(r) PROVE MigrationTypeOK'
  BY <1>10 DEF MigrationBusy, lockVars, dbVars
<1>11. ASSUME NEW r \in Runners, MigrationFails(r) PROVE MigrationTypeOK'
  BY <1>11 DEF MigrationFails, Unlocked, lockVars
<1>12. ASSUME NEW r \in Runners, AllApplied(r) PROVE MigrationTypeOK'
  BY <1>12 DEF AllApplied, lockVars, dbVars
<1>13. ASSUME NEW r \in Runners, ReleaseLock(r) PROVE MigrationTypeOK'
  BY <1>13 DEF ReleaseLock, NoRow, dbVars
<1>14. ASSUME NEW r \in Runners, Crash(r) PROVE MigrationTypeOK'
  BY <1>14 DEF Crash, Unlocked, lockVars, runVars
<1>15. ASSUME LockExpires PROVE MigrationTypeOK'
  BY <1>15 DEF LockExpires, dbVars, runVars
<1>16. CASE UNCHANGED migrationVars
  BY <1>16 DEF migrationVars, lockVars, dbVars, runVars
<1> HIDE DEF MigrationTypeOK, RunnerStates, Body, Ended, Modes, LockRows
<1> QED
  BY <1>1, <1>2, <1>3, <1>4, <1>5, <1>6, <1>7, <1>8, <1>9, <1>10, <1>11, <1>12, <1>13, <1>14, <1>15, <1>16
     DEF MigrationNext, RunnerStep

\* Every step keeps the lock invariant: only a runner that took the lock is past it.
LEMMA LockInvInductive == MigrationTypeOK /\ LockInv /\ [MigrationNext]_migrationVars => LockInv'
<1> SUFFICES ASSUME MigrationTypeOK, LockInv, [MigrationNext]_migrationVars PROVE LockInv'
  OBVIOUS
<1>1. ASSUME NEW r \in Runners, NEW d \in Deployments, NEW m \in Modes, Execute(r, d, m) PROVE LockInv'
  BY <1>1 DEF Execute, MigrationTypeOK, lockVars, dbVars, runVars, LockInv, Body, Robbed, LockedBy, NoRow, RunnerStates, Ended
<1>2. ASSUME NEW r \in Runners, NEW d \in Deployments, Status(r, d) PROVE LockInv'
  BY <1>2 DEF Status, MigrationTypeOK, lockVars, dbVars, runVars, LockInv, Body, Robbed, LockedBy, NoRow, RunnerStates, Ended
<1>3. ASSUME NEW r \in Runners, AcquireLock(r) PROVE LockInv'
  BY <1>3 DEF AcquireLock, runVars, MigrationTypeOK, LockInv, Body, Robbed, LockedBy
<1>4. ASSUME NEW r \in Runners, AcquireBusy(r) PROVE LockInv'
  BY <1>4 DEF AcquireBusy, MigrationTypeOK, lockVars, dbVars, runVars, LockInv, Body, Robbed, LockedBy, NoRow, RunnerStates, Ended
<1>5. ASSUME NEW r \in Runners, ReadLock(r) PROVE LockInv'
  BY <1>5 DEF ReadLock, MigrationTypeOK, lockVars, dbVars, runVars, LockInv, Body, Robbed, LockedBy, NoRow, RunnerStates, Ended
<1>6. ASSUME NEW r \in Runners, WriteLock(r) PROVE LockInv'
  BY <1>6 DEF WriteLock, MigrationTypeOK, lockVars, dbVars, runVars, LockInv, Body, Robbed, LockedBy, NoRow, RunnerStates, Ended
<1>7. ASSUME NEW r \in Runners, Plan(r) PROVE LockInv'
  BY <1>7 DEF Plan, MigrationTypeOK, lockVars, dbVars, runVars, LockInv, Body, Robbed, LockedBy, NoRow, RunnerStates, Ended
<1>8. ASSUME NEW r \in Runners, BeginMigration(r) PROVE LockInv'
  BY <1>8 DEF BeginMigration, MigrationTypeOK, lockVars, dbVars, runVars, LockInv, Body, Robbed, LockedBy, NoRow, RunnerStates, Ended
<1>9. ASSUME NEW r \in Runners, CommitMigration(r) PROVE LockInv'
  BY <1>9 DEF CommitMigration, MigrationTypeOK, lockVars, dbVars, runVars, LockInv, Body, Robbed, LockedBy, NoRow, RunnerStates, Ended
<1>10. ASSUME NEW r \in Runners, MigrationBusy(r) PROVE LockInv'
  BY <1>10 DEF MigrationBusy, MigrationTypeOK, lockVars, dbVars, runVars, LockInv, Body, Robbed, LockedBy, NoRow, RunnerStates, Ended
<1>11. ASSUME NEW r \in Runners, MigrationFails(r) PROVE LockInv'
  BY <1>11 DEF MigrationFails, MigrationTypeOK, lockVars, dbVars, runVars, LockInv, Body, Robbed, LockedBy, NoRow, RunnerStates, Ended
<1>12. ASSUME NEW r \in Runners, AllApplied(r) PROVE LockInv'
  BY <1>12 DEF AllApplied, MigrationTypeOK, lockVars, dbVars, runVars, LockInv, Body, Robbed, LockedBy, NoRow, RunnerStates, Ended
<1>13. ASSUME NEW r \in Runners, ReleaseLock(r) PROVE LockInv'
  BY <1>13 DEF ReleaseLock, MigrationTypeOK, lockVars, dbVars, runVars, LockInv, Body, Robbed, LockedBy, NoRow, RunnerStates, Ended
<1>14. ASSUME NEW r \in Runners, Crash(r) PROVE LockInv'
  BY <1>14 DEF Crash, MigrationTypeOK, lockVars, dbVars, runVars, LockInv, Body, Robbed, LockedBy, NoRow, RunnerStates, Ended
<1>15. ASSUME LockExpires PROVE LockInv'
  BY <1>15 DEF LockExpires, MigrationTypeOK, lockVars, dbVars, runVars, LockInv, Body, Robbed, LockedBy, NoRow, RunnerStates, Ended
<1>16. CASE UNCHANGED migrationVars
  BY <1>16 DEF migrationVars, MigrationTypeOK, lockVars, dbVars, runVars, LockInv, Body, Robbed, LockedBy, NoRow, RunnerStates, Ended
<1> QED
  BY <1>1, <1>2, <1>3, <1>4, <1>5, <1>6, <1>7, <1>8, <1>9, <1>10, <1>11, <1>12, <1>13, <1>14, <1>15, <1>16
     DEF MigrationNext, RunnerStep

\* Every step keeps the todo lists parts of what their runner discovered.
LEMMA TodoInvInductive == MigrationTypeOK /\ TodoInv /\ [MigrationNext]_migrationVars => TodoInv'
<1> SUFFICES ASSUME MigrationTypeOK, TodoInv, [MigrationNext]_migrationVars PROVE TodoInv'
  OBVIOUS
<1>1. ASSUME NEW r \in Runners, NEW d \in Deployments, NEW m \in Modes, Execute(r, d, m) PROVE TodoInv'
  BY <1>1 DEF Execute, MigrationTypeOK, lockVars, dbVars, runVars, TodoInv, Applying, Succeeding, Body, Ended, RunnerStates
<1>2. ASSUME NEW r \in Runners, NEW d \in Deployments, Status(r, d) PROVE TodoInv'
  BY <1>2 DEF Status, MigrationTypeOK, lockVars, dbVars, runVars, TodoInv, Applying, Succeeding, Body, Ended, RunnerStates
<1>3. ASSUME NEW r \in Runners, AcquireLock(r) PROVE TodoInv'
  BY <1>3 DEF AcquireLock, MigrationTypeOK, lockVars, dbVars, runVars, TodoInv, Applying, Succeeding, Body, Ended, RunnerStates
<1>4. ASSUME NEW r \in Runners, AcquireBusy(r) PROVE TodoInv'
  BY <1>4 DEF AcquireBusy, MigrationTypeOK, lockVars, dbVars, runVars, TodoInv, Applying, Succeeding, Body, Ended, RunnerStates
<1>5. ASSUME NEW r \in Runners, ReadLock(r) PROVE TodoInv'
  BY <1>5 DEF ReadLock, MigrationTypeOK, lockVars, dbVars, runVars, TodoInv, Applying, Succeeding, Body, Ended, RunnerStates
<1>6. ASSUME NEW r \in Runners, WriteLock(r) PROVE TodoInv'
  BY <1>6 DEF WriteLock, MigrationTypeOK, lockVars, dbVars, runVars, TodoInv, Applying, Succeeding, Body, Ended, RunnerStates
<1>7. ASSUME NEW r \in Runners, Plan(r) PROVE TodoInv'
  <2> DEFINE p == Pending(discovered[r], history)
             q == Planned(mode[r], p)
  <2>1. q \subseteq p /\ (mode[r] # "step" => q = p)
    BY PlanningIsExact DEF MigrationTypeOK
  <2>2. \A v \in Versions : v \in p <=> discovered[r][v] # None /\ history[v] = None
    BY DEF Pending
  <2>3. /\ \/ /\ mpc' = [mpc EXCEPT ![r] = "releasing"]
              /\ todo' = todo /\ (outcome' = [outcome EXCEPT ![r] = "failed"] \/ mode[r] = "dry")
           \/ /\ mpc' = [mpc EXCEPT ![r] = "apply"]
              /\ todo' = [todo EXCEPT ![r] = q] /\ outcome' = outcome
              /\ \A v \in Versions : history[v] # None => discovered[r][v] = history[v]
        /\ discovered' = discovered /\ mode' = mode /\ history' = history
        /\ \A x \in Runners \ {r} : outcome'[x] = outcome[x]
    BY <1>7 DEF Plan, Valid, dbVars, MigrationTypeOK
  <2>4. p \subseteq Versions
    BY DEF Pending
  <2> HIDE DEF p, q
  <2>5. CASE mpc' = [mpc EXCEPT ![r] = "releasing"]
    BY <2>3, <2>5 DEF MigrationTypeOK, TodoInv, Applying, Succeeding, Ended
  <2>6. CASE mpc' = [mpc EXCEPT ![r] = "apply"]
    BY <2>3, <2>6, <2>1, <2>2, <2>4 DEF MigrationTypeOK, TodoInv, Applying, Succeeding, Ended
  <2> QED
    BY <2>3, <2>5, <2>6
<1>8. ASSUME NEW r \in Runners, BeginMigration(r) PROVE TodoInv'
  BY <1>8 DEF BeginMigration, MigrationTypeOK, lockVars, dbVars, runVars, TodoInv, Applying, Succeeding, Body, Ended, RunnerStates
<1>9. ASSUME NEW r \in Runners, CommitMigration(r) PROVE TodoInv'
  <2>1. PICK v \in Versions : v = Lowest(todo[r])
    BY <1>9, NextVersion DEF CommitMigration
  <2>2. v \in todo[r] /\ mpc[r] = "up" /\ discovered' = discovered /\ mode' = mode
    BY <1>9, <2>1, NextVersion DEF CommitMigration
  <2>3. CASE history[v] # None
    BY <1>9, <2>1, <2>3, <2>2 DEF CommitMigration, MigrationTypeOK, TodoInv, Applying, Succeeding, Ended
  <2>4. CASE history[v] = None
    <3>1. /\ mpc' = [mpc EXCEPT ![r] = "apply"] /\ outcome' = outcome
          /\ todo' = [todo EXCEPT ![r] = todo[r] \ {v}] /\ history' = [history EXCEPT ![v] = discovered[r][v]]
      BY <1>9, <2>1, <2>4 DEF CommitMigration
    <3>2. \A w \in Versions : history[w] # None => history'[w] = history[w]
      BY <2>4, <3>1 DEF MigrationTypeOK
    <3>3. history'[v] = discovered[r][v]
      BY <3>1 DEF MigrationTypeOK
    <3> QED
      BY <2>2, <3>1, <3>2, <3>3 DEF MigrationTypeOK, TodoInv, Applying, Succeeding, Ended
  <2> QED
    BY <2>3, <2>4
<1>10. ASSUME NEW r \in Runners, MigrationBusy(r) PROVE TodoInv'
  BY <1>10 DEF MigrationBusy, MigrationTypeOK, lockVars, dbVars, runVars, TodoInv, Applying, Succeeding, Body, Ended, RunnerStates
<1>11. ASSUME NEW r \in Runners, MigrationFails(r) PROVE TodoInv'
  BY <1>11 DEF MigrationFails, MigrationTypeOK, lockVars, dbVars, runVars, TodoInv, Applying, Succeeding, Body, Ended, RunnerStates
<1>12. ASSUME NEW r \in Runners, AllApplied(r) PROVE TodoInv'
  BY <1>12 DEF AllApplied, MigrationTypeOK, lockVars, dbVars, runVars, TodoInv, Applying, Succeeding, Body, Ended, RunnerStates
<1>13. ASSUME NEW r \in Runners, ReleaseLock(r) PROVE TodoInv'
  BY <1>13 DEF ReleaseLock, MigrationTypeOK, lockVars, dbVars, runVars, TodoInv, Applying, Succeeding, Body, Ended, RunnerStates
<1>14. ASSUME NEW r \in Runners, Crash(r) PROVE TodoInv'
  BY <1>14 DEF Crash, MigrationTypeOK, lockVars, dbVars, runVars, TodoInv, Applying, Succeeding, Body, Ended, RunnerStates
<1>15. ASSUME LockExpires PROVE TodoInv'
  BY <1>15 DEF LockExpires, MigrationTypeOK, lockVars, dbVars, runVars, TodoInv, Applying, Succeeding, Body, Ended, RunnerStates
<1>16. CASE UNCHANGED migrationVars
  BY <1>16 DEF migrationVars, MigrationTypeOK, lockVars, dbVars, runVars, TodoInv, Applying, Succeeding, Body, Ended, RunnerStates
<1> QED
  BY <1>1, <1>2, <1>3, <1>4, <1>5, <1>6, <1>7, <1>8, <1>9, <1>10, <1>11, <1>12, <1>13, <1>14, <1>15, <1>16
     DEF MigrationNext, RunnerStep

\* A runner that has started keeps the migrations it was started with.

\* A runner that has begun stays begun, with the deployment it discovered.
LEMMA DeploymentsStay == MigrationTypeOK /\ [MigrationNext]_migrationVars => \A q \in Runners : mpc[q] # "idle" => mpc'[q] # "idle" /\ discovered'[q] = discovered[q]
<1> SUFFICES ASSUME MigrationTypeOK, [MigrationNext]_migrationVars PROVE \A q \in Runners : mpc[q] # "idle" => mpc'[q] # "idle" /\ discovered'[q] = discovered[q]
  OBVIOUS
<1>1. ASSUME NEW r \in Runners, NEW d \in Deployments, NEW m \in Modes, Execute(r, d, m) PROVE \A q \in Runners : mpc[q] # "idle" => mpc'[q] # "idle" /\ discovered'[q] = discovered[q]
  BY <1>1 DEF Execute, MigrationTypeOK, lockVars, dbVars, runVars, RunnerStates, Body, Ended
<1>2. ASSUME NEW r \in Runners, NEW d \in Deployments, Status(r, d) PROVE \A q \in Runners : mpc[q] # "idle" => mpc'[q] # "idle" /\ discovered'[q] = discovered[q]
  BY <1>2 DEF Status, MigrationTypeOK, lockVars, dbVars, runVars, RunnerStates, Body, Ended
<1>3. ASSUME NEW r \in Runners, AcquireLock(r) PROVE \A q \in Runners : mpc[q] # "idle" => mpc'[q] # "idle" /\ discovered'[q] = discovered[q]
  BY <1>3 DEF AcquireLock, MigrationTypeOK, lockVars, dbVars, runVars, RunnerStates, Body, Ended
<1>4. ASSUME NEW r \in Runners, AcquireBusy(r) PROVE \A q \in Runners : mpc[q] # "idle" => mpc'[q] # "idle" /\ discovered'[q] = discovered[q]
  BY <1>4 DEF AcquireBusy, MigrationTypeOK, lockVars, dbVars, runVars, RunnerStates, Body, Ended
<1>5. ASSUME NEW r \in Runners, ReadLock(r) PROVE \A q \in Runners : mpc[q] # "idle" => mpc'[q] # "idle" /\ discovered'[q] = discovered[q]
  BY <1>5 DEF ReadLock, MigrationTypeOK, lockVars, dbVars, runVars, RunnerStates, Body, Ended
<1>6. ASSUME NEW r \in Runners, WriteLock(r) PROVE \A q \in Runners : mpc[q] # "idle" => mpc'[q] # "idle" /\ discovered'[q] = discovered[q]
  BY <1>6 DEF WriteLock, MigrationTypeOK, lockVars, dbVars, runVars, RunnerStates, Body, Ended
<1>7. ASSUME NEW r \in Runners, Plan(r) PROVE \A q \in Runners : mpc[q] # "idle" => mpc'[q] # "idle" /\ discovered'[q] = discovered[q]
  BY <1>7 DEF Plan, MigrationTypeOK, lockVars, dbVars, runVars, RunnerStates, Body, Ended
<1>8. ASSUME NEW r \in Runners, BeginMigration(r) PROVE \A q \in Runners : mpc[q] # "idle" => mpc'[q] # "idle" /\ discovered'[q] = discovered[q]
  BY <1>8 DEF BeginMigration, MigrationTypeOK, lockVars, dbVars, runVars, RunnerStates, Body, Ended
<1>9. ASSUME NEW r \in Runners, CommitMigration(r) PROVE \A q \in Runners : mpc[q] # "idle" => mpc'[q] # "idle" /\ discovered'[q] = discovered[q]
  BY <1>9 DEF CommitMigration, MigrationTypeOK, lockVars, dbVars, runVars, RunnerStates, Body, Ended
<1>10. ASSUME NEW r \in Runners, MigrationBusy(r) PROVE \A q \in Runners : mpc[q] # "idle" => mpc'[q] # "idle" /\ discovered'[q] = discovered[q]
  BY <1>10 DEF MigrationBusy, MigrationTypeOK, lockVars, dbVars, runVars, RunnerStates, Body, Ended
<1>11. ASSUME NEW r \in Runners, MigrationFails(r) PROVE \A q \in Runners : mpc[q] # "idle" => mpc'[q] # "idle" /\ discovered'[q] = discovered[q]
  BY <1>11 DEF MigrationFails, MigrationTypeOK, lockVars, dbVars, runVars, RunnerStates, Body, Ended
<1>12. ASSUME NEW r \in Runners, AllApplied(r) PROVE \A q \in Runners : mpc[q] # "idle" => mpc'[q] # "idle" /\ discovered'[q] = discovered[q]
  BY <1>12 DEF AllApplied, MigrationTypeOK, lockVars, dbVars, runVars, RunnerStates, Body, Ended
<1>13. ASSUME NEW r \in Runners, ReleaseLock(r) PROVE \A q \in Runners : mpc[q] # "idle" => mpc'[q] # "idle" /\ discovered'[q] = discovered[q]
  BY <1>13 DEF ReleaseLock, MigrationTypeOK, lockVars, dbVars, runVars, RunnerStates, Body, Ended
<1>14. ASSUME NEW r \in Runners, Crash(r) PROVE \A q \in Runners : mpc[q] # "idle" => mpc'[q] # "idle" /\ discovered'[q] = discovered[q]
  BY <1>14 DEF Crash, MigrationTypeOK, lockVars, dbVars, runVars, RunnerStates, Body, Ended
<1>15. ASSUME LockExpires PROVE \A q \in Runners : mpc[q] # "idle" => mpc'[q] # "idle" /\ discovered'[q] = discovered[q]
  BY <1>15 DEF LockExpires, MigrationTypeOK, lockVars, dbVars, runVars, RunnerStates, Body, Ended
<1>16. CASE UNCHANGED migrationVars
  BY <1>16 DEF migrationVars, MigrationTypeOK, lockVars, dbVars, runVars, RunnerStates, Body, Ended
<1> QED
  BY <1>1, <1>2, <1>3, <1>4, <1>5, <1>6, <1>7, <1>8, <1>9, <1>10, <1>11, <1>12, <1>13, <1>14, <1>15, <1>16
     DEF MigrationNext, RunnerStep

\* Deployments that agree after a step have agreed before it.
LEMMA AgreedBefore == MigrationTypeOK /\ [MigrationNext]_migrationVars /\ Agreed' => Agreed
  BY DeploymentsStay DEF Agreed

\* Every step keeps the table and what was applied in agreement.
LEMMA HistoryInductive == MigrationTypeOK /\ TodoInv /\ HistoryInv /\ [MigrationNext]_migrationVars => HistoryInv'
<1> SUFFICES ASSUME MigrationTypeOK, TodoInv, HistoryInv, [MigrationNext]_migrationVars PROVE HistoryInv'
  OBVIOUS
<1>0. \A q \in Runners : mpc[q] # "idle" => mpc'[q] # "idle" /\ discovered'[q] = discovered[q]
  BY DeploymentsStay
<1>1. ASSUME NEW r \in Runners, NEW d \in Deployments, NEW m \in Modes, Execute(r, d, m) PROVE HistoryInv'
  BY <1>1, <1>0 DEF Execute, lockVars, dbVars, runVars, HistoryInv
<1>2. ASSUME NEW r \in Runners, NEW d \in Deployments, Status(r, d) PROVE HistoryInv'
  BY <1>2, <1>0 DEF Status, lockVars, dbVars, runVars, HistoryInv
<1>3. ASSUME NEW r \in Runners, AcquireLock(r) PROVE HistoryInv'
  BY <1>3, <1>0 DEF AcquireLock, lockVars, dbVars, runVars, HistoryInv
<1>4. ASSUME NEW r \in Runners, AcquireBusy(r) PROVE HistoryInv'
  BY <1>4, <1>0 DEF AcquireBusy, lockVars, dbVars, runVars, HistoryInv
<1>5. ASSUME NEW r \in Runners, ReadLock(r) PROVE HistoryInv'
  BY <1>5, <1>0 DEF ReadLock, lockVars, dbVars, runVars, HistoryInv
<1>6. ASSUME NEW r \in Runners, WriteLock(r) PROVE HistoryInv'
  BY <1>6, <1>0 DEF WriteLock, lockVars, dbVars, runVars, HistoryInv
<1>7. ASSUME NEW r \in Runners, Plan(r) PROVE HistoryInv'
  BY <1>7, <1>0 DEF Plan, lockVars, dbVars, runVars, HistoryInv
<1>8. ASSUME NEW r \in Runners, BeginMigration(r) PROVE HistoryInv'
  BY <1>8, <1>0 DEF BeginMigration, lockVars, dbVars, runVars, HistoryInv
<1>9. ASSUME NEW r \in Runners, CommitMigration(r) PROVE HistoryInv'
  <2>1. PICK v \in Versions : v = Lowest(todo[r])
    BY <1>9, NextVersion DEF CommitMigration
  <2>2. CASE history[v] # None
    BY <1>9, <2>1, <2>2, <1>0 DEF CommitMigration, HistoryInv
  <2>3. CASE history[v] = None
    <3>1. history' = [history EXCEPT ![v] = discovered[r][v]] /\ applied' = Append(applied, v)
      BY <1>9, <2>1, <2>3 DEF CommitMigration
    <3>2. mpc[r] = "up" /\ v \in todo[r] /\ discovered[r][v] # None
      BY <1>9, <2>1, NextVersion DEF CommitMigration, TodoInv, Applying
    <3>3. /\ Len(applied') = Len(applied) + 1 /\ Len(applied) \in Nat
          /\ applied'[Len(applied) + 1] = v
          /\ \A i \in 1 .. Len(applied) : applied'[i] = applied[i]
      BY <3>1 DEF MigrationTypeOK
    <3>4. history'[v] # None /\ \A w \in Versions \ {v} : history'[w] = history[w]
      BY <3>1, <3>2 DEF MigrationTypeOK
    <3>5. \A i \in 1 .. Len(applied) : applied[i] # v
      BY <2>3 DEF HistoryInv
    <3>6. \A i \in 1 .. Len(applied') : i \in 1 .. Len(applied) \/ i = Len(applied) + 1
      BY <3>3
    <3>7. \A w \in Versions : history'[w] # None <=> \E i \in 1 .. Len(applied') : applied'[i] = w
      BY <3>3, <3>4, <3>6 DEF HistoryInv
    <3>8. \A w \in Versions : history'[w] # None => \E q \in Runners : mpc'[q] # "idle" /\ discovered'[q][w] # None
      BY <1>0, <3>2, <3>4 DEF HistoryInv
    <3>9. \A i, j \in 1 .. Len(applied') : i # j => applied'[i] # applied'[j]
      BY <3>3, <3>5, <3>6 DEF HistoryInv
    <3> QED
      BY <3>7, <3>8, <3>9 DEF HistoryInv
  <2> QED
    BY <2>2, <2>3
<1>10. ASSUME NEW r \in Runners, MigrationBusy(r) PROVE HistoryInv'
  BY <1>10, <1>0 DEF MigrationBusy, lockVars, dbVars, runVars, HistoryInv
<1>11. ASSUME NEW r \in Runners, MigrationFails(r) PROVE HistoryInv'
  BY <1>11, <1>0 DEF MigrationFails, lockVars, dbVars, runVars, HistoryInv
<1>12. ASSUME NEW r \in Runners, AllApplied(r) PROVE HistoryInv'
  BY <1>12, <1>0 DEF AllApplied, lockVars, dbVars, runVars, HistoryInv
<1>13. ASSUME NEW r \in Runners, ReleaseLock(r) PROVE HistoryInv'
  BY <1>13, <1>0 DEF ReleaseLock, lockVars, dbVars, runVars, HistoryInv
<1>14. ASSUME NEW r \in Runners, Crash(r) PROVE HistoryInv'
  BY <1>14, <1>0 DEF Crash, lockVars, dbVars, runVars, HistoryInv
<1>15. ASSUME LockExpires PROVE HistoryInv'
  BY <1>15, <1>0 DEF LockExpires, lockVars, dbVars, runVars, HistoryInv
<1>16. CASE UNCHANGED migrationVars
  BY <1>16, <1>0 DEF migrationVars, lockVars, dbVars, runVars, HistoryInv
<1> QED
  BY <1>1, <1>2, <1>3, <1>4, <1>5, <1>6, <1>7, <1>8, <1>9, <1>10, <1>11, <1>12, <1>13, <1>14, <1>15, <1>16
     DEF MigrationNext, RunnerStep

\* Every step keeps what is applied a first part of what all deployments have.
LEMMA PrefixInductive == MigrationTypeOK /\ TodoInv /\ HistoryInv /\ PrefixInv /\ [MigrationNext]_migrationVars => PrefixInv'
<1> SUFFICES ASSUME MigrationTypeOK, TodoInv, HistoryInv, PrefixInv, [MigrationNext]_migrationVars PROVE PrefixInv'
  OBVIOUS
<1> USE MigrationAssumption
<1>0. \A q \in Runners : mpc[q] # "idle" => mpc'[q] # "idle" /\ discovered'[q] = discovered[q]
  BY DeploymentsStay
<1>a. Agreed' => Agreed
  BY AgreedBefore
<1>b. ASSUME history' = history, applied' = applied, Agreed'
      PROVE  /\ \A v, w \in Versions, r \in Runners :
                  history'[v] # None /\ w < v /\ mpc'[r] # "idle" /\ discovered'[r][w] # None => history'[w] # None
             /\ \A i, j \in 1 .. Len(applied') : i < j => applied'[i] < applied'[j]
  BY <1>0, <1>b, <1>a DEF HistoryInv, Agreed, PrefixInv
<1>c. ASSUME history' = history, applied' = applied,
             \A q \in Runners : mpc'[q] \in Applying => mpc[q] \in Applying /\ todo'[q] = todo[q]
      PROVE  PrefixInv'
  BY <1>0, <1>c, <1>a, <1>b DEF Applying, PrefixInv
<1>1. ASSUME NEW r \in Runners, NEW d \in Deployments, NEW m \in Modes, Execute(r, d, m) PROVE PrefixInv'
  BY <1>1, <1>c DEF Execute, MigrationTypeOK, Applying, RunnerStates, Body, Ended, lockVars, dbVars, runVars
<1>2. ASSUME NEW r \in Runners, NEW d \in Deployments, Status(r, d) PROVE PrefixInv'
  BY <1>2, <1>c DEF Status, MigrationTypeOK, Applying, RunnerStates, Body, Ended, lockVars, dbVars, runVars
<1>3. ASSUME NEW r \in Runners, AcquireLock(r) PROVE PrefixInv'
  BY <1>3, <1>c DEF AcquireLock, MigrationTypeOK, Applying, RunnerStates, Body, Ended, lockVars, dbVars, runVars
<1>4. ASSUME NEW r \in Runners, AcquireBusy(r) PROVE PrefixInv'
  BY <1>4, <1>c DEF AcquireBusy, MigrationTypeOK, Applying, RunnerStates, Body, Ended, lockVars, dbVars, runVars
<1>5. ASSUME NEW r \in Runners, ReadLock(r) PROVE PrefixInv'
  BY <1>5, <1>c DEF ReadLock, MigrationTypeOK, Applying, RunnerStates, Body, Ended, lockVars, dbVars, runVars
<1>6. ASSUME NEW r \in Runners, WriteLock(r) PROVE PrefixInv'
  BY <1>6, <1>c DEF WriteLock, MigrationTypeOK, Applying, RunnerStates, Body, Ended, lockVars, dbVars, runVars
<1>7. ASSUME NEW r \in Runners, Plan(r) PROVE PrefixInv'
  <2> DEFINE p == Pending(discovered[r], history)
             q == Planned(mode[r], p)
  <2>1. q \subseteq p /\ \A v \in q, w \in p : w < v => w \in q
    BY PlanningIsExact DEF MigrationTypeOK
  <2>2. p \subseteq Versions /\ \A v \in Versions : v \in p <=> discovered[r][v] # None /\ history[v] = None
    BY DEF Pending
  <2>3. /\ history' = history /\ applied' = applied /\ discovered' = discovered
        /\ \/ mpc' = [mpc EXCEPT ![r] = "releasing"] /\ todo' = todo
           \/ mpc' = [mpc EXCEPT ![r] = "apply"] /\ todo' = [todo EXCEPT ![r] = q]
    BY <1>7 DEF Plan, dbVars
  <2> HIDE DEF p, q
  <2>4. ASSUME Agreed', NEW x \in Runners, mpc'[x] \in Applying, NEW v \in todo'[x], NEW w \in Versions,
               w < v, discovered'[x][w] # None
        PROVE  w \in todo'[x] \/ history'[w] # None
    <3>1. CASE mpc[x] \in Applying /\ todo'[x] = todo[x]
      BY <1>a, <2>3, <2>4, <3>1 DEF PrefixInv
    <3>2. CASE ~(mpc[x] \in Applying /\ todo'[x] = todo[x])
      <4>1. x = r /\ todo'[r] = q
        BY <2>3, <2>4, <3>2 DEF MigrationTypeOK, Applying
      <4> QED
        BY <2>1, <2>2, <2>3, <2>4, <4>1
    <3> QED
      BY <3>1, <3>2
  <2> QED
    BY <1>b, <2>3, <2>4 DEF PrefixInv
<1>8. ASSUME NEW r \in Runners, BeginMigration(r) PROVE PrefixInv'
  BY <1>8, <1>c DEF BeginMigration, MigrationTypeOK, Applying, RunnerStates, Body, Ended, lockVars, dbVars, runVars
<1>9. ASSUME NEW r \in Runners, CommitMigration(r) PROVE PrefixInv'
  <2>1. PICK v \in Versions : v = Lowest(todo[r])
    BY <1>9, NextVersion DEF CommitMigration
  <2>2. CASE history[v] # None
    BY <1>9, <2>1, <2>2, <1>c DEF CommitMigration, MigrationTypeOK, Applying
  <2>3. CASE history[v] = None
    <3>1. /\ history' = [history EXCEPT ![v] = discovered[r][v]] /\ applied' = Append(applied, v)
          /\ todo' = [todo EXCEPT ![r] = todo[r] \ {v}] /\ mpc' = [mpc EXCEPT ![r] = "apply"]
          /\ discovered' = discovered
      BY <1>9, <2>1, <2>3 DEF CommitMigration
    <3>2. /\ mpc[r] = "up" /\ v \in todo[r] /\ discovered[r][v] # None
          /\ \A w \in todo[r] : v <= w
      BY <1>9, <2>1, NextVersion DEF CommitMigration, TodoInv, Applying
    <3>3. /\ Len(applied') = Len(applied) + 1 /\ Len(applied) \in Nat
          /\ applied'[Len(applied) + 1] = v
          /\ \A i \in 1 .. Len(applied) : applied'[i] = applied[i] /\ applied[i] \in Versions
      BY <3>1 DEF MigrationTypeOK
    <3>4. history'[v] # None /\ \A w \in Versions \ {v} : history'[w] = history[w]
      BY <3>1, <3>2 DEF MigrationTypeOK
    <3>5. \A x \in Runners : mpc'[x] \in Applying =>
            mpc[x] \in Applying /\ todo'[x] \subseteq todo[x] /\ todo[x] \ {v} \subseteq todo'[x]
      BY <3>1, <3>2 DEF MigrationTypeOK, Applying
    <3>6. ASSUME Agreed', NEW x \in Versions, NEW w \in Versions, NEW q \in Runners,
                 history'[x] # None, w < x, mpc'[q] # "idle", discovered'[q][w] # None
          PROVE  history'[w] # None
      <4>1. CASE x = v
        <5>1. discovered[r][w] # None
          BY <3>1, <3>6, <3>2, <1>0 DEF Agreed
        <5>2. w \in todo[r] \/ history[w] # None
          BY <1>a, <3>2, <3>6, <4>1, <5>1 DEF PrefixInv, Applying
        <5>3. v \in Nat /\ w \in Nat /\ w < v
          BY <3>6, <4>1
        <5>4. w \notin todo[r]
          BY <3>2, <5>3
        <5> QED
          BY <3>4, <5>2, <5>3, <5>4
      <4>2. CASE x # v
        BY <3>2, <1>0, <3>6, <3>4, <4>2, <1>a DEF Agreed, PrefixInv
      <4> QED
        BY <4>1, <4>2
    <3>7. ASSUME Agreed', NEW x \in Runners, mpc'[x] \in Applying, NEW u \in todo'[x], NEW w \in Versions,
                 w < u, discovered'[x][w] # None
          PROVE  w \in todo'[x] \/ history'[w] # None
      BY <3>1, <3>5, <3>7, <1>a, <3>4 DEF PrefixInv
    <3>8. ASSUME Agreed', NEW i \in 1 .. Len(applied) PROVE applied[i] < v
      <4>1. history[applied[i]] # None /\ applied[i] \in Versions
        BY <3>3 DEF HistoryInv
      <4>2. ~ (v < applied[i])
        BY <1>a, <2>3, <3>2, <3>8, <4>1 DEF PrefixInv
      <4>3. applied[i] # v
        BY <2>3, <4>1
      <4>4. applied[i] \in Nat /\ v \in Nat
        BY <4>1
      <4> QED
        BY <4>2, <4>3, <4>4
    <3>9. \A i \in 1 .. Len(applied') : i \in 1 .. Len(applied) \/ i = Len(applied) + 1
      BY <3>3
    <3>10. ASSUME Agreed', NEW i \in 1 .. Len(applied'), NEW j \in 1 .. Len(applied'), i < j
           PROVE  applied'[i] < applied'[j]
      BY <3>3, <3>10, <1>a, <3>8, <3>9 DEF PrefixInv
    <3> QED
      BY <3>6, <3>7, <3>10 DEF PrefixInv
  <2> QED
    BY <2>2, <2>3
<1>10. ASSUME NEW r \in Runners, MigrationBusy(r) PROVE PrefixInv'
  BY <1>10, <1>c DEF MigrationBusy, MigrationTypeOK, Applying, RunnerStates, Body, Ended, lockVars, dbVars, runVars
<1>11. ASSUME NEW r \in Runners, MigrationFails(r) PROVE PrefixInv'
  BY <1>11, <1>c DEF MigrationFails, MigrationTypeOK, Applying, RunnerStates, Body, Ended, lockVars, dbVars, runVars
<1>12. ASSUME NEW r \in Runners, AllApplied(r) PROVE PrefixInv'
  BY <1>12, <1>c DEF AllApplied, MigrationTypeOK, Applying, RunnerStates, Body, Ended, lockVars, dbVars, runVars
<1>13. ASSUME NEW r \in Runners, ReleaseLock(r) PROVE PrefixInv'
  BY <1>13, <1>c DEF ReleaseLock, MigrationTypeOK, Applying, RunnerStates, Body, Ended, lockVars, dbVars, runVars
<1>14. ASSUME NEW r \in Runners, Crash(r) PROVE PrefixInv'
  BY <1>14, <1>c DEF Crash, MigrationTypeOK, Applying, RunnerStates, Body, Ended, lockVars, dbVars, runVars
<1>15. ASSUME LockExpires PROVE PrefixInv'
  BY <1>15, <1>c DEF LockExpires, MigrationTypeOK, Applying, RunnerStates, Body, Ended, lockVars, dbVars, runVars
<1>16. CASE UNCHANGED migrationVars
  BY <1>16, <1>c DEF migrationVars, MigrationTypeOK, Applying, RunnerStates, Body, Ended, lockVars, dbVars, runVars
<1> QED
  BY <1>1, <1>2, <1>3, <1>4, <1>5, <1>6, <1>7, <1>8, <1>9, <1>10, <1>11, <1>12, <1>13, <1>14, <1>15, <1>16
     DEF MigrationNext, RunnerStep

\* Before the first runner nothing is discovered, applied or recorded.
LEMMA MigrationIInvInit == MigrationInit => MigrationIInv
<1> SUFFICES ASSUME MigrationInit PROVE MigrationIInv
  OBVIOUS
<1>1. MigrationTypeOK
  BY DEF MigrationInit, MigrationTypeOK, NoRow, LockRows, RunnerStates, Modes, Ended
<1>2. TodoInv /\ PrefixInv /\ LockInv /\ HistoryInv
  BY DEF MigrationInit, TodoInv, PrefixInv, LockInv, HistoryInv, Applying, Succeeding, Body
<1> QED
  BY <1>1, <1>2 DEF MigrationIInv

\* Migrations are exact: one runner at a time on SQLite unless a lock ran out, a
\* success means everything is applied with its own checksum, and versions are
\* applied once and, by deployments that agree, in their order.
THEOREM MigrationsStayExact == MigrationSpec => []MigrationsExact
<1>1. MigrationIInv /\ [MigrationNext]_migrationVars => MigrationIInv'
  BY MigrationTypes, LockInvInductive, TodoInvInductive, HistoryInductive, PrefixInductive DEF MigrationIInv
<1>2. MigrationIInv => MigrationsExact
  <2> SUFFICES ASSUME MigrationIInv PROVE MigrationsExact
    OBVIOUS
  <2>1. ExclusiveUnlessExpired
    BY DEF MigrationIInv, LockInv, ExclusiveUnlessExpired
  <2>2. DoneMeansApplied
    BY DEF MigrationIInv, TodoInv, Succeeding, DoneMeansApplied
  <2>3. DOMAIN applied = 1 .. Len(applied)
    BY DEF MigrationIInv, MigrationTypeOK
  <2>4. AppliedInOrder
    BY <2>3 DEF MigrationIInv, HistoryInv, PrefixInv, Agreed, AppliedInOrder
  <2> QED
    BY <2>1, <2>2, <2>4 DEF MigrationsExact
<1> QED
  BY MigrationIInvInit, <1>1, <1>2, PTL DEF MigrationSpec

-----------------------------------------------------------------------------
(* RPC calls.  While the stream of a caller is open, what he has got, the   *)
(* chain that settle builds and the frames on their way to him are one      *)
(* sequence, in which the items stand in the order the handler made them.   *)

RpcFrames == [type : {"call", "next", "complete", "error", "result", "failure"}, n : Nat]

RpcTypes ==
  /\ callKind \in [Calls -> Kinds] /\ batchLeft \subseteq batch
  /\ \A c \in batch : callKind[c] = "unary"
  /\ client \in [Calls -> {"idle", "open", "failed", "settled"}]
  /\ server \in [Calls -> {"none", "running", "done"}]
  /\ yielded \in [Calls -> Nat]
  /\ up \in [Calls -> Seq(RpcFrames)] /\ down \in [Calls -> Seq(RpcFrames)]
  /\ chain \in [Calls -> Seq(RpcFrames)] /\ got \in [Calls -> Seq(Nat)]

\* A call starts once, from the frame that invokeOne has sent ahead of all others.
StartsOnce(c) ==
  /\ \A i \in 1 .. Len(up[c]) : up[c][i].type = "call" => i = 1 /\ server[c] = "none"
  /\ server[c] = "none" => yielded[c] = 0 /\ (c \in batch \/ down[c] = << >>)
  /\ client[c] = "idle" => server[c] = "none" /\ up[c] = << >> /\ chain[c] = << >> /\ got[c] = << >>

\* A stream is answered with frames that have a stream field; only streams have a chain.
AnswersAreFrames(c) ==
  IF Streams(c) THEN \A i \in 1 .. Len(down[c]) : down[c][i].type \in StreamFrames
  ELSE chain[c] = << >>

\* The items of a stream that is not over, numbered from its first one.
OneSequence(c) ==
  Streams(c) /\ client[c] \notin {"failed", "settled"} =>
    /\ \A i \in 1 .. Len(chain[c]) : chain[c][i].type = "next" => chain[c][i].n = Len(got[c]) + i
    /\ \A i \in 1 .. Len(down[c]) :
         down[c][i].type = "next" => down[c][i].n = Len(got[c]) + Len(chain[c]) + i
    /\ server[c] # "done" => yielded[c] = Len(got[c]) + Len(chain[c]) + Len(down[c])

\* What the caller has got so far.
GotInOrder(c) == \A i \in 1 .. Len(got[c]) : got[c][i] = i

CallInv(c) == StartsOnce(c) /\ AnswersAreFrames(c) /\ OneSequence(c) /\ GotInOrder(c)
CallsInv == \A c \in Calls : CallInv(c)

\* The queues of the model: a frame is put at the end and taken from the front.
LEMMA PutFrame ==
  ASSUME NEW q \in [Calls -> Seq(RpcFrames)], NEW c \in Calls, NEW f \in RpcFrames
  PROVE  /\ Put(q, c, f) \in [Calls -> Seq(RpcFrames)]
         /\ \A d \in Calls \ {c} : Put(q, c, f)[d] = q[d]
         /\ Len(Put(q, c, f)[c]) = Len(q[c]) + 1 /\ Len(q[c]) \in Nat
         /\ Put(q, c, f)[c][Len(q[c]) + 1] = f
         /\ \A i \in 1 .. Len(q[c]) : Put(q, c, f)[c][i] = q[c][i]
BY DEF Put

\* Taking a frame off the wire keeps the types of what is on it.
LEMMA TakeFrame ==
  ASSUME NEW s \in Seq(RpcFrames), s # << >>
  PROVE  /\ Tail(s) \in Seq(RpcFrames) /\ Head(s) \in RpcFrames /\ Head(s) = s[1]
         /\ Len(Tail(s)) = Len(s) - 1 /\ Len(s) \in Nat /\ Len(s) > 0
         /\ \A i \in 1 .. Len(Tail(s)) : Tail(s)[i] = s[i + 1]
  OBVIOUS

\* The chain is worked off from its front.
LEMMA ChainTurns ==
  ASSUME NEW s \in Seq(RpcFrames), s # << >>
  PROVE  SubSeq(s, 1, 1 - 1) \o SubSeq(s, 1 + 1, Len(s)) = Tail(s)
OBVIOUS

\* What one link of the chain does: its frame goes, and an item reaches the caller
\* while his stream is open, or the stream ends.
LEMMA ChainedEffect ==
  ASSUME RpcTypes, NEW c \in Calls, Chained(c)
  PROVE  /\ chain[c] # << >> /\ chain' = [chain EXCEPT ![c] = Tail(chain[c])]
         /\ chain' \in [Calls -> Seq(RpcFrames)]
         /\ \/ /\ client' = client /\ client[c] = "open" /\ chain[c][1].type = "next"
               /\ got' = [got EXCEPT ![c] = Append(got[c], chain[c][1].n)]
            \/ client' = client /\ client[c] # "open" /\ got' = got
            \/ (\E r \in {"failed", "settled"} : client' = [client EXCEPT ![c] = r]) /\ got' = got
         /\ client' \in [Calls -> {"idle", "open", "failed", "settled"}] /\ got' \in [Calls -> Seq(Nat)]
         /\ UNCHANGED <<callKind, batch, up, down, batchLeft, server, yielded>>
<1>1. chain[c] # << >> /\ chain[c] \in Seq(RpcFrames)
  BY DEF Chained, Ready, RpcTypes
<1>2. chain' = [chain EXCEPT ![c] = Tail(chain[c])]
  BY <1>1, ChainTurns DEF Chained, Ready
<1>3. chain' \in [Calls -> Seq(RpcFrames)] /\ chain[c][1] \in RpcFrames
  BY <1>1, <1>2, TakeFrame DEF RpcTypes
<1>4. \/ /\ client' = client /\ client[c] = "open" /\ chain[c][1].type = "next"
         /\ got' = [got EXCEPT ![c] = Append(got[c], chain[c][1].n)]
      \/ client' = client /\ client[c] # "open" /\ got' = got
      \/ (\E r \in {"failed", "settled"} : client' = [client EXCEPT ![c] = r]) /\ got' = got
  BY DEF Chained, Ready, Settled
<1>5. client' \in [Calls -> {"idle", "open", "failed", "settled"}]
  BY <1>4 DEF RpcTypes
<1>6. chain[c][1].n \in Nat
  BY <1>3 DEF RpcFrames
<1>7. got' \in [Calls -> Seq(Nat)]
  <2>1. got \in [Calls -> Seq(Nat)] /\ got[c] \in Seq(Nat)
    BY DEF RpcTypes
  <2>2. Append(got[c], chain[c][1].n) \in Seq(Nat)
    BY <1>6, <2>1
  <2> QED
    BY <1>4, <2>1, <2>2
<1> QED
  BY <1>1, <1>2, <1>3, <1>4, <1>5, <1>7 DEF Chained

\* Every step of a call, its handler and its transport keeps the types.
LEMMA RpcTyped == RpcTypes /\ [RpcNext]_rpcVars => RpcTypes'
<1> SUFFICES ASSUME RpcTypes, [RpcNext]_rpcVars PROVE RpcTypes'
  OBVIOUS
<1>1. ASSUME NEW c \in Calls, Feed(c) PROVE RpcTypes'
  <2>1. \A t \in {"next", "complete", "error"} : Frame(t, 0) \in RpcFrames
    BY DEF RpcFrames, Frame
  <2>2. up' = up \/ \E t \in {"next", "complete", "error"} : up' = Put(up, c, Frame(t, 0))
    BY <1>1 DEF Feed
  <2>3. up \in [Calls -> Seq(RpcFrames)]
    BY DEF RpcTypes
  <2>4. up' \in [Calls -> Seq(RpcFrames)]
    <3>1. ASSUME NEW t \in {"next", "complete", "error"}, up' = Put(up, c, Frame(t, 0)) PROVE up' \in [Calls -> Seq(RpcFrames)]
      BY <2>1, <2>3, <3>1, PutFrame
    <3> QED
      BY <2>2, <2>3, <3>1
  <2>5. client' \in [Calls -> {"idle", "open", "failed", "settled"}]
    BY <1>1 DEF Feed, RpcTypes, Settled
  <2> QED
    BY <1>1, <2>4, <2>5 DEF Feed, RpcTypes
<1>2. ASSUME NEW c \in Calls, StartCall(c) PROVE RpcTypes'
  BY <1>2, TakeFrame DEF StartCall, RpcTypes
<1>3. ASSUME NEW c \in Calls, StreamFrameIn(c) PROVE RpcTypes'
  BY <1>3, TakeFrame DEF StreamFrameIn, RpcTypes
<1>4. ASSUME NEW c \in Calls, Finish(c) PROVE RpcTypes'
  <2>1. \A t \in {"complete", "error", "result", "failure"} : Frame(t, 0) \in RpcFrames
    BY DEF RpcFrames, Frame
  <2>2. PICK t \in {"complete", "error", "result", "failure"} : down' = Put(down, c, Frame(t, 0))
    BY <1>4 DEF Finish, Answer, FailureFrame
  <2>3. down' \in [Calls -> Seq(RpcFrames)]
    BY <2>1, <2>2, PutFrame DEF RpcTypes
  <2> QED
    BY <1>4, <2>3 DEF Finish, RpcTypes
<1>5. ASSUME NEW c \in Calls, BatchItem(c) PROVE RpcTypes'
  <2>1. \A t \in {"result"} : Frame(t, 0) \in RpcFrames
    BY DEF RpcFrames, Frame
  <2>2. down' = down \/ \E t \in {"result"} : down' = Put(down, c, Frame(t, 0))
    BY <1>5 DEF BatchItem, Kept, Put, RpcTypes
  <2>3. down \in [Calls -> Seq(RpcFrames)]
    BY DEF RpcTypes
  <2>4. down' \in [Calls -> Seq(RpcFrames)]
    BY <2>1, <2>3, PutFrame, <2>2
  <2> QED
    BY <1>5, <2>4 DEF BatchItem, RpcTypes
<1>6. ASSUME NEW c \in Calls, Settle(c) PROVE RpcTypes'
  BY <1>6, TakeFrame, PutFrame DEF Settle, RpcTypes, Settled
<1>7. ASSUME NEW c \in Calls, Chained(c) PROVE RpcTypes'
  BY <1>7, ChainedEffect DEF RpcTypes
<1>8. ASSUME NEW c \in Calls, Invoke(c) PROVE RpcTypes'
  <2>1. \A t \in {"call"} : Frame(t, 0) \in RpcFrames
    BY DEF RpcFrames, Frame
  <2>2. up' = up \/ \E t \in {"call"} : up' = Put(up, c, Frame(t, 0))
    BY <1>8 DEF Invoke
  <2>3. up \in [Calls -> Seq(RpcFrames)]
    BY DEF RpcTypes
  <2>4. up' \in [Calls -> Seq(RpcFrames)]
    BY <2>1, <2>3, PutFrame, <2>2
  <2>5. client' \in [Calls -> {"idle", "open", "failed", "settled"}]
    BY <1>8 DEF Invoke, RpcTypes, Settled
  <2> QED
    BY <1>8, <2>4, <2>5 DEF Invoke, RpcTypes
<1>9. ASSUME NEW c \in Calls, GiveUp(c) PROVE RpcTypes'
  BY <1>9, PutFrame DEF RpcFrames, Frame, GiveUp, RpcTypes, Settled
<1>10. ASSUME NEW c \in Calls, Yield(c) PROVE RpcTypes'
  <2>1. Frame("next", yielded[c] + 1) \in RpcFrames
    BY DEF RpcFrames, Frame, RpcTypes
  <2>2. down' \in [Calls -> Seq(RpcFrames)]
    BY <1>10, <2>1, PutFrame DEF Yield, RpcTypes
  <2> QED
    BY <1>10, <2>2 DEF Yield, RpcTypes
<1>11. ASSUME InvokeBatch PROVE RpcTypes'
  BY <1>11 DEF InvokeBatch, RpcTypes
<1>12. CASE UNCHANGED rpcVars
  BY <1>12 DEF rpcVars, RpcTypes
<1> QED
  BY <1>1, <1>2, <1>3, <1>4, <1>5, <1>6, <1>7, <1>8, <1>9, <1>10, <1>11, <1>12
     DEF RpcNext, RpcStep

\* A step leaves alone whatever it does not touch.
LEMMA OtherCallsStay ==
  ASSUME NEW c \in Calls, CallInv(c), callKind' = callKind, batch' = batch,
         client'[c] = client[c], server'[c] = server[c], yielded'[c] = yielded[c],
         up'[c] = up[c], down'[c] = down[c], chain'[c] = chain[c], got'[c] = got[c]
  PROVE  CallInv(c)'
<1>1. StartsOnce(c)'
  BY DEF CallInv, StartsOnce
<1>2. AnswersAreFrames(c)' /\ OneSequence(c)'
  BY DEF CallInv, AnswersAreFrames, OneSequence, Streams
<1>3. GotInOrder(c)'
  BY DEF CallInv, GotInOrder
<1> QED
  BY <1>1, <1>2, <1>3 DEF CallInv

\* Frames that go out after the first one, and what happens to the client's entry, do
\* not disturb a call; nor does a step that ends the caller's interest in its stream.
LEMMA SendingKeeps ==
  ASSUME RpcTypes, NEW c \in Calls, CallInv(c), callKind' = callKind, batch' = batch,
         client[c] # "idle", client'[c] = client[c] \/ client'[c] = "settled",
         server'[c] = server[c], yielded'[c] = yielded[c],
         down'[c] = down[c], chain'[c] = chain[c], got'[c] = got[c],
         up'[c] = up[c] \/ \E t \in {"next", "complete", "error"} : up' = Put(up, c, Frame(t, 0))
  PROVE  CallInv(c)'
<1>1. \A t \in {"next", "complete", "error"} : Frame(t, 0) \in RpcFrames /\ Frame(t, 0).type = t
  BY DEF RpcFrames, Frame
<1>2. up \in [Calls -> Seq(RpcFrames)]
  BY DEF RpcTypes
<1>3. \A i \in 1 .. Len(up'[c]) : up'[c][i].type = "call" => i = 1 /\ server'[c] = "none"
  <2>1. CASE up'[c] = up[c]
    BY <2>1 DEF CallInv, StartsOnce
  <2>2. ASSUME NEW t \in {"next", "complete", "error"}, up' = Put(up, c, Frame(t, 0))
        PROVE  \A i \in 1 .. Len(up'[c]) : up'[c][i].type = "call" => i = 1 /\ server'[c] = "none"
    <3>1. /\ Len(up'[c]) = Len(up[c]) + 1 /\ Len(up[c]) \in Nat
          /\ up'[c][Len(up[c]) + 1] = Frame(t, 0)
          /\ \A i \in 1 .. Len(up[c]) : up'[c][i] = up[c][i]
      BY <1>1, <1>2, <2>2, PutFrame, ZenonT(60)
    <3>2. \A i \in 1 .. Len(up'[c]) : i \in 1 .. Len(up[c]) \/ i = Len(up[c]) + 1
      BY <3>1
    <3> QED
      BY <1>1, <3>1, <3>2 DEF CallInv, StartsOnce
  <2> QED
    BY <2>1, <2>2
<1>4. StartsOnce(c)'
  BY <1>3 DEF CallInv, StartsOnce
<1>5. AnswersAreFrames(c)' /\ OneSequence(c)' /\ GotInOrder(c)'
  BY DEF CallInv, AnswersAreFrames, OneSequence, GotInOrder, Streams
<1> QED
  BY <1>4, <1>5 DEF CallInv

\* The server takes the next frame of a call, which may start the handler.
LEMMA TakingKeeps ==
  ASSUME RpcTypes, NEW c \in Calls, CallInv(c), callKind' = callKind, batch' = batch,
         up[c] # << >>, up' = [up EXCEPT ![c] = Tail(@)],
         \/ server'[c] = server[c]
         \/ server'[c] = "running" /\ Head(up[c]).type = "call",
         client'[c] = client[c], yielded'[c] = yielded[c],
         down'[c] = down[c], chain'[c] = chain[c], got'[c] = got[c]
  PROVE  CallInv(c)'
<1>1. StartsOnce(c)'
  BY TakeFrame DEF RpcTypes, CallInv, StartsOnce
<1>2. AnswersAreFrames(c)' /\ GotInOrder(c)'
  BY DEF CallInv, AnswersAreFrames, GotInOrder, Streams
<1>3. server'[c] # "done" => server[c] # "done" \/ Head(up[c]).type = "call"
  OBVIOUS
<1>4. Head(up[c]).type = "call" => server[c] = "none"
  BY TakeFrame DEF RpcTypes, CallInv, StartsOnce
<1>5. OneSequence(c)'
  BY <1>3, <1>4 DEF CallInv, OneSequence, Streams
<1> QED
  BY <1>1, <1>2, <1>5 DEF CallInv

\* The server sends a frame of an answer: an item, which is the next one, or the end.
LEMMA AnsweringKeeps ==
  ASSUME RpcTypes, NEW c \in Calls, CallInv(c), callKind' = callKind, batch' = batch,
         NEW f \in RpcFrames, down' = Put(down, c, f), Streams(c) => f.type \in StreamFrames,
         \/ server[c] = "running" /\ server'[c] = "running" /\ yielded'[c] = yielded[c] + 1 /\ f.n = yielded[c] + 1
         \/ server[c] = "running" /\ server'[c] = "done" /\ yielded'[c] = yielded[c] /\ f.type # "next"
         \/ c \in batch /\ server'[c] = server[c] /\ yielded'[c] = yielded[c],
         client'[c] = client[c], up'[c] = up[c], chain'[c] = chain[c], got'[c] = got[c]
  PROVE  CallInv(c)'
<1>1. down \in [Calls -> Seq(RpcFrames)] /\ yielded[c] \in Nat /\ Len(got[c]) \in Nat /\ Len(chain[c]) \in Nat
  BY DEF RpcTypes
<1>2. /\ Len(down'[c]) = Len(down[c]) + 1 /\ Len(down[c]) \in Nat
      /\ down'[c][Len(down[c]) + 1] = f
      /\ \A i \in 1 .. Len(down[c]) : down'[c][i] = down[c][i]
  BY <1>1, PutFrame
<1>3. \A i \in 1 .. Len(down'[c]) : i \in 1 .. Len(down[c]) \/ i = Len(down[c]) + 1
  BY <1>2
<1>4. server[c] # "running" => callKind[c] = "unary" /\ c \in batch
  BY DEF RpcTypes
<1>5. StartsOnce(c)'
  BY <1>4 DEF CallInv, StartsOnce
<1>6. AnswersAreFrames(c)'
  BY <1>2, <1>3 DEF CallInv, AnswersAreFrames, Streams
<1>7. OneSequence(c)'
  <2> SUFFICES ASSUME Streams(c), client[c] \notin {"failed", "settled"} PROVE OneSequence(c)'
    BY DEF OneSequence, Streams
  <2>1. server[c] = "running"
    BY <1>4 DEF Streams
  <2>2. yielded[c] = Len(got[c]) + Len(chain[c]) + Len(down[c])
    BY <2>1 DEF CallInv, OneSequence
  <2>3. c \notin batch
    BY DEF RpcTypes, Streams
  <2>b. \A a, b, d \in Nat : (a + b + d) + 1 = a + b + (d + 1)
    OBVIOUS
  <2>d. yielded[c] + 1 = Len(got[c]) + Len(chain[c]) + (Len(down[c]) + 1)
    <3>1. PICK a \in Nat, b \in Nat, d \in Nat : a = Len(got[c]) /\ b = Len(chain[c]) /\ d = Len(down[c])
      BY <1>1, <1>2
    <3>2. yielded[c] = a + b + d
      BY <2>2, <3>1
    <3>3. yielded[c] + 1 = (a + b + d) + 1
      BY <3>2
    <3>4. yielded[c] + 1 = a + b + (d + 1)
      BY <2>b, <3>3
    <3> QED
      BY <3>1, <3>4
  <2>a. \/ server'[c] = "running" /\ yielded'[c] = yielded[c] + 1 /\ f.n = yielded[c] + 1
        \/ server'[c] = "done" /\ f.type # "next"
    BY <2>3
  <2>4. f.type = "next" => f.n = Len(got[c]) + Len(chain[c]) + (Len(down[c]) + 1)
    BY <2>a, <1>2, <2>d
  <2>5. \A i \in 1 .. Len(down'[c]) :
          down'[c][i].type = "next" => down'[c][i].n = Len(got[c]) + Len(chain[c]) + i
    BY <1>2, <1>3, <2>4 DEF CallInv, OneSequence
  <2>6. server'[c] # "done" => yielded'[c] = Len(got[c]) + Len(chain[c]) + Len(down'[c])
    BY <2>a, <1>2, <2>d
  <2> QED
    BY <2>5, <2>6 DEF CallInv, OneSequence
<1>8. GotInOrder(c)'
  BY DEF CallInv, GotInOrder
<1> QED
  BY <1>5, <1>6, <1>7, <1>8 DEF CallInv

\* A reply reaches the client: a frame of an open stream goes to its chain, what has
\* no entry is dropped.
LEMMA SettlingKeeps ==
  ASSUME RpcTypes, NEW c \in Calls, CallInv(c), Settle(c)
  PROVE  CallInv(c)'
<1> DEFINE f == Head(down[c])
<1>1. /\ down[c] # << >> /\ down' = [down EXCEPT ![c] = Tail(@)]
      /\ chain' = IF f.type \in StreamFrames /\ Streams(c) /\ HasEntry(c) THEN Put(chain, c, f) ELSE chain
      /\ client' = IF f.type \notin StreamFrames /\ ~Streams(c) THEN Settled(c) ELSE client
      /\ UNCHANGED <<callKind, batch, up, server, yielded, got>>
  BY DEF Settle
<1>2. down[c] \in Seq(RpcFrames) /\ down'[c] = Tail(down[c]) /\ chain \in [Calls -> Seq(RpcFrames)]
  BY <1>1 DEF RpcTypes
<1>3. /\ Len(down'[c]) = Len(down[c]) - 1 /\ Len(down[c]) \in Nat /\ Len(down[c]) > 0
      /\ f = down[c][1] /\ f \in RpcFrames
      /\ \A i \in 1 .. Len(down'[c]) : down'[c][i] = down[c][i + 1]
  BY <1>1, <1>2, TakeFrame
<1> HIDE DEF f
<1>4. \A i \in 1 .. Len(down'[c]) : i + 1 \in 1 .. Len(down[c])
  BY <1>3
<1>5. Len(got[c]) \in Nat /\ Len(chain[c]) \in Nat /\ yielded[c] \in Nat
  BY DEF RpcTypes
<1>6. client[c] # "idle" \/ c \in batch
  BY <1>1 DEF CallInv, StartsOnce
<1>7. client'[c] = client[c] \/ (client'[c] = "settled" /\ ~Streams(c))
  BY <1>1 DEF Settled, RpcTypes
<1>8. server[c] # "none" \/ c \in batch
  BY <1>1 DEF CallInv, StartsOnce
<1>9. CASE Streams(c) /\ client[c] = "open"
  <2>1. f.type \in StreamFrames /\ chain' = Put(chain, c, f) /\ client'[c] = client[c]
    BY <1>1, <1>3, <1>7, <1>9 DEF CallInv, AnswersAreFrames, HasEntry
  <2>2. /\ Len(chain'[c]) = Len(chain[c]) + 1 /\ chain'[c][Len(chain[c]) + 1] = f
        /\ \A i \in 1 .. Len(chain[c]) : chain'[c][i] = chain[c][i]
    BY <1>2, <1>3, <2>1, PutFrame
  <2>3. \A i \in 1 .. Len(chain'[c]) : i \in 1 .. Len(chain[c]) \/ i = Len(chain[c]) + 1
    BY <1>5, <2>2
  <2>4. StartsOnce(c)'
    BY <1>1, <1>8, <1>9, <2>1 DEF CallInv, StartsOnce, Streams, RpcTypes
  <2>5. AnswersAreFrames(c)'
    BY <1>1, <1>3, <1>4 DEF CallInv, AnswersAreFrames, Streams
  <2>6. f.type = "next" => f.n = Len(got[c]) + Len(chain[c]) + 1
    <3>1. 1 \in 1 .. Len(down[c])
      BY <1>3
    <3> QED
      BY <1>3, <1>9, <3>1 DEF CallInv, OneSequence
  <2>7. \A i \in 1 .. Len(chain'[c]) : chain'[c][i].type = "next" => chain'[c][i].n = Len(got[c]) + i
    <3>1. \A a, b \in Nat : a + b + 1 = a + (b + 1)
      OBVIOUS
    <3>2. f.type = "next" => f.n = Len(got[c]) + (Len(chain[c]) + 1)
      BY <1>5, <2>6, <3>1
    <3> QED
      BY <1>9, <2>2, <2>3, <3>2 DEF CallInv, OneSequence
  <2>8. \A i \in 1 .. Len(down'[c]) :
          down'[c][i].type = "next" => down'[c][i].n = Len(got[c]) + Len(chain'[c]) + i
    <3> SUFFICES ASSUME NEW i \in 1 .. Len(down'[c]), down'[c][i].type = "next"
                 PROVE  down'[c][i].n = Len(got[c]) + Len(chain'[c]) + i
      OBVIOUS
    <3>1. down'[c][i].n = Len(got[c]) + Len(chain[c]) + (i + 1)
      BY <1>3, <1>4, <1>9 DEF CallInv, OneSequence
    <3>2. PICK a \in Nat, b \in Nat, k \in Nat : a = Len(got[c]) /\ b = Len(chain[c]) /\ k = i
      BY <1>3, <1>5
    <3>3. down'[c][i].n = a + b + (k + 1)
      BY <3>1, <3>2
    <3>4. a + b + (k + 1) = a + (b + 1) + k
      OBVIOUS
    <3> QED
      BY <2>2, <3>2, <3>3, <3>4
  <2>9. server[c] # "done" => yielded[c] = Len(got[c]) + Len(chain'[c]) + Len(down'[c])
    <3>1. PICK a \in Nat, b \in Nat, d \in Nat : a = Len(got[c]) /\ b = Len(chain[c]) /\ d = Len(down[c])
      BY <1>3, <1>5
    <3>2. server[c] # "done" => yielded[c] = a + b + d
      BY <1>9, <3>1 DEF CallInv, OneSequence
    <3>3. a + b + d = a + (b + 1) + (d - 1)
      OBVIOUS
    <3> QED
      BY <1>3, <2>2, <3>1, <3>2, <3>3
  <2>10. OneSequence(c)'
    BY <1>1, <2>7, <2>8, <2>9 DEF OneSequence
  <2>11. GotInOrder(c)'
    BY <1>1 DEF CallInv, GotInOrder
  <2> QED
    BY <2>4, <2>5, <2>10, <2>11 DEF CallInv
<1>10. CASE ~(Streams(c) /\ client[c] = "open")
  <2>1. chain' = chain \/ (Streams(c) /\ client[c] = "failed")
    BY <1>1, <1>10 DEF HasEntry
  <2>2. Streams(c) => client[c] \in {"failed", "settled"}
    BY <1>6, <1>10 DEF RpcTypes, Streams
  <2>3. StartsOnce(c)'
    BY <1>1, <1>7, <1>8, <2>1 DEF CallInv, StartsOnce
  <2>4. AnswersAreFrames(c)'
    BY <1>1, <1>3, <1>4, <2>1 DEF CallInv, AnswersAreFrames, Streams
  <2>5. OneSequence(c)'
    BY <1>1, <1>7, <2>2 DEF OneSequence, Streams
  <2>6. GotInOrder(c)'
    BY <1>1 DEF CallInv, GotInOrder
  <2> QED
    BY <2>3, <2>4, <2>5, <2>6 DEF CallInv
<1> QED
  BY <1>9, <1>10

\* A link of the chain is worked off, which hands the next item to the caller.
LEMMA ChainKeeps ==
  ASSUME RpcTypes, NEW c \in Calls, CallInv(c), Chained(c)
  PROVE  CallInv(c)'
<1>1. /\ chain[c] # << >> /\ chain' = [chain EXCEPT ![c] = Tail(chain[c])]
      /\ \/ /\ client' = client /\ client[c] = "open" /\ chain[c][1].type = "next"
            /\ got' = [got EXCEPT ![c] = Append(got[c], chain[c][1].n)]
         \/ client' = client /\ client[c] # "open" /\ got' = got
         \/ (\E r \in {"failed", "settled"} : client' = [client EXCEPT ![c] = r]) /\ got' = got
      /\ UNCHANGED <<callKind, batch, up, down, server, yielded>>
  BY ChainedEffect
<1>2. chain[c] \in Seq(RpcFrames) /\ chain'[c] = Tail(chain[c]) /\ got[c] \in Seq(Nat)
  BY <1>1 DEF RpcTypes
<1>3. /\ Len(chain'[c]) = Len(chain[c]) - 1 /\ Len(chain[c]) \in Nat /\ Len(chain[c]) > 0
      /\ chain[c][1] \in RpcFrames
      /\ \A i \in 1 .. Len(chain'[c]) : chain'[c][i] = chain[c][i + 1]
  BY <1>1, <1>2, TakeFrame
<1>4. \A i \in 1 .. Len(chain'[c]) : i + 1 \in 1 .. Len(chain[c])
  BY <1>3
<1>5. Len(got[c]) \in Nat /\ Len(down[c]) \in Nat /\ yielded[c] \in Nat
  BY DEF RpcTypes
<1>6. client[c] # "idle"
  BY <1>1 DEF CallInv, StartsOnce
<1>7. client'[c] # "idle"
  BY <1>1, <1>6 DEF RpcTypes
<1>8. StartsOnce(c)' /\ AnswersAreFrames(c)'
  BY <1>1, <1>7 DEF CallInv, StartsOnce, AnswersAreFrames, Streams
<1>9. CASE Streams(c) /\ client'[c] \notin {"failed", "settled"}
  <2>1. /\ client[c] = "open" /\ chain[c][1].type = "next"
        /\ got' = [got EXCEPT ![c] = Append(got[c], chain[c][1].n)]
    BY <1>1, <1>6, <1>9 DEF RpcTypes
  <2>2. chain[c][1].n = Len(got[c]) + 1
    BY <1>3, <1>9, <2>1 DEF CallInv, OneSequence
  <2>3. got'[c] = Append(got[c], Len(got[c]) + 1)
    BY <2>1, <2>2 DEF RpcTypes
  <2>4. /\ Len(got'[c]) = Len(got[c]) + 1
        /\ got'[c][Len(got[c]) + 1] = Len(got[c]) + 1
        /\ \A i \in 1 .. Len(got[c]) : got'[c][i] = got[c][i]
    BY <1>2, <1>5, <2>3
  <2>5. \A i \in 1 .. Len(got'[c]) : i \in 1 .. Len(got[c]) \/ i = Len(got[c]) + 1
    BY <1>5, <2>4
  <2>6. GotInOrder(c)'
    BY <2>4, <2>5 DEF CallInv, GotInOrder
  <2>7. \A i \in 1 .. Len(chain'[c]) : chain'[c][i].type = "next" => chain'[c][i].n = Len(got'[c]) + i
    <3> SUFFICES ASSUME NEW i \in 1 .. Len(chain'[c]), chain'[c][i].type = "next"
                 PROVE  chain'[c][i].n = Len(got'[c]) + i
      OBVIOUS
    <3>1. chain'[c][i].n = Len(got[c]) + (i + 1)
      BY <1>3, <1>4, <1>9, <2>1 DEF CallInv, OneSequence
    <3>2. i \in Nat
      BY <1>3
    <3>3. Len(got'[c]) = Len(got[c]) + 1
      BY <2>4
    <3> QED
      BY <1>5, <3>1, <3>2, <3>3
  <2>8. \A i \in 1 .. Len(down'[c]) :
          down'[c][i].type = "next" => down'[c][i].n = Len(got'[c]) + Len(chain'[c]) + i
    <3> SUFFICES ASSUME NEW i \in 1 .. Len(down[c]), down[c][i].type = "next"
                 PROVE  down[c][i].n = Len(got'[c]) + Len(chain'[c]) + i
      BY <1>1
    <3>1. down[c][i].n = Len(got[c]) + Len(chain[c]) + i
      BY <1>9, <2>1 DEF CallInv, OneSequence
    <3>2. PICK a \in Nat, b \in Nat, k \in Nat : a = Len(got[c]) /\ b = Len(chain[c]) /\ k = i
      BY <1>3, <1>5
    <3>3. down[c][i].n = a + b + k
      BY <3>1, <3>2
    <3>4. a + b + k = (a + 1) + (b - 1) + k
      OBVIOUS
    <3> QED
      BY <1>3, <2>4, <3>2, <3>3, <3>4
  <2>9. server[c] # "done" => yielded[c] = Len(got'[c]) + Len(chain'[c]) + Len(down[c])
    <3>1. PICK a \in Nat, b \in Nat, d \in Nat : a = Len(got[c]) /\ b = Len(chain[c]) /\ d = Len(down[c])
      BY <1>3, <1>5
    <3>2. server[c] # "done" => yielded[c] = a + b + d
      BY <1>9, <2>1, <3>1 DEF CallInv, OneSequence
    <3>3. a + b + d = (a + 1) + (b - 1) + d
      OBVIOUS
    <3> QED
      BY <1>3, <2>4, <3>1, <3>2, <3>3
  <2>10. OneSequence(c)'
    BY <1>1, <2>7, <2>8, <2>9 DEF OneSequence
  <2> QED
    BY <1>8, <2>6, <2>10 DEF CallInv
<1>10. CASE ~(Streams(c) /\ client'[c] \notin {"failed", "settled"})
  <2>1. OneSequence(c)'
    BY <1>1, <1>10 DEF OneSequence, Streams
  <2>2. GotInOrder(c)'
    BY <1>1, <1>10 DEF CallInv, GotInOrder, AnswersAreFrames
  <2> QED
    BY <1>8, <2>1, <2>2 DEF CallInv
<1> QED
  BY <1>9, <1>10

\* Putting a frame into the queue of one call leaves the others alone.
LEMMA PutElsewhere ==
  ASSUME NEW q \in [Calls -> Seq(RpcFrames)], NEW c \in Calls, NEW f
  PROVE  \A d \in Calls \ {c} : Put(q, c, f)[d] = q[d]
  BY DEF Put

\* Every step keeps the invariant of the calls.
LEMMA CallsInductive == RpcTypes /\ CallsInv /\ [RpcNext]_rpcVars => CallsInv'
<1> SUFFICES ASSUME RpcTypes, CallsInv, [RpcNext]_rpcVars PROVE CallsInv'
  OBVIOUS
<1>a. ASSUME NEW c \in Calls, callKind' = callKind, batch' = batch, CallInv(c)',
             \A d \in Calls \ {c} :
               /\ client'[d] = client[d] /\ server'[d] = server[d] /\ yielded'[d] = yielded[d]
               /\ up'[d] = up[d] /\ down'[d] = down[d] /\ chain'[d] = chain[d] /\ got'[d] = got[d]
      PROVE  CallsInv'
  BY <1>a, OtherCallsStay DEF CallsInv
<1>b. up \in [Calls -> Seq(RpcFrames)] /\ down \in [Calls -> Seq(RpcFrames)] /\ chain \in [Calls -> Seq(RpcFrames)]
  BY DEF RpcTypes
<1>c. \A t \in {"call", "next", "complete", "error", "result", "failure"} :
        Frame(t, 0) \in RpcFrames /\ Frame(t, 0).type = t
  BY DEF RpcFrames, Frame
<1>1. ASSUME NEW c \in Calls, Feed(c) PROVE CallsInv'
  BY <1>1, <1>b, SendingKeeps, <1>a DEF Feed, HasEntry, Settled, RpcTypes, Put, CallsInv
<1>2. ASSUME NEW c \in Calls, GiveUp(c) PROVE CallsInv'
  BY <1>2, <1>b, SendingKeeps, <1>a DEF GiveUp, HasEntry, Settled, RpcTypes, Put, CallsInv
<1>3. ASSUME NEW c \in Calls, StartCall(c) PROVE CallsInv'
  BY <1>3, <1>b, TakingKeeps, <1>a DEF StartCall, RpcTypes, CallsInv
<1>4. ASSUME NEW c \in Calls, StreamFrameIn(c) PROVE CallsInv'
  BY <1>4, <1>b, TakingKeeps, <1>a DEF StreamFrameIn, RpcTypes, CallsInv
<1>5. ASSUME NEW c \in Calls, Finish(c) PROVE CallsInv'
  <2>1. PICK t \in {"complete", "error", "result", "failure"} :
          down' = Put(down, c, Frame(t, 0)) /\ (Streams(c) => t \in StreamFrames)
    BY <1>5 DEF Finish, Answer, FailureFrame, Streams, StreamFrames
  <2>2. Frame(t, 0) \in RpcFrames /\ Frame(t, 0).type = t
    BY <1>c
  <2>3. /\ callKind' = callKind /\ batch' = batch /\ server[c] = "running" /\ server'[c] = "done"
        /\ client' = client /\ yielded' = yielded /\ up' = up /\ chain' = chain /\ got' = got
        /\ \A d \in Calls \ {c} : server'[d] = server[d]
    BY <1>5 DEF Finish, RpcTypes
  <2>4. \A d \in Calls \ {c} : down'[d] = down[d]
    BY <2>1, <2>2, <1>b, PutElsewhere
  <2>5. CallInv(c)'
    BY <2>1, <2>2, <2>3, AnsweringKeeps DEF CallsInv
  <2> QED
    BY <2>3, <2>4, <2>5, <1>a
<1>6. ASSUME NEW c \in Calls, Yield(c) PROVE CallsInv'
  <2>1. /\ callKind' = callKind /\ batch' = batch /\ server[c] = "running" /\ server' = server
        /\ client' = client /\ up' = up /\ chain' = chain /\ got' = got /\ Streams(c)
        /\ yielded'[c] = yielded[c] + 1 /\ \A d \in Calls \ {c} : yielded'[d] = yielded[d]
        /\ down' = Put(down, c, Frame("next", yielded[c] + 1))
    BY <1>6 DEF Yield, RpcTypes
  <2>2. PICK f : f = Frame("next", yielded[c] + 1)
    OBVIOUS
  <2>5. yielded[c] + 1 \in Nat
    BY DEF RpcTypes
  <2>6. f \in RpcFrames /\ f.type \in StreamFrames /\ f.n = yielded[c] + 1
    BY <2>2, <2>5 DEF RpcFrames, Frame, StreamFrames
  <2>3. \A d \in Calls \ {c} : down'[d] = down[d]
    BY <2>1, <2>2, <1>b, PutElsewhere, ZenonT(60)
  <2>4. CallInv(c)'
    BY <2>1, <2>2, <2>6, AnsweringKeeps DEF CallsInv
  <2> QED
    BY <2>1, <2>3, <2>4, <1>a
<1>7. ASSUME NEW c \in Calls, BatchItem(c) PROVE CallsInv'
  <2>1. /\ callKind' = callKind /\ batch' = batch /\ c \in batch /\ ~Streams(c)
        /\ UNCHANGED <<client, up, server, yielded, chain, got>>
    BY <1>7 DEF BatchItem, RpcTypes, Streams
  <2>2. down' = down \/ down' = Put(down, c, Frame("result", 0))
    BY <1>7 DEF BatchItem, Kept, Put, RpcTypes
  <2>3. CASE down' = down
    BY <2>1, <2>3, OtherCallsStay DEF CallsInv
  <2>4. CASE down' = Put(down, c, Frame("result", 0))
    <3>1. Frame("result", 0) \in RpcFrames
      BY <1>c
    <3>2. \A d \in Calls \ {c} : down'[d] = down[d]
      BY <2>4, <3>1, <1>b, PutElsewhere
    <3>3. CallInv(c)'
      BY <2>1, <2>4, <3>1, AnsweringKeeps DEF CallsInv
    <3> QED
      BY <2>1, <3>2, <3>3, <1>a
  <2> QED
    BY <2>2, <2>3, <2>4
<1>8. ASSUME NEW c \in Calls, Settle(c) PROVE CallsInv'
  <2>1. CallInv(c)'
    BY <1>8, SettlingKeeps DEF CallsInv
  <2>2. Head(down[c]) \in RpcFrames
    BY <1>8, <1>b, TakeFrame DEF Settle
  <2>3. /\ \A d \in Calls \ {c} : down'[d] = down[d] /\ client'[d] = client[d]
        /\ UNCHANGED <<callKind, batch, up, server, yielded, got>>
    BY <1>8, <1>b DEF Settle, Settled, RpcTypes
  <2>4. \A d \in Calls \ {c} : chain'[d] = chain[d]
    BY <1>8, <1>b, PutElsewhere DEF Settle
  <2> QED
    BY <2>1, <2>3, <2>4, <1>a
<1>9. ASSUME NEW c \in Calls, Chained(c) PROVE CallsInv'
  <2>1. CallInv(c)'
    BY <1>9, ChainKeeps DEF CallsInv
  <2>2. /\ \A d \in Calls \ {c} : chain'[d] = chain[d] /\ client'[d] = client[d] /\ got'[d] = got[d]
        /\ UNCHANGED <<callKind, batch, up, down, server, yielded>>
    <3>1. /\ client \in [Calls -> {"idle", "open", "failed", "settled"}] /\ got \in [Calls -> Seq(Nat)]
          /\ chain \in [Calls -> Seq(RpcFrames)]
      BY DEF RpcTypes
    <3>2. /\ chain' = [chain EXCEPT ![c] = Tail(chain[c])]
          /\ client' = client \/ \E r \in {"failed", "settled"} : client' = [client EXCEPT ![c] = r]
          /\ got' = got \/ got' = [got EXCEPT ![c] = Append(got[c], chain[c][1].n)]
          /\ UNCHANGED <<callKind, batch, up, down, server, yielded>>
      BY <1>9, ChainedEffect
    <3> QED
      BY <3>1, <3>2
  <2> QED
    BY <2>1, <2>2, <1>a
<1>10. ASSUME NEW c \in Calls, Invoke(c) PROVE CallsInv'
  <2>1. /\ callKind' = callKind /\ batch' = batch /\ client[c] = "idle"
        /\ UNCHANGED <<down, server, yielded, chain, got>>
        /\ client'[c] # "idle" /\ \A d \in Calls \ {c} : client'[d] = client[d]
        /\ (up' = up \/ up' = Put(up, c, Frame("call", 0)))
    BY <1>10 DEF Invoke, Settled, RpcTypes
  <2>2. /\ server[c] = "none" /\ up[c] = << >>
    BY <2>1 DEF CallsInv, CallInv, StartsOnce
  <2>7. Len(up[c]) = 0
    BY <2>2
  <2>8. ASSUME up' = up PROVE (\A d \in Calls \ {c} : up'[d] = up[d]) /\ Len(up'[c]) = 0
    BY <2>7, <2>8
  <2>9. ASSUME up' = Put(up, c, Frame("call", 0))
        PROVE  (\A d \in Calls \ {c} : up'[d] = up[d]) /\ Len(up'[c]) = 1
    <3>1. PICK f \in RpcFrames : f = Frame("call", 0)
      BY <1>c
    <3>2. Len(up'[c]) = Len(up[c]) + 1
      BY <2>9, <3>1, <1>b, PutFrame
    <3>3. \A d \in Calls \ {c} : up'[d] = up[d]
      BY <2>9, <3>1, <1>b, PutElsewhere
    <3> QED
      BY <2>7, <3>2, <3>3
  <2>3. /\ \A d \in Calls \ {c} : up'[d] = up[d]
        /\ Len(up'[c]) = 0 \/ Len(up'[c]) = 1
    BY <2>1, <2>8, <2>9
  <2>4. StartsOnce(c)'
    BY <2>1, <2>2, <2>3 DEF CallsInv, CallInv, StartsOnce
  <2>5. AnswersAreFrames(c)' /\ OneSequence(c)' /\ GotInOrder(c)'
    BY <2>1 DEF CallsInv, CallInv, AnswersAreFrames, OneSequence, GotInOrder, Streams
  <2>6. CallInv(c)'
    BY <2>4, <2>5 DEF CallInv
  <2> QED
    BY <2>1, <2>3, <2>6, <1>a
<1>11. ASSUME InvokeBatch PROVE CallsInv'
  <2>1. /\ UNCHANGED <<callKind, batch, up, down, server, yielded, chain, got>>
        /\ \A c \in Calls : client'[c] = client[c] \/ (c \in batch /\ client[c] = "idle" /\ client'[c] = "open")
    BY <1>11 DEF InvokeBatch
  <2>2. ASSUME NEW c \in Calls PROVE CallInv(c)'
    <3>1. CASE client'[c] = client[c]
      BY <2>1, <3>1, OtherCallsStay DEF CallsInv
    <3>2. CASE c \in batch /\ client[c] = "idle" /\ client'[c] = "open"
      <4>1. ~Streams(c)
        BY <3>2 DEF RpcTypes, Streams
      <4>2. StartsOnce(c)'
        BY <2>1, <3>2 DEF CallsInv, CallInv, StartsOnce
      <4>3. AnswersAreFrames(c)' /\ OneSequence(c)' /\ GotInOrder(c)'
        BY <2>1, <4>1 DEF CallsInv, CallInv, AnswersAreFrames, OneSequence, GotInOrder, Streams
      <4> QED
        BY <4>2, <4>3 DEF CallInv
    <3> QED
      BY <2>1, <3>1, <3>2
  <2> QED
    BY <2>2 DEF CallsInv
<1>12. CASE UNCHANGED rpcVars
  BY <1>12, OtherCallsStay DEF rpcVars, CallsInv
<1> QED
  BY <1>1, <1>2, <1>3, <1>4, <1>5, <1>6, <1>7, <1>8, <1>9, <1>10, <1>11, <1>12 DEF RpcNext, RpcStep

\* No call is open at the start.
LEMMA RpcInvInit == RpcInit => RpcTypes /\ CallsInv
<1> SUFFICES ASSUME RpcInit PROVE RpcTypes /\ CallsInv
  OBVIOUS
<1>1. << >> \in Seq(RpcFrames) /\ << >> \in Seq(Nat) /\ 0 \in Nat
  OBVIOUS
<1>2. RpcTypes
  BY <1>1 DEF RpcInit, RpcTypes
<1>3. ASSUME NEW c \in Calls PROVE CallInv(c)
  BY DEF RpcInit, CallInv, StartsOnce, AnswersAreFrames, OneSequence, GotInOrder
<1> QED
  BY <1>2, <1>3 DEF CallsInv

\* Streams keep their order without any fairness of the scheduling.
LEMMA OrderHolds == RpcInit /\ [][RpcNext]_rpcVars => []StreamInOrder
<1>1. RpcTypes /\ CallsInv /\ [RpcNext]_rpcVars => (RpcTypes /\ CallsInv)'
  BY RpcTyped, CallsInductive
<1>2. RpcTypes /\ CallsInv => StreamInOrder
  BY DEF StreamInOrder, RpcTypes, CallsInv, CallInv, GotInOrder
<1> QED
  BY RpcInvInit, <1>1, <1>2, PTL

\* The caller of a stream gets its items in the order they were made and without a
\* gap, on every transport and however often he or the handler fails.
THEOREM StreamsStayInOrder == RpcSpec => []StreamInOrder
BY OrderHolds, PTL DEF RpcSpec

-----------------------------------------------------------------------------
(* The secure socket.  As long as nothing has disturbed a session, exactly  *)
(* one message or handler of the handshake is on its way, up to the         *)
(* confirmation, after which both sides open on their own; and the counters *)
(* of the sealed frames rise along every wire, above all that was opened,   *)
(* and up to those that are still being encrypted.                          *)

SocketFrames == [kind : {"init", "response", "request", "confirm", "sealed"}, counter : Nat, copy : Nat]
SocketTasks == [frame : SocketFrames, step : {"crypto", "import"}]
Counters == [send : Nat, recv : Nat]

SocketTypes ==
  /\ made \subseteq Sides /\ deaf \subseteq Sides /\ awake \in BOOLEAN
  /\ phase \in [Sides -> {"handshaking", "open", "closed", "failed"}]
  /\ hs \in [Sides -> {"none", "keys", "confirmed"}]
  /\ chan \in [Sides -> Counters] /\ snapshot \in Counters
  /\ wire \in [Sides -> Seq(SocketFrames)]
  /\ tasks \in [Sides -> SUBSET SocketTasks]

Handling(kind, step) == {[frame |-> Handshake(kind), step |-> step]}
Silent(s) == wire[s] = << >> /\ tasks[s] = {}

\* The first part of the handshake, message after message.
Message(s, kind) == wire[s] = <<Handshake(kind)>> /\ tasks[s] = {} /\ Silent(Other(s))
Handler(s, kind) == wire[s] = << >> /\ tasks[s] = Handling(kind, "crypto") /\ Silent(Other(s))
KeysAt(provider, consumer) == hs["provider"] = provider /\ hs["consumer"] = consumer

Early ==
  /\ phase["provider"] = "handshaking" /\ phase["consumer"] = "handshaking" /\ awake
  /\ chan["provider"] = NoChannel /\ chan["consumer"] = NoChannel /\ snapshot = NoChannel
  /\ \/ "provider" \notin made /\ Silent("provider") /\ Silent("consumer") /\ KeysAt("none", "none")
     \/ "provider" \in made /\ Message("consumer", "init") /\ KeysAt("none", "none")
     \/ /\ "provider" \in made /\ "consumer" \in made
        /\ \/ Handler("consumer", "init") /\ KeysAt("none", "none")
           \/ Message("provider", "response") /\ KeysAt("none", "keys")
           \/ Handler("provider", "response") /\ KeysAt("none", "keys")
           \/ Message("consumer", "request") /\ KeysAt("keys", "keys")
           \/ Handler("consumer", "request") /\ KeysAt("keys", "keys")

\* The second part: each side has its own way to go until it is open.
AllSealed(s, first) == \A i \in first .. Len(wire[s]) : wire[s][i].kind = "sealed"
Opening(s) == \A t \in tasks[s] : t.frame.kind = "sealed" /\ t.step = "crypto"

ConsumerOpens ==
  /\ AllSealed("consumer", 1)
  /\ \/ /\ phase["consumer"] = "handshaking" /\ tasks["consumer"] = Handling("request", "import")
        /\ chan["consumer"] = NoChannel
     \/ phase["consumer"] = "open" /\ Opening("consumer")

ProviderOpens ==
  \/ /\ phase["provider"] = "handshaking" /\ awake
     /\ chan["provider"] = NoChannel /\ snapshot = NoChannel
     /\ \/ /\ wire["provider"] # << >> /\ wire["provider"][1] = Handshake("confirm")
           /\ AllSealed("provider", 2) /\ tasks["provider"] = {}
        \/ AllSealed("provider", 1) /\ tasks["provider"] = Handling("confirm", "crypto")
        \/ AllSealed("provider", 1) /\ tasks["provider"] = Handling("confirm", "import")
  \/ /\ phase["provider"] = "open" /\ AllSealed("provider", 1) /\ Opening("provider")
     /\ ~awake => tasks["provider"] = {} /\ snapshot.send = chan["provider"].send

Late ==
  /\ "provider" \in made /\ "consumer" \in made /\ KeysAt(hs["provider"], "confirmed")
  /\ hs["provider"] # "none"
  /\ ConsumerOpens /\ ProviderOpens

CountersBelow(s) ==
  /\ chan[s].recv <= chan[Other(s)].send
  /\ s = "provider" => snapshot.recv <= chan[Other(s)].send
  /\ \A t \in tasks[s] : t.frame.kind = "sealed" => t.frame.counter < chan[Other(s)].send

CountersRise(s) ==
  /\ CountersBelow(s)
  /\ \A i \in 1 .. Len(wire[s]) : wire[s][i].kind = "sealed" =>
      /\ chan[s].recv <= wire[s][i].counter /\ wire[s][i].counter < chan[Other(s)].send
      /\ s = "provider" => snapshot.recv <= wire[s][i].counter
      /\ \A t \in tasks[s] : t.frame.kind = "sealed" => t.frame.counter < wire[s][i].counter
      /\ \A j \in 1 .. Len(wire[s]) :
          i < j /\ wire[s][j].kind = "sealed" => wire[s][i].counter < wire[s][j].counter

Undisturbed ==
  SocketTypes /\ deaf = {} /\ (Early \/ Late) /\ CountersRise("provider") /\ CountersRise("consumer")

\* No sealed frame that has reached side s, or is on its way, has counter n or more.
FramesBelow(s, n) ==
  /\ chan[s].recv <= n /\ (s = "provider" => snapshot.recv <= n)
  /\ \A t \in tasks[s] : t.frame.kind = "sealed" => t.frame.counter < n
  /\ \A i \in 1 .. Len(wire[s]) : wire[s][i].kind = "sealed" => wire[s][i].counter < n

\* What a side encrypts comes behind all it has sent.
SealingRises(s) ==
  \A n \in sealing[s] :
    /\ n \in Nat /\ n < chan[s].send /\ phase[s] = "open" /\ (s = "consumer" \/ awake)
    /\ FramesBelow(Other(s), n)

SealingTypes == sealing \in [Sides -> SUBSET Nat]

SocketInv == disturbed = {} => Undisturbed /\ SealingTypes /\ \A s \in Sides : SealingRises(s)

\* The two sides are each other's other.
LEMMA SidesFacts ==
  /\ Sides = {"provider", "consumer"} /\ "provider" # "consumer"
  /\ Other("provider") = "consumer" /\ Other("consumer") = "provider"
  /\ \A s \in Sides : Other(s) \in Sides /\ Other(s) # s /\ Other(Other(s)) = s
  BY DEF Sides, Other

\* The messages and handlers of the handshake, and sealed frames, have their types.
LEMMA FrameTypes ==
  /\ NoChannel \in Counters /\ NoChannel.send = 0 /\ NoChannel.recv = 0
  /\ \A k \in {"init", "response", "request", "confirm"} :
       /\ Handshake(k) \in SocketFrames /\ Handshake(k).kind = k
       /\ \A p \in {"crypto", "import"} :
            /\ [frame |-> Handshake(k), step |-> p] \in SocketTasks
            /\ [frame |-> Handshake(k), step |-> p].frame = Handshake(k)
            /\ [frame |-> Handshake(k), step |-> p].step = p
  /\ \A n \in Nat : Sealed(n) \in SocketFrames /\ Sealed(n).kind = "sealed" /\ Sealed(n).counter = n
  BY DEF NoChannel, Counters, Handshake, Sealed, SocketFrames, SocketTasks

\* What goes out of a side that has not closed is put at the end of the other's wire.
LEMMA Posting ==
  ASSUME SocketTypes, NEW s \in Sides, phase[s] # "closed", NEW f \in SocketFrames
  PROVE  /\ Post(s, f) \in [Sides -> Seq(SocketFrames)] /\ Post(s, f)[s] = wire[s]
         /\ Len(wire[Other(s)]) \in Nat
         /\ Len(Post(s, f)[Other(s)]) = Len(wire[Other(s)]) + 1
         /\ Post(s, f)[Other(s)][Len(wire[Other(s)]) + 1] = f
         /\ \A i \in 1 .. Len(wire[Other(s)]) : Post(s, f)[Other(s)][i] = wire[Other(s)][i]
         /\ wire[Other(s)] = << >> => Post(s, f)[Other(s)] = <<f>>
<1>1. Other(s) \in Sides /\ Other(s) # s
  BY SidesFacts
<1>2. wire \in [Sides -> Seq(SocketFrames)]
  BY DEF SocketTypes
<1>3. Post(s, f) = [wire EXCEPT ![Other(s)] = Append(wire[Other(s)], f)]
  BY DEF Post
<1>4. wire[Other(s)] \in Seq(SocketFrames)
  BY <1>1, <1>2
<1>5. PICK w \in Seq(SocketFrames) : w = wire[Other(s)]
  BY <1>4
<1>6. /\ Append(w, f) \in Seq(SocketFrames) /\ Len(w) \in Nat /\ Len(Append(w, f)) = Len(w) + 1
      /\ Append(w, f)[Len(w) + 1] = f
      /\ \A i \in 1 .. Len(w) : Append(w, f)[i] = w[i]
  OBVIOUS
<1>7. w = << >> => Append(w, f) = <<f>>
  OBVIOUS
<1> QED
  BY <1>1, <1>2, <1>3, <1>5, <1>6, <1>7

\* While something of the handshake's first part is on its way, no sealed frame is.
LEMMA EarlyCounters ==
  ASSUME Early' PROVE CountersRise("provider")' /\ CountersRise("consumer")'
BY SidesFacts, FrameTypes DEF Early, Message, Handler, Silent, Handling, CountersBelow, CountersRise

\* Creating a channel sends the first message of the handshake, or waits for it.
LEMMA CreateKeeps ==
  ASSUME Undisturbed, NEW s \in Sides, Create(s) PROVE Undisturbed'
<1>1. /\ s \notin made /\ made' = made \union {s} /\ phase[s] = "handshaking"
      /\ UNCHANGED <<deaf, phase, hs, chan, tasks, awake, snapshot>>
      /\ wire' = IF s = "provider" THEN Post(s, Handshake("init")) ELSE wire
  BY DEF Create
<1>2. Early
  BY <1>1, SidesFacts DEF Undisturbed, Late
<1>3. SocketTypes'
  BY <1>1, Posting, FrameTypes DEF Undisturbed, SocketTypes
<1>4. CASE s = "provider"
  <2>1. Silent("provider") /\ Silent("consumer") /\ KeysAt("none", "none")
    BY <1>1, <1>2, <1>4 DEF Early
  <2>2. wire'["consumer"] = <<Handshake("init")>> /\ wire'["provider"] = << >>
    BY <1>1, <1>4, FrameTypes, <2>1, Posting, SidesFacts DEF Silent, Undisturbed
  <2>3. Message("consumer", "init")' /\ KeysAt("none", "none")'
    BY <1>1, <2>1, <2>2, SidesFacts DEF Message, Silent, KeysAt
  <2>4. Early'
    BY <1>1, <1>2, <1>4, <2>3 DEF Early
  <2> QED
    BY <1>1, <1>3, <2>4, EarlyCounters DEF Undisturbed
<1>5. CASE s = "consumer"
  BY <1>1, <1>5, SidesFacts, <1>2, <1>3, EarlyCounters DEF Early, Silent, Message, KeysAt, Undisturbed
<1> QED
  BY <1>4, <1>5, SidesFacts

\* The counters of a session are numbers, and so are those of the sealed frames.
LEMMA TypedCounters ==
  ASSUME SocketTypes, NEW s \in Sides
  PROVE  /\ chan[s] \in Counters /\ chan[s].send \in Nat /\ chan[s].recv \in Nat
         /\ snapshot.send \in Nat /\ snapshot.recv \in Nat
         /\ wire[s] \in Seq(SocketFrames) /\ Len(wire[s]) \in Nat
         /\ \A i \in 1 .. Len(wire[s]) : wire[s][i] \in SocketFrames /\ wire[s][i].counter \in Nat
         /\ \A t \in tasks[s] : t \in SocketTasks /\ t.frame \in SocketFrames /\ t.frame.counter \in Nat
<1>1. chan[s] \in Counters /\ snapshot \in Counters
  BY DEF SocketTypes
<1>2. chan[s].send \in Nat /\ chan[s].recv \in Nat /\ snapshot.send \in Nat /\ snapshot.recv \in Nat
  BY <1>1 DEF Counters
<1>3. wire[s] \in Seq(SocketFrames)
  BY DEF SocketTypes
<1>4. Len(wire[s]) \in Nat /\ \A i \in 1 .. Len(wire[s]) : wire[s][i] \in SocketFrames
  BY <1>3
<1>5. \A f \in SocketFrames : f.counter \in Nat
  BY DEF SocketFrames
<1>6. tasks[s] \in SUBSET SocketTasks
  BY DEF SocketTypes
<1>7. \A t \in tasks[s] : t \in SocketTasks /\ t.frame \in SocketFrames
  BY <1>6 DEF SocketTasks
<1> QED
  BY <1>1, <1>2, <1>3, <1>4, <1>5, <1>7

\* Steps that neither send nor open a frame of a side's wire leave its counters in order.
LEMMA CountersKeep ==
  ASSUME SocketTypes, SocketTypes', NEW s \in Sides, CountersRise(s), wire'[s] = wire[s],
         \A t \in tasks'[s] : t.frame.kind = "sealed" => t \in tasks[s],
         chan'[s].recv = chan[s].recv \/ (s = "provider" /\ chan'[s].recv = snapshot.recv),
         chan'[Other(s)].send = chan[Other(s)].send \/ chan'[Other(s)].send = chan[Other(s)].send + 1,
         s = "provider" => snapshot' = snapshot
  PROVE  CountersRise(s)'
<1>1. Other(s) \in Sides
  BY SidesFacts
<1>2. /\ chan[Other(s)].send \in Nat /\ chan'[Other(s)].send \in Nat
      /\ chan[s].recv \in Nat /\ chan'[s].recv \in Nat /\ snapshot.recv \in Nat
  BY <1>1 DEF SocketTypes, Counters
<1>3. chan[Other(s)].send <= chan'[Other(s)].send
  BY <1>2
<1>4. \A i \in 1 .. Len(wire[s]) : wire[s][i].counter \in Nat
  BY TypedCounters
<1>5. \A t \in tasks[s] : t.frame.counter \in Nat
  BY TypedCounters
<1>6. CountersBelow(s)'
  BY <1>2, <1>3, <1>5 DEF CountersRise, CountersBelow
<1>7. ASSUME NEW i \in 1 .. Len(wire'[s]), wire'[s][i].kind = "sealed"
      PROVE  /\ chan'[s].recv <= wire'[s][i].counter /\ wire'[s][i].counter < chan'[Other(s)].send
             /\ s = "provider" => snapshot'.recv <= wire'[s][i].counter
             /\ \A t \in tasks'[s] : t.frame.kind = "sealed" => t.frame.counter < wire'[s][i].counter
             /\ \A j \in 1 .. Len(wire'[s]) :
                  i < j /\ wire'[s][j].kind = "sealed" => wire'[s][i].counter < wire'[s][j].counter
  BY <1>2, <1>3, <1>4, <1>7 DEF CountersRise
<1> QED
  BY <1>6, <1>7, Zenon DEF CountersRise

\* A counter is taken: no wire changes.
LEMMA SendKeeps ==
  ASSUME Undisturbed, NEW s \in Sides, Send(s) PROVE Undisturbed'
<1>1. /\ phase[s] = "open" /\ (s = "consumer" \/ awake)
      /\ chan' = [chan EXCEPT ![s].send = @ + 1]
      /\ UNCHANGED <<deaf, made, phase, hs, wire, tasks, awake, snapshot>>
  BY DEF Send
<1>2. chan \in [Sides -> Counters] /\ chan[s].send \in Nat
  BY TypedCounters DEF Undisturbed, SocketTypes
<1>3. /\ chan' \in [Sides -> Counters] /\ chan'[s].send = chan[s].send + 1 /\ chan'[s].recv = chan[s].recv
      /\ chan'[Other(s)] = chan[Other(s)]
  BY <1>1, <1>2, SidesFacts DEF Counters
<1>4. SocketTypes'
  BY <1>1, <1>3 DEF Undisturbed, SocketTypes
<1>5. CountersRise("provider")' /\ CountersRise("consumer")'
  BY <1>1, <1>3, <1>4, CountersKeep, SidesFacts DEF Undisturbed
<1>6. Late
  BY <1>1, SidesFacts DEF Undisturbed, Early
<1>7. ConsumerOpens'
  BY <1>1, <1>3, <1>6, SidesFacts DEF Late, ConsumerOpens, AllSealed, Opening
<1>8. ProviderOpens'
  <2>1. s = "consumer" => chan'["provider"] = chan["provider"]
    BY <1>3, SidesFacts
  <2>2. s = "provider" => phase["provider"] = "open" /\ awake
    BY <1>1
  <2> QED
    BY <1>1, <1>6, <2>1, <2>2, SidesFacts DEF Late, ProviderOpens, AllSealed, Opening
<1> QED
  BY <1>1, <1>4, <1>5, <1>6, <1>7, <1>8 DEF Undisturbed, Late, KeysAt

\* Side s posts the frame with counter n.
Posts(s, n) ==
  wire' = Post(s, Sealed(n)) /\ UNCHANGED <<deaf, made, phase, hs, chan, tasks, awake, snapshot>>

\* A frame goes out behind all that its side has sent.
LEMMA PostKeeps ==
  ASSUME Undisturbed, NEW s \in Sides, NEW n \in Nat, n < chan[s].send, FramesBelow(Other(s), n),
         phase[s] = "open", s = "consumer" \/ awake, Posts(s, n)
  PROVE  Undisturbed'
<1> DEFINE o == Other(s)
<1>1. /\ Sealed(n) \in SocketFrames /\ Sealed(n).kind = "sealed" /\ Sealed(n).counter = n
      /\ UNCHANGED <<deaf, made, phase, hs, chan, tasks, awake, snapshot>>
  BY FrameTypes DEF Posts
<1>2. /\ o \in Sides /\ o # s /\ Other(o) = s /\ Sides = {"provider", "consumer"}
  BY SidesFacts
<1>3. /\ wire' \in [Sides -> Seq(SocketFrames)] /\ wire'[s] = wire[s]
      /\ Len(wire'[o]) = Len(wire[o]) + 1 /\ wire'[o][Len(wire[o]) + 1] = Sealed(n)
      /\ \A i \in 1 .. Len(wire[o]) : wire'[o][i] = wire[o][i]
  <2>1. SocketTypes /\ phase[s] # "closed" /\ wire' = Post(s, Sealed(n))
    BY DEF Undisturbed, Posts
  <2> QED
    BY <1>1, <2>1, Posting
<1>4. Len(wire[o]) \in Nat /\ \A i \in 1 .. Len(wire'[o]) : i \in 1 .. Len(wire[o]) \/ i = Len(wire[o]) + 1
  BY <1>2, <1>3 DEF Undisturbed, SocketTypes
<1>5. SocketTypes'
  BY <1>1, <1>3 DEF Undisturbed, SocketTypes
<1>6. Late
  BY <1>2 DEF Undisturbed, Early
<1>7. CountersRise(s)'
  BY <1>1, <1>2, <1>3, <1>5, CountersKeep DEF Undisturbed
<1>8. CountersRise(o)
  BY <1>2 DEF Undisturbed
<1>9. /\ chan[o].recv <= n /\ (o = "provider" => snapshot.recv <= n)
      /\ \A t \in tasks[o] : t.frame.kind = "sealed" => t.frame.counter < n
      /\ \A i \in 1 .. Len(wire[o]) : wire[o][i].kind = "sealed" => wire[o][i].counter < n
  BY DEF FramesBelow
<1>10. /\ chan[o].recv \in Nat /\ snapshot.recv \in Nat
       /\ \A i \in 1 .. Len(wire[o]) : wire[o][i].counter \in Nat
       /\ \A t \in tasks[o] : t.frame.counter \in Nat
  BY <1>2, TypedCounters DEF Undisturbed
<1> HIDE DEF o
<1>11. CountersRise(o)'
  <2>1. CountersBelow(o)'
    BY <1>1, <1>8 DEF CountersRise, CountersBelow
  <2>2. ASSUME NEW i \in 1 .. Len(wire'[o]), wire'[o][i].kind = "sealed"
        PROVE  /\ chan'[o].recv <= wire'[o][i].counter /\ wire'[o][i].counter < chan'[Other(o)].send
               /\ o = "provider" => snapshot'.recv <= wire'[o][i].counter
               /\ \A t \in tasks'[o] : t.frame.kind = "sealed" => t.frame.counter < wire'[o][i].counter
               /\ \A j \in 1 .. Len(wire'[o]) :
                    i < j /\ wire'[o][j].kind = "sealed" => wire'[o][i].counter < wire'[o][j].counter
    <3>1. CASE i = Len(wire[o]) + 1
      <4>1. \A j \in 1 .. Len(wire'[o]) : ~(i < j)
        BY <1>3, <1>4, <3>1
      <4> QED
        BY <1>1, <1>2, <1>3, <1>9, <3>1, <4>1
    <3>2. CASE i \in 1 .. Len(wire[o])
      <4>1. wire'[o][i] = wire[o][i] /\ wire[o][i].kind = "sealed"
        BY <1>3, <2>2, <3>2
      <4>2. ASSUME NEW j \in 1 .. Len(wire'[o]), i < j, wire'[o][j].kind = "sealed"
            PROVE  wire[o][i].counter < wire'[o][j].counter
        <5>1. CASE j \in 1 .. Len(wire[o])
          BY <1>3, <1>8, <3>2, <4>1, <4>2, <5>1 DEF CountersRise
        <5>2. CASE j = Len(wire[o]) + 1
          BY <1>1, <1>3, <1>9, <3>2, <4>1, <5>2
        <5> QED
          BY <1>4, <5>1, <5>2
      <4> QED
        BY <1>1, <1>8, <3>2, <4>1, <4>2 DEF CountersRise
    <3> QED
      BY <1>4, <3>1, <3>2
  <2> QED
    BY <2>1, <2>2 DEF CountersRise
<1>12. Late'
  <2>1. \A k \in 1 .. 2 : AllSealed(o, k) => AllSealed(o, k)'
    <3> SUFFICES ASSUME NEW k \in 1 .. 2, AllSealed(o, k), NEW i \in k .. Len(wire'[o])
                 PROVE  wire'[o][i].kind = "sealed"
      BY DEF AllSealed
    <3>1. CASE i = Len(wire[o]) + 1
      BY <1>1, <1>3, <3>1
    <3>2. CASE i # Len(wire[o]) + 1
      <4>1. i \in 1 .. Len(wire[o]) /\ i \in k .. Len(wire[o])
        BY <1>3, <1>4, <3>2
      <4> QED
        BY <1>3, <4>1 DEF AllSealed
    <3> QED
      BY <3>1, <3>2
  <2>2. \A k \in 1 .. 2 : AllSealed(s, k) => AllSealed(s, k)'
    BY <1>3 DEF AllSealed
  <2>3. \A x \in Sides : Opening(x) => Opening(x)'
    BY <1>1 DEF Opening
  <2>4. \A x \in Sides, k \in 1 .. 2 : AllSealed(x, k) => AllSealed(x, k)'
    BY <1>2, <2>1, <2>2
  <2>5. ConsumerOpens'
    BY <1>1, <1>2, <1>6, <2>3, <2>4 DEF Late, ConsumerOpens
  <2>6. ProviderOpens'
    <3>1. wire["provider"] # << >> /\ wire["provider"][1] = Handshake("confirm") =>
            wire'["provider"] # << >> /\ wire'["provider"][1] = Handshake("confirm")
      BY <1>3, <1>2, <1>4 DEF Undisturbed, SocketTypes
    <3> QED
      BY <1>1, <1>2, <1>6, <2>3, <2>4, <3>1 DEF Late, ProviderOpens
  <2> QED
    BY <1>1, <1>6, <2>5, <2>6 DEF Late, KeysAt
<1> QED
  BY <1>1, <1>2, <1>5, <1>7, <1>11, <1>12 DEF Undisturbed

\* What a frame does when it arrives undisturbed: it starts its handler.
LEMMA DeliverEffect ==
  ASSUME Undisturbed, NEW s \in Sides, Deliver(s), disturbed' = {}
  PROVE  /\ wire[s] # << >> /\ (s = "consumer" \/ awake)
         /\ wire' = [wire EXCEPT ![s] = Tail(@)] /\ Head(wire[s]) = wire[s][1]
         /\ UNCHANGED <<made, hs, chan, awake, phase, deaf>>
         /\ tasks' = [tasks EXCEPT ![s] = @ \union {[frame |-> wire[s][1], step |-> "crypto"]}]
         /\ snapshot' = snapshot \/ (s = "provider" /\ phase[s] = "open" /\ snapshot' = chan[s])
         /\ phase[s] = "handshaking" => snapshot' = snapshot /\ wire[s][1].kind # "sealed" /\ s \in made
         /\ phase[s] = "open" => wire[s][1].kind = "sealed"
<1> DEFINE f == Head(wire[s])
<1>1. /\ wire[s] # << >> /\ (s = "consumer" \/ awake) /\ OnFrame(s, f)
      /\ wire' = [wire EXCEPT ![s] = Tail(@)] /\ snapshot' = Persisted(s)
      /\ UNCHANGED <<made, hs, chan, awake>>
  BY DEF Deliver
<1>2. wire[s] \in Seq(SocketFrames) /\ Len(wire[s]) \in Nat /\ f = wire[s][1] /\ Len(wire[s]) > 0
  BY <1>1, TypedCounters DEF Undisturbed
<1> HIDE DEF f
<1>3. ~(phase[s] = "handshaking" /\ f.kind = "sealed") /\ ~(s \notin made /\ f.kind = "init")
  BY <1>1 DEF OnFrame
<1>4. 1 \in 1 .. Len(wire[s]) /\ 2 \in 1 .. 2
  BY <1>2
<1>5. snapshot' = snapshot \/ (s = "provider" /\ phase[s] = "open" /\ snapshot' = chan[s])
  BY <1>1 DEF Persisted
<1>6. phase[s] \in {"handshaking", "open"}
  BY SidesFacts DEF Undisturbed, Early, Late, ConsumerOpens, ProviderOpens
<1>7. CASE phase[s] = "open"
  <2>1. Late
    BY <1>7, SidesFacts DEF Undisturbed, Early
  <2>2. AllSealed(s, 1)
    BY <1>7, <2>1, SidesFacts DEF Late, ConsumerOpens, ProviderOpens
  <2>3. f.kind = "sealed"
    BY <1>2, <1>4, <2>2 DEF AllSealed
  <2>4. CountersRise(s)
    BY SidesFacts DEF Undisturbed
  <2>5. chan[s].recv <= f.counter /\ chan[s].recv \in Nat /\ f.counter \in Nat
    BY <1>2, <1>4, <2>3, <2>4, TypedCounters DEF Undisturbed, CountersRise
  <2>6. Starts(s, f) /\ ~Breaks(s, f)
    BY <1>7, <2>3, <2>5 DEF Starts, Breaks, Accepts, Undisturbed
  <2> QED
    BY <1>1, <1>2, <1>5, <1>7, <2>3, <2>6 DEF OnFrame
<1>8. CASE phase[s] = "handshaking"
  <2>1. \/ s = "consumer" /\ f = Handshake("init")
        \/ "provider" \in made /\ s = "provider" /\ f = Handshake("response")
        \/ "consumer" \in made /\ s = "consumer" /\ f = Handshake("request") /\ hs["consumer"] = "keys"
        \/ "provider" \in made /\ s = "provider" /\ f = Handshake("confirm") /\ hs["provider"] # "none"
    <3>1. CASE Early
      BY <1>1, <1>2, <3>1, SidesFacts DEF Early, Message, Handler, Silent, KeysAt
    <3>2. CASE Late
      BY <1>2, <1>3, <1>4, <1>8, <3>2, SidesFacts DEF AllSealed, Late, ConsumerOpens, ProviderOpens
    <3> QED
      BY <3>1, <3>2 DEF Undisturbed
  <2>2. s \in made
    BY <1>3, <2>1, FrameTypes
  <2>3. f.kind # "sealed" /\ Expects(s, f)
    BY <2>1, FrameTypes, SidesFacts DEF Expects
  <2>4. ~Premature(s, f)
    BY <2>1, FrameTypes DEF Premature
  <2>5. Starts(s, f) /\ ~Breaks(s, f)
    BY <1>8, <2>2, <2>3, <2>4 DEF Starts, Breaks, Undisturbed
  <2>6. UNCHANGED <<phase, deaf>> /\ tasks' = [tasks EXCEPT ![s] = @ \union {[frame |-> f, step |-> "crypto"]}]
    BY <1>1, <2>5 DEF OnFrame
  <2>7. snapshot' = snapshot /\ phase[s] # "open"
    BY <1>5, <1>8
  <2> QED
    BY <1>1, <1>2, <1>8, <2>2, <2>3, <2>6, <2>7
<1> QED
  BY <1>6, <1>7, <1>8

\* A delivery keeps the counters in order: the frame that leaves the wire is below
\* the ones behind it.
LEMMA DeliverCounters ==
  ASSUME Undisturbed, SocketTypes', NEW s \in Sides, Deliver(s), disturbed' = {}
  PROVE  CountersRise("provider")' /\ CountersRise("consumer")'
<1> DEFINE f == wire[s][1]
           o == Other(s)
<1>1. /\ wire[s] # << >> /\ wire' = [wire EXCEPT ![s] = Tail(@)]
      /\ chan' = chan
      /\ tasks' = [tasks EXCEPT ![s] = @ \union {[frame |-> f, step |-> "crypto"]}]
      /\ snapshot' = snapshot \/ (s = "provider" /\ snapshot' = chan[s])
  BY DeliverEffect
<1>2. o \in Sides /\ o # s /\ Other(o) = s
  BY SidesFacts
<1>3. /\ wire[s] \in Seq(SocketFrames) /\ Len(wire[s]) \in Nat /\ Len(wire[s]) > 0
      /\ wire \in [Sides -> Seq(SocketFrames)] /\ tasks \in [Sides -> SUBSET SocketTasks]
  BY <1>1, TypedCounters DEF Undisturbed, SocketTypes
<1>4. /\ wire'[s] = Tail(wire[s]) /\ Len(wire'[s]) = Len(wire[s]) - 1
      /\ \A i \in 1 .. Len(wire'[s]) : wire'[s][i] = wire[s][i + 1]
  BY <1>1, <1>3
<1>5. /\ wire'[o] = wire[o] /\ tasks'[o] = tasks[o]
      /\ tasks'[s] = tasks[s] \union {[frame |-> f, step |-> "crypto"]}
  BY <1>1, <1>2, <1>3
<1>6. 1 \in 1 .. Len(wire[s]) /\ \A i \in 1 .. Len(wire'[s]) : i + 1 \in 1 .. Len(wire[s]) /\ 1 < i + 1
  BY <1>3, <1>4
<1> HIDE DEF f, o
<1>7. CountersRise(s) /\ CountersRise(o)
  BY <1>2, SidesFacts DEF Undisturbed
<1>8. CountersRise(o)'
  BY <1>1, <1>2, <1>5, <1>7, CountersKeep, SidesFacts DEF Undisturbed
<1>9. CountersRise(s)'
  <2>1. \A t \in tasks'[s] : t \in tasks[s] \/ t.frame = f
    BY <1>5
  <2>2. f.kind = "sealed" => f.counter < chan[o].send
    BY <1>6, <1>7 DEF CountersRise, f, o
  <2>3. CountersBelow(s)'
    BY <1>1, <1>7, <2>1, <2>2 DEF CountersRise, CountersBelow, o
  <2>4. ASSUME NEW i \in 1 .. Len(wire'[s]), wire'[s][i].kind = "sealed"
        PROVE  /\ chan'[s].recv <= wire'[s][i].counter /\ wire'[s][i].counter < chan'[Other(s)].send
               /\ s = "provider" => snapshot'.recv <= wire'[s][i].counter
               /\ \A t \in tasks'[s] : t.frame.kind = "sealed" => t.frame.counter < wire'[s][i].counter
               /\ \A j \in 1 .. Len(wire'[s]) :
                    i < j /\ wire'[s][j].kind = "sealed" => wire'[s][i].counter < wire'[s][j].counter
    <3>1. wire'[s][i] = wire[s][i + 1] /\ i + 1 \in 1 .. Len(wire[s]) /\ 1 < i + 1 /\ wire[s][i + 1].kind = "sealed"
      BY <1>4, <1>6, <2>4
    <3>2. /\ chan[s].recv <= wire[s][i + 1].counter /\ wire[s][i + 1].counter < chan[o].send
          /\ s = "provider" => snapshot.recv <= wire[s][i + 1].counter
          /\ \A t \in tasks[s] : t.frame.kind = "sealed" => t.frame.counter < wire[s][i + 1].counter
          /\ \A j \in 1 .. Len(wire[s]) :
               i + 1 < j /\ wire[s][j].kind = "sealed" => wire[s][i + 1].counter < wire[s][j].counter
      BY <1>7, <3>1 DEF CountersRise, o
    <3>3. f.kind = "sealed" => f.counter < wire[s][i + 1].counter
      BY <1>6, <1>7, <3>1 DEF CountersRise, f
    <3>4. \A t \in tasks'[s] : t.frame.kind = "sealed" => t.frame.counter < wire'[s][i].counter
      BY <2>1, <3>1, <3>2, <3>3
    <3>5. ASSUME NEW j \in 1 .. Len(wire'[s]), i < j, wire'[s][j].kind = "sealed"
          PROVE  wire'[s][i].counter < wire'[s][j].counter
      BY <1>3, <1>4, <1>6, <3>5, <3>1, <3>2
    <3>6. s = "provider" => snapshot'.recv <= wire[s][i + 1].counter
      BY <1>1, <3>2
    <3> QED
      BY <1>1, <3>1, <3>2, <3>4, <3>5, <3>6 DEF o
  <2> QED
    BY <2>3, <2>4 DEF CountersRise
<1> QED
  BY <1>2, <1>8, <1>9, SidesFacts

\* Delivering a frame that nothing disturbs starts its handler.
LEMMA DeliverKeeps ==
  ASSUME Undisturbed, NEW s \in Sides, Deliver(s), disturbed' = {} PROVE Undisturbed'
<1> DEFINE f == wire[s][1]
           o == Other(s)
<1>1. /\ wire[s] # << >> /\ (s = "consumer" \/ awake)
      /\ wire' = [wire EXCEPT ![s] = Tail(@)]
      /\ UNCHANGED <<made, hs, chan, awake, phase, deaf>>
      /\ tasks' = [tasks EXCEPT ![s] = @ \union {[frame |-> f, step |-> "crypto"]}]
      /\ snapshot' = snapshot \/ (s = "provider" /\ phase[s] = "open" /\ snapshot' = chan[s])
      /\ phase[s] = "handshaking" => snapshot' = snapshot /\ f.kind # "sealed" /\ s \in made
      /\ phase[s] = "open" => f.kind = "sealed"
  BY DeliverEffect
<1>2. o \in Sides /\ o # s /\ Other(o) = s
  BY SidesFacts
<1>3. /\ wire[s] \in Seq(SocketFrames) /\ Len(wire[s]) \in Nat /\ f \in SocketFrames /\ chan[s] \in Counters
      /\ wire \in [Sides -> Seq(SocketFrames)] /\ tasks \in [Sides -> SUBSET SocketTasks]
      /\ Len(wire[s]) > 0
  BY <1>1, TypedCounters DEF Undisturbed, SocketTypes
<1>4. [frame |-> f, step |-> "crypto"] \in SocketTasks
  BY <1>3 DEF SocketTasks
<1> HIDE DEF f, o
<1>5. SocketTypes'
  BY <1>1, <1>3, <1>4 DEF Undisturbed, SocketTypes
<1>6. CountersRise("provider")' /\ CountersRise("consumer")'
  BY <1>5, DeliverCounters
<1>7. /\ wire'[s] = Tail(wire[s]) /\ wire'[o] = wire[o] /\ tasks'[o] = tasks[o]
      /\ tasks'[s] = tasks[s] \union {[frame |-> f, step |-> "crypto"]}
  BY <1>1, <1>2, <1>3
<1>8. ASSUME Early PROVE Early'
  <2>1. ASSUME NEW k \in {"init", "response", "request"}, Message(s, k) PROVE Handler(s, k)' /\ f = Handshake(k)
    BY <2>1, <1>7 DEF Message, o, f, Handling, Silent, Handler
  <2>2. phase[s] = "handshaking" /\ s \in made /\ snapshot' = snapshot
    BY <1>1, <1>8, SidesFacts DEF Early
  <2>3. CASE "provider" \in made /\ Message("consumer", "init") /\ KeysAt("none", "none")
    BY <1>1, <2>3, SidesFacts, <2>1, <1>8, <2>2 DEF Message, Silent, KeysAt, Early
  <2>4. CASE "provider" \in made /\ "consumer" \in made /\ Message("provider", "response") /\ KeysAt("none", "keys")
    BY <1>1, <2>4, SidesFacts, <2>1, <1>8, <2>2 DEF Message, Silent, KeysAt, Early
  <2>5. CASE "provider" \in made /\ "consumer" \in made /\ Message("consumer", "request") /\ KeysAt("keys", "keys")
    BY <1>1, <2>5, SidesFacts, <2>1, <1>8, <2>2 DEF Message, Silent, KeysAt, Early
  <2>6. CASE Silent(s) \/ wire[s] = << >>
    BY <1>1, <2>6 DEF Silent
  <2> QED
    BY <1>8, <2>3, <2>4, <2>5, <2>6, SidesFacts DEF Early, Handler, Silent
<1>9. ASSUME Late PROVE Late'
  <2>1. \A k \in 1 .. 2 : AllSealed(s, k) => AllSealed(s, 1)'
    BY <1>1, <1>3, <1>7 DEF AllSealed
  <2>2. \A k \in 1 .. 2 : AllSealed(o, k) => AllSealed(o, k)'
    BY <1>7 DEF AllSealed
  <2>3. Opening(o) => Opening(o)'
    BY <1>7 DEF Opening
  <2>4. f.kind = "sealed" /\ Opening(s) => Opening(s)'
    BY <1>7 DEF Opening
  <2>5. CASE s = "consumer"
    <3>1. o = "provider" /\ snapshot' = snapshot
      BY <1>1, <2>5, SidesFacts DEF o
    <3>2. phase["consumer"] = "open"
      BY <1>3, <1>9, <2>5, <1>1 DEF Late, ConsumerOpens, AllSealed, f
    <3>3. ConsumerOpens'
      BY <1>1, <1>9, <2>1, <2>4, <2>5, <3>2 DEF Late, ConsumerOpens
    <3>5. /\ AllSealed("provider", 1) => AllSealed("provider", 1)'
          /\ AllSealed("provider", 2) => AllSealed("provider", 2)'
          /\ Opening("provider") => Opening("provider")'
      BY <2>2, <2>3, <3>1
    <3>6. /\ wire'["provider"] = wire["provider"] /\ tasks'["provider"] = tasks["provider"]
          /\ UNCHANGED <<phase, awake, chan, snapshot>>
      BY <1>1, <1>7, <3>1
    <3>4. ProviderOpens'
      BY <1>9, <3>5, <3>6 DEF Late, ProviderOpens
    <3> QED
      BY <1>1, <1>9, <3>3, <3>4 DEF Late, KeysAt
  <2>6. CASE s = "provider"
    <3>1. o = "consumer" /\ awake
      BY <1>1, <2>6, SidesFacts DEF o
    <3>2. ConsumerOpens'
      BY <1>1, <1>7, <1>9, <2>2, <2>3, <3>1 DEF Late, ConsumerOpens
    <3>3. CASE phase["provider"] = "open"
      <4>1. ProviderOpens'
        BY <1>1, <1>9, <2>1, <2>4, <2>6, <3>1, <3>3 DEF Late, ProviderOpens
      <4> QED
        BY <1>1, <1>9, <3>2, <4>1 DEF Late, KeysAt
    <3>4. CASE phase["provider"] = "handshaking"
      <4>1. f.kind # "sealed" /\ snapshot' = snapshot
        BY <1>1, <2>6, <3>4
      <4>2. ~AllSealed("provider", 1) /\ 1 \in 1 .. Len(wire[s])
        BY <1>3, <2>6, <4>1 DEF AllSealed, f
      <4>3. /\ wire["provider"][1] = Handshake("confirm")
            /\ AllSealed("provider", 2) /\ tasks["provider"] = {}
            /\ chan["provider"] = NoChannel /\ snapshot = NoChannel
        BY <1>9, <3>4, <4>2 DEF Late, ProviderOpens
      <4>4. tasks'["provider"] = Handling("confirm", "crypto") /\ AllSealed("provider", 1)'
        BY <1>7, <2>1, <2>6, <4>3 DEF Handling, f
      <4>5. ProviderOpens'
        BY <1>1, <3>1, <3>4, <4>1, <4>3, <4>4 DEF ProviderOpens
      <4> QED
        BY <1>1, <1>9, <3>2, <4>5 DEF Late, KeysAt
    <3> QED
      BY <1>9, <3>3, <3>4 DEF Late, ProviderOpens
  <2> QED
    BY <2>5, <2>6, SidesFacts
<1> QED
  BY <1>1, <1>5, <1>6, <1>8, <1>9 DEF Undisturbed

\* The durable object sleeps and wakes with the counters it went to sleep with.
LEMMA SleepKeeps ==
  ASSUME Undisturbed, Sleep, disturbed' = {} PROVE Undisturbed'
<1>1. /\ awake /\ phase["provider"] = "open" /\ tasks["provider"] = {} /\ awake' = FALSE
      /\ snapshot.send = chan["provider"].send
      /\ UNCHANGED <<deaf, made, phase, hs, chan, wire, tasks, snapshot>>
  BY DEF Sleep
<1>2. SocketTypes'
  BY <1>1 DEF Undisturbed, SocketTypes
<1>3. ASSUME NEW s \in Sides, CountersRise(s) PROVE CountersRise(s)'
  BY <1>1, <1>2, <1>3, CountersKeep DEF Undisturbed
<1>4. Late
  BY <1>1 DEF Undisturbed, Early
<1>5. ConsumerOpens' /\ ProviderOpens'
  BY <1>1, <1>4 DEF Late, ConsumerOpens, ProviderOpens, AllSealed, Opening
<1>6. Late'
  BY <1>1, <1>4, <1>5 DEF Late, KeysAt
<1> QED
  BY <1>1, <1>2, <1>3, <1>6, SidesFacts DEF Undisturbed

\* A hub that wakes with the counters it had loses nothing.
LEMMA WakeKeeps ==
  ASSUME Undisturbed, Wake PROVE Undisturbed'
<1>1. /\ ~awake /\ awake' = TRUE /\ deaf' = deaf \ {"provider"}
      /\ chan' = [chan EXCEPT !["provider"] = snapshot]
      /\ UNCHANGED <<made, phase, hs, wire, tasks, snapshot>>
  BY DEF Wake
<1>2. Late
  BY <1>1 DEF Undisturbed, Early
<1>3. /\ phase["provider"] = "open" /\ AllSealed("provider", 1) /\ Opening("provider")
      /\ snapshot.send = chan["provider"].send
  BY <1>1, <1>2 DEF Late, ProviderOpens
<1>4. chan \in [Sides -> Counters] /\ snapshot \in Counters
  BY DEF Undisturbed, SocketTypes
<1>5. /\ chan' \in [Sides -> Counters] /\ chan'["provider"] = snapshot /\ chan'["consumer"] = chan["consumer"]
  BY <1>1, <1>4, SidesFacts
<1>6. SocketTypes'
  BY <1>1, <1>5 DEF Undisturbed, SocketTypes
<1>7. CountersRise("provider")'
  BY <1>1, <1>5, <1>6, CountersKeep, SidesFacts DEF Undisturbed
<1>8. CountersRise("consumer")'
  BY <1>3, <1>5, SidesFacts, <1>1, <1>6, CountersKeep DEF Undisturbed
<1>9. ProviderOpens'
  BY <1>1, <1>3 DEF ProviderOpens, AllSealed, Opening
<1>10. ConsumerOpens'
  BY <1>1, <1>2, <1>5 DEF Late, ConsumerOpens, AllSealed, Opening
<1>11. Late'
  BY <1>1, <1>2, <1>9, <1>10 DEF Late, KeysAt
<1> QED
  BY <1>1, <1>6, <1>7, <1>8, <1>11 DEF Undisturbed

\* A sealed frame is opened, in whatever order the decryptions end.
LEMMA OpenedKeeps ==
  ASSUME Undisturbed, NEW s \in Sides, NEW t \in tasks[s], Opened(s, t),
         UNCHANGED <<deaf, made, awake, snapshot>>
  PROVE  Undisturbed'
<1> DEFINE o == Other(s)
           n == t.frame.counter + 1
<1>1. /\ t.step = "crypto" /\ t.frame.kind = "sealed"
      /\ chan' = [chan EXCEPT ![s].recv = n]
      /\ tasks' = [tasks EXCEPT ![s] = @ \ {t}]
      /\ UNCHANGED <<phase, hs, wire>>
  BY DEF Opened, Finished
<1>2. o \in Sides /\ o # s /\ Other(o) = s
  BY SidesFacts
<1>3. t.frame.counter \in Nat /\ n \in Nat
  BY TypedCounters DEF Undisturbed
<1>4. chan \in [Sides -> Counters] /\ tasks \in [Sides -> SUBSET SocketTasks]
  BY DEF Undisturbed, SocketTypes
<1> HIDE DEF n, o
<1>5. /\ chan' \in [Sides -> Counters] /\ chan'[s].send = chan[s].send /\ chan'[s].recv = n
      /\ chan'[o] = chan[o]
  BY <1>4, <1>3, <1>1, <1>2 DEF Counters
<1>6. /\ tasks'[o] = tasks[o] /\ tasks'[s] = tasks[s] \ {t}
      /\ tasks' \in [Sides -> SUBSET SocketTasks]
  BY <1>1, <1>2, <1>4
<1>7. SocketTypes'
  BY <1>1, <1>5, <1>6 DEF Undisturbed, SocketTypes
<1>8. CountersRise(s) /\ CountersRise(o)
  BY <1>2, SidesFacts DEF Undisturbed
<1>9. CountersRise(o)'
  BY <1>1, <1>2, <1>5, <1>6, <1>7, <1>8, CountersKeep DEF Undisturbed
<1>10. CountersRise(s)'
  <2>1. chan[o].send \in Nat /\ chan'[o].send = chan[o].send
    BY <1>2, <1>5, TypedCounters DEF Undisturbed
  <2>2. n <= chan[o].send
    BY <1>1, <1>8, <1>3, <2>1 DEF CountersRise, CountersBelow, o, n
  <2>3. CountersBelow(s)'
    BY <1>5, <1>6, <1>8, <2>1, <2>2 DEF CountersRise, CountersBelow, o
  <2>4. ASSUME NEW i \in 1 .. Len(wire[s]), wire[s][i].kind = "sealed" PROVE n <= wire[s][i].counter
    BY <1>1, <1>8, <2>4, TypedCounters, <1>3 DEF CountersRise, Undisturbed, n
  <2>5. ASSUME NEW i \in 1 .. Len(wire'[s]), wire'[s][i].kind = "sealed"
        PROVE  /\ chan'[s].recv <= wire'[s][i].counter /\ wire'[s][i].counter < chan'[Other(s)].send
               /\ s = "provider" => snapshot'.recv <= wire'[s][i].counter
               /\ \A x \in tasks'[s] : x.frame.kind = "sealed" => x.frame.counter < wire'[s][i].counter
               /\ \A j \in 1 .. Len(wire'[s]) :
                    i < j /\ wire'[s][j].kind = "sealed" => wire'[s][i].counter < wire'[s][j].counter
    BY <1>1, <1>5, <1>6, <1>8, <2>1, <2>4, <2>5 DEF CountersRise, o
  <2> QED
    BY <2>3, <2>5 DEF CountersRise
<1>11. Late
  BY <1>1, FrameTypes, SidesFacts DEF Undisturbed, Early, Message, Handler, Silent, Handling
<1>12. phase[s] = "open" /\ Opening(s) /\ AllSealed(s, 1)
  BY <1>1, FrameTypes, <1>11, SidesFacts DEF Handling, Late, ConsumerOpens, ProviderOpens
<1>13. Opening(s)' /\ AllSealed(s, 1)'
  BY <1>1, <1>6, <1>12 DEF Opening, AllSealed
<1>14. (s = "provider" => awake)
  BY <1>11, <1>12 DEF Late, ProviderOpens
<1>15. CASE s = "provider"
  <2>1. ProviderOpens'
    BY <1>1, <1>12, <1>13, <1>14, <1>15 DEF ProviderOpens
  <2>2. ConsumerOpens'
    BY <1>1, <1>5, <1>6, <1>11, <1>15, SidesFacts DEF Late, ConsumerOpens, AllSealed, Opening, o
  <2> QED
    BY <1>1, <1>7, <1>9, <1>10, <1>11, <1>15, <2>1, <2>2, SidesFacts DEF Undisturbed, Late, KeysAt, o
<1>16. CASE s = "consumer"
  <2>1. ConsumerOpens'
    BY <1>1, <1>12, <1>13, <1>16 DEF ConsumerOpens
  <2>2. /\ chan'["provider"] = chan["provider"] /\ tasks'["provider"] = tasks["provider"]
    BY <1>5, <1>6, <1>16, SidesFacts DEF o
  <2>3. ProviderOpens'
    BY <1>1, <1>11, <2>2 DEF Late, ProviderOpens, AllSealed, Opening
  <2> QED
    BY <1>1, <1>7, <1>9, <1>10, <1>11, <1>16, <2>1, <2>3, SidesFacts DEF Undisturbed, Late, KeysAt, o
<1> QED
  BY <1>15, <1>16, SidesFacts

\* The task of a side that runs one handler of the handshake is that handler.
LEMMA TheOnlyTask ==
  ASSUME NEW s \in Sides, NEW k \in {"init", "response", "request", "confirm"}, NEW p \in {"crypto", "import"},
         tasks[s] = Handling(k, p), NEW t \in tasks[s]
  PROVE  /\ t = [frame |-> Handshake(k), step |-> p] /\ t.frame = Handshake(k) /\ t.frame.kind = k /\ t.step = p
         /\ tasks[s] \ {t} = {} /\ (tasks[s] \ {t}) \union {[t EXCEPT !.step = "import"]} = Handling(k, "import")
BY FrameTypes DEF Handling

\* The handlers of the first part pass the handshake on to the other side.
LEMMA KeysDerivedKeeps ==
  ASSUME Undisturbed, NEW s \in Sides, NEW t \in tasks[s], KeysDerived(s, t),
         UNCHANGED <<deaf, made, awake, snapshot>>
  PROVE  Undisturbed'
<1> DEFINE o == Other(s)
<1>1. /\ t.step = "crypto" /\ t.frame.kind \in {"init", "response"}
      /\ hs' = [hs EXCEPT ![s] = IF @ = "none" THEN "keys" ELSE @]
      /\ wire' = Post(s, Handshake(IF t.frame.kind = "init" THEN "response" ELSE "request"))
      /\ tasks' = [tasks EXCEPT ![s] = @ \ {t}]
      /\ UNCHANGED <<phase, chan>>
  BY DEF KeysDerived, Finished
<1>2. o \in Sides /\ o # s /\ Other(o) = s
  BY SidesFacts
<1>3. ~Late
  BY <1>1, TheOnlyTask, SidesFacts DEF Opening, Late, ConsumerOpens, ProviderOpens
<1>4. Early
  BY <1>3 DEF Undisturbed
<1>5. \/ s = "consumer" /\ Handler("consumer", "init") /\ KeysAt("none", "none")
      \/ s = "provider" /\ Handler("provider", "response") /\ KeysAt("none", "keys")
  BY <1>1, TheOnlyTask, <1>4, SidesFacts DEF Early, Message, Handler, Silent
<1>6. PICK k \in {"init", "response"} : Handler(s, k) /\ (k = "init" <=> s = "consumer")
  BY <1>5
<1>7. "provider" \in made /\ "consumer" \in made
  BY <1>4, <1>6, SidesFacts, FrameTypes DEF Early, Handler, Message, Silent, Handling
<1>8. tasks[s] = Handling(k, "crypto") /\ wire[s] = << >> /\ wire[o] = << >> /\ tasks[o] = {}
  BY <1>6 DEF Handler, Silent
<1>9. t.frame.kind = k /\ tasks[s] \ {t} = {}
  BY <1>8, TheOnlyTask
<1>10. tasks \in [Sides -> SUBSET SocketTasks] /\ hs \in [Sides -> {"none", "keys", "confirmed"}]
  BY DEF Undisturbed, SocketTypes
<1>11. tasks'[s] = {} /\ tasks'[o] = {} /\ tasks' \in [Sides -> SUBSET SocketTasks]
  BY <1>1, <1>2, <1>8, <1>9, <1>10
<1>12. PICK m \in {"response", "request"} : wire' = Post(s, Handshake(m)) /\ (m = "response" <=> k = "init")
  BY <1>1, <1>9
<1>13. wire' \in [Sides -> Seq(SocketFrames)] /\ wire'[s] = << >> /\ wire'[o] = <<Handshake(m)>>
  <2>1. Handshake(m) \in SocketFrames /\ phase[s] # "closed"
    BY <1>4, FrameTypes, SidesFacts DEF Early
  <2> QED
    BY <1>8, <1>12, <2>1, Posting DEF Undisturbed
<1>14. hs' \in [Sides -> {"none", "keys", "confirmed"}] /\ hs'[o] = hs[o]
       /\ hs'[s] = IF hs[s] = "none" THEN "keys" ELSE hs[s]
  BY <1>1, <1>2, <1>10
<1> HIDE DEF o
<1>15. SocketTypes'
  BY <1>1, <1>11, <1>13, <1>14 DEF Undisturbed, SocketTypes
<1>16. Message(o, m)'
  BY <1>2, <1>11, <1>13 DEF Message, Silent
<1>17. CASE s = "consumer"
  <2>1. m = "response" /\ o = "provider" /\ KeysAt("none", "keys")'
    BY <1>5, <1>6, <1>12, <1>14, <1>17, SidesFacts DEF KeysAt, o
  <2>2. Early'
    BY <1>1, <1>4, <1>7, <1>16, <2>1 DEF Early
  <2> QED
    BY <1>15, <2>2, EarlyCounters DEF Undisturbed
<1>18. CASE s = "provider"
  <2>1. m = "request" /\ o = "consumer" /\ KeysAt("keys", "keys")'
    BY <1>5, <1>6, <1>12, <1>14, <1>18, SidesFacts DEF KeysAt, o
  <2>2. Early'
    BY <1>1, <1>4, <1>7, <1>16, <2>1 DEF Early
  <2> QED
    BY <1>15, <2>2, EarlyCounters DEF Undisturbed
<1> QED
  BY <1>17, <1>18, SidesFacts

\* Without sealed frames and with fresh channels there is nothing to keep in order.
LEMMA FreshCounters ==
  ASSUME \A s \in Sides : (\A i \in 1 .. Len(wire'[s]) : wire'[s][i].kind # "sealed")
                          /\ (\A t \in tasks'[s] : t.frame.kind # "sealed"),
         chan'["provider"] = NoChannel, chan'["consumer"] = NoChannel, snapshot' = NoChannel
  PROVE  CountersRise("provider")' /\ CountersRise("consumer")'
BY SidesFacts, FrameTypes DEF CountersBelow, CountersRise

\* The confirmations: the consumer's starts the second part, the provider's ends its own.
LEMMA ConfirmedKeeps ==
  ASSUME Undisturbed, NEW s \in Sides, NEW t \in tasks[s], Confirmed(s, t),
         UNCHANGED <<deaf, made, awake, snapshot>>
  PROVE  Undisturbed'
<1> DEFINE o == Other(s)
<1>1. /\ t.step = "crypto" /\ t.frame.kind \in {"request", "confirm"}
      /\ hs' = [hs EXCEPT ![s] = "confirmed"]
      /\ wire' = IF s = "consumer" THEN Post(s, Handshake("confirm")) ELSE wire
      /\ tasks' = IF phase[s] \in {"closed", "failed"} THEN [tasks EXCEPT ![s] = @ \ {t}]
                  ELSE [tasks EXCEPT ![s] = (@ \ {t}) \union {[t EXCEPT !.step = "import"]}]
      /\ UNCHANGED <<phase, chan>>
  BY DEF Confirmed, Finished
<1>2. o \in Sides /\ o # s /\ Other(o) = s
  BY SidesFacts
<1>3. tasks \in [Sides -> SUBSET SocketTasks] /\ hs \in [Sides -> {"none", "keys", "confirmed"}]
  BY DEF Undisturbed, SocketTypes
<1>4. hs' \in [Sides -> {"none", "keys", "confirmed"}] /\ hs'[o] = hs[o] /\ hs'[s] = "confirmed"
  BY <1>1, <1>2, <1>3
<1>5. \A p \in {"init", "response"} : tasks[s] # Handling(p, "crypto")
  BY <1>1, TheOnlyTask
<1>6. \A k \in {"request", "confirm"} : tasks[s] # Handling(k, "import")
  BY <1>1, TheOnlyTask
<1>7. ~Opening(s) /\ tasks[s] # {}
  BY <1>1 DEF Opening
<1>8. \/ s = "consumer" /\ Early /\ Handler("consumer", "request") /\ KeysAt("keys", "keys")
         /\ "provider" \in made /\ "consumer" \in made
      \/ s = "provider" /\ Late /\ phase["provider"] = "handshaking" /\ awake
         /\ chan["provider"] = NoChannel /\ snapshot = NoChannel
         /\ AllSealed("provider", 1) /\ tasks["provider"] = Handling("confirm", "crypto")
  <2>1. CASE Early
    BY <1>5, <1>7, <2>1, SidesFacts DEF Early, Message, Handler, Silent
  <2>2. CASE Late
    BY <1>6, <1>7, <2>2, SidesFacts DEF Late, ConsumerOpens, ProviderOpens
  <2> QED
    BY <2>1, <2>2 DEF Undisturbed
<1>9. PICK k \in {"request", "confirm"} : tasks[s] = Handling(k, "crypto") /\ (k = "request" <=> s = "consumer")
  BY <1>8 DEF Handler
<1>10. (tasks[s] \ {t}) \union {[t EXCEPT !.step = "import"]} = Handling(k, "import")
  BY <1>9, TheOnlyTask
<1>11. Handling(k, "import") \subseteq SocketTasks /\ phase[s] = "handshaking"
  BY <1>8, FrameTypes DEF Handling, Early
<1>12. tasks'[s] = Handling(k, "import") /\ tasks'[o] = tasks[o] /\ tasks' \in [Sides -> SUBSET SocketTasks]
  BY <1>1, <1>2, <1>3, <1>10, <1>11
<1> HIDE DEF o
<1>13. CASE s = "consumer"
  <2>1. /\ Early /\ Handler("consumer", "request") /\ KeysAt("keys", "keys")
        /\ "provider" \in made /\ "consumer" \in made /\ o = "provider" /\ k = "request"
    BY <1>8, <1>9, <1>13, SidesFacts DEF o
  <2>2. wire[s] = << >> /\ wire[o] = << >> /\ tasks[o] = {}
    BY <1>13, <2>1, SidesFacts DEF Handler, Silent
  <2>3. wire' \in [Sides -> Seq(SocketFrames)] /\ wire'[s] = << >> /\ wire'[o] = <<Handshake("confirm")>>
    BY FrameTypes, <1>1, <1>11, <1>13, <2>2, Posting DEF Undisturbed, o
  <2>4. SocketTypes'
    BY <1>1, <1>4, <1>12, <2>3 DEF Undisturbed, SocketTypes
  <2>5. /\ wire'["provider"] = <<Handshake("confirm")>> /\ tasks'["provider"] = {} /\ wire'["consumer"] = << >>
        /\ tasks'["consumer"] = Handling("request", "import")
    BY <1>12, <1>13, <2>1, <2>2, <2>3
  <2>6. /\ wire'["provider"] # << >> /\ wire'["provider"][1] = Handshake("confirm")
        /\ AllSealed("provider", 2)' /\ AllSealed("consumer", 1)'
    BY <2>5 DEF AllSealed
  <2>7. Late'
    BY <1>1, <2>1, <2>5, <2>6, <1>4, <1>13 DEF ConsumerOpens, Early, ProviderOpens, Late, KeysAt
  <2>8. \A x \in Sides : (\A i \in 1 .. Len(wire'[x]) : wire'[x][i].kind # "sealed")
                         /\ (\A y \in tasks'[x] : y.frame.kind # "sealed")
    BY <2>5, SidesFacts, FrameTypes DEF Handling
  <2>9. CountersRise("provider")' /\ CountersRise("consumer")'
    BY <1>1, <2>1, <2>8, FreshCounters DEF Early
  <2> QED
    BY <1>1, <2>4, <2>7, <2>9 DEF Undisturbed
<1>14. CASE s = "provider"
  <2>1. wire' = wire /\ k = "confirm" /\ o = "consumer" /\ Late
    BY <1>1, <1>8, <1>9, <1>14, SidesFacts DEF o
  <2>2. SocketTypes'
    BY <1>1, <1>4, <1>12, <2>1 DEF Undisturbed, SocketTypes
  <2>3. ProviderOpens'
    BY <1>1, <1>8, <1>12, <1>14, <2>1, SidesFacts DEF ProviderOpens, AllSealed
  <2>4. ConsumerOpens'
    BY <1>1, <1>12, <2>1 DEF Late, ConsumerOpens, AllSealed, Opening
  <2>5. Late'
    BY <1>1, <1>4, <1>14, <2>1, <2>3, <2>4 DEF Late, KeysAt
  <2>6. \A y \in tasks'["provider"] : y.frame.kind # "sealed"
    BY <1>12, <1>14, <2>1, FrameTypes DEF Handling
  <2>7. CountersRise("provider")' /\ CountersRise("consumer")'
    BY <1>1, <1>12, <1>14, <2>1, <2>2, <2>6, CountersKeep, SidesFacts DEF Undisturbed
  <2> QED
    BY <1>1, <2>2, <2>5, <2>7 DEF Undisturbed
<1> QED
  BY <1>13, <1>14, SidesFacts

\* A side whose key is imported is open, with the fresh channel it had all along.
LEMMA FinishOpenKeeps ==
  ASSUME Undisturbed, NEW s \in Sides, NEW t \in tasks[s], FinishOpen(s, t),
         UNCHANGED <<deaf, made, awake>>, snapshot' = snapshot \/ (s = "provider" /\ snapshot' = NoChannel)
  PROVE  Undisturbed'
<1> DEFINE o == Other(s)
<1>1. /\ t.step = "import" /\ chan' = [chan EXCEPT ![s] = NoChannel] /\ phase' = [phase EXCEPT ![s] = "open"]
      /\ tasks' = [tasks EXCEPT ![s] = @ \ {t}]
      /\ UNCHANGED <<hs, wire>>
  BY DEF FinishOpen, Finished
<1>2. o \in Sides /\ o # s /\ Other(o) = s
  BY SidesFacts
<1>3. ~Opening(s) /\ tasks[s] # {}
  BY <1>1 DEF Opening
<1>4. \A k \in {"init", "response", "request", "confirm"} : tasks[s] # Handling(k, "crypto")
  BY <1>1, TheOnlyTask
<1>5. Late
  BY <1>3, <1>4, SidesFacts DEF Undisturbed, Early, Message, Handler, Silent
<1>6. PICK k \in {"request", "confirm"} : /\ tasks[s] = Handling(k, "import") /\ AllSealed(s, 1) /\ chan[s] = NoChannel
                                          /\ s = "provider" => awake /\ snapshot = NoChannel
  BY <1>3, <1>4, <1>5, SidesFacts DEF Late, ConsumerOpens, ProviderOpens
<1>7. tasks[s] \ {t} = {}
  BY <1>6, TheOnlyTask
<1>8. /\ chan \in [Sides -> Counters] /\ tasks \in [Sides -> SUBSET SocketTasks]
      /\ phase \in [Sides -> {"handshaking", "open", "closed", "failed"}]
  BY DEF Undisturbed, SocketTypes
<1>9. chan' = chan /\ snapshot' = snapshot
  BY <1>1, <1>6, <1>8
<1>10. /\ tasks'[s] = {} /\ tasks'[o] = tasks[o] /\ tasks' \in [Sides -> SUBSET SocketTasks]
       /\ phase'[s] = "open" /\ phase'[o] = phase[o]
       /\ phase' \in [Sides -> {"handshaking", "open", "closed", "failed"}]
  BY <1>1, <1>2, <1>7, <1>8
<1>11. SocketTypes'
  BY <1>1, <1>9, <1>10 DEF Undisturbed, SocketTypes
<1>12. ASSUME NEW x \in Sides, CountersRise(x) PROVE CountersRise(x)'
  <2>1. \A y \in tasks'[x] : y \in tasks[x]
    BY <1>2, <1>10, SidesFacts DEF o
  <2> QED
    BY <1>1, <1>9, <1>11, <1>12, <2>1, CountersKeep DEF Undisturbed
<1>13. Opening(s)' /\ AllSealed(s, 1)'
  BY <1>1, <1>6, <1>10 DEF Opening, AllSealed
<1> HIDE DEF o
<1>14. CASE s = "provider"
  <2>1. ProviderOpens'
    BY <1>6, <1>10, <1>13, <1>14 DEF ProviderOpens
  <2>2. ConsumerOpens'
    BY <1>1, <1>5, <1>9, <1>10, <1>14, SidesFacts DEF Late, ConsumerOpens, AllSealed, Opening, o
  <2> QED
    BY <1>1, <1>5, <1>11, <1>12, <2>1, <2>2, SidesFacts DEF Undisturbed, Late, KeysAt
<1>15. CASE s = "consumer"
  <2>1. ConsumerOpens'
    BY <1>10, <1>13, <1>15 DEF ConsumerOpens
  <2>2. tasks'["provider"] = tasks["provider"] /\ phase'["provider"] = phase["provider"]
    BY <1>10, <1>15, SidesFacts DEF o
  <2>3. ProviderOpens'
    BY <1>1, <1>5, <1>9, <2>2 DEF Late, ProviderOpens, AllSealed, Opening
  <2> QED
    BY <1>1, <1>5, <1>11, <1>12, <2>1, <2>3, SidesFacts DEF Undisturbed, Late, KeysAt
<1> QED
  BY <1>14, <1>15, SidesFacts

\* What a handler of the handshake works for is not open yet.
LEMMA HandshakesFirst ==
  ASSUME Undisturbed, NEW s \in Sides, NEW t \in tasks[s], t.frame.kind # "sealed" \/ t.step = "import"
  PROVE  phase[s] # "open"
BY SidesFacts DEF Undisturbed, Early, Late, ConsumerOpens, ProviderOpens, Opening

\* A bound of what reaches a side stays one: frames only move from its wire to its
\* handlers and into its counters.
LEMMA BelowKeeps ==
  ASSUME NEW s \in Sides, NEW n \in Nat, FramesBelow(s, n),
         \A i \in 1 .. Len(wire'[s]) : wire'[s][i].kind = "sealed" =>
             wire'[s][i].counter < n \/ \E j \in 1 .. Len(wire[s]) : wire'[s][i] = wire[s][j],
         \A t \in tasks'[s] : t.frame.kind = "sealed" =>
             t \in tasks[s] \/ \E j \in 1 .. Len(wire[s]) : t.frame = wire[s][j],
         chan'[s].recv <= n, s = "provider" => snapshot'.recv <= n
  PROVE  FramesBelow(s, n)'
BY DEF FramesBelow

\* Whatever step is made, what is being encrypted stays behind what was sent.
LEMMA SealingKeeps ==
  ASSUME Undisturbed, SealingTypes, NEW s \in Sides, SealingRises(s), SocketNext, disturbed' = {}
  PROVE  SealingRises(s)'
<1> DEFINE o == Other(s)
<1>1. o \in Sides /\ o # s /\ Other(o) = s /\ Sides = {"provider", "consumer"} /\ (o = s \/ s = Other(o))
  BY SidesFacts
<1>2. /\ chan \in [Sides -> Counters] /\ chan[s].send \in Nat /\ chan[o].recv \in Nat
      /\ wire \in [Sides -> Seq(SocketFrames)] /\ tasks \in [Sides -> SUBSET SocketTasks]
      /\ Len(wire[o]) \in Nat
  BY <1>1, TypedCounters DEF Undisturbed, SocketTypes
<1> HIDE DEF o
<1>3. ASSUME NEW n \in sealing[s]
      PROVE  n \in Nat /\ n < chan[s].send /\ phase[s] = "open" /\ (s = "consumer" \/ awake) /\ FramesBelow(o, n)
  BY DEF SealingRises, o
<1>4. ASSUME sealing'[s] \subseteq sealing[s], chan'[s].send = chan[s].send,
             sealing'[s] # {} => phase'[s] = phase[s] /\ awake' = awake,
             wire'[o] = wire[o], tasks'[o] \subseteq tasks[o] \/ \A t \in tasks'[o] \ tasks[o] : t.frame.kind # "sealed",
             chan'[o].recv = chan[o].recv \/ chan'[o].recv = 0 \/ (o = "provider" /\ chan'[o].recv = snapshot.recv),
             snapshot' = snapshot \/ snapshot' = NoChannel \/ o # "provider"
      PROVE  SealingRises(s)'
  <2> SUFFICES ASSUME NEW n \in sealing'[s] PROVE FramesBelow(o, n)' /\ phase'[s] = "open" /\ (s = "consumer" \/ awake')
    BY <1>3, <1>4 DEF SealingRises, o
  <2>1. chan'[o].recv <= n /\ (o = "provider" => snapshot'.recv <= n)
    BY <1>3, <1>4, FrameTypes DEF FramesBelow
  <2>2. FramesBelow(o, n)'
    BY <1>1, <1>3, <1>4, <2>1, BelowKeeps
  <2> QED
    BY <1>3, <1>4, <2>2
<1>5. ASSUME NEW x \in Sides, Create(x) PROVE SealingRises(s)'
  <2>1. CASE x = s
    BY <1>3, <1>5, <2>1 DEF Create, SealingRises
  <2>2. CASE x = o
    <3>1. wire'[o] = wire[o]
      BY <1>1, <1>5, <2>2, Posting, FrameTypes DEF Create, Undisturbed
    <3> QED
      BY <1>4, <1>5, <3>1 DEF Create
  <2> QED
    BY <1>1, <2>1, <2>2
<1>6. ASSUME NEW x \in Sides, Deliver(x) PROVE SealingRises(s)'
  <2>1. /\ wire' = [wire EXCEPT ![x] = Tail(@)] /\ wire[x] # << >>
        /\ UNCHANGED <<chan, awake, phase, sealing>>
        /\ tasks' = [tasks EXCEPT ![x] = @ \union {[frame |-> wire[x][1], step |-> "crypto"]}]
        /\ snapshot' = snapshot \/ (x = "provider" /\ snapshot' = chan[x])
    BY <1>6, DeliverEffect DEF Deliver
  <2>2. CASE x = s
    BY <1>1, <1>2, <1>4, <2>1, <2>2
  <2>3. CASE x = o
    <3> SUFFICES ASSUME NEW n \in sealing[s] PROVE FramesBelow(o, n)'
      BY <1>3, <2>1 DEF SealingRises, o
    <3>1. wire'[o] = Tail(wire[o]) /\ tasks'[o] = tasks[o] \union {[frame |-> wire[o][1], step |-> "crypto"]}
      BY <1>1, <1>2, <2>1, <2>3
    <3>2. PICK w \in Seq(SocketFrames) : w = wire[o] /\ w # << >>
      BY <1>1, <1>2, <2>1, <2>3
    <3>3. /\ \A i \in 1 .. Len(Tail(w)) : i + 1 \in 1 .. Len(w) /\ Tail(w)[i] = w[i + 1]
          /\ 1 \in 1 .. Len(w)
      BY <3>2
    <3>4. /\ \A i \in 1 .. Len(wire'[o]) : \E j \in 1 .. Len(wire[o]) : wire'[o][i] = wire[o][j]
          /\ \A t \in tasks'[o] : t \in tasks[o] \/ \E j \in 1 .. Len(wire[o]) : t.frame = wire[o][j]
      BY <3>1, <3>2, <3>3
    <3>5. chan'[o].recv <= n /\ (o = "provider" => snapshot'.recv <= n)
      BY <1>3, <2>1, <2>3 DEF FramesBelow
    <3> QED
      BY <1>1, <1>3, <3>4, <3>5, BelowKeeps
  <2> QED
    BY <1>1, <2>2, <2>3
<1>7. ASSUME NEW x \in Sides, HandlerStep(x) PROVE SealingRises(s)'
  <2>1. PICK t \in tasks[x] : KeysDerived(x, t) \/ Confirmed(x, t) \/ FinishOpen(x, t) \/ Opened(x, t)
    BY <1>7 DEF HandlerStep
  <2>2. UNCHANGED <<awake, sealing>> /\ (snapshot' = snapshot \/ snapshot' = NoChannel)
    BY <1>7 DEF HandlerStep
  <2>3. CASE KeysDerived(x, t) \/ Confirmed(x, t)
    <3>1. phase[x] # "open" /\ UNCHANGED <<phase, chan>>
      BY <2>3, HandshakesFirst DEF KeysDerived, Confirmed
    <3>2. CASE x = s
      BY <1>3, <2>2, <3>1, <3>2 DEF SealingRises
    <3>3. CASE x = o
      <4>1. CASE phase[o] = "closed"
        BY <1>1, <4>1, <3>3, SidesFacts DEF Undisturbed, Early, Late, ConsumerOpens, ProviderOpens
      <4>2. CASE phase[o] # "closed"
        <5>1. ASSUME NEW k \in {"init", "response", "request", "confirm"} PROVE Post(o, Handshake(k))[o] = wire[o]
          BY <1>1, <4>2, Posting, FrameTypes DEF Undisturbed
        <5>4. \/ \E k \in {"init", "response", "request", "confirm"} : wire' = Post(o, Handshake(k))
              \/ wire' = wire
          BY <2>3, <3>3 DEF KeysDerived, Confirmed
        <5>2. wire'[o] = wire[o]
          BY <5>1, <5>4
        <5>3. \A y \in tasks'[o] \ tasks[o] : y.frame.kind # "sealed"
          <6>1. t.frame.kind # "sealed" /\ t \in SocketTasks
            BY <1>1, <1>2, <2>3, <3>3 DEF KeysDerived, Confirmed
          <6>2. [t EXCEPT !.step = "import"].frame = t.frame
            BY <6>1 DEF SocketTasks
          <6>3. tasks'[o] \subseteq tasks[o] \union {[t EXCEPT !.step = "import"]}
            BY <1>1, <1>2, <2>3, <3>3 DEF KeysDerived, Confirmed, Finished
          <6> QED
            BY <6>1, <6>2, <6>3
        <5> QED
          BY <1>4, <2>2, <3>1, <5>2, <5>3
      <4> QED
        BY <4>1, <4>2
    <3> QED
      BY <1>1, <3>2, <3>3
  <2>4. CASE FinishOpen(x, t)
    <3>1. phase[x] # "open"
      BY <2>4, HandshakesFirst DEF FinishOpen
    <3>2. CASE x = s
      BY <1>3, <2>2, <3>1, <3>2 DEF SealingRises
    <3>3. CASE x = o
      <4>1. /\ wire' = wire /\ chan'[o].recv = 0 /\ chan'[s] = chan[s] /\ phase'[s] = phase[s]
            /\ tasks'[o] \subseteq tasks[o]
        BY <1>1, <1>2, <2>4, <3>3, FrameTypes DEF FinishOpen, Finished, Undisturbed, SocketTypes
      <4> QED
        BY <1>4, <2>2, <4>1
    <3> QED
      BY <1>1, <3>2, <3>3
  <2>5. CASE Opened(x, t)
    <3>1. /\ t.step = "crypto" /\ t.frame.kind = "sealed" /\ UNCHANGED <<phase, wire>>
          /\ chan' = [chan EXCEPT ![x].recv = t.frame.counter + 1]
          /\ tasks' = [tasks EXCEPT ![x] = @ \ {t}]
      BY <2>5 DEF Opened, Finished
    <3>2. t.frame.counter \in Nat
      BY TypedCounters DEF Undisturbed
    <3>3. /\ chan'[x].send = chan[x].send /\ chan'[x].recv = t.frame.counter + 1
          /\ \A y \in Sides : y # x => chan'[y] = chan[y]
      BY <1>2, <3>1, <3>2 DEF Counters
    <3>4. \A y \in Sides : tasks'[y] \subseteq tasks[y]
      BY <1>2, <3>1
    <3>5. CASE x = s
      BY <1>1, <1>4, <2>2, <3>1, <3>3, <3>4, <3>5
    <3>6. CASE x = o
      <4> SUFFICES ASSUME NEW n \in sealing[s] PROVE FramesBelow(o, n)'
        BY <1>1, <1>3, <2>2, <3>1, <3>3, <3>6 DEF SealingRises, o
      <4>1. t.frame.counter < n /\ n \in Nat
        BY <1>3, <3>1, <3>6 DEF FramesBelow
      <4>2. chan'[o].recv <= n /\ (o = "provider" => snapshot'.recv <= n)
        BY <1>3, <2>2, <3>2, <3>3, <3>6, <4>1, FrameTypes DEF FramesBelow
      <4> QED
        BY <1>1, <1>3, <3>1, <3>4, <4>2, BelowKeeps
    <3> QED
      BY <1>1, <3>5, <3>6
  <2> QED
    BY <2>1, <2>3, <2>4, <2>5
<1>8. ASSUME Wake PROVE SealingRises(s)'
  <2>1. /\ ~awake /\ chan' = [chan EXCEPT !["provider"] = snapshot]
        /\ UNCHANGED <<phase, wire, tasks, sealing, snapshot>>
    BY <1>8 DEF Wake
  <2>2. CASE s = "provider"
    BY <1>3, <2>1, <2>2 DEF SealingRises
  <2>3. CASE s = "consumer"
    <3>1. o = "provider" /\ chan'[s] = chan[s] /\ chan'[o] = snapshot
      BY <1>1, <1>2, <2>1, <2>3, SidesFacts
    <3> SUFFICES ASSUME NEW n \in sealing[s] PROVE FramesBelow(o, n)'
      BY <1>3, <2>1, <2>3, <3>1 DEF SealingRises, o
    <3> QED
      BY <1>3, <2>1, <3>1 DEF FramesBelow
  <2> QED
    BY <1>1, <2>2, <2>3
<1>9. ASSUME NEW x \in Sides, Send(x) PROVE SealingRises(s)'
  <2>1. /\ phase[x] = "open" /\ (x = "consumer" \/ awake)
        /\ chan' = [chan EXCEPT ![x].send = @ + 1]
        /\ sealing' = [sealing EXCEPT ![x] = @ \union {chan[x].send}]
        /\ UNCHANGED <<phase, wire, tasks, awake, snapshot>>
    BY <1>9 DEF Send
  <2>2. /\ chan[x].send \in Nat /\ chan'[x].send = chan[x].send + 1 /\ chan'[x].recv = chan[x].recv
        /\ \A y \in Sides : y # x => chan'[y] = chan[y]
    BY <1>2, <2>1, TypedCounters DEF Counters, Undisturbed
  <2>3. \A y \in Sides : sealing'[y] \subseteq sealing[y] \union {chan[y].send} /\ (y # x => sealing'[y] \subseteq sealing[y])
    BY <2>1 DEF SealingTypes
  <2>4. CASE x = s
    <3> SUFFICES ASSUME NEW n \in sealing'[s] PROVE n \in Nat /\ n < chan'[s].send /\ FramesBelow(o, n)'
      BY <2>1, <2>4 DEF SealingRises, o
    <3>1. FramesBelow(o, n) => FramesBelow(o, n)'
      BY <1>1, <2>1, <2>2, <2>4 DEF FramesBelow
    <3>2. CASE n \in sealing[s]
      BY <1>3, <2>2, <2>4, <3>1, <3>2
    <3>3. CASE n = chan[s].send
      <4>1. CountersRise(o)
        BY <1>1 DEF Undisturbed
      <4>2. FramesBelow(o, n)
        BY <1>1, <3>3, <4>1 DEF CountersRise, CountersBelow, FramesBelow
      <4> QED
        BY <2>2, <2>4, <3>1, <3>3, <4>2
    <3> QED
      BY <2>3, <3>2, <3>3
  <2>5. CASE x = o
    BY <1>1, <1>4, <2>1, <2>2, <2>3, <2>5
  <2> QED
    BY <1>1, <2>4, <2>5
<1>10. ASSUME NEW x \in Sides, SealedOut(x) PROVE SealingRises(s)'
  <2>1. PICK c \in sealing[x] : /\ wire' = Post(x, Sealed(c))
                               /\ sealing' = [sealing EXCEPT ![x] = @ \ {c}]
                               /\ \A d \in sealing[x] : ~(d < c)
    BY <1>10 DEF SealedOut
  <2>2. UNCHANGED <<phase, chan, tasks, awake, snapshot>>
    BY <1>10 DEF SealedOut
  <2>3. \A y \in Sides : sealing'[y] \subseteq sealing[y] /\ (y = x => c \notin sealing'[y])
    BY <2>1 DEF SealingTypes
  <2>4. CASE x = s
    <3> SUFFICES ASSUME NEW n \in sealing'[s] PROVE FramesBelow(o, n)'
      BY <1>3, <2>2, <2>3 DEF SealingRises, o
    <3>1. n \in sealing[s] /\ n \in Nat /\ c \in Nat /\ c < n
      BY <1>3, <2>1, <2>3, <2>4
    <3>2. Sealed(c) \in SocketFrames /\ Sealed(c).counter = c /\ phase[s] # "closed"
      BY <1>3, <3>1, FrameTypes
    <3>3. /\ Len(wire'[o]) = Len(wire[o]) + 1 /\ wire'[o][Len(wire[o]) + 1] = Sealed(c)
          /\ \A i \in 1 .. Len(wire[o]) : wire'[o][i] = wire[o][i]
      <4>1. wire' = Post(s, Sealed(c))
        BY <2>1, <2>4
      <4> QED
        BY <3>2, <4>1, Posting DEF Undisturbed, o
    <3>6. \A i \in 1 .. Len(wire'[o]) : i \in 1 .. Len(wire[o]) \/ i = Len(wire[o]) + 1
      BY <1>2, <3>3
    <3>4. \A i \in 1 .. Len(wire'[o]) : wire'[o][i].counter < n \/ \E j \in 1 .. Len(wire[o]) : wire'[o][i] = wire[o][j]
      BY <3>1, <3>2, <3>3, <3>6
    <3>5. chan'[o].recv <= n /\ (o = "provider" => snapshot'.recv <= n)
      BY <1>3, <2>2, <3>1 DEF FramesBelow
    <3> QED
      BY <1>1, <1>3, <2>2, <3>1, <3>4, <3>5, BelowKeeps
  <2>5. CASE x = o
    <3>1. phase[o] # "closed"
      BY <1>1, SidesFacts DEF Undisturbed, Early, Late, ConsumerOpens, ProviderOpens
    <3>2. wire'[o] = wire[o]
      BY <1>1, <2>1, <2>5 DEF Post
    <3> QED
      BY <1>4, <2>2, <2>3, <3>2
  <2> QED
    BY <1>1, <2>4, <2>5
<1>11. ASSUME Sleep PROVE SealingRises(s)'
  <2>1. sealing["provider"] = {} /\ UNCHANGED <<phase, chan, wire, tasks, sealing, snapshot>>
    BY <1>11 DEF Sleep
  <2> QED
    BY <1>1, <2>1, SidesFacts DEF SealingRises, FramesBelow
<1>12. ASSUME NEW x \in Sides, Fault(x) \/ CloseSession(x) PROVE FALSE
  BY <1>12 DEF Fault, CloseSession
<1> QED
  BY <1>5, <1>6, <1>7, <1>8, <1>9, <1>10, <1>11, <1>12 DEF SocketNext, SocketStep

\* Every step keeps the invariant of the socket.
LEMMA SocketInductive == SocketInv /\ [SocketNext]_socketVars => SocketInv'
<1> SUFFICES ASSUME SocketInv, [SocketNext]_socketVars, disturbed' = {}
             PROVE  Undisturbed' /\ SealingTypes' /\ \A s \in Sides : SealingRises(s)'
  BY DEF SocketInv, Sides
<1>1. ASSUME NEW s \in Sides, Create(s) PROVE Undisturbed'
  BY <1>1, CreateKeeps DEF SocketInv, Create
<1>2. ASSUME NEW s \in Sides, Deliver(s) PROVE Undisturbed'
  BY <1>2, DeliverKeeps DEF Deliver, OnFrame, SocketInv
<1>3. ASSUME NEW s \in Sides, HandlerStep(s) PROVE Undisturbed'
  BY <1>3, KeysDerivedKeeps, ConfirmedKeeps, FinishOpenKeeps, OpenedKeeps DEF HandlerStep, SocketInv, KeysDerived,
       Confirmed, Opened
<1>4. ASSUME Wake PROVE Undisturbed'
  BY <1>4, WakeKeeps DEF SocketInv, Wake
<1>5. ASSUME NEW s \in Sides, Send(s) PROVE Undisturbed'
  BY <1>5, SendKeeps DEF SocketInv, Send
<1>6. ASSUME NEW s \in Sides, SealedOut(s) PROVE Undisturbed'
  <2>1. disturbed = {} /\ UNCHANGED <<deaf, made, phase, hs, chan, tasks, awake, snapshot>>
    BY <1>6 DEF SealedOut
  <2>2. PICK c \in sealing[s] : wire' = Post(s, Sealed(c))
    BY <1>6 DEF SealedOut
  <2>3. Undisturbed /\ SealingRises(s)
    BY <2>1 DEF SocketInv
  <2> QED
    BY <2>1, <2>2, <2>3, PostKeeps DEF SealingRises, Posts
<1>7. ASSUME Sleep PROVE Undisturbed'
  BY <1>7, SleepKeeps DEF Sleep, SocketInv
<1>8. ASSUME NEW s \in Sides, Fault(s) \/ CloseSession(s) PROVE FALSE
  BY <1>8 DEF Fault, CloseSession
<1>9. CASE UNCHANGED socketVars
  <2>1. Undisturbed /\ SealingTypes /\ \A s \in Sides : SealingRises(s)
    BY <1>9 DEF SocketInv, socketVars
  <2>2. Undisturbed'
    BY <1>9, <2>1, ZenonT(60) DEF socketVars, Undisturbed, SocketTypes, Early, Late, KeysAt, Message, Handler, Silent,
                      ConsumerOpens, ProviderOpens, AllSealed, Opening, CountersRise, CountersBelow
  <2>3. ASSUME NEW s \in Sides PROVE SealingRises(s)'
    BY <1>9, <2>1 DEF socketVars, SealingRises, FramesBelow
  <2> QED
    BY <1>9, <2>1, <2>2, <2>3 DEF socketVars, SealingTypes
<1>10. CASE SocketNext
  <2>1. disturbed = {}
    BY <1>10 DEF SocketNext, SocketStep, Create, Deliver, OnFrame, HandlerStep, SealedOut, Wake, Fault, Send,
                 CloseSession, Sleep
  <2>2. \A s \in Sides : SealingRises(s)'
    BY <1>10, <2>1, SealingKeeps DEF SocketInv
  <2>3. Undisturbed'
    BY <1>1, <1>2, <1>3, <1>4, <1>5, <1>6, <1>7, <1>8, <1>10 DEF SocketNext, SocketStep
  <2>4. SealingTypes => SealingTypes'
    <3>1. ASSUME NEW s \in Sides, Send(s), Undisturbed PROVE SealingTypes => SealingTypes'
      BY <3>1, TypedCounters DEF Send, SealingTypes, Undisturbed
    <3>2. ASSUME NEW s \in Sides, SealedOut(s) PROVE SealingTypes => SealingTypes'
      BY <3>2 DEF SealedOut, SealingTypes
    <3>3. CASE UNCHANGED sealing
      BY <3>3 DEF SealingTypes
    <3> QED
      BY <1>10, <2>1, <3>1, <3>2, <3>3 DEF SocketInv, SocketNext, SocketStep, Create, Deliver, HandlerStep, Wake,
         Fault, CloseSession, Sleep
  <2> QED
    BY <2>1, <2>2, <2>3, <2>4 DEF SocketInv
<1> QED
  BY <1>9, <1>10

\* No channel exists at the start.
LEMMA SocketInvInit == SocketInit => SocketInv
<1>4. SocketInit => SealingTypes /\ \A s \in Sides : SealingRises(s)
  BY DEF SocketInit, SealingRises, SealingTypes
<1> SUFFICES ASSUME SocketInit PROVE Undisturbed
  BY <1>4 DEF SocketInv
<1>1. SocketTypes
  BY FrameTypes DEF SocketInit, SocketTypes
<1>2. Early
  BY SidesFacts DEF SocketInit, Early, Silent, KeysAt
<1>3. CountersRise("provider") /\ CountersRise("consumer")
  BY SidesFacts, FrameTypes DEF SocketInit, CountersRise, CountersBelow
<1> QED
  BY <1>1, <1>2, <1>3 DEF SocketInit, Undisturbed

\* Sessions fail for a cause without any fairness of the scheduling.
LEMMA SessionsHold == SocketInit /\ [][SocketNext]_socketVars => []FailsOnlyWhenDisturbed
<1>1. SocketInv => FailsOnlyWhenDisturbed
  BY SidesFacts DEF SocketInv, Undisturbed, Early, Late, ConsumerOpens, ProviderOpens, FailsOnlyWhenDisturbed
<1> QED
  BY SocketInvInit, SocketInductive, <1>1, PTL

\* A session that nobody closes and no fault of the network meets fails only when the
\* peer's first sealed frame overtook its key import, when its snapshot was stale, or
\* when a send was encrypted before one that had begun earlier.
THEOREM SessionsFailOnlyDisturbed == SocketSpec => []FailsOnlyWhenDisturbed
BY SessionsHold, PTL DEF SocketSpec

-----------------------------------------------------------------------------
(* The services side by side.  The one in focus makes its step, the others   *)
(* stay in their first state.                                                *)

\* What the five services promise holds whichever of them moves.
THEOREM ServicesHold ==
  Spec => [](OwnTransaction /\ Lifetimes /\ MigrationsExact /\ FailsOnlyWhenDisturbed /\ StreamInOrder)
<1>1. Init => SqlInit /\ AppInit /\ MigrationInit /\ SocketInit /\ RpcInit
  BY DEF Init
<1>2. [Next]_vars => /\ [SqlNext]_sqlVars /\ [AppNext]_appVars /\ [MigrationNext]_migrationVars
                     /\ [SocketNext]_socketVars /\ [RpcNext]_rpcVars
  BY DEF Next, Moves, Migrate, Talk, vars
<1> QED
  BY <1>1, <1>2, StatementsRunInTheirOwn, LifetimesHold, MigrationsStayExact, SessionsHold, OrderHolds, PTL
  DEF Spec, SqlSpec, MigrationSpec
=============================================================================
