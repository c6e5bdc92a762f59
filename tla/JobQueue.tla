------------------------------ MODULE JobQueue ------------------------------
(***************************************************************************)
(* A durable job queue (packages/di-framework-queues): producers enqueue   *)
(* jobs in the SQLite backend, workers in several processes claim them     *)
(* under a lease, run their handler and acknowledge, and recover the jobs  *)
(* of workers that died.  Every statement or transaction of the backend is *)
(* one step; processes interleave between them and die at any point.       *)
(***************************************************************************)
EXTENDS Naturals, FiniteSets, TLAPS

CONSTANTS
  Jobs,         (* enqueue calls, each made once; also names the job it adds *)
  Keys,
  KeyOf,        (* KeyOf[j]: idempotency key of the call, or None          *)
  Priority,     (* Priority[j]                                             *)
  Workers,      (* one QueueWorker each, in a process of its own           *)
  None,
  MaxRetries,   (* maxRetries of every job                                 *)
  Concurrency,  (* concurrency of every worker                             *)
  MaxRequeues   (* bound on the retryJob calls that reach a job            *)

ASSUME QueueAssumption ==
  /\ None \notin Keys
  /\ KeyOf \in [Jobs -> Keys \union {None}]
  /\ Priority \in [Jobs -> Nat]
  /\ MaxRetries \in Nat /\ Concurrency \in Nat \ {0} /\ MaxRequeues \in Nat

VARIABLES
  status,    (* status of each job, "absent" before its row is inserted    *)
  attempts,  (* deliveries so far                                          *)
  due,       (* available_at has come                                      *)
  expired,   (* lease_expires_at has come                                  *)
  asked,     (* enqueue calls: idle, checked (no job has the key), settled *)
  runs,      (* deliveries whose acknowledgement is to come                *)
  up,        (* workers that run                                           *)
  handled,   (* jobs whose handler has returned at least once              *)
  requeued   (* retryJob calls that reached each job                       *)

rows == <<status, attempts, due, expired>>
vars == <<rows, asked, runs, up, handled, requeued>>

Run(w, j) == [worker |-> w, job |-> j, attempt |-> attempts[j] + 1, state |-> "running"]

Runs == [worker : Workers, job : Jobs, attempt : Nat, state : {"running", "returned", "thrown"}]

TypeOK ==
  /\ status \in [Jobs -> {"absent", "pending", "processing", "completed", "dead-letter"}]
  /\ attempts \in [Jobs -> Nat]
  /\ due \in [Jobs -> BOOLEAN]
  /\ expired \in [Jobs -> BOOLEAN]
  /\ asked \in [Jobs -> {"idle", "checked", "settled"}]
  /\ runs \in SUBSET Runs
  /\ up \in SUBSET Workers
  /\ handled \in SUBSET Jobs
  /\ requeued \in [Jobs -> Nat]

Init ==
  /\ status = [j \in Jobs |-> "absent"]
  /\ attempts = [j \in Jobs |-> 0]
  /\ due = [j \in Jobs |-> FALSE]
  /\ expired = [j \in Jobs |-> FALSE]
  /\ asked = [j \in Jobs |-> "idle"]
  /\ runs = {}
  /\ up = Workers
  /\ handled = {}
  /\ requeued = [j \in Jobs |-> 0]

-----------------------------------------------------------------------------
Live(j) == status[j] \notin {"absent", "dead-letter"}

\* Bug: only the jobs that wait count, not those under way or done.
CheckKeyAmongPending(j) ==
  /\ asked[j] = "idle"
  /\ LET known == KeyOf[j] # None /\ \E k \in Jobs : status[k] = "pending" /\ KeyOf[k] = KeyOf[j]
     IN asked' = [asked EXCEPT ![j] = IF known THEN "settled" ELSE "checked"]
  /\ UNCHANGED <<rows, runs, up, handled, requeued>>

\* The SELECT of enqueue: a live job with the key is returned as it is.
CheckKey(j) ==
  /\ asked[j] = "idle"
  /\ LET known == KeyOf[j] # None /\ \E k \in Jobs : Live(k) /\ KeyOf[k] = KeyOf[j]
     IN asked' = [asked EXCEPT ![j] = IF known THEN "settled" ELSE "checked"]
  /\ UNCHANGED <<rows, runs, up, handled, requeued>>

\* Its INSERT, with a delay or without.
Insert(j) ==
  /\ asked[j] = "checked"
  /\ asked' = [asked EXCEPT ![j] = "settled"]
  /\ status' = [status EXCEPT ![j] = "pending"]
  /\ \E now \in BOOLEAN : due' = [due EXCEPT ![j] = now]
  /\ UNCHANGED <<attempts, expired, runs, up, handled, requeued>>

\* available_at comes.
Ripen(j) ==
  /\ status[j] = "pending" /\ ~due[j]
  /\ due' = [due EXCEPT ![j] = TRUE]
  /\ UNCHANGED <<status, attempts, expired, asked, runs, up, handled, requeued>>

\* Bug: the SELECT filters by time only, or the UPDATE follows it too late.
CandidateTaken(j) == status[j] \in {"pending", "processing"} /\ due[j]

Candidate(j) == status[j] = "pending" /\ due[j]

\* Bug: a job is claimed from a row read earlier.
DequeueStale(w, j) ==
  /\ w \in up
  /\ status[j] \in {"pending", "processing"}
  /\ runs' = runs \union {[Run(w, j) EXCEPT !.attempt = 1]}
  /\ status' = [status EXCEPT ![j] = "processing"]
  /\ attempts' = [attempts EXCEPT ![j] = 1]
  /\ expired' = [expired EXCEPT ![j] = FALSE]
  /\ UNCHANGED <<due, asked, up, handled, requeued>>

\* A worker below its concurrency claims a due job of the highest priority,
\* in one immediate transaction, and calls its handler.
Dequeue(w, j) ==
  /\ w \in up
  /\ Cardinality({r \in runs : r.worker = w}) < Concurrency
  /\ Candidate(j)
  /\ \A k \in Jobs : Candidate(k) => Priority[k] <= Priority[j]
  /\ runs' = runs \union {Run(w, j)}
  /\ status' = [status EXCEPT ![j] = "processing"]
  /\ attempts' = [attempts EXCEPT ![j] = @ + 1]
  /\ expired' = [expired EXCEPT ![j] = FALSE]
  /\ UNCHANGED <<due, asked, up, handled, requeued>>

\* The handler returns, or throws or times out (it then runs on, unobserved).
HandlerEnds(r) ==
  /\ r.state = "running"
  /\ \E end \in {"returned", "thrown"} :
       /\ runs' = (runs \ {r}) \union {[r EXCEPT !.state = end]}
       /\ handled' = IF end = "returned" THEN handled \union {r.job} ELSE handled
  /\ UNCHANGED <<rows, asked, up, requeued>>

\* Bug: the worker acknowledges without awaiting the handler.
CompleteUnawaited(r) ==
  /\ r.state \in {"running", "returned"}
  /\ status' = [status EXCEPT ![r.job] = "completed"]
  /\ runs' = runs \ {r}
  /\ UNCHANGED <<attempts, due, expired, asked, up, handled, requeued>>

\* Bug: a later statement of the same try throws once the row is marked.
CompleteThenThrow(r) ==
  /\ r.state = "returned"
  /\ status' = [status EXCEPT ![r.job] = "completed"]
  /\ runs' = (runs \ {r}) \union {[r EXCEPT !.state = "thrown"]}
  /\ UNCHANGED <<attempts, due, expired, asked, up, handled, requeued>>

\* complete marks the row whatever its status and whoever has the lease.
Complete(r) ==
  /\ r.state = "returned"
  /\ status' = [status EXCEPT ![r.job] = "completed"]
  /\ runs' = runs \ {r}
  /\ UNCHANGED <<attempts, due, expired, asked, up, handled, requeued>>

\* complete throws (the database is locked): the catch of executeJob fails it.
CompleteThrows(r) ==
  /\ r.state = "returned"
  /\ runs' = (runs \ {r}) \union {[r EXCEPT !.state = "thrown"]}
  /\ UNCHANGED <<rows, asked, up, handled, requeued>>

\* Bug: one delivery too many.
ExhaustedLate(j) == attempts[j] > MaxRetries

Exhausted(j) == attempts[j] >= MaxRetries

\* fail puts the job back with a backoff, or in the dead letters, whatever its
\* status and whoever has the lease; attempts are those of the row by now.
Fail(r) ==
  LET j == r.job IN
  /\ r.state = "thrown"
  /\ runs' = runs \ {r}
  /\ status' = [status EXCEPT ![j] = IF Exhausted(j) THEN "dead-letter" ELSE "pending"]
  /\ \E now \in BOOLEAN : due' = [due EXCEPT ![j] = IF Exhausted(j) THEN @ ELSE now]
  /\ UNCHANGED <<attempts, expired, asked, up, handled, requeued>>

\* fail throws too: nothing acknowledges the delivery.
FailThrows(r) ==
  /\ r.state = "thrown"
  /\ runs' = runs \ {r}
  /\ UNCHANGED <<rows, asked, up, handled, requeued>>

RunStep(r) ==
  /\ r.worker \in up
  /\ HandlerEnds(r) \/ Complete(r) \/ CompleteThrows(r) \/ Fail(r) \/ FailThrows(r)

-----------------------------------------------------------------------------
LeaseExpires(j) ==
  /\ status[j] = "processing" /\ ~expired[j]
  /\ expired' = [expired EXCEPT ![j] = TRUE]
  /\ UNCHANGED <<status, attempts, due, asked, runs, up, handled, requeued>>

\* Bug: a job on its last attempt is left to itself.
StuckRetriable == {j \in Jobs : status[j] = "processing" /\ expired[j] /\ ~Exhausted(j)}

Stuck == {j \in Jobs : status[j] = "processing" /\ expired[j]}

\* recoverUnacknowledged, one transaction.
RecoverStuck ==
  /\ status' = [j \in Jobs |->
       IF j \notin Stuck THEN status[j] ELSE IF Exhausted(j) THEN "dead-letter" ELSE "pending"]
  /\ due' = [j \in Jobs |-> due[j] \/ (j \in Stuck /\ ~Exhausted(j))]
  /\ UNCHANGED <<attempts, expired>>

\* The recovery timer of a worker.
Recover(w) ==
  /\ w \in up
  /\ Stuck # {}
  /\ RecoverStuck
  /\ UNCHANGED <<asked, runs, up, handled, requeued>>

\* retryJob for one dead letter, or for all; attempts are not reset.
RetryJob(S) ==
  /\ S # {}
  /\ \A j \in S : status[j] = "dead-letter" /\ requeued[j] < MaxRequeues
  /\ status' = [j \in Jobs |-> IF j \in S THEN "pending" ELSE status[j]]
  /\ due' = [j \in Jobs |-> due[j] \/ j \in S]
  /\ requeued' = [j \in Jobs |-> IF j \in S THEN requeued[j] + 1 ELSE requeued[j]]
  /\ UNCHANGED <<attempts, expired, asked, runs, up, handled>>

Retry ==
  LET dead == {j \in Jobs : status[j] = "dead-letter"} IN
  RetryJob(dead) \/ \E j \in dead : RetryJob({j})

\* The process of a worker dies; its deliveries are lost, not its leases.
Crash(w) ==
  /\ w \in up
  /\ up' = up \ {w}
  /\ runs' = {r \in runs : r.worker # w}
  /\ UNCHANGED <<rows, asked, handled, requeued>>

\* start of a new one, which recovers at once.
Restart(w) ==
  /\ w \notin up
  /\ up' = up \union {w}
  /\ RecoverStuck
  /\ UNCHANGED <<asked, runs, handled, requeued>>

Produce == \E j \in Jobs : CheckKey(j) \/ Insert(j) \/ Ripen(j)

Work ==
  \/ \E w \in Workers : Recover(w) \/ Crash(w) \/ Restart(w) \/ \E j \in Jobs : Dequeue(w, j)
  \/ \E r \in runs : RunStep(r)

Next == Produce \/ Work \/ Retry \/ \E j \in Jobs : LeaseExpires(j)

Spec == Init /\ [][Next]_vars

\* Leases outlast handlers (leaseTimeoutMs above every timeoutMs): one runs
\* out only when the delivery it was for is gone.
LeaseOutlasts(j) == (\A r \in runs : r.job # j) /\ LeaseExpires(j)

SpecOutlasting == Init /\ [][Produce \/ Work \/ Retry \/ \E j \in Jobs : LeaseOutlasts(j)]_vars

\* All enqueue calls come from one process, where the SELECT and the INSERT of
\* a call are one synchronous stretch, and nobody calls retryJob: a special
\* case of SpecOutlasting.
OneProducer ==
  \/ \E j \in Jobs : Insert(j)
  \/ /\ \A j \in Jobs : asked[j] # "checked"
     /\ Produce \/ Work \/ \E j \in Jobs : LeaseOutlasts(j)

SpecOneProducer == Init /\ [][OneProducer]_vars

\* Time passes, handlers end (the dispatcher times them out), workers poll and
\* recover; a worker that died is started again, and one that dies again and
\* again still gets to its poll now and then.
Fairness ==
  /\ \A j \in Jobs :
       /\ WF_vars(Ripen(j)) /\ WF_vars(LeaseExpires(j)) /\ WF_vars(Insert(j))
       /\ SF_vars(\E w \in Workers : Dequeue(w, j))
       /\ WF_vars(\E r \in runs : r.job = j /\ RunStep(r))
  /\ \A w \in Workers : WF_vars(Restart(w))
  /\ SF_vars(\E w \in Workers : Recover(w))

SpecFair == Spec /\ Fairness

-----------------------------------------------------------------------------
Limit == (IF MaxRetries = 0 THEN 1 ELSE MaxRetries)

(* However leases run out, late failures come in and workers die, a job is   *)
(* delivered maxRetries times at most (once for 0), and once more for each  *)
(* explicit retry (sqlite.ts 266-306, 311-349, 419-450).                    *)
RetryLimit == \A j \in Jobs : attempts[j] <= Limit + requeued[j]

(* Every delivery is an attempt of its own: no two workers hold the same     *)
(* claim of a job (sqlite.ts 212-242).                                      *)
ClaimedOnce ==
  \A r, s \in runs : r.job = s.job /\ r.attempt = s.attempt => r = s

(* A job that is completed has been handled: its handler returned at least   *)
(* once, in whichever of its deliveries (worker.ts 86-93).                   *)
CompletedMeansHandled == \A j \in Jobs : status[j] = "completed" => j \in handled

(* With leases that outlast handlers, a job is with one worker at a time ... *)
OneRunPerJob == \A r, s \in runs : r.job = s.job => r = s

(* ... and completed for good (sqlite.ts 245-254, 256-309 check no status).  *)
CompletedIsFinal ==
  [][\A j \in Jobs : status[j] = "completed" => status'[j] = "completed"]_vars

(* An idempotency key has one live job at most (sqlite.ts 150-159): enqueue  *)
(* returns the job that has the key for as long as it is no dead letter.     *)
KeyUnique ==
  \A j, k \in Jobs : Live(j) /\ Live(k) /\ KeyOf[j] = KeyOf[k] /\ KeyOf[j] # None => j = k

(* Every job that was accepted ends up completed or in the dead letters,     *)
(* whatever dies on the way.                                                 *)
EveryJobSettles ==
  \A j \in Jobs : status[j] = "pending" ~> status[j] \in {"completed", "dead-letter"}

-----------------------------------------------------------------------------
(* Proofs, for any set of jobs, workers, keys, priorities, retry limit and   *)
(* concurrency, and for SpecOutlasting the two promises that depend on how  *)
(* long a lease is.                                                         *)
USE QueueAssumption

LEMMA LimitBounds == Limit \in Nat \ {0} /\ MaxRetries <= Limit
BY DEF Limit

(* What an enqueue call has not settled has left no trace.                  *)
Fresh ==
  \A j \in Jobs : asked[j] # "settled" => status[j] = "absent" /\ attempts[j] = 0

(* A job that waits has a delivery left.                                    *)
Bounded ==
  \A j \in Jobs :
    /\ attempts[j] <= Limit + requeued[j]
    /\ status[j] = "pending" => attempts[j] < Limit + requeued[j]

(* The attempts of the deliveries under way were counted in their row.      *)
Claims == \A r \in runs : asked[r.job] = "settled" /\ r.attempt <= attempts[r.job]

Returned == \A r \in runs : r.state = "returned" => r.job \in handled

IInv ==
  /\ TypeOK
  /\ Fresh
  /\ Bounded
  /\ Claims
  /\ ClaimedOnce
  /\ Returned
  /\ CompletedMeansHandled

DELIVERY == {"running", "returned", "thrown"}

-----------------------------------------------------------------------------
LEMMA InitEstablishes == Init => IInv
<1> SUFFICES ASSUME Init PROVE IInv
  OBVIOUS
<1>1. TypeOK
  BY DEF Init, TypeOK
<1>2. Bounded
  BY LimitBounds DEF Init, Bounded
<1> QED
  BY <1>1, <1>2 DEF Init, IInv, Fresh, Claims, ClaimedOnce, Returned, CompletedMeansHandled

(* What a step that ends or moves one delivery leaves of the others.        *)
LEMMA DeliveryMoves ==
  ASSUME IInv, NEW r \in runs, NEW s \in DELIVERY,
         runs' = (runs \ {r}) \union {[r EXCEPT !.state = s]},
         UNCHANGED <<rows, asked, up, requeued>>,
         handled' = IF s = "returned" THEN handled \union {r.job} ELSE handled
  PROVE  IInv'
<1> USE DEF IInv, rows, DELIVERY
<1> DEFINE q == [r EXCEPT !.state = s]
<1>1. /\ q \in Runs
      /\ q.job = r.job /\ q.attempt = r.attempt /\ q.worker = r.worker /\ q.state = s
      /\ r.job \in Jobs
  BY DEF TypeOK, Runs
<1>2. \A x \in runs' : (x \in runs /\ x # r) \/ x = q
  OBVIOUS
<1>3. handled \subseteq handled' /\ handled' \subseteq Jobs
  BY <1>1 DEF TypeOK
<1>4. s = "returned" => r.job \in handled'
  OBVIOUS
<1> HIDE DEF q
<1>5. TypeOK'
  BY <1>1, <1>2, <1>3 DEF TypeOK
<1>6. Fresh' /\ Bounded'
  BY DEF Fresh, Bounded, Limit
<1>7. Claims'
  BY <1>1, <1>2 DEF Claims
<1>8. ClaimedOnce'
  BY <1>1, <1>2 DEF ClaimedOnce
<1>9. Returned'
  BY <1>1, <1>2, <1>3, <1>4 DEF Returned
<1>10. CompletedMeansHandled'
  BY <1>3 DEF CompletedMeansHandled
<1> QED
  BY <1>5, <1>6, <1>7, <1>8, <1>9, <1>10

(* A step that only drops deliveries and rewrites rows needs a look at the  *)
(* rows alone.                                                              *)
LEMMA RowsChange ==
  ASSUME IInv, TypeOK', runs' \subseteq runs, handled' = handled,
         \A j \in Jobs : asked'[j] = asked[j] \/ asked'[j] = "settled" \/ status'[j] = "absent",
         \A j \in Jobs : attempts'[j] = attempts[j] /\ requeued'[j] >= requeued[j],
         \A j \in Jobs : asked[j] # "settled" /\ asked'[j] # "settled" => status'[j] = status[j],
         \A j \in Jobs : asked[j] = "settled" => asked'[j] = "settled",
         \A j \in Jobs : status'[j] = "pending" /\ status[j] # "pending" =>
                            attempts[j] < Limit + requeued'[j],
         \A j \in Jobs : status'[j] = "completed" => j \in handled
  PROVE  IInv'
<1> USE DEF IInv
<1>1. Fresh'
  BY DEF Fresh, TypeOK
<1>2. Bounded'
  BY LimitBounds DEF Bounded, TypeOK, Limit
<1>3. Claims'
  <2> SUFFICES ASSUME NEW r \in runs' PROVE asked'[r.job] = "settled" /\ r.attempt <= attempts'[r.job]
    BY DEF Claims
  <2>1. r \in runs /\ r.job \in Jobs
    BY DEF TypeOK, Runs
  <2> QED
    BY <2>1 DEF Claims
<1>4. ClaimedOnce' /\ Returned' /\ CompletedMeansHandled'
  BY DEF ClaimedOnce, Returned, CompletedMeansHandled, TypeOK
<1> QED
  BY <1>1, <1>2, <1>3, <1>4

LEMMA CheckKeyKeeps == ASSUME IInv, NEW j \in Jobs, CheckKey(j) PROVE IInv'
<1> USE DEF IInv, rows
<1>1. PICK to \in {"settled", "checked"} : asked' = [asked EXCEPT ![j] = to]
  BY DEF CheckKey
<1>2. TypeOK'
  BY <1>1 DEF CheckKey, TypeOK
<1>3. asked[j] = "idle"
  BY DEF CheckKey
<1>4. /\ UNCHANGED <<status, attempts, due, expired, runs, up, handled, requeued>>
      /\ status[j] = "absent"
  BY <1>3 DEF CheckKey, Fresh
<1>5. Fresh' /\ Bounded' /\ ClaimedOnce' /\ Returned' /\ CompletedMeansHandled'
  BY <1>1, <1>3, <1>4 DEF Fresh, Bounded, ClaimedOnce, Returned, CompletedMeansHandled, Limit, TypeOK
<1>6. Claims'
  BY <1>1, <1>3, <1>4 DEF Claims, TypeOK, Runs
<1> QED
  BY <1>2, <1>5, <1>6

LEMMA InsertKeeps == ASSUME IInv, NEW j \in Jobs, Insert(j) PROVE IInv'
<1> USE DEF IInv
<1>1. TypeOK'
  BY DEF Insert, TypeOK
<1>2. attempts[j] = 0 /\ status[j] = "absent"
  BY DEF Insert, Fresh
<1>3. attempts[j] < Limit + requeued[j]
  BY <1>2, LimitBounds DEF TypeOK
<1> QED
  BY <1>1, <1>2, <1>3, RowsChange DEF Insert, TypeOK, CompletedMeansHandled

LEMMA RecoverStuckKeeps ==
  ASSUME IInv, RecoverStuck, UNCHANGED <<asked, runs, handled, requeued>>, up' \in SUBSET Workers
  PROVE  IInv'
<1> USE DEF IInv
<1>1. TypeOK'
  BY DEF RecoverStuck, TypeOK
<1>2. ASSUME NEW j \in Jobs, status'[j] = "pending", status[j] # "pending"
      PROVE  attempts[j] < Limit + requeued[j]
  BY <1>2, LimitBounds DEF RecoverStuck, Exhausted, TypeOK
<1>3. ASSUME NEW j \in Jobs, asked[j] # "settled" PROVE status'[j] = status[j]
  BY <1>3 DEF RecoverStuck, Stuck, Fresh
<1>4. ASSUME NEW j \in Jobs, status'[j] = "completed" PROVE j \in handled
  BY <1>4 DEF RecoverStuck, CompletedMeansHandled
<1> QED
  BY <1>1, <1>2, <1>3, <1>4, RowsChange DEF RecoverStuck, TypeOK

LEMMA RetryJobKeeps == ASSUME IInv, NEW S \in SUBSET Jobs, RetryJob(S) PROVE IInv'
<1> USE DEF IInv
<1>1. TypeOK'
  BY DEF RetryJob, TypeOK
<1>2. ASSUME NEW j \in Jobs, status'[j] = "pending", status[j] # "pending"
      PROVE  attempts[j] < Limit + requeued'[j]
  BY <1>2, LimitBounds DEF RetryJob, TypeOK, Bounded
<1>3. ASSUME NEW j \in Jobs, asked[j] # "settled" PROVE status'[j] = status[j]
  BY <1>3 DEF RetryJob, Fresh
<1>4. ASSUME NEW j \in Jobs, status'[j] = "completed" PROVE j \in handled
  BY <1>4 DEF RetryJob, CompletedMeansHandled
<1>5. ASSUME NEW j \in Jobs PROVE requeued'[j] >= requeued[j]
  BY DEF RetryJob, TypeOK
<1> QED
  BY <1>1, <1>2, <1>3, <1>4, <1>5, RowsChange DEF RetryJob, TypeOK

LEMMA DequeueKeeps ==
  ASSUME IInv, NEW w \in Workers, NEW j \in Jobs, Dequeue(w, j) PROVE IInv'
<1> USE DEF IInv
<1> DEFINE n == Run(w, j)
<1>1. /\ n \in Runs /\ n.worker = w /\ n.job = j
      /\ n.attempt = attempts[j] + 1 /\ n.state = "running"
  BY DEF Run, Runs, TypeOK
<1>2. /\ runs' = runs \union {n}
      /\ status' = [status EXCEPT ![j] = "processing"]
      /\ attempts' = [attempts EXCEPT ![j] = @ + 1]
      /\ expired' = [expired EXCEPT ![j] = FALSE]
      /\ status[j] = "pending"
      /\ UNCHANGED <<due, asked, up, handled, requeued>>
  BY DEF Dequeue, Candidate
<1> HIDE DEF n
<1>3. TypeOK'
  BY <1>1, <1>2 DEF TypeOK
<1>4. asked[j] = "settled"
  BY <1>2 DEF Fresh
<1>5. Fresh'
  BY <1>2, <1>4 DEF Fresh, TypeOK
<1>6. Bounded'
  BY <1>2, LimitBounds DEF Bounded, TypeOK, Limit
<1>7. \A r \in runs : r.job \in Jobs /\ r.attempt \in Nat /\ r.attempt <= attempts[r.job]
  BY DEF TypeOK, Runs, Claims
<1>8. Claims'
  BY <1>1, <1>2, <1>4, <1>7 DEF Claims, TypeOK
<1>9. \A r \in runs : ~(r.job = n.job /\ r.attempt = n.attempt)
  BY <1>1, <1>7 DEF TypeOK
<1>10. ClaimedOnce'
  BY <1>2, <1>9 DEF ClaimedOnce
<1>11. Returned' /\ CompletedMeansHandled'
  BY <1>1, <1>2 DEF Returned, CompletedMeansHandled, TypeOK
<1> QED
  BY <1>3, <1>5, <1>6, <1>8, <1>10, <1>11

LEMMA CompleteKeeps == ASSUME IInv, NEW r \in runs, Complete(r) PROVE IInv'
<1> USE DEF IInv
<1>1. r.job \in Jobs /\ asked[r.job] = "settled" /\ r.job \in handled
  BY DEF TypeOK, Runs, Claims, Returned, Complete
<1>2. TypeOK'
  BY <1>1 DEF Complete, TypeOK
<1> QED
  BY <1>1, <1>2, RowsChange DEF Complete, TypeOK, CompletedMeansHandled

LEMMA FailKeeps == ASSUME IInv, NEW r \in runs, Fail(r) PROVE IInv'
<1> USE DEF IInv
<1>1. r.job \in Jobs /\ asked[r.job] = "settled"
  BY DEF TypeOK, Runs, Claims
<1>2. TypeOK'
  BY <1>1 DEF Fail, TypeOK
<1>3. ASSUME NEW j \in Jobs, status'[j] = "pending", status[j] # "pending"
      PROVE  attempts[j] < Limit + requeued[j]
  BY <1>1, <1>3, LimitBounds DEF Fail, Exhausted, TypeOK
<1>4. ASSUME NEW j \in Jobs, status'[j] = "completed" PROVE j \in handled
  BY <1>1, <1>4 DEF Fail, TypeOK, CompletedMeansHandled
<1>5. ASSUME NEW j \in Jobs, asked[j] # "settled" PROVE status'[j] = status[j]
  BY <1>1, <1>5 DEF Fail, TypeOK
<1> QED
  BY <1>1, <1>2, <1>3, <1>4, <1>5, RowsChange DEF Fail, TypeOK

LEMMA RunStepKeeps == ASSUME IInv, NEW r \in runs, RunStep(r) PROVE IInv'
<1>1. CASE HandlerEnds(r)
  <2>1. PICK s \in {"returned", "thrown"} :
          /\ runs' = (runs \ {r}) \union {[r EXCEPT !.state = s]}
          /\ handled' = IF s = "returned" THEN handled \union {r.job} ELSE handled
    BY <1>1 DEF HandlerEnds
  <2> QED
    BY <1>1, <2>1, DeliveryMoves DEF HandlerEnds, DELIVERY
<1>2. CASE CompleteThrows(r)
  BY <1>2, DeliveryMoves DEF CompleteThrows, DELIVERY
<1>3. CASE FailThrows(r)
  <2>1. TypeOK'
    BY <1>3 DEF FailThrows, IInv, TypeOK, rows
  <2> QED
    BY <1>3, <2>1, RowsChange DEF FailThrows, IInv, TypeOK, rows, CompletedMeansHandled
<1> QED
  BY <1>1, <1>2, <1>3, CompleteKeeps, FailKeeps DEF RunStep

LEMMA CrashKeeps == ASSUME IInv, NEW w \in Workers, Crash(w) PROVE IInv'
<1>1. TypeOK'
  BY DEF Crash, IInv, TypeOK, rows
<1> QED
  BY <1>1, RowsChange DEF Crash, IInv, TypeOK, rows, CompletedMeansHandled

(* Time passing touches neither the status nor the attempts of a job.       *)
LEMMA TimeKeeps == ASSUME IInv, NEW j \in Jobs, Ripen(j) \/ LeaseExpires(j) PROVE IInv'
<1>1. TypeOK'
  BY DEF Ripen, LeaseExpires, IInv, TypeOK
<1> QED
  BY <1>1, RowsChange DEF Ripen, LeaseExpires, IInv, TypeOK, CompletedMeansHandled

LEMMA StutterKeeps == ASSUME IInv, UNCHANGED vars PROVE IInv'
BY DEF IInv, vars, rows, TypeOK, Fresh, Bounded, Claims, ClaimedOnce, Returned,
       CompletedMeansHandled, Limit

LEMMA Inductive == IInv /\ [Next]_vars => IInv'
<1> SUFFICES ASSUME IInv, [Next]_vars PROVE IInv'
  OBVIOUS
<1>1. ASSUME NEW j \in Jobs, CheckKey(j) \/ Insert(j) PROVE IInv'
  BY <1>1, CheckKeyKeeps, InsertKeeps
<1>2. ASSUME NEW w \in Workers, Recover(w) \/ Restart(w) PROVE IInv'
  <2>1. up' \in SUBSET Workers
    BY <1>2 DEF Recover, Restart, IInv, TypeOK
  <2> QED
    BY <1>2, <2>1, RecoverStuckKeeps DEF Recover, Restart
<1>3. ASSUME Retry PROVE IInv'
  <2> DEFINE dead == {j \in Jobs : status[j] = "dead-letter"}
  <2>1. RetryJob(dead) \/ \E j \in dead : RetryJob({j})
    BY <1>3 DEF Retry
  <2> QED
    BY <2>1, RetryJobKeeps
<1> QED
  BY <1>1, <1>2, <1>3, DequeueKeeps, CrashKeeps, RunStepKeeps, TimeKeeps, StutterKeeps
     DEF Next, Produce, Work

LEMMA Invariance == Spec => []IInv
BY InitEstablishes, Inductive, PTL DEF Spec

-----------------------------------------------------------------------------
(* The rows and the deliveries under way keep their types.                  *)
THEOREM QueueTypeCorrect == Spec => []TypeOK
<1>1. IInv => TypeOK
  BY DEF IInv
<1> QED
  BY Invariance, <1>1, PTL

(* However leases, failures and crashes interleave, the retry limit holds.  *)
THEOREM RetriesAreBounded == Spec => []RetryLimit
<1>1. IInv => RetryLimit
  BY DEF IInv, Bounded, RetryLimit
<1> QED
  BY Invariance, <1>1, PTL

(* No two workers hold the same claim of a job.                             *)
THEOREM ClaimsAreUnique == Spec => []ClaimedOnce
<1>1. IInv => ClaimedOnce
  BY DEF IInv
<1> QED
  BY Invariance, <1>1, PTL

(* A job is marked completed only if its handler has returned.              *)
THEOREM CompletedJobsWereHandled == Spec => []CompletedMeansHandled
<1>1. IInv => CompletedMeansHandled
  BY DEF IInv
<1> QED
  BY Invariance, <1>1, PTL

-----------------------------------------------------------------------------
(* With leases that outlast the handlers, a delivery holds its job: the row *)
(* is processing, its lease has not run out, and no other delivery has it.  *)
Held ==
  /\ OneRunPerJob
  /\ \A r \in runs : status[r.job] = "processing" /\ ~expired[r.job]

Outlasting == Produce \/ Work \/ Retry \/ \E j \in Jobs : LeaseOutlasts(j)

LEMMA OutlastingIsNext == Outlasting => Next
BY DEF Outlasting, Next, LeaseOutlasts

LEMMA RunStepHolds == ASSUME IInv, Held, NEW r \in runs, RunStep(r) PROVE Held'
<1> USE DEF Held
<1>1. r \in Runs /\ \A x \in runs : x \in Runs
  BY DEF IInv, TypeOK
<1>2. ASSUME NEW s \in DELIVERY, runs' = (runs \ {r}) \union {[r EXCEPT !.state = s]}, UNCHANGED rows
      PROVE  Held'
  <2> DEFINE q == [r EXCEPT !.state = s]
  <2>1. q.job = r.job
    BY <1>1 DEF Runs
  <2>2. \A x \in runs' : (x \in runs /\ x # r) \/ x = q
    BY <1>2
  <2> HIDE DEF q
  <2> QED
    BY <1>2, <2>1, <2>2 DEF OneRunPerJob, rows
<1>3. CASE HandlerEnds(r)
  BY <1>2, <1>3 DEF HandlerEnds, DELIVERY
<1>4. CASE CompleteThrows(r)
  BY <1>2, <1>4 DEF CompleteThrows, DELIVERY
<1>5. CASE FailThrows(r)
  BY <1>5 DEF FailThrows, OneRunPerJob, rows
<1>6. ASSUME Complete(r) \/ Fail(r) PROVE Held'
  <2>1. /\ runs' = runs \ {r} /\ expired' = expired
        /\ \A j \in Jobs : j # r.job => status'[j] = status[j]
    BY <1>6 DEF Complete, Fail, IInv, TypeOK
  <2>2. \A x \in runs' : x \in runs /\ x.job # r.job /\ x.job \in Jobs
    BY <1>1, <2>1 DEF OneRunPerJob, Runs
  <2> QED
    BY <2>1, <2>2 DEF OneRunPerJob
<1> QED
  BY <1>3, <1>4, <1>5, <1>6 DEF RunStep

LEMMA DequeueHolds == ASSUME IInv, Held, NEW w \in Workers, NEW j \in Jobs, Dequeue(w, j) PROVE Held'
<1>1. Run(w, j).job = j
  BY DEF Run
<1>2. /\ runs' = runs \union {Run(w, j)}
      /\ status' = [status EXCEPT ![j] = "processing"]
      /\ expired' = [expired EXCEPT ![j] = FALSE]
      /\ status[j] = "pending"
  BY DEF Dequeue, Candidate
<1>3. \A r \in runs : r.job # j /\ r.job \in Jobs
  BY <1>2 DEF Held, IInv, TypeOK, Runs
<1>4. /\ status'[j] = "processing" /\ ~expired'[j]
      /\ \A i \in Jobs : i # j => status'[i] = status[i] /\ expired'[i] = expired[i]
  BY <1>2 DEF IInv, TypeOK
<1> QED
  BY <1>1, <1>2, <1>3, <1>4 DEF Held, OneRunPerJob

(* Every other step spares the rows of the deliveries under way.            *)
LEMMA RowsSpared ==
  ASSUME IInv, Held, runs' \subseteq runs,
         \A j \in Jobs : status[j] = "processing" /\ ~expired[j] /\ (\E r \in runs : r.job = j)
                            => status'[j] = "processing" /\ ~expired'[j]
  PROVE  Held'
BY DEF Held, OneRunPerJob, IInv, TypeOK, Runs

LEMMA HeldInductive == IInv /\ Held /\ [Outlasting]_vars => Held'
<1> SUFFICES ASSUME IInv, Held, [Outlasting]_vars PROVE Held'
  OBVIOUS
<1>1. ASSUME NEW j \in Jobs, CheckKey(j) \/ Insert(j) \/ Ripen(j) PROVE Held'
  BY <1>1, RowsSpared DEF CheckKey, Insert, Ripen, rows, IInv, TypeOK, Fresh
<1>2. ASSUME NEW j \in Jobs, LeaseOutlasts(j) PROVE Held'
  BY <1>2, RowsSpared DEF LeaseOutlasts, LeaseExpires, IInv, TypeOK
<1>3. ASSUME NEW w \in Workers, Recover(w) \/ Restart(w) PROVE Held'
  BY <1>3, RowsSpared DEF Recover, Restart, RecoverStuck, Stuck
<1>4. ASSUME NEW w \in Workers, Crash(w) PROVE Held'
  BY <1>4, RowsSpared DEF Crash, rows
<1>5. ASSUME NEW S \in SUBSET Jobs, RetryJob(S) PROVE Held'
  BY <1>5, RowsSpared DEF RetryJob
<1>6. ASSUME Retry PROVE Held'
  <2> DEFINE dead == {j \in Jobs : status[j] = "dead-letter"}
  <2>1. RetryJob(dead) \/ \E j \in dead : RetryJob({j})
    BY <1>6 DEF Retry
  <2> QED
    BY <2>1, <1>5
<1>7. CASE UNCHANGED vars
  BY <1>7 DEF Held, OneRunPerJob, vars, rows
<1> QED
  BY <1>1, <1>2, <1>3, <1>4, <1>6, <1>7, DequeueHolds, RunStepHolds DEF Outlasting, Produce, Work

LEMMA HeldInvariance == SpecOutlasting => [](IInv /\ Held)
<1>1. Init => IInv /\ Held
  BY InitEstablishes DEF Init, Held, OneRunPerJob
<1>2. IInv /\ Held /\ [Outlasting]_vars => IInv' /\ Held'
  BY Inductive, HeldInductive, OutlastingIsNext
<1>3. SpecOutlasting <=> Init /\ [][Outlasting]_vars
  BY DEF SpecOutlasting, Outlasting
<1> QED
  BY <1>1, <1>2, <1>3, PTL

(* With leases that outlast the handlers, no job is delivered to a second   *)
(* worker while a first one has it.                                         *)
THEOREM OneDeliveryAtATime == SpecOutlasting => []OneRunPerJob
<1>1. Held => OneRunPerJob
  BY DEF Held
<1> QED
  BY HeldInvariance, <1>1, PTL

Final == \A j \in Jobs : status[j] = "completed" => status'[j] = "completed"

LEMMA StepsAreFinal == IInv /\ Held /\ [Outlasting]_vars => [Final]_vars
<1> SUFFICES ASSUME IInv, Held, [Outlasting]_vars, NEW j \in Jobs, status[j] = "completed"
             PROVE  status'[j] = "completed"
  BY DEF Final
<1>1. \A r \in runs : r.job # j /\ r.job \in Jobs
  BY DEF Held, IInv, TypeOK, Runs
<1>2. ASSUME NEW r \in runs, RunStep(r) PROVE status'[j] = status[j]
  BY <1>1, <1>2 DEF RunStep, HandlerEnds, Complete, CompleteThrows, Fail, FailThrows, rows, IInv, TypeOK
<1>3. ASSUME NEW i \in Jobs, CheckKey(i) \/ Insert(i) \/ Ripen(i) \/ LeaseOutlasts(i)
      PROVE  status'[j] = status[j]
  BY <1>3 DEF CheckKey, Insert, Ripen, LeaseOutlasts, LeaseExpires, rows, IInv, TypeOK, Fresh
<1>4. ASSUME NEW w \in Workers, NEW i \in Jobs, Dequeue(w, i) PROVE status'[j] = status[j]
  BY <1>4 DEF Dequeue, Candidate, IInv, TypeOK
<1>5. ASSUME NEW w \in Workers, Recover(w) \/ Restart(w) \/ Crash(w) PROVE status'[j] = status[j]
  BY <1>5 DEF Recover, Restart, RecoverStuck, Stuck, Crash, rows
<1>6. ASSUME Retry PROVE status'[j] = status[j]
  BY <1>6 DEF Retry, RetryJob
<1> QED
  BY <1>2, <1>3, <1>4, <1>5, <1>6 DEF Outlasting, Produce, Work, vars, rows

(* With leases that outlast the handlers, a completed job stays completed:  *)
(* no late failure, recovery or retry brings it back.                       *)
THEOREM CompletedJobsStay == SpecOutlasting => CompletedIsFinal
<1>1. SpecOutlasting => [][Outlasting]_vars
  BY PTL DEF SpecOutlasting, Outlasting
<1>2. CompletedIsFinal <=> [][Final]_vars
  BY DEF CompletedIsFinal, Final
<1> QED
  BY HeldInvariance, StepsAreFinal, <1>1, <1>2, PTL

-----------------------------------------------------------------------------
(* With one producer, the SELECT of a call speaks for its INSERT too: while a *)
(* call is between the two no live job has its key, and no other call is.   *)
KeyChecked ==
  /\ \A j, k \in Jobs : asked[j] = "checked" /\ asked[k] = "checked" => j = k
  /\ \A j, k \in Jobs :
       asked[j] = "checked" /\ KeyOf[j] # None /\ Live(k) => KeyOf[k] # KeyOf[j]

LEMMA OneProducerIsOutlasting == OneProducer => Outlasting
BY DEF OneProducer, Outlasting, Produce

(* No step but an INSERT brings a job to life: a dead letter is not retried *)
(* here, and no delivery is left to fail once its job is one.               *)
LEMMA OnlyInsertsAdd ==
  ASSUME IInv, Held, NEW j \in Jobs, ~Live(j), Work \/ \E i \in Jobs : CheckKey(i) \/ Ripen(i) \/ LeaseOutlasts(i)
  PROVE  ~Live(j)'
<1> USE DEF Live
<1>1. \A r \in runs : r.job # j /\ r.job \in Jobs
  BY DEF Held, IInv, TypeOK, Runs
<1>2. ASSUME NEW r \in runs, RunStep(r) PROVE status'[j] = status[j]
  BY <1>1, <1>2 DEF RunStep, HandlerEnds, Complete, CompleteThrows, Fail, FailThrows, rows, IInv, TypeOK
<1>3. ASSUME NEW i \in Jobs, CheckKey(i) \/ Ripen(i) \/ LeaseOutlasts(i) PROVE status'[j] = status[j]
  BY <1>3 DEF CheckKey, Ripen, LeaseOutlasts, LeaseExpires, rows
<1>4. ASSUME NEW w \in Workers, NEW i \in Jobs, Dequeue(w, i) PROVE status'[j] = status[j]
  BY <1>4 DEF Dequeue, Candidate, IInv, TypeOK
<1>5. ASSUME NEW w \in Workers, Recover(w) \/ Restart(w) \/ Crash(w) PROVE status'[j] = status[j]
  BY <1>5 DEF Recover, Restart, RecoverStuck, Stuck, Crash, rows
<1> QED
  BY <1>2, <1>3, <1>4, <1>5 DEF Work

LEMMA WorkAsksNothing == ASSUME Work \/ \E i \in Jobs : Ripen(i) \/ LeaseOutlasts(i) PROVE asked' = asked
BY DEF Work, RunStep, HandlerEnds, Complete, CompleteThrows, Fail, FailThrows, Dequeue, Recover, Restart,
       Crash, Ripen, LeaseOutlasts, LeaseExpires

LEMMA KeysInductive ==
  IInv /\ Held /\ KeyChecked /\ KeyUnique /\ [OneProducer]_vars => KeyChecked' /\ KeyUnique'
<1> SUFFICES ASSUME IInv, Held, KeyChecked, KeyUnique, [OneProducer]_vars
             PROVE  KeyChecked' /\ KeyUnique'
  OBVIOUS
<1>1. ASSUME NEW i \in Jobs, Insert(i) PROVE KeyChecked' /\ KeyUnique'
  <2>1. /\ asked[i] = "checked" /\ asked' = [asked EXCEPT ![i] = "settled"]
        /\ status' = [status EXCEPT ![i] = "pending"]
    BY <1>1 DEF Insert
  <2>2. \A k \in Jobs : asked'[k] # "checked"
    BY <2>1 DEF KeyChecked, IInv, TypeOK
  <2>3. \A k \in Jobs : k # i => (Live(k)' <=> Live(k))
    BY <2>1 DEF Live, IInv, TypeOK
  <2>4. \A k \in Jobs : k # i /\ Live(k)' /\ KeyOf[i] # None => KeyOf[k] # KeyOf[i]
    BY <2>1, <2>3 DEF KeyChecked
  <2> QED
    BY <2>2, <2>3, <2>4 DEF KeyChecked, KeyUnique
<1>2. ASSUME \A i \in Jobs : asked[i] # "checked", NEW i \in Jobs, CheckKey(i) PROVE KeyChecked' /\ KeyUnique'
  <2>1. \A k \in Jobs : Live(k)' => Live(k)
    BY <1>2, OnlyInsertsAdd
  <2>2. \A k \in Jobs : k # i => asked'[k] # "checked"
    BY <1>2 DEF CheckKey, IInv, TypeOK
  <2>3. asked'[i] = "checked" /\ KeyOf[i] # None => \A k \in Jobs : Live(k) => KeyOf[k] # KeyOf[i]
    BY <1>2 DEF CheckKey, IInv, TypeOK
  <2> QED
    BY <2>1, <2>2, <2>3 DEF KeyChecked, KeyUnique
<1>3. ASSUME \A i \in Jobs : asked[i] # "checked", Work \/ \E i \in Jobs : Ripen(i) \/ LeaseOutlasts(i)
      PROVE  KeyChecked' /\ KeyUnique'
  <2>1. \A k \in Jobs : Live(k)' => Live(k)
    BY <1>3, OnlyInsertsAdd
  <2>2. asked' = asked
    BY <1>3, WorkAsksNothing
  <2> QED
    BY <1>3, <2>1, <2>2 DEF KeyChecked, KeyUnique
<1>4. CASE UNCHANGED vars
  BY <1>4 DEF KeyChecked, KeyUnique, Live, vars, rows
<1> QED
  BY <1>1, <1>2, <1>3, <1>4 DEF OneProducer, Produce

(* With one producing process and no retryJob an idempotency key has one    *)
(* live job, whatever workers, leases and crashes do meanwhile.             *)
THEOREM KeysAreUnique == SpecOneProducer => []KeyUnique
<1>1. Init => IInv /\ Held /\ KeyChecked /\ KeyUnique
  BY InitEstablishes DEF Init, Held, OneRunPerJob, KeyChecked, KeyUnique, Live
<1>2. IInv /\ Held /\ KeyChecked /\ KeyUnique /\ [OneProducer]_vars
        => IInv' /\ Held' /\ KeyChecked' /\ KeyUnique'
  BY Inductive, HeldInductive, OutlastingIsNext, OneProducerIsOutlasting, KeysInductive
<1> QED
  BY <1>1, <1>2, PTL DEF SpecOneProducer
=============================================================================
