---------------------------- MODULE QueueWorker ----------------------------
(***************************************************************************)
(* One QueueWorker and its poll loop in a single process, over the memory  *)
(* backend or the wasm backend.  JobQueue looks at many workers and one    *)
(* atomic backend; here the worker's timers, its stop and restart, and the *)
(* awaits inside the backend are what is looked at.                        *)
(*                                                                         *)
(* Every operation of the memory backend is done when it is called, but    *)
(* its caller goes on a microtask later: no timer fires while a poll goes  *)
(* round its loop, yet whoever is called back between the claim and the    *)
(* task may stop or start the worker.  The wasm backend waits for its      *)
(* database: timers fire meanwhile, polls overlap, and its fail reads the  *)
(* attempts in one statement and writes the status in another.             *)
(***************************************************************************)
EXTENDS Naturals, FiniteSets

CONSTANTS
  QueueJobs,       \* the jobs, all pending in the beginning
  PollSlots,       \* bounds the polls that overlap
  WorkerLimit,     \* concurrency of the queue
  JobRetries,      \* maxRetries of every job
  MaxStarts,       \* bounds the starts of the worker
  MaxDeliveries    \* bounds the attempts of a job

ASSUME WorkerAssumption ==
  /\ WorkerLimit \in Nat \ {0} /\ JobRetries \in Nat \ {0}
  /\ MaxStarts \in Nat /\ MaxDeliveries \in Nat

VARIABLES
  jobStore,   \* "memory" or "wasm"
  job,        \* per job: status, attempts, has its availability or its lease come
  running,    \* the flag of the worker
  starting,   \* is a start awaiting its recovery
  loops,      \* how many poll loops startQueueLoop has made, the last is current
  pollTimer,  \* the loop whose poll the queue's timer runs, 0 for no timer
  poll,       \* per slot: the loop of the poll in flight and where it is
  executing,      \* jobs being executed, with the loop that counts them in active
  stopping,   \* the stop: none, waiting for tasks, clean or cut short; the tasks it
              \* awaits, and the jobs that polls had claimed and not begun when it was called
  lateLease   \* history: a lease ran out of a job in hands, or the worker was started
              \* again over a task, or over a poll on the memory backend, of an earlier start

workerVars == <<jobStore, job, running, starting, loops, pollTimer, poll, executing, stopping, lateLease>>

NoPoll == [loop |-> 0, at |-> "none", claim |-> "none"]
NotStopping == [at |-> "none", awaited |-> {}, missed |-> {}]

WorkerInit ==
  /\ jobStore \in {"memory", "wasm"}
  /\ job = [j \in QueueJobs |-> [status |-> "pending", attempts |-> 0, ripe |-> TRUE]]
  /\ running = FALSE /\ starting = FALSE /\ loops = 0 /\ pollTimer = 0
  /\ poll = [p \in PollSlots |-> NoPoll]
  /\ executing = {} /\ stopping = NotStopping /\ lateLease = FALSE

Polling == {p \in PollSlots : poll[p] # NoPoll}

\* No timer fires while a loop over the memory backend is going round.
TurnEnds == jobStore = "memory" => Polling = {}

\* Bug: a slot is free again once the handler has returned.
ActiveHandlers(l) == Cardinality({t \in executing : t.loop = l /\ t.at = "running"})

\* The counter of loop l: raised when it gets a job, lowered when the task is over.
Active(l) == Cardinality({t \in executing : t.loop = l})

\* scheduleNext of loop l: one timer for each queue, whatever loop it is of.
Schedule(l) == pollTimer' = IF running THEN l ELSE pollTimer

-----------------------------------------------------------------------------
\* recoverUnacknowledged, a transaction: the job goes back, or to the dead letters.
Recovered(j) ==
  IF j.status # "processing" \/ ~j.ripe THEN j
  ELSE IF j.attempts >= JobRetries THEN [j EXCEPT !.status = "dead-letter"]
  ELSE [j EXCEPT !.status = "pending", !.ripe = TRUE]

\* start raises the flag and awaits a first recovery, whose error it ignores ...
StartWorker ==
  /\ ~running /\ ~starting /\ loops < MaxStarts
  /\ running' = TRUE /\ starting' = TRUE
  /\ stopping' = IF stopping.at = "waiting" THEN stopping ELSE NotStopping
  /\ lateLease' = (lateLease \/ executing # {} \/ (jobStore = "memory" /\ Polling # {}))
  /\ UNCHANGED <<jobStore, job, loops, pollTimer, poll, executing>>

\* ... and then makes a loop with a counter of its own, though a stop may have come meanwhile.
StartLoop ==
  /\ starting /\ starting' = FALSE
  /\ \E recovers \in BOOLEAN :
       job' = [j \in QueueJobs |-> IF recovers THEN Recovered(job[j]) ELSE job[j]]
  /\ loops' = loops + 1
  /\ pollTimer' = IF running THEN loops + 1 ELSE pollTimer
  /\ UNCHANGED <<jobStore, running, poll, executing, stopping, lateLease>>

\* The recovery interval.
RecoveryTick ==
  /\ running /\ loops > 0 /\ TurnEnds
  /\ \E j \in QueueJobs : Recovered(job[j]) # job[j]
  /\ job' = [j \in QueueJobs |-> Recovered(job[j])]
  /\ UNCHANGED <<jobStore, running, starting, loops, pollTimer, poll, executing, stopping, lateLease>>

\* The poll timer fires.
PollTimerFires(p) ==
  /\ pollTimer # 0 /\ p \notin Polling /\ TurnEnds
  /\ poll' = [poll EXCEPT ![p] = [NoPoll EXCEPT !.loop = pollTimer, !.at = "loop"]]
  /\ pollTimer' = 0
  /\ UNCHANGED <<jobStore, job, running, starting, loops, executing, stopping, lateLease>>

\* Bug: a poll that finds the limit reached ends without scheduling the next.
PollEndsUnscheduled(p) ==
  IF Active(poll[p].loop) < WorkerLimit THEN Schedule(poll[p].loop) ELSE UNCHANGED pollTimer

\* A poll that ends schedules the next, in a worker that runs.
PollEnds(p) == Schedule(poll[p].loop)

Claimable == {j \in QueueJobs : job[j].status = "pending" /\ job[j].ripe
                                 /\ job[j].attempts < MaxDeliveries}

\* The dequeue of one job, a transaction: of all backends the oldest of the highest
\* priority, here any.
Claimed(j) == [job EXCEPT ![j] =
  [status |-> "processing", attempts |-> @.attempts + 1, ripe |-> FALSE]]

\* The head of the loop: the worker runs and the counter is below the limit.  The memory
\* backend has claimed a job, if there is one, before the poll goes on.
PollOn(p) ==
  /\ poll[p].at = "loop" /\ running /\ Active(poll[p].loop) < WorkerLimit
  /\ IF jobStore = "memory" /\ Claimable # {}
     THEN \E j \in Claimable :
            /\ job' = Claimed(j)
            /\ poll' = [poll EXCEPT ![p].at = "claimed", ![p].claim = j]
     ELSE poll' = [poll EXCEPT ![p].at = "asking"] /\ UNCHANGED job
  /\ UNCHANGED <<jobStore, running, starting, loops, pollTimer, executing, stopping, lateLease>>

\* The wasm backend claims a job for the poll later ...
ClaimForPoll(p) ==
  /\ poll[p].at = "asking" /\ jobStore = "wasm"
  /\ \E j \in Claimable :
       /\ job' = Claimed(j)
       /\ poll' = [poll EXCEPT ![p].at = "claimed", ![p].claim = j]
  /\ UNCHANGED <<jobStore, running, starting, loops, pollTimer, executing, stopping, lateLease>>

\* ... and the poll executes it without looking at the flag or at the counter again.
PollResumes(p) ==
  /\ poll[p].at = "claimed"
  /\ executing' = executing \union
       {[job |-> poll[p].claim, attempt |-> job[poll[p].claim].attempts, loop |-> poll[p].loop,
         at |-> "running", read |-> 0]}
  /\ poll' = [poll EXCEPT ![p].at = "loop", ![p].claim = "none"]
  /\ UNCHANGED <<jobStore, job, running, starting, loops, pollTimer, stopping, lateLease>>

\* No job, an error, the limit or a stop: the poll is over.
PollBreaks(p) ==
  /\ \/ poll[p].at = "loop" /\ (~running \/ Active(poll[p].loop) >= WorkerLimit)
     \/ poll[p].at = "asking"
  /\ poll' = [poll EXCEPT ![p] = NoPoll]
  /\ PollEnds(p)
  /\ UNCHANGED <<jobStore, job, running, starting, loops, executing, stopping, lateLease>>

-----------------------------------------------------------------------------
TaskAt(t, at) == executing' = (executing \ {t}) \union {[t EXCEPT !.at = at]}

\* The handler returns, or it throws or times out.
TaskHandled(t) ==
  /\ t.at = "running"
  /\ \E at \in {"completing", "failing"} : TaskAt(t, at)
  /\ UNCHANGED <<jobStore, job, running, starting, loops, pollTimer, poll, stopping, lateLease>>

\* The finally of a task: its slot is free, and the worker polls at once.
TaskOver(t) == executing' = executing \ {t} /\ Schedule(t.loop)

\* complete marks the job whatever its status, or throws, which the task takes for a failure.
TaskCompletes(t) ==
  /\ t.at = "completing"
  /\ \/ job' = [job EXCEPT ![t.job].status = "completed"] /\ TaskOver(t)
     \/ jobStore = "wasm" /\ TaskAt(t, "failing") /\ UNCHANGED <<job, pollTimer>>
  /\ UNCHANGED <<jobStore, running, starting, loops, poll, stopping, lateLease>>

\* Bug: the limit is compared with the deliveries still to come.
FailedLate(j, attempts) ==
  IF attempts <= JobRetries THEN {[j EXCEPT !.status = "pending", !.ripe = now] : now \in BOOLEAN}
  ELSE {[j EXCEPT !.status = "dead-letter"]}

\* The job after a fail that goes by the given attempts.
JobFailed(j, attempts) ==
  IF attempts < JobRetries THEN {[j EXCEPT !.status = "pending", !.ripe = now] : now \in BOOLEAN}
  ELSE {[j EXCEPT !.status = "dead-letter"]}

\* fail of the memory backend.
MemoryFail(t) ==
  /\ t.at = "failing" /\ jobStore = "memory"
  /\ \E after \in JobFailed(job[t.job], job[t.job].attempts) : job' = [job EXCEPT ![t.job] = after]
  /\ TaskOver(t)
  /\ UNCHANGED <<jobStore, running, starting, loops, poll, stopping, lateLease>>

\* fail of the wasm backend reads the row ...
WasmFailReads(t) ==
  /\ t.at = "failing" /\ jobStore = "wasm"
  /\ executing' = (executing \ {t}) \union {[t EXCEPT !.at = "writing", !.read = job[t.job].attempts]}
  /\ UNCHANGED <<jobStore, job, running, starting, loops, pollTimer, poll, stopping, lateLease>>

\* ... and writes by what it has read, or throws.
WasmFailWrites(t) ==
  /\ t.at = "writing"
  /\ \/ \E after \in JobFailed(job[t.job], t.read) : job' = [job EXCEPT ![t.job] = after]
     \/ UNCHANGED job
  /\ TaskOver(t)
  /\ UNCHANGED <<jobStore, running, starting, loops, poll, stopping, lateLease>>

\* The job is in the hands of a task, or of a poll that has just claimed it.
InHands(j) == \/ \E t \in executing : t.job = j
              \/ \E p \in PollSlots : poll[p].at = "claimed" /\ poll[p].claim = j

\* Availability comes, or a lease runs out, also of a job in hands.
JobRipens(j) ==
  /\ job[j].status \in {"pending", "processing"} /\ ~job[j].ripe
  /\ job' = [job EXCEPT ![j].ripe = TRUE]
  /\ lateLease' = (lateLease \/ InHands(j))
  /\ UNCHANGED <<jobStore, running, starting, loops, pollTimer, poll, executing, stopping>>

\* Bug: the acknowledgements are not awaited.
InFlightHandlers == {[j |-> t.job, a |-> t.attempt] : t \in {u \in executing : u.at = "running"}}

InFlight == {[j |-> t.job, a |-> t.attempt] : t \in executing}

\* A job that is claimed is in flight only once its poll goes on.
ClaimsInHand == {poll[p].claim : p \in {q \in PollSlots : poll[q].at = "claimed"}}

\* stop takes the timers away and waits for the tasks of this moment ...
StopWorker ==
  /\ running /\ running' = FALSE /\ stopping.at # "waiting"
  /\ pollTimer' = 0
  /\ stopping' = [at |-> "waiting", awaited |-> InFlight, missed |-> ClaimsInHand]
  /\ UNCHANGED <<jobStore, job, starting, loops, poll, executing, lateLease>>

\* ... until they are over, or the grace period is.
StopReturns ==
  /\ stopping.at = "waiting"
  /\ stopping' = [at |-> IF stopping.awaited \intersect InFlight = {} THEN "clean" ELSE "late",
                  awaited |-> {}, missed |-> stopping.missed]
  /\ UNCHANGED <<jobStore, job, running, starting, loops, pollTimer, poll, executing, lateLease>>

WorkerNext ==
  \/ StartWorker \/ StartLoop \/ RecoveryTick \/ StopWorker \/ StopReturns
  \/ \E p \in PollSlots :
       PollTimerFires(p) \/ PollOn(p) \/ ClaimForPoll(p) \/ PollResumes(p) \/ PollBreaks(p)
  \/ \E t \in executing :
       TaskHandled(t) \/ TaskCompletes(t) \/ MemoryFail(t) \/ WasmFailReads(t) \/ WasmFailWrites(t)
  \/ \E j \in QueueJobs : JobRipens(j)

WorkerSpec == WorkerInit /\ [][WorkerNext]_workerVars

-----------------------------------------------------------------------------
WorkerTypeOK ==
  /\ jobStore \in {"memory", "wasm"}
  /\ job \in [QueueJobs -> [status : {"pending", "processing", "completed", "dead-letter"},
                            attempts : 0..MaxDeliveries, ripe : BOOLEAN]]
  /\ running \in BOOLEAN /\ starting \in BOOLEAN
  /\ loops \in 0..MaxStarts /\ pollTimer \in 0..MaxStarts
  /\ poll \in [PollSlots -> [loop : 0..MaxStarts, at : {"none", "loop", "asking", "claimed"},
                             claim : QueueJobs \union {"none"}]]
  /\ executing \subseteq [job : QueueJobs, attempt : 1..MaxDeliveries, loop : 1..MaxStarts,
       at : {"running", "completing", "failing", "writing"}, read : 0..MaxDeliveries]
  /\ stopping.at \in {"none", "waiting", "clean", "late"}

\* A worker that runs keeps polling: its queue has a timer or a poll in flight, whatever jobs
\* fail, whichever loop the timer is of, and however often the worker was stopped and started.
LoopAlive == running /\ ~starting => pollTimer # 0 \/ Polling # {}

\* Over the memory backend a worker executes no more jobs at once than its limit, unless it
\* was started again over a poll or over tasks that its stop had left.
WithinLimit == jobStore = "memory" /\ ~lateLease => Cardinality(executing) <= WorkerLimit

\* Over the memory backend, once a stop has returned with all its tasks over, nothing is
\* executed any more but the one job that the poll had claimed and not begun when stop was
\* called: stop does not see it, and the worker executes it whether stop has returned or not.
StopIsQuiet ==
  jobStore = "memory" /\ ~running /\ stopping.at = "clean" =>
    /\ \A t \in executing : t.job \in stopping.missed
    /\ Cardinality(stopping.missed) <= 1

\* The retry limit holds over the memory backend always, over the wasm backend unless a
\* lease ran out under the poll or the task that has the job.
RetriesHold ==
  \A j \in QueueJobs : job[j].attempts > JobRetries => jobStore = "wasm" /\ lateLease
=============================================================================
