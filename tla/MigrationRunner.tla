--------------------------- MODULE MigrationRunner ---------------------------
(***************************************************************************)
(* The migrations of a repository database (repo/src/migrations/runner.ts):*)
(* several processes start with the same database, each with the           *)
(* migrations of its own deployment, and a row of the lock table decides   *)
(* whose turn it is.  A row older than lockTimeoutMs is taken over, whether *)
(* its owner is dead or only slow.                                          *)
(*                                                                         *)
(* The database is either SQLite, where a transaction is BEGIN IMMEDIATE   *)
(* and so excludes every other, or a server with read committed isolation, *)
(* where the look at the lock row and its update are two steps.            *)
(***************************************************************************)
EXTENDS Integers, Sequences

CONSTANTS Runners,      \* MigrationRunner objects, each with a runnerId of its own
          Versions,     \* versions of migrations, in their order
          Checksums,    \* what a migration file may contain
          Deployments,  \* the sets of migrations a runner may be started with
          None

ASSUME MigrationAssumption ==
  /\ Versions \subseteq Nat
  /\ None \notin Checksums /\ None \notin Runners
  /\ Deployments \subseteq [Versions -> Checksums \union {None}]

VARIABLES
  immediate,    \* BEGIN IMMEDIATE (SQLite) or read committed
  mpc,          \* where each runner is in execute()
  discovered,   \* the migrations each runner was started with
  mode,         \* what its execute() was asked for
  seenLock,     \* the lock row as the runner's SELECT returned it
  todo,         \* toApply: versions the runner still has to apply
  outcome,      \* how the body of withLock ended
  lockRow,      \* the row of the lock table
  writer,       \* the runner whose transaction has the SQLite database
  history,      \* the migrations table: the checksum of each applied version
  applied,      \* ghost: versions in the order their transactions committed
  robbed        \* ghost: runners whose lock was taken over inside the body

lockVars == <<lockRow, seenLock, robbed>>
dbVars == <<history, applied, writer>>
runVars == <<discovered, mode, todo, outcome, immediate>>
migrationVars == <<mpc, lockVars, dbVars, runVars>>

NoRow == [by |-> None, expired |-> FALSE, exists |-> FALSE]
LockedBy(r) == [by |-> r, expired |-> FALSE, exists |-> TRUE]
LockRows == [by : Runners \union {None}, expired : BOOLEAN, exists : BOOLEAN]

Body == {"locked", "apply", "up", "releasing"}
Ended == {"done", "failed"}
RunnerStates == {"idle", "acquire", "deciding", "dead"} \union Body \union Ended
Modes == {"all", "step", "dry", "status"}

MigrationTypeOK ==
  /\ immediate \in BOOLEAN
  /\ mpc \in [Runners -> RunnerStates]
  /\ discovered \in [Runners -> [Versions -> Checksums \union {None}]]
  /\ mode \in [Runners -> Modes]
  /\ seenLock \in [Runners -> LockRows]
  /\ todo \in [Runners -> SUBSET Versions]
  /\ outcome \in [Runners -> Ended]
  /\ lockRow \in LockRows
  /\ writer \in Runners \union {None}
  /\ history \in [Versions -> Checksums \union {None}]
  /\ applied \in Seq(Versions)
  /\ robbed \in SUBSET Runners

MigrationInit ==
  /\ immediate \in BOOLEAN
  /\ mpc = [r \in Runners |-> "idle"]
  /\ discovered = [r \in Runners |-> [v \in Versions |-> None]]
  /\ mode = [r \in Runners |-> "all"]
  /\ seenLock = [r \in Runners |-> NoRow]
  /\ todo = [r \in Runners |-> {}]
  /\ outcome = [r \in Runners |-> "failed"]
  /\ lockRow = NoRow
  /\ writer = None
  /\ history = [v \in Versions |-> None]
  /\ applied = <<>>
  /\ robbed = {}

-----------------------------------------------------------------------------
(* Pure parts.                                                             *)

\* validateIntegrity: every applied version is known with its checksum, and
\* every pending one is above all applied ones.
Valid(d, h) ==
  /\ \A v \in Versions : h[v] # None => d[v] = h[v]
  /\ \A v, w \in Versions : d[v] # None /\ h[v] = None /\ h[w] # None => w < v

Pending(d, h) == {v \in Versions : d[v] # None /\ h[v] = None}

Lowest(S) == CHOOSE v \in S : \A w \in S : v <= w

\* Bug: the step option takes whichever pending migration comes first.
PlannedFromTheEnd(m, p) ==
  IF m = "step" /\ p # {} THEN {CHOOSE v \in p : \A w \in p : w <= v} ELSE p

\* toApply: with the step option only the lowest one.
Planned(m, p) == IF m = "step" /\ p # {} THEN {Lowest(p)} ELSE p

\* Bug: a row that is locked stays locked, however old.
FreeIfUnlocked(row) == row.by = None

\* A row that the code may overwrite: none yet, unlocked, or timed out.
Free(row) == row.by = None \/ row.expired

\* The body loses its lock to whoever overwrites a row that is still its own.
Robbed(r) == {q \in Runners : q # r /\ q = lockRow.by /\ mpc[q] \in Body}

-----------------------------------------------------------------------------
(* The steps of a runner.                                                  *)

\* execute or autoApply is called, by a process that was started with some
\* deployment; initTables has nothing left to do once the tables exist.
Execute(r, d, m) ==
  /\ mpc[r] \in {"idle"} \union Ended
  /\ mpc[r] # "idle" => d = discovered[r]
  /\ m # "status"
  /\ mpc' = [mpc EXCEPT ![r] = "acquire"]
  /\ discovered' = [discovered EXCEPT ![r] = d]
  /\ mode' = [mode EXCEPT ![r] = m]
  /\ outcome' = [outcome EXCEPT ![r] = "failed"]
  /\ UNCHANGED <<immediate, lockVars, todo, dbVars>>

\* status, and autoApply when it is disabled: no lock, only the check, which
\* throws on a bad history and, with throwIfPending, on pending migrations.
Status(r, d) ==
  /\ mpc[r] = "idle"
  /\ discovered' = [discovered EXCEPT ![r] = d]
  /\ mode' = [mode EXCEPT ![r] = "status"]
  /\ \E throwIfPending \in BOOLEAN :
       mpc' = [mpc EXCEPT ![r] =
                 IF Valid(d, history) /\ (throwIfPending => Pending(d, history) = {})
                 THEN "done" ELSE "failed"]
  /\ UNCHANGED <<immediate, todo, outcome, lockVars, dbVars>>

\* acquireLock on SQLite: SELECT and write in one immediate transaction.
AcquireLock(r) ==
  /\ immediate /\ mpc[r] = "acquire"
  /\ writer = None
  /\ IF Free(lockRow)
     THEN /\ lockRow' = LockedBy(r)
          /\ robbed' = robbed \union Robbed(r)
          /\ mpc' = [mpc EXCEPT ![r] = "locked"]
     ELSE /\ mpc' = [mpc EXCEPT ![r] = "failed"]
          /\ UNCHANGED <<lockRow, robbed>>
  /\ UNCHANGED <<seenLock, dbVars, runVars>>

\* BEGIN IMMEDIATE gives up on a database that another runner is writing.
AcquireBusy(r) ==
  /\ immediate /\ mpc[r] = "acquire"
  /\ writer # None
  /\ mpc' = [mpc EXCEPT ![r] = "failed"]
  /\ UNCHANGED <<lockVars, dbVars, runVars>>

\* acquireLock under read committed, its SELECT.
ReadLock(r) ==
  /\ ~immediate /\ mpc[r] = "acquire"
  /\ seenLock' = [seenLock EXCEPT ![r] = lockRow]
  /\ mpc' = [mpc EXCEPT ![r] = IF Free(lockRow) THEN "deciding" ELSE "failed"]
  /\ UNCHANGED <<lockRow, robbed, dbVars, runVars>>

\* Its INSERT, which a row of another runner refuses, or its UPDATE, which
\* asks only for the id.
WriteLock(r) ==
  /\ mpc[r] = "deciding"
  /\ IF ~seenLock[r].exists /\ lockRow.exists
     THEN /\ mpc' = [mpc EXCEPT ![r] = "failed"]
          /\ UNCHANGED <<lockRow, robbed>>
     ELSE /\ mpc' = [mpc EXCEPT ![r] = "locked"]
          /\ lockRow' = LockedBy(r)
          /\ robbed' = robbed \union Robbed(r)
  /\ seenLock' = [seenLock EXCEPT ![r] = NoRow]
  /\ UNCHANGED <<dbVars, runVars>>

\* getHistory, resolveMigrations and validateIntegrity under the lock.
Plan(r) ==
  /\ mpc[r] = "locked"
  /\ IF ~Valid(discovered[r], history)
     THEN /\ mpc' = [mpc EXCEPT ![r] = "releasing"]
          /\ outcome' = [outcome EXCEPT ![r] = "failed"]
          /\ UNCHANGED todo
     ELSE IF mode[r] = "dry"
     THEN /\ mpc' = [mpc EXCEPT ![r] = "releasing"]
          /\ outcome' = [outcome EXCEPT ![r] = "done"]
          /\ UNCHANGED todo
     ELSE /\ mpc' = [mpc EXCEPT ![r] = "apply"]
          /\ todo' = [todo EXCEPT ![r] = Planned(mode[r], Pending(discovered[r], history))]
          /\ UNCHANGED outcome
  /\ UNCHANGED <<discovered, mode, immediate, lockVars, dbVars>>

\* BEGIN of the next migration; on SQLite nobody else may be in a transaction.
BeginMigration(r) ==
  /\ mpc[r] = "apply" /\ todo[r] # {}
  /\ immediate => writer = None
  /\ mpc' = [mpc EXCEPT ![r] = "up"]
  /\ writer' = IF immediate THEN r ELSE writer
  /\ UNCHANGED <<history, applied, lockVars, runVars>>

Unlocked(r) == IF writer = r THEN None ELSE writer

\* Bug: the record of the version is written with INSERT OR REPLACE.
CommitMigrationReplacing(r) ==
  LET v == Lowest(todo[r]) IN
  /\ mpc[r] = "up"
  /\ writer' = Unlocked(r)
  /\ history' = [history EXCEPT ![v] = discovered[r][v]]
  /\ applied' = Append(applied, v)
  /\ todo' = [todo EXCEPT ![r] = @ \ {v}]
  /\ mpc' = [mpc EXCEPT ![r] = "apply"]
  /\ UNCHANGED <<outcome, discovered, mode, immediate, lockVars>>

\* up has run, its record is inserted and the transaction commits; a version
\* that is in the table already refuses the insert and rolls up back.
CommitMigration(r) ==
  LET v == Lowest(todo[r]) IN
  /\ mpc[r] = "up"
  /\ writer' = Unlocked(r)
  /\ IF history[v] # None
     THEN /\ mpc' = [mpc EXCEPT ![r] = "releasing"]
          /\ outcome' = [outcome EXCEPT ![r] = "failed"]
          /\ UNCHANGED <<history, applied, todo>>
     ELSE /\ history' = [history EXCEPT ![v] = discovered[r][v]]
          /\ applied' = Append(applied, v)
          /\ todo' = [todo EXCEPT ![r] = @ \ {v}]
          /\ mpc' = [mpc EXCEPT ![r] = "apply"]
          /\ UNCHANGED outcome
  /\ UNCHANGED <<discovered, mode, immediate, lockVars>>

\* BEGIN of the next migration meets a database that is busy.
MigrationBusy(r) ==
  /\ mpc[r] = "apply" /\ todo[r] # {}
  /\ immediate /\ writer # None
  /\ mpc' = [mpc EXCEPT ![r] = "releasing"]
  /\ outcome' = [outcome EXCEPT ![r] = "failed"]
  /\ UNCHANGED <<dbVars, discovered, mode, todo, immediate, lockVars>>

\* up throws: rolled back, and the versions above are not tried.
MigrationFails(r) ==
  /\ mpc[r] = "up"
  /\ mpc' = [mpc EXCEPT ![r] = "releasing"]
  /\ outcome' = [outcome EXCEPT ![r] = "failed"]
  /\ writer' = Unlocked(r)
  /\ UNCHANGED <<history, applied, discovered, mode, todo, immediate, lockVars>>

AllApplied(r) ==
  /\ mpc[r] = "apply" /\ todo[r] = {}
  /\ mpc' = [mpc EXCEPT ![r] = "releasing"]
  /\ outcome' = [outcome EXCEPT ![r] = "done"]
  /\ UNCHANGED <<discovered, mode, todo, immediate, lockVars, dbVars>>

\* Bug: the row is released whoever holds it.
ReleaseLockOfAnyone(r) ==
  /\ mpc[r] = "releasing"
  /\ lockRow' = [NoRow EXCEPT !.exists = lockRow.exists]
  /\ mpc' = [mpc EXCEPT ![r] = outcome[r]]
  /\ todo' = [todo EXCEPT ![r] = {}]
  /\ robbed' = robbed \ {r}
  /\ UNCHANGED <<seenLock, dbVars, discovered, mode, outcome, immediate>>

\* releaseLock frees the row only if it is still this runner's; its errors
\* are swallowed, so the row may stay behind.
ReleaseLock(r) ==
  /\ mpc[r] = "releasing"
  /\ \/ /\ lockRow.by = r
        /\ lockRow' = [NoRow EXCEPT !.exists = TRUE]
     \/ UNCHANGED lockRow
  /\ mpc' = [mpc EXCEPT ![r] = outcome[r]]
  /\ todo' = [todo EXCEPT ![r] = {}]
  /\ robbed' = robbed \ {r}
  /\ UNCHANGED <<seenLock, dbVars, discovered, mode, outcome, immediate>>

\* The process of the runner dies: its transaction is rolled back, its row stays.
Crash(r) ==
  /\ mpc[r] \in {"acquire", "deciding"} \union Body
  /\ mpc' = [mpc EXCEPT ![r] = "dead"]
  /\ writer' = Unlocked(r)
  /\ UNCHANGED <<history, applied, lockVars, runVars>>

\* lockTimeoutMs pass since acquired_at.
LockExpires ==
  /\ lockRow.by # None /\ ~lockRow.expired
  /\ lockRow' = [lockRow EXCEPT !.expired = TRUE]
  /\ UNCHANGED <<mpc, seenLock, robbed, dbVars, runVars>>

-----------------------------------------------------------------------------
\* What a live runner does by itself.
RunnerStep(r) ==
  \/ AcquireLock(r) \/ AcquireBusy(r) \/ ReadLock(r) \/ WriteLock(r) \/ Plan(r)
  \/ BeginMigration(r) \/ MigrationBusy(r) \/ CommitMigration(r) \/ AllApplied(r) \/ ReleaseLock(r)

MigrationNext ==
  \/ \E r \in Runners :
       \/ RunnerStep(r) \/ MigrationFails(r) \/ Crash(r)
       \/ \E d \in Deployments, m \in Modes : Execute(r, d, m)
       \/ \E d \in Deployments : Status(r, d)
  \/ LockExpires

MigrationSpec == MigrationInit /\ [][MigrationNext]_migrationVars

\* A live process goes on and time passes.
MigrationFairness ==
  /\ \A r \in Runners : WF_migrationVars(RunnerStep(r))
  /\ WF_migrationVars(LockExpires)

-----------------------------------------------------------------------------
\* On SQLite two runners are in their bodies at once only if the row of all
\* but one was taken over after lockTimeoutMs (acquireLock, releaseLock).
ExclusiveUnlessExpired ==
  immediate =>
    \A r \in Runners : mpc[r] \in Body => lockRow.by = r \/ r \in robbed

\* A run that was asked for everything and reported success left every
\* migration of its deployment applied with its own checksum, even when
\* another runner was at work beside it (execute).
DoneMeansApplied ==
  \A r \in Runners : mpc[r] = "done" /\ mode[r] = "all" =>
    \A v \in Versions : discovered[r][v] # None => history[v] = discovered[r][v]

\* No version is applied twice, and as long as all deployments agree they are
\* applied in their order, through thefts of the lock, lost races for it,
\* failures and crashes (validateIntegrity, the primary key of the table).
AppliedInOrder ==
  /\ \A i, j \in DOMAIN applied : i # j => applied[i] # applied[j]
  /\ (\A r, q \in Runners : mpc[r] # "idle" /\ mpc[q] # "idle" => discovered[r] = discovered[q])
       => \A i, j \in DOMAIN applied : i < j => applied[i] < applied[j]

\* A run that has begun ends, and the row of a dead owner can be taken over
\* after lockTimeoutMs.
RunsEnd ==
  \A r \in Runners :
    /\ mpc[r] = "acquire" ~> mpc[r] \in Ended \union {"dead"}
    /\ mpc[r] = "dead" /\ lockRow.by = r ~> Free(lockRow)
=============================================================================
