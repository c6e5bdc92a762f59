--------------------------- MODULE ActorFileLock ---------------------------
(***************************************************************************)
(* The lock file that keeps two processes from opening the SQLite database *)
(* of an actor (packages/di-framework-actors, storage/lock.ts).  A lock is a *)
(* file created with O_EXCL and then filled with the owner's pid.  The file *)
(* of a dead owner is replaced under a guard: a second lock, on the path    *)
(* with ".recovery" appended, taken by the same protocol.  Path d here is   *)
(* the lock with d times ".recovery".                                      *)
(*                                                                         *)
(* Processes interleave at every file operation and die between any two.   *)
(***************************************************************************)
EXTENDS Naturals

CONSTANTS
  Processes,  (* pids; a process that dies does not come back under its pid *)
  Nobody,
  MaxDepth    (* bound on the nesting of guards; the code has none          *)

ASSUME LockAssumption == Nobody \notin Processes /\ MaxDepth \in Nat

Paths == 0 .. MaxDepth

VARIABLES
  creator,  (* path to the process whose file is there, or Nobody           *)
  payload,  (* path to the pid that can be read there, or Nobody            *)
  stage,    (* what each process does next                                  *)
  path,     (* the path it works at                                         *)
  alive     (* the processes that live                                      *)

lockVars == <<creator, payload, stage, path, alive>>

\* Under the guard of its path a process retries, reads again, unlinks, makes
\* the file anew, and leaves the guard with the lock or without.
Guarded == {"retry", "retryWrite", "reread", "unlink", "remake", "leave", "giveUp"}
Steps == {"idle", "create", "write", "read", "held"} \union Guarded

LockTypeOK ==
  /\ creator \in [Paths -> Processes \union {Nobody}]
  /\ payload \in [Paths -> Processes \union {Nobody}]
  /\ stage \in [Processes -> Steps]
  /\ path \in [Processes -> Paths]
  /\ alive \in SUBSET Processes
  /\ \A p \in Processes : stage[p] \in Guarded => path[p] + 1 \in Paths

LockInit ==
  /\ creator = [d \in Paths |-> Nobody]
  /\ payload = [d \in Paths |-> Nobody]
  /\ stage = [p \in Processes |-> "idle"]
  /\ path = [p \in Processes |-> 0]
  /\ alive = Processes

Begin(p) ==
  /\ stage[p] = "idle"
  /\ stage' = [stage EXCEPT ![p] = "create"]
  /\ path' = [path EXCEPT ![p] = 0]
  /\ UNCHANGED <<creator, payload, alive>>

\* The open of tryCreateLock, with O_EXCL.
Create(p) ==
  LET d == path[p] IN
  /\ stage[p] \in {"create", "retry", "remake"}
  /\ creator[d] = Nobody
  /\ creator' = [creator EXCEPT ![d] = p]
  /\ stage' = [stage EXCEPT ![p] = IF stage[p] = "create" THEN "write" ELSE "retryWrite"]
  /\ UNCHANGED <<payload, path, alive>>

\* EEXIST: look at the file; after the unlink there is no second look.
Exists(p) ==
  /\ stage[p] \in {"create", "retry", "remake"}
  /\ creator[path[p]] # Nobody
  /\ stage' = [stage EXCEPT ![p] = IF stage[p] = "create" THEN "read"
                            ELSE IF stage[p] = "retry" THEN "reread" ELSE "giveUp"]
  /\ UNCHANGED <<creator, payload, path, alive>>

\* With the lock on path d taken and no guard held, acquireFileLock returns:
\* d is 0 and the lock is held, or d is the guard of d - 1.
Return(p) ==
  /\ stage' = [stage EXCEPT ![p] = IF path[p] = 0 THEN "held" ELSE "retry"]
  /\ path' = [path EXCEPT ![p] = IF path[p] = 0 THEN 0 ELSE path[p] - 1]

\* The write of tryCreateLock.
Write(p) ==
  /\ stage[p] \in {"write", "retryWrite"}
  /\ payload' = [payload EXCEPT ![path[p]] = p]
  /\ IF stage[p] = "write"
     THEN Return(p)
     ELSE stage' = [stage EXCEPT ![p] = "leave"] /\ UNCHANGED path
  /\ UNCHANGED <<creator, alive>>

\* Bug: a lock whose payload cannot be read counts as stale.
StaleOrTorn(d) == creator[d] # Nobody /\ payload[d] \notin alive

\* The owner named in the file is dead.  An empty or partial payload is no
\* evidence of that, nor is a file that has gone.
Stale(d) == payload[d] # Nobody /\ payload[d] \notin alive

\* A live or unknown owner: ActorLockError.  A dead one: first the guard.
ReadLock(p) ==
  LET d == path[p] IN
  /\ stage[p] = "read"
  /\ IF Stale(d)
     THEN /\ d < MaxDepth
          /\ stage' = [stage EXCEPT ![p] = "create"]
          /\ path' = [path EXCEPT ![p] = d + 1]
     ELSE /\ stage' = [stage EXCEPT ![p] = "idle"]
          /\ UNCHANGED path
  /\ UNCHANGED <<creator, payload, alive>>

\* Bug: the file is not read again under the guard.
RereadBlindly(p) ==
  /\ stage[p] = "reread"
  /\ stage' = [stage EXCEPT ![p] = "unlink"]
  /\ UNCHANGED <<creator, payload, path, alive>>

Reread(p) ==
  /\ stage[p] = "reread"
  /\ stage' = [stage EXCEPT ![p] = IF Stale(path[p]) THEN "unlink" ELSE "giveUp"]
  /\ UNCHANGED <<creator, payload, path, alive>>

\* unlinkSync, which throws if the file has gone.
Unlink(p) ==
  LET d == path[p] IN
  /\ stage[p] = "unlink"
  /\ creator' = [creator EXCEPT ![d] = Nobody]
  /\ payload' = [payload EXCEPT ![d] = Nobody]
  /\ stage' = [stage EXCEPT ![p] = IF creator[d] = Nobody THEN "giveUp" ELSE "remake"]
  /\ UNCHANGED <<path, alive>>

\* A release removes the file if the pid in it is the caller's.
RemoveOwn(p, d) ==
  IF payload[d] = p
  THEN creator' = [creator EXCEPT ![d] = Nobody] /\ payload' = [payload EXCEPT ![d] = Nobody]
  ELSE UNCHANGED <<creator, payload>>

\* Bug: giving up on the lock leaves its guard behind.
LeaveGuardBehind(p) ==
  /\ stage[p] \in {"leave", "giveUp"}
  /\ IF stage[p] = "leave"
     THEN RemoveOwn(p, path[p] + 1) /\ Return(p)
     ELSE stage' = [stage EXCEPT ![p] = "idle"] /\ UNCHANGED <<creator, payload, path>>
  /\ UNCHANGED alive

\* The guard is released; the lock on path d is returned, or the error thrown.
LeaveGuard(p) ==
  /\ stage[p] \in {"leave", "giveUp"}
  /\ RemoveOwn(p, path[p] + 1)
  /\ IF stage[p] = "leave"
     THEN Return(p)
     ELSE stage' = [stage EXCEPT ![p] = "idle"] /\ UNCHANGED path
  /\ UNCHANGED alive

Release(p) ==
  /\ stage[p] = "held"
  /\ RemoveOwn(p, 0)
  /\ stage' = [stage EXCEPT ![p] = "idle"]
  /\ UNCHANGED <<path, alive>>

ProcessDies(p) ==
  /\ alive' = alive \ {p}
  /\ UNCHANGED <<creator, payload, stage, path>>

Acquiring(p) ==
  Create(p) \/ Exists(p) \/ Write(p) \/ ReadLock(p) \/ Reread(p) \/ Unlink(p) \/ LeaveGuard(p)

LockNext == \E p \in alive : Begin(p) \/ Acquiring(p) \/ Release(p) \/ ProcessDies(p)

LockSpec == LockInit /\ [][LockNext]_lockVars

\* A process that runs goes on with its acquisition, and one that was refused
\* asks again (every later call of the actor does, sqlite.ts 363).  Nothing
\* makes a holder release, or a process die.
LockFairness ==
  \A p \in Processes : WF_lockVars(p \in alive /\ (Begin(p) \/ Acquiring(p)))

LockSpecFair == LockSpec /\ LockFairness

-----------------------------------------------------------------------------
Holds(p) == p \in alive /\ stage[p] = "held"

(* Never do two processes that live hold the lock of an actor, whoever died  *)
(* with which lock or guard at which point (lock.ts 104-141).                *)
SingleWriter == \A p, q \in Processes : Holds(p) /\ Holds(q) => p = q

\* Only the owner's own release, or its leaving of a guard, takes its file away.
KeepsLiveLocks ==
  \A d \in Paths : \A p \in alive :
    payload[d] = p /\ payload'[d] # p => stage[p] \in {"held", "leave", "giveUp"} /\ stage'[p] # stage[p]

(* No step of another process takes the file of a process that lives: it is  *)
(* never stolen, and recovery unlinks what it has seen stale under the guard *)
(* and nothing that replaced it (lock.ts 118-138).                           *)
LiveLockKept == [][KeepsLiveLocks]_lockVars

Torn == \E d \in Paths : creator[d] # Nobody /\ payload[d] = Nobody /\ creator[d] \notin alive

(* The lock of a process that died is acquired by another in the end, if one *)
(* lives, unless a death left a file created and not written, which no one   *)
(* reclaims (lock.ts 112-138).                                               *)
DeadLockReclaimed ==
  Stale(0) ~> (\E p \in Processes : Holds(p)) \/ Torn \/ alive = {}

=============================================================================
