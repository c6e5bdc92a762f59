-------------------------- MODULE ActorConnections --------------------------
(***************************************************************************)
(* The connection cache of SqliteActorStorage                              *)
(* (packages/di-framework-actors, storage/sqlite.ts): one SQLite handle per *)
(* actor, opened on first use under the lock of module ActorFileLock,      *)
(* shared by every use of the actor, and closed again by an eviction, the  *)
(* idle sweep or closeActor.                                               *)
(*                                                                         *)
(* The storage runs on one event loop; an action is what runs between two  *)
(* awaits.  A connection is named after the use that opened it.  Which     *)
(* connection is the least recently used, and which has been idle for long, *)
(* is left open.                                                           *)
(***************************************************************************)
EXTENDS Naturals, FiniteSets

CONSTANTS
  Uses,            (* reads and transactions, each made once               *)
  Closes,          (* calls of closeActor, each made once                  *)
  Sweeps,          (* runs of cleanupIdleConnections, each made once       *)
  Actors,
  Target,          (* Target[u]: the actor that use or close u names       *)
  None,
  Other,           (* another process, or another storage of this one      *)
  MaxConnections

ASSUME ConnectionsAssumption ==
  /\ Target \in [Uses \union Closes -> Actors]
  /\ {None, Other} \cap Uses = {} /\ None # Other
  /\ MaxConnections \in Nat \ {0}

VARIABLES
  pc,       (* where each use stands                                       *)
  conn,     (* the connection it was given                                 *)
  victim,   (* the connection it evicts, or a close or sweep closes        *)
  connectionOf, (* connections: actor to connection                        *)
  open,     (* the connections whose handle is open                        *)
  lock,     (* who holds the lock of each actor                            *)
  active,   (* activeTransactions of each connection                       *)
  cpc,      (* closes and sweeps: idle, closing or done                    *)
  todo      (* what a sweep has yet to close                               *)

connectionVars == <<pc, conn, victim, connectionOf, open, lock, active, cpc, todo>>

Failed == {"lockError", "failed"}
Ended  == {"done", "rolledBack"} \union Failed

ConnectionsTypeOK ==
  /\ pc \in [Uses -> {"idle", "evicting", "opening", "unopened", "given", "transaction"} \union Ended]
  /\ conn \in [Uses -> Uses \union {None}]
  /\ victim \in [Uses \union Closes \union Sweeps -> Uses \union {None}]
  /\ connectionOf \in [Actors -> Uses \union {None}]
  /\ open \in SUBSET Uses
  /\ lock \in [Actors -> Uses \union {None, Other}]
  /\ active \in [Uses -> Nat]
  /\ cpc \in [Closes \union Sweeps -> {"idle", "closing", "done"}]
  /\ todo \in [Sweeps -> SUBSET Uses]

ConnectionsInit ==
  /\ pc = [u \in Uses |-> "idle"]
  /\ conn = [u \in Uses |-> None]
  /\ victim = [k \in Uses \union Closes \union Sweeps |-> None]
  /\ connectionOf = [a \in Actors |-> None]
  /\ open = {}
  /\ lock = [a \in Actors |-> None]
  /\ active = [u \in Uses |-> 0]
  /\ cpc = [k \in Closes \union Sweeps |-> "idle"]
  /\ todo = [k \in Sweeps |-> {}]

-----------------------------------------------------------------------------
Connections == {c \in Uses : connectionOf[Target[c]] = c}

Idle == {c \in Connections : active[c] = 0}

\* closeConnection up to its await: the handle is closed, the lock released,
\* once.  The connection stays in the cache until the await resumes.
Close(c) ==
  /\ open' = open \ {c}
  /\ lock' = [lock EXCEPT ![Target[c]] = IF @ = c THEN None ELSE @]

\* The cache forgets the actor of connection c, whatever it holds for it.
Uncached(c) == [connectionOf EXCEPT ![Target[c]] = None]

\* Bug: a lock that is taken does not stop the open.
TakeLockAnyway(u) ==
  /\ lock' = [lock EXCEPT ![Target[u]] = u]
  /\ pc' = [pc EXCEPT ![u] = "opening"]

\* acquireActorLock: taken by whoever, even by a use of this storage whose
\* connection is not in the cache yet, it is refused with ActorLockError.
TakeLock(u) ==
  IF lock[Target[u]] = None
  THEN /\ lock' = [lock EXCEPT ![Target[u]] = u]
       /\ pc' = [pc EXCEPT ![u] = "opening"]
  ELSE /\ pc' = [pc EXCEPT ![u] = "lockError"]
       /\ UNCHANGED lock

Full == Cardinality(Connections) >= MaxConnections

Hit(u) ==
  /\ pc[u] = "idle"
  /\ connectionOf[Target[u]] # None
  /\ conn' = [conn EXCEPT ![u] = connectionOf[Target[u]]]
  /\ pc' = [pc EXCEPT ![u] = "given"]
  /\ UNCHANGED <<victim, connectionOf, open, lock, active, cpc, todo>>

\* Not cached, and room in the cache or nothing idle to evict.
Miss(u) ==
  /\ pc[u] = "idle"
  /\ connectionOf[Target[u]] = None
  /\ ~Full \/ Idle = {}
  /\ TakeLock(u)
  /\ UNCHANGED <<conn, victim, connectionOf, open, active, cpc, todo>>

Evict(u) ==
  /\ pc[u] = "idle"
  /\ connectionOf[Target[u]] = None
  /\ Full
  /\ \E c \in Idle :
       /\ Close(c)
       /\ victim' = [victim EXCEPT ![u] = c]
  /\ pc' = [pc EXCEPT ![u] = "evicting"]
  /\ UNCHANGED <<conn, connectionOf, active, cpc, todo>>

Evicted(u) ==
  /\ pc[u] = "evicting"
  /\ connectionOf' = Uncached(victim[u])
  /\ TakeLock(u)
  /\ UNCHANGED <<conn, victim, open, active, cpc, todo>>

\* The database is opened, at once or after it was busy for a while.
Open(u) ==
  /\ pc[u] = "opening"
  /\ open' = open \union {u}
  /\ connectionOf' = [connectionOf EXCEPT ![Target[u]] = u]
  /\ conn' = [conn EXCEPT ![u] = u]
  /\ pc' = [pc EXCEPT ![u] = "given"]
  /\ UNCHANGED <<victim, lock, active, cpc, todo>>

\* Bug: the lock is kept when the database could not be opened.
OpeningFailsUnderLock(u) ==
  /\ pc[u] = "opening"
  /\ open' \in {open, open \union {u}}
  /\ pc' = [pc EXCEPT ![u] = "unopened"]
  /\ UNCHANGED <<conn, victim, connectionOf, lock, active, cpc, todo>>

\* Busy for too long, or the file belongs to another actor: the lock goes
\* first, while the handle is open unless the constructor itself had thrown.
OpeningFails(u) ==
  /\ pc[u] = "opening"
  /\ open' \in {open, open \union {u}}
  /\ lock' = [lock EXCEPT ![Target[u]] = None]
  /\ pc' = [pc EXCEPT ![u] = "unopened"]
  /\ UNCHANGED <<conn, victim, connectionOf, active, cpc, todo>>

\* releaseLock has resumed: the handle is closed too, and the error thrown.
FailedCloses(u) ==
  /\ pc[u] = "unopened"
  /\ open' = open \ {u}
  /\ pc' = [pc EXCEPT ![u] = "failed"]
  /\ UNCHANGED <<conn, victim, connectionOf, lock, active, cpc, todo>>

\* One read or write on the handle; a closed handle throws.
Read(u) ==
  /\ pc[u] = "given"
  /\ pc' = [pc EXCEPT ![u] = IF conn[u] \in open THEN "done" ELSE "failed"]
  /\ UNCHANGED <<conn, victim, connectionOf, open, lock, active, cpc, todo>>

BeginTransaction(u) ==
  /\ pc[u] = "given"
  /\ active' = [active EXCEPT ![conn[u]] = @ + 1]
  /\ pc' = [pc EXCEPT ![u] = "transaction"]
  /\ UNCHANGED <<conn, victim, connectionOf, open, lock, cpc, todo>>

\* _decrementActiveTransactions: the count of the connection that the cache
\* has for the actor by now.
Decremented(a) ==
  [c \in Uses |-> IF c = connectionOf[a] /\ active[c] > 0 THEN active[c] - 1 ELSE active[c]]

\* A commit on a closed handle throws, and is then rolled back.
UseCommits(u) ==
  /\ pc[u] = "transaction"
  /\ pc' = [pc EXCEPT ![u] = IF conn[u] \in open THEN "done" ELSE "failed"]
  /\ active' = Decremented(Target[u])
  /\ UNCHANGED <<conn, victim, connectionOf, open, lock, cpc, todo>>

UseRollsBack(u) ==
  /\ pc[u] = "transaction"
  /\ pc' = [pc EXCEPT ![u] = "rolledBack"]
  /\ active' = Decremented(Target[u])
  /\ UNCHANGED <<conn, victim, connectionOf, open, lock, cpc, todo>>

UseStep(u) ==
  \/ Hit(u) \/ Miss(u) \/ Evict(u) \/ Evicted(u) \/ Open(u) \/ OpeningFails(u)
  \/ FailedCloses(u) \/ Read(u) \/ BeginTransaction(u) \/ UseCommits(u) \/ UseRollsBack(u)

-----------------------------------------------------------------------------
CloseOne(k) ==
  LET c == connectionOf[Target[k]] IN
  /\ cpc[k] = "idle"
  /\ IF c = None
     THEN /\ cpc' = [cpc EXCEPT ![k] = "done"]
          /\ UNCHANGED <<open, lock, victim>>
     ELSE /\ Close(c)
          /\ victim' = [victim EXCEPT ![k] = c]
          /\ cpc' = [cpc EXCEPT ![k] = "closing"]
  /\ UNCHANGED <<pc, conn, connectionOf, active, todo>>

ActorClosed(k) ==
  /\ cpc[k] = "closing"
  /\ connectionOf' = Uncached(victim[k])
  /\ cpc' = [cpc EXCEPT ![k] = "done"]
  /\ UNCHANGED <<pc, conn, victim, open, lock, active, todo>>

\* The sweep closes one connection of rest and keeps the others for later.
CloseNext(k, rest) ==
  IF rest = {}
  THEN /\ cpc' = [cpc EXCEPT ![k] = "done"]
       /\ UNCHANGED <<open, lock, victim, todo>>
  ELSE \E c \in rest :
         /\ Close(c)
         /\ victim' = [victim EXCEPT ![k] = c]
         /\ todo' = [todo EXCEPT ![k] = rest \ {c}]
         /\ cpc' = [cpc EXCEPT ![k] = "closing"]

\* cleanupIdleConnections selects what has been idle for long, first of all.
Sweep(k) ==
  /\ cpc[k] = "idle"
  /\ \E old \in SUBSET Idle : CloseNext(k, old)
  /\ UNCHANGED <<pc, conn, connectionOf, active>>

Swept(k) ==
  /\ cpc[k] = "closing"
  /\ connectionOf' = Uncached(victim[k])
  /\ CloseNext(k, todo[k])
  /\ UNCHANGED <<pc, conn, active>>

\* Another process opens and closes the actor.
OtherTakes(a) ==
  /\ lock[a] = None
  /\ lock' = [lock EXCEPT ![a] = Other]
  /\ UNCHANGED <<pc, conn, victim, connectionOf, open, active, cpc, todo>>

OtherReleases(a) ==
  /\ lock[a] = Other
  /\ lock' = [lock EXCEPT ![a] = None]
  /\ UNCHANGED <<pc, conn, victim, connectionOf, open, active, cpc, todo>>

CloseStep == \E k \in Closes : CloseOne(k) \/ ActorClosed(k)
SweepStep == \E k \in Sweeps : Sweep(k) \/ Swept(k)
OtherStep == \E a \in Actors : OtherTakes(a) \/ OtherReleases(a)

\* Uses alone: evictions are all that closes.
Serve == \E u \in Uses : UseStep(u)

ConnectionsNext == Serve \/ CloseStep \/ SweepStep \/ OtherStep

ConnectionsSpec == ConnectionsInit /\ [][ConnectionsNext]_connectionVars

-----------------------------------------------------------------------------
(* A handle is open only under the lock of its actor, so that no other       *)
(* process, and no second handle of this one, is ever used beside it,       *)
(* however evictions, sweeps and closes interleave with opens (sqlite.ts    *)
(* 363-544).  The one handle without its lock is that of an open that       *)
(* failed: 460-465 release the lock and then close it, but no use was given *)
(* that one and none ever is.                                               *)
HandleUnderLock ==
  \A c \in open : \/ lock[Target[c]] = c
                  \/ pc[c] = "unopened" /\ \A u \in Uses : conn[u] # c

(* The lock is never kept for nothing: whoever holds it in this storage has  *)
(* the handle open or is about to, so an open that failed or a connection   *)
(* closed twice shuts no actor for good (sqlite.ts 453-467, 488-499).       *)
LockHasHandle ==
  \A a \in Actors : lock[a] \in Uses => pc[lock[a]] = "opening" \/ lock[a] \in open
=============================================================================
