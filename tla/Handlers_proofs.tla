-------------------------- MODULE Handlers_proofs --------------------------
(***************************************************************************)
(* What the components of MCHandlers promise, for every value of their      *)
(* constants.  Each part first states its inductive invariant, then what    *)
(* the actions change of it, then its theorem, which is about every         *)
(* behaviour of the component's own specification; the properties the run   *)
(* checks for several components follow from those.                         *)
(***************************************************************************)
EXTENDS MCHandlers, FiniteSetTheorems, WellFoundedInduction, TLAPS

-----------------------------------------------------------------------------
(* Connections of the SQLite actor storage.  Handles and locks of the cache  *)
(* go together, for any number of uses, closes, sweeps and actors.           *)

\* A use that is past the opening of its connection.
Opened(c) == c \in Uses /\ pc[c] \notin {"idle", "evicting", "opening", "unopened"}

\* What can be closed, or is in use, has been opened: no close takes the lock
\* from a use that is about to open.
OnlyOpenedAreClosed ==
  /\ \A c \in open : Opened(c) \/ (c \in Uses /\ pc[c] = "unopened")
  /\ \A a \in Actors : connectionOf[a] # None => Opened(connectionOf[a])
  /\ \A u \in Uses : conn[u] # None => Opened(conn[u])
  /\ \A k \in Sweeps : \A c \in todo[k] : Opened(c)

OpenersHoldLock ==
  \A u \in Uses : /\ pc[u] = "opening" => lock[Target[u]] = u
                  /\ pc[u] = "unopened" => lock[Target[u]] # u

LocksOwnActor == \A a \in Actors : lock[a] \in Uses => Target[lock[a]] = a

ConnectionsIInv ==
  /\ ConnectionsTypeOK
  /\ OnlyOpenedAreClosed
  /\ OpenersHoldLock
  /\ LocksOwnActor
  /\ HandleUnderLock
  /\ LockHasHandle

\* No connection is open at the start.
LEMMA ConnectionsInitIInv == ConnectionsInit => ConnectionsIInv
BY ConnectionsAssumption
  DEF ConnectionsInit, ConnectionsIInv, ConnectionsTypeOK, Ended, Failed, OnlyOpenedAreClosed, Opened, OpenersHoldLock,
      LocksOwnActor, HandleUnderLock, LockHasHandle

\* Closing an opened connection keeps handles and locks together.
LEMMA CloseKeeps ==
  ASSUME ConnectionsIInv, NEW c \in Uses, Opened(c), Close(c), UNCHANGED <<pc, conn>>
  PROVE  /\ open' \in SUBSET Uses
         /\ lock' \in [Actors -> Uses \union {None, Other}]
         /\ \A d \in open' : Opened(d)' \/ (d \in Uses /\ pc'[d] = "unopened")
         /\ OpenersHoldLock' /\ LocksOwnActor' /\ HandleUnderLock' /\ LockHasHandle'
BY ConnectionsAssumption
  DEF ConnectionsIInv, ConnectionsTypeOK, Close, OnlyOpenedAreClosed, Opened, OpenersHoldLock,
      LocksOwnActor, HandleUnderLock, LockHasHandle

\* Every step of a use, a close or a sweep keeps handles and locks together.
LEMMA ConnectionsNextIInv == ConnectionsIInv /\ [ConnectionsNext]_connectionVars => ConnectionsIInv'
<1> SUFFICES ASSUME ConnectionsIInv, [ConnectionsNext]_connectionVars PROVE ConnectionsIInv'
  OBVIOUS
<1> USE ConnectionsAssumption
<1>1. ASSUME NEW u \in Uses, Hit(u) PROVE ConnectionsIInv'
  BY <1>1
    DEF Hit, ConnectionsIInv, ConnectionsTypeOK, Ended, Failed, OnlyOpenedAreClosed, Opened, OpenersHoldLock,
        LocksOwnActor, HandleUnderLock, LockHasHandle
<1>2. ASSUME NEW u \in Uses, TakeLock(u), pc[u] \in {"idle", "evicting"},
             connectionOf' = connectionOf \/ connectionOf' = Uncached(victim[u]),
             UNCHANGED <<conn, victim, open, active, cpc, todo>>
      PROVE  ConnectionsIInv'
  <2>1. CASE lock[Target[u]] = None
    <3>1. ConnectionsTypeOK' /\ OnlyOpenedAreClosed'
      BY <1>2, <2>1
        DEF TakeLock, Uncached, ConnectionsIInv, ConnectionsTypeOK, OnlyOpenedAreClosed, Opened
    <3>2. OpenersHoldLock' /\ LocksOwnActor' /\ LockHasHandle' /\ HandleUnderLock'
      BY <1>2, <2>1
        DEF TakeLock, ConnectionsIInv, ConnectionsTypeOK, OpenersHoldLock, LocksOwnActor, HandleUnderLock,
            LockHasHandle
    <3> QED
      BY <3>1, <3>2 DEF ConnectionsIInv
  <2>2. CASE lock[Target[u]] # None
    BY <1>2, <2>2
      DEF TakeLock, Uncached, ConnectionsIInv, ConnectionsTypeOK, Ended, Failed, OnlyOpenedAreClosed, Opened,
          OpenersHoldLock, LocksOwnActor, HandleUnderLock, LockHasHandle
  <2> QED
    BY <2>1, <2>2
<1>3. ASSUME NEW u \in Uses, Miss(u) PROVE ConnectionsIInv'
  BY <1>2, <1>3 DEF Miss
<1>4. ASSUME NEW u \in Uses, Evict(u) PROVE ConnectionsIInv'
  <2>1. PICK c \in Idle : Close(c) /\ victim' = [victim EXCEPT ![u] = c]
    BY <1>4 DEF Evict
  <2>2. c \in Uses /\ Opened(c) /\ c # u
    BY <1>4, <2>1 DEF Evict, Idle, Connections, ConnectionsIInv, ConnectionsTypeOK, OnlyOpenedAreClosed, Opened
  <2>3. /\ pc' = [pc EXCEPT ![u] = "evicting"]
        /\ UNCHANGED <<conn, connectionOf, active, cpc, todo>>
        /\ pc[u] = "idle"
    BY <1>4 DEF Evict
  <2> QED
    BY <2>1, <2>2, <2>3
      DEF Close, ConnectionsIInv, ConnectionsTypeOK, Ended, Failed, OnlyOpenedAreClosed, Opened,
          OpenersHoldLock, LocksOwnActor, HandleUnderLock, LockHasHandle
<1>5. ASSUME NEW u \in Uses, Evicted(u) PROVE ConnectionsIInv'
  BY <1>2, <1>5 DEF Evicted
<1>6. ASSUME NEW u \in Uses, Open(u) PROVE ConnectionsIInv'
  <2>1. ConnectionsTypeOK'
    BY <1>6 DEF Open, ConnectionsIInv, ConnectionsTypeOK
  <2>2. OnlyOpenedAreClosed' /\ \A v \in Uses : conn[v] # u
    BY <1>6, <2>1 DEF Open, ConnectionsIInv, ConnectionsTypeOK, OnlyOpenedAreClosed, Opened
  <2>3. OpenersHoldLock' /\ LocksOwnActor' /\ LockHasHandle'
    BY <1>6 DEF Open, ConnectionsIInv, ConnectionsTypeOK, OpenersHoldLock, LocksOwnActor, LockHasHandle
  <2>4. HandleUnderLock'
    BY <1>6, <2>2 DEF Open, ConnectionsIInv, ConnectionsTypeOK, OpenersHoldLock, HandleUnderLock
  <2> QED
    BY <2>1, <2>2, <2>3, <2>4 DEF ConnectionsIInv
<1>7. ASSUME NEW u \in Uses, OpeningFails(u) \/ FailedCloses(u) PROVE ConnectionsIInv'
  <2>1. ConnectionsTypeOK'
    BY <1>7 DEF OpeningFails, FailedCloses, ConnectionsIInv, ConnectionsTypeOK, Ended, Failed
  <2>2. OnlyOpenedAreClosed' /\ \A v \in Uses : conn[v] # u
    BY <1>7, <2>1 DEF OpeningFails, FailedCloses, ConnectionsIInv, ConnectionsTypeOK, OnlyOpenedAreClosed, Opened
  <2>3. OpenersHoldLock' /\ LocksOwnActor' /\ LockHasHandle'
    <3>1. CASE OpeningFails(u)
      BY <3>1
        DEF OpeningFails, ConnectionsIInv, ConnectionsTypeOK, OpenersHoldLock, LocksOwnActor, LockHasHandle
    <3>2. CASE FailedCloses(u)
      BY <3>2 DEF FailedCloses, ConnectionsIInv, OpenersHoldLock, ConnectionsTypeOK, LocksOwnActor, LockHasHandle
    <3> QED
      BY <1>7, <3>1, <3>2
  <2>4. HandleUnderLock'
    BY <1>7, <2>2
      DEF OpeningFails, FailedCloses, ConnectionsIInv, ConnectionsTypeOK, OpenersHoldLock, HandleUnderLock
  <2> QED
    BY <2>1, <2>2, <2>3, <2>4 DEF ConnectionsIInv
<1>8. ASSUME NEW u \in Uses, Read(u) PROVE ConnectionsIInv'
  BY <1>8
    DEF Read, ConnectionsIInv, ConnectionsTypeOK, Ended, Failed, OnlyOpenedAreClosed, Opened, OpenersHoldLock,
        LocksOwnActor, HandleUnderLock, LockHasHandle
<1>9. ASSUME NEW u \in Uses, BeginTransaction(u) PROVE ConnectionsIInv'
  <2>1. \A d \in Uses : active'[d] \in Nat
    BY <1>9 DEF BeginTransaction, ConnectionsIInv, ConnectionsTypeOK
  <2>2. active' \in [Uses -> Nat]
    BY <1>9, <2>1 DEF BeginTransaction, ConnectionsIInv, ConnectionsTypeOK
  <2> QED
    BY <1>9, <2>2
    DEF BeginTransaction, ConnectionsIInv, ConnectionsTypeOK, Ended, Failed, OnlyOpenedAreClosed, Opened,
        OpenersHoldLock, LocksOwnActor, HandleUnderLock, LockHasHandle
<1>10. ASSUME NEW u \in Uses, UseCommits(u) \/ UseRollsBack(u) PROVE ConnectionsIInv'
  <2>1. active' \in [Uses -> Nat]
    BY <1>10 DEF UseCommits, UseRollsBack, Decremented, ConnectionsIInv, ConnectionsTypeOK
  <2>2. PICK end \in Ended : pc' = [pc EXCEPT ![u] = end]
    BY <1>10 DEF UseCommits, UseRollsBack, Ended, Failed
  <2> QED
    BY <1>10, <2>1, <2>2
      DEF UseCommits, UseRollsBack, ConnectionsIInv, ConnectionsTypeOK, Ended, Failed, OnlyOpenedAreClosed, Opened,
          OpenersHoldLock, LocksOwnActor, HandleUnderLock, LockHasHandle
<1>11. ASSUME NEW k \in Closes, CloseOne(k) PROVE ConnectionsIInv'
  <2>1. CASE connectionOf[Target[k]] = None
    BY <1>11, <2>1
      DEF CloseOne, ConnectionsIInv, ConnectionsTypeOK, Ended, Failed, OnlyOpenedAreClosed, Opened,
          OpenersHoldLock, LocksOwnActor, HandleUnderLock, LockHasHandle
  <2>2. CASE connectionOf[Target[k]] # None
    <3> DEFINE c == connectionOf[Target[k]]
    <3>1. c \in Uses /\ Opened(c) /\ Close(c)
      BY <1>11, <2>2 DEF CloseOne, ConnectionsIInv, ConnectionsTypeOK, OnlyOpenedAreClosed, Opened
    <3>2. /\ UNCHANGED <<pc, conn, connectionOf, active, todo>>
          /\ victim' = [victim EXCEPT ![k] = c]
          /\ cpc' = [cpc EXCEPT ![k] = "closing"]
      BY <1>11, <2>2 DEF CloseOne
    <3> HIDE DEF c
    <3> QED
      BY <3>1, <3>2, CloseKeeps DEF ConnectionsIInv, ConnectionsTypeOK, OnlyOpenedAreClosed, Opened
  <2> QED
    BY <2>1, <2>2
<1>12. ASSUME NEW k \in Closes, ActorClosed(k) PROVE ConnectionsIInv'
  <2>1. /\ UNCHANGED <<pc, conn, victim, open, lock, active, todo>>
        /\ connectionOf' = Uncached(victim[k]) /\ cpc' = [cpc EXCEPT ![k] = "done"]
    BY <1>12 DEF ActorClosed
  <2>2. ConnectionsTypeOK'
    BY <2>1 DEF Uncached, ConnectionsIInv, ConnectionsTypeOK
  <2>3. \A a \in Actors : connectionOf'[a] # None => connectionOf'[a] = connectionOf[a]
    BY <2>1 DEF Uncached, ConnectionsIInv, ConnectionsTypeOK
  <2>4. OnlyOpenedAreClosed'
    BY <2>1, <2>3 DEF ConnectionsIInv, OnlyOpenedAreClosed, Opened
  <2>5. OpenersHoldLock' /\ LocksOwnActor' /\ HandleUnderLock' /\ LockHasHandle'
    BY <2>1 DEF ConnectionsIInv, OpenersHoldLock, LocksOwnActor, HandleUnderLock, LockHasHandle
  <2> QED
    BY <2>2, <2>4, <2>5 DEF ConnectionsIInv
<1>13. ASSUME NEW k \in Sweeps, NEW rest \in SUBSET Uses, \A c \in rest : Opened(c),
              CloseNext(k, rest), connectionOf' = connectionOf \/ connectionOf' = Uncached(victim[k]),
              UNCHANGED <<pc, conn, active>>
       PROVE  ConnectionsIInv'
  <2>1. connectionOf' \in [Actors -> Uses \union {None}]
    BY <1>13 DEF Uncached, ConnectionsIInv, ConnectionsTypeOK
  <2>2. \A a \in Actors : connectionOf'[a] # None => Opened(connectionOf'[a])
    BY <1>13 DEF Uncached, ConnectionsIInv, ConnectionsTypeOK, OnlyOpenedAreClosed
  <2>3. CASE rest = {}
    BY <1>13, <2>1, <2>2, <2>3
      DEF CloseNext, ConnectionsIInv, ConnectionsTypeOK, OnlyOpenedAreClosed, Opened,
          OpenersHoldLock, LocksOwnActor, HandleUnderLock, LockHasHandle
  <2>4. CASE rest # {}
    BY <1>13, <2>4, <2>1, <2>2, CloseKeeps DEF CloseNext, ConnectionsIInv, ConnectionsTypeOK, OnlyOpenedAreClosed, Opened
  <2> QED
    BY <2>3, <2>4
<1>14. ASSUME NEW k \in Sweeps, Sweep(k) PROVE ConnectionsIInv'
  BY <1>14, <1>13 DEF Sweep, Idle, Connections, ConnectionsIInv, ConnectionsTypeOK, OnlyOpenedAreClosed, Opened
<1>15. ASSUME NEW k \in Sweeps, Swept(k) PROVE ConnectionsIInv'
  BY <1>13, <1>15 DEF ConnectionsIInv, ConnectionsTypeOK, OnlyOpenedAreClosed, Swept
<1>16. ASSUME NEW a \in Actors, OtherTakes(a) \/ OtherReleases(a) PROVE ConnectionsIInv'
  BY <1>16
    DEF OtherTakes, OtherReleases, ConnectionsIInv, ConnectionsTypeOK, Ended, Failed, OnlyOpenedAreClosed, Opened,
        OpenersHoldLock, LocksOwnActor, HandleUnderLock, LockHasHandle
<1>17. CASE UNCHANGED connectionVars
  BY <1>17
    DEF connectionVars, ConnectionsIInv, ConnectionsTypeOK, OnlyOpenedAreClosed, Opened, OpenersHoldLock,
        LocksOwnActor, HandleUnderLock, LockHasHandle
<1> QED
  BY <1>1, <1>3, <1>4, <1>5, <1>6, <1>7, <1>8, <1>9, <1>10, <1>11, <1>12, <1>14, <1>15,
     <1>16, <1>17 DEF ConnectionsNext, Serve, UseStep, CloseStep, SweepStep, OtherStep

\* The variables keep their types; in particular a transaction count stays a
\* natural number although decrements can go to the wrong connection.
THEOREM ConnectionsTypeCorrect == ConnectionsSpec => []ConnectionsTypeOK
<1>1. ConnectionsIInv => ConnectionsTypeOK
  BY DEF ConnectionsIInv
<1> QED
  BY ConnectionsInitIInv, ConnectionsNextIInv, <1>1, PTL DEF ConnectionsSpec

\* A handle is open only under the lock of its actor, or is the handle of an open that failed,
\* which nobody was given and which is closed after its lock was released.
THEOREM HandlesAreLocked == ConnectionsSpec => []HandleUnderLock
<1>1. ConnectionsIInv => HandleUnderLock
  BY DEF ConnectionsIInv
<1> QED
  BY ConnectionsInitIInv, ConnectionsNextIInv, <1>1, PTL DEF ConnectionsSpec

\* The lock is never kept without a handle, open or about to be.
THEOREM LocksHaveHandles == ConnectionsSpec => []LockHasHandle
<1>1. ConnectionsIInv => LockHasHandle
  BY DEF ConnectionsIInv
<1> QED
  BY ConnectionsInitIInv, ConnectionsNextIInv, <1>1, PTL DEF ConnectionsSpec

-----------------------------------------------------------------------------
(* Refresh tokens, for any number of requests and tokens.  What a family can *)
(* ever have live are its live tokens and the successors that requests have  *)
(* yet to save: one of them at most, and none once the family was revoked    *)
(* and no rotation overlapped the revocation.                                *)

\* A request is about to save a successor in family f.
Saving(f) == \E q \in Requests : rtpc[q] = "save" /\ family[next[q]] = f

\* Token t can be exchanged, or can once the request that minted it has saved it.
CanBeLive(t) == record[t] = "live" \/ \E q \in Requests : rtpc[q] = "save" /\ next[q] = t

\* Tokens that are stored, families, and those condemned or revoked were minted.
Minted ==
  /\ \A t \in Tokens : t > minted => record[t] = "none"
  /\ \A t \in 1..minted : family[t] \in 1..minted
  /\ \A q \in Requests : condemned[q] \subseteq 1..minted
  /\ revoked \subseteq 1..minted

\* A request that rotates has a successor of its own, not saved yet, of the
\* family of the token it was called with.
OwnSuccessor ==
  /\ \A q \in Requests : rtpc[q] \in Rotating =>
       /\ presented[q] \in 1..minted /\ next[q] \in 1..minted
       /\ family[next[q]] = family[presented[q]]
       /\ record[next[q]] = "none"
  /\ \A p, q \in Requests :
       rtpc[p] \in Rotating /\ rtpc[q] \in Rotating /\ next[p] = next[q] => p = q

\* A family has one token at most that is live or will be.
OnePossible ==
  \A t, u \in Tokens : CanBeLive(t) /\ CanBeLive(u) /\ family[t] = family[u] => t = u

\* The memory store never stops between two calls, and only it rotates in one step.
InOneTurn ==
  \A q \in Requests :
    /\ rtpc[q] \in {"lookup", "swap", "save", "delete"} => store = "repo"
    /\ rtpc[q] = "rotate" => store = "memory"

\* A successor is saved only after the token before it was spent, which is
\* stored still unless a revocation has overlapped.
SaveFollowsSpent ==
  \A q \in Requests : rtpc[q] = "save" =>
    record[presented[q]] = "spent" \/ family[presented[q]] \in overlapped

\* While a revocation deletes, what is live of its families is on its list and
\* nothing more will be, unless a rotation overlapped.
ListIsComplete ==
  \A q \in Requests : rtpc[q] = "delete" =>
    /\ \A t \in victims[q] : t \in 1..minted /\ family[t] \in condemned[q]
    /\ \A f \in condemned[q] \ overlapped :
         /\ ~Saving(f)
         /\ \A t \in Tokens : record[t] = "live" /\ family[t] = f => t \in victims[q]

\* Nothing of a revoked family can be live again, unless a rotation overlapped.
RevokedIsGone ==
  \A f \in revoked \ overlapped, t \in Tokens : family[t] = f => ~CanBeLive(t)

RefreshInv ==
  /\ RefreshTypeOK /\ Minted /\ OwnSuccessor /\ OnePossible
  /\ InOneTurn /\ SaveFollowsSpent /\ ListIsComplete /\ RevokedIsGone

-----------------------------------------------------------------------------
-----------------------------------------------------------------------------
\* A step that saves nothing and starts no rotation: the records keep their
\* value or go, and a request that rotates after it did so before, with the same
\* tokens, and saves only if it was saving.
Quiet ==
  /\ UNCHANGED <<store, minted, family>>
  /\ \A t \in Tokens : record'[t] \in {record[t], "none"}
  /\ \A p \in Requests : rtpc'[p] \in Rotating =>
       /\ rtpc[p] \in Rotating
       /\ rtpc'[p] = "save" => rtpc[p] = "save"
       /\ presented'[p] = presented[p] /\ next'[p] = next[p]

\* What can be live after a quiet step could be before it.
LEMMA QuietAddsNothing ==
  ASSUME RefreshTypeOK, Quiet, NEW t \in Tokens, CanBeLive(t)'
  PROVE  CanBeLive(t)
BY DEF Quiet, CanBeLive, Rotating, RefreshTypeOK

\* A quiet step keeps the successors apart.
LEMMA QuietKeepsSuccessors ==
  ASSUME RefreshInv, Quiet
  PROVE  OwnSuccessor'
<1>1. ASSUME NEW q \in Requests, rtpc'[q] \in Rotating
      PROVE  /\ presented'[q] \in 1..minted' /\ next'[q] \in 1..minted'
             /\ family'[next'[q]] = family'[presented'[q]]
             /\ record'[next'[q]] = "none"
  <2>1. /\ rtpc[q] \in Rotating /\ presented'[q] = presented[q] /\ next'[q] = next[q]
        /\ minted' = minted /\ family' = family
    BY <1>1 DEF Quiet
  <2>2. /\ presented[q] \in 1..minted /\ next[q] \in 1..minted
        /\ family[next[q]] = family[presented[q]] /\ record[next[q]] = "none"
    BY <2>1 DEF RefreshInv, OwnSuccessor
  <2>3. next[q] \in Tokens
    BY <2>2, RefreshAssumption DEF RefreshInv, RefreshTypeOK, Tokens
  <2>4. record'[next[q]] = "none"
    BY <2>2, <2>3 DEF Quiet
  <2>5. QED BY <2>1, <2>2, <2>4
<1>2. ASSUME NEW p \in Requests, NEW q \in Requests,
             rtpc'[p] \in Rotating, rtpc'[q] \in Rotating, next'[p] = next'[q]
      PROVE  p = q
  BY <1>2 DEF Quiet, RefreshInv, OwnSuccessor
<1>3. QED BY <1>1, <1>2 DEF OwnSuccessor

\* A quiet step leaves a family no more than it had.
LEMMA QuietKeepsOne ==
  ASSUME RefreshInv, Quiet
  PROVE  OnePossible'
<1>1. SUFFICES ASSUME NEW t \in Tokens, NEW u \in Tokens,
                      CanBeLive(t)', CanBeLive(u)', family'[t] = family'[u]
               PROVE  t = u
  BY DEF OnePossible
<1>2. CanBeLive(t) /\ CanBeLive(u)
  BY <1>1, QuietAddsNothing DEF RefreshInv
<1>3. family[t] = family[u]
  BY <1>1 DEF Quiet
<1>4. QED BY <1>2, <1>3 DEF RefreshInv, OnePossible

\* The steps that are quiet.
LEMMA QuietSteps ==
  ASSUME RefreshTypeOK
  PROVE  /\ PurgeExpired => Quiet
         /\ \A t \in Tokens : Expire(t) => Quiet
         /\ \A q \in Requests :
              /\ \A t \in Tokens :
                   /\ RotateFind(q, t) /\ record[t] = "spent" => Quiet
                   /\ Revoke(q, t) => Quiet
                   /\ DeleteNext(q, t) => Quiet
              /\ MemoryRotate(q) /\ ~(Exchangeable(presented[q]) /\ presented[q] \notin expired)
                   => Quiet
              /\ RepoLookup(q) => Quiet
              /\ RepoSwap(q) /\ ~Exchangeable(presented[q]) => Quiet
              /\ RevokeAll(q) => Quiet
              /\ RevokeFamilies(q) => Quiet
              /\ RequestDies(q) => Quiet
<1> USE DEF RefreshTypeOK, Quiet, tokenVars, requestVars, Rotating
<1>1. ASSUME PurgeExpired PROVE Quiet
  BY <1>1 DEF PurgeExpired
<1>2. ASSUME NEW t \in Tokens, Expire(t) PROVE Quiet
  BY <1>2 DEF Expire
<1>3. ASSUME NEW q \in Requests, NEW t \in Tokens, RotateFind(q, t), record[t] = "spent" PROVE Quiet
  BY <1>3 DEF RotateFind
<1>4. ASSUME NEW q \in Requests, NEW t \in Tokens, Revoke(q, t) PROVE Quiet
  BY <1>4 DEF Revoke
<1>5. ASSUME NEW q \in Requests, NEW t \in Tokens, DeleteNext(q, t) PROVE Quiet
  <2>1. UNCHANGED <<store, minted, family>> /\ record' = [record EXCEPT ![t] = "none"]
    BY <1>5 DEF DeleteNext
  <2>2. CASE victims[q] = {t}
    BY <1>5, <2>1, <2>2 DEF DeleteNext, Answered
  <2>3. CASE victims[q] # {t}
    BY <1>5, <2>1, <2>3 DEF DeleteNext
  <2>4. QED BY <2>2, <2>3
<1>6. ASSUME NEW q \in Requests, MemoryRotate(q),
             ~(Exchangeable(presented[q]) /\ presented[q] \notin expired)
      PROVE  Quiet
  <2>1. UNCHANGED <<store, minted, family, record>> /\ (Burn(q) \/ Answered(q))
    BY <1>6 DEF MemoryRotate
  <2>2. QED BY <2>1 DEF Burn, Answered
<1>7. ASSUME NEW q \in Requests, RepoLookup(q) PROVE Quiet
  <2>1. /\ UNCHANGED <<store, minted, family, record>> /\ rtpc[q] = "lookup"
        /\ \/ Burn(q) \/ Answered(q)
           \/ rtpc' = [rtpc EXCEPT ![q] = "swap"] /\ UNCHANGED <<presented, next, victims, condemned>>
    BY <1>7 DEF RepoLookup
  <2>2. QED BY <2>1 DEF Burn, Answered
<1>8. ASSUME NEW q \in Requests, RepoSwap(q), ~Exchangeable(presented[q]) PROVE Quiet
  <2>1. UNCHANGED <<store, minted, family, record>> /\ Burn(q)
    BY <1>8 DEF RepoSwap
  <2>2. QED BY <2>1 DEF Burn
<1>9. ASSUME NEW q \in Requests, RevokeAll(q) PROVE Quiet
  BY <1>9 DEF RevokeAll
<1>10. ASSUME NEW q \in Requests, RevokeFamilies(q) PROVE Quiet
  <2>1. CASE store = "memory" \/ CondemnedBy(q) = {}
    <3>1. /\ record' = [t \in Tokens |-> IF t \in CondemnedBy(q) THEN "none" ELSE record[t]]
          /\ Answered(q) /\ UNCHANGED <<store, minted, family>>
      BY <1>10, <2>1 DEF RevokeFamilies
    <3>2. QED BY <3>1 DEF Answered
  <2>2. CASE ~(store = "memory" \/ CondemnedBy(q) = {})
    BY <1>10, <2>2 DEF RevokeFamilies
  <2>3. QED BY <2>1, <2>2
<1>11. ASSUME NEW q \in Requests, RequestDies(q) PROVE Quiet
  BY <1>11 DEF RequestDies, Answered
<1>12. QED BY <1>1, <1>2, <1>3, <1>4, <1>5, <1>6, <1>7, <1>8, <1>9, <1>10, <1>11

-----------------------------------------------------------------------------
\* What a request holds has its type, whatever it is called with.
RequestTypeOK ==
  /\ rtpc \in [Requests -> {"idle", "revoke", "delete"} \union Rotating]
  /\ presented \in [Requests -> Tokens \union {0}]
  /\ next \in [Requests -> Tokens \union {0}]
  /\ victims \in [Requests -> SUBSET Tokens]
  /\ condemned \in [Requests -> SUBSET Tokens]

\* What a request that rotates was called with, and what it minted, are tokens.
LEMMA RotatingHasTokens ==
  ASSUME RefreshTypeOK, Minted, OwnSuccessor, NEW q \in Requests, rtpc[q] \in Rotating
  PROVE  /\ presented[q] \in Tokens /\ next[q] \in Tokens
         /\ family[presented[q]] \in 1..minted /\ family[next[q]] = family[presented[q]]
         /\ record[next[q]] = "none" /\ 1..minted \subseteq Tokens
BY RefreshAssumption DEF RefreshTypeOK, Minted, OwnSuccessor, Tokens

\* Answering, and burning a family, keep the types of the requests.
LEMMA AnswerTypes ==
  ASSUME RefreshTypeOK, NEW q \in Requests
  PROVE  /\ Answered(q) => RequestTypeOK'
         /\ Burn(q) /\ family[presented[q]] \in Tokens => RequestTypeOK'
<1>1. ASSUME Answered(q) PROVE RequestTypeOK'
  BY <1>1 DEF Answered, RefreshTypeOK, RequestTypeOK, Rotating
<1>2. ASSUME Burn(q), family[presented[q]] \in Tokens PROVE RequestTypeOK'
  <2>1. {family[presented[q]]} \in SUBSET Tokens BY <1>2
  <2>2. /\ rtpc' \in [Requests -> {"idle", "revoke", "delete"} \union Rotating]
        /\ presented' \in [Requests -> Tokens \union {0}]
        /\ next' \in [Requests -> Tokens \union {0}]
        /\ victims' \in [Requests -> SUBSET Tokens]
    BY <1>2 DEF Burn, RefreshTypeOK, Rotating
  <2>3. condemned' \in [Requests -> SUBSET Tokens]
    BY <1>2, <2>1 DEF Burn, RefreshTypeOK
  <2>4. QED BY <2>2, <2>3 DEF RequestTypeOK
<1>3. QED BY <1>1, <1>2

\* Every step keeps the types of the variables.
LEMMA TypesKept ==
  ASSUME RefreshInv, [RefreshNext]_refreshVars
  PROVE  RefreshTypeOK'
<1>0. /\ RefreshTypeOK /\ Minted /\ OwnSuccessor /\ MaxTokens \in Nat
      /\ 1..minted \subseteq Tokens
      /\ \A t \in 1..minted : family[t] \in Tokens
  BY RefreshAssumption DEF RefreshInv, RefreshTypeOK, Minted, Tokens
<1> DEFINE TokenTypes == /\ store' \in {"memory", "repo"} /\ minted' \in 0..MaxTokens
                         /\ family' \in [Tokens -> Tokens \union {0}]
                         /\ record' \in [Tokens -> {"none", "live", "spent"}]
                         /\ expired' \subseteq Tokens
                         /\ revoked' \subseteq Tokens /\ overlapped' \subseteq Tokens
<1>1. SUFFICES TokenTypes /\ RequestTypeOK'
  BY DEF RefreshTypeOK, RequestTypeOK
<1>2. RequestTypeOK
  BY <1>0 DEF RefreshTypeOK, RequestTypeOK
<1>3. CASE Issue
  <2>1. minted + 1 \in Tokens /\ minted + 1 \in 0..MaxTokens
    BY <1>0, <1>3 DEF Issue, Mint, RefreshTypeOK, Tokens
  <2>2. TokenTypes
    BY <1>0, <1>3, <2>1 DEF Issue, Mint, RefreshTypeOK
  <2>3. RequestTypeOK'
    BY <1>2, <1>3 DEF Issue, requestVars, RequestTypeOK
  <2>4. QED BY <2>2, <2>3
<1>4. CASE PurgeExpired
  BY <1>0, <1>2, <1>4 DEF PurgeExpired, requestVars, RefreshTypeOK, RequestTypeOK
<1>5. ASSUME NEW t \in Tokens, Expire(t) PROVE TokenTypes /\ RequestTypeOK'
  BY <1>0, <1>2, <1>5 DEF Expire, requestVars, RefreshTypeOK, RequestTypeOK
<1>6. ASSUME NEW q \in Requests, NEW t \in Tokens, RotateFind(q, t)
      PROVE  TokenTypes /\ RequestTypeOK'
  <2>1. family[t] \in Tokens /\ t \in 1..minted
    BY <1>0, <1>6 DEF RotateFind, HandedOut
  <2>2. CASE record[t] = "spent"
    <3>1. {family[t]} \in SUBSET Tokens BY <2>1
    <3>2. TokenTypes
      BY <1>0, <1>6, <2>2 DEF RotateFind, RefreshTypeOK
    <3>3. condemned' \in [Requests -> SUBSET Tokens]
      BY <1>2, <1>6, <2>2, <3>1 DEF RotateFind, RequestTypeOK
    <3>4. RequestTypeOK'
      BY <1>2, <1>6, <2>2, <3>3 DEF RotateFind, RequestTypeOK
    <3>5. QED BY <3>2, <3>4
  <2>3. CASE record[t] # "spent"
    <3>1. minted + 1 \in Tokens /\ minted + 1 \in 0..MaxTokens
      BY <1>0, <1>6, <2>3 DEF RotateFind, Mint, RefreshTypeOK, Tokens
    <3>2. TokenTypes
      BY <1>0, <1>6, <2>1, <2>3, <3>1 DEF RotateFind, Mint, RefreshTypeOK
    <3>3. RequestTypeOK'
      BY <1>2, <1>6, <2>3, <3>1 DEF RotateFind, RequestTypeOK, Rotating
    <3>4. QED BY <3>2, <3>3
  <2>4. QED BY <2>2, <2>3
<1>7. ASSUME NEW q \in Requests, NEW t \in Tokens, Revoke(q, t)
      PROVE  TokenTypes /\ RequestTypeOK'
  <2>1. {family[t]} \in SUBSET Tokens
    BY <1>0, <1>7 DEF Revoke, HandedOut
  <2>2. condemned' \in [Requests -> SUBSET Tokens]
    BY <1>2, <1>7, <2>1 DEF Revoke, RequestTypeOK
  <2>3. RequestTypeOK'
    BY <1>2, <1>7, <2>2 DEF Revoke, RequestTypeOK
  <2>4. TokenTypes
    BY <1>0, <1>7 DEF Revoke, tokenVars, RefreshTypeOK
  <2>5. QED BY <2>3, <2>4
<1>8. ASSUME NEW q \in Requests, NEW t \in Tokens, DeleteNext(q, t)
      PROVE  TokenTypes /\ RequestTypeOK'
  <2>1. TokenTypes
    BY <1>0, <1>8 DEF DeleteNext, RefreshTypeOK
  <2>2. CASE victims[q] = {t}
    BY <1>0, <1>8, <2>1, <2>2, AnswerTypes DEF DeleteNext
  <2>3. CASE victims[q] # {t}
    BY <1>2, <1>8, <2>1, <2>3 DEF DeleteNext, RequestTypeOK
  <2>4. QED BY <2>2, <2>3
<1>9. ASSUME NEW q \in Requests, MemoryRotate(q) PROVE TokenTypes /\ RequestTypeOK'
  <2>1. /\ presented[q] \in Tokens /\ next[q] \in Tokens /\ family[presented[q]] \in Tokens
    BY <1>0, <1>9, RotatingHasTokens DEF MemoryRotate, Rotating
  <2>2. Burn(q) \/ Answered(q)
    BY <1>9 DEF MemoryRotate
  <2>3. TokenTypes
    BY <1>0, <1>9, <2>1 DEF MemoryRotate, RefreshTypeOK
  <2>4. QED BY <1>0, <2>1, <2>2, <2>3, AnswerTypes
<1>10. ASSUME NEW q \in Requests, RepoLookup(q) PROVE TokenTypes /\ RequestTypeOK'
  <2>1. family[presented[q]] \in Tokens
    BY <1>0, <1>10, RotatingHasTokens DEF RepoLookup, Rotating
  <2>2. \/ Burn(q) \/ Answered(q)
        \/ rtpc' = [rtpc EXCEPT ![q] = "swap"] /\ UNCHANGED <<presented, next, victims, condemned>>
    BY <1>10 DEF RepoLookup
  <2>3. TokenTypes
    BY <1>0, <1>10 DEF RepoLookup, tokenVars, RefreshTypeOK
  <2>4. RequestTypeOK'
    BY <1>0, <1>2, <2>1, <2>2, AnswerTypes DEF RequestTypeOK, Rotating
  <2>5. QED BY <2>3, <2>4
<1>11. ASSUME NEW q \in Requests, RepoSwap(q) PROVE TokenTypes /\ RequestTypeOK'
  <2>1. presented[q] \in Tokens /\ family[presented[q]] \in Tokens
    BY <1>0, <1>11, RotatingHasTokens DEF RepoSwap, Rotating
  <2>2. \/ Burn(q)
        \/ rtpc' = [rtpc EXCEPT ![q] = "save"] /\ UNCHANGED <<presented, next, victims, condemned>>
    BY <1>11 DEF RepoSwap
  <2>3. overlapped' \subseteq overlapped \union {family[presented[q]]}
    BY <1>11 DEF RepoSwap
  <2>4. TokenTypes
    BY <1>0, <1>11, <2>1, <2>3 DEF RepoSwap, RefreshTypeOK
  <2>5. RequestTypeOK'
    BY <1>0, <1>2, <2>1, <2>2, AnswerTypes DEF RequestTypeOK, Rotating
  <2>6. QED BY <2>4, <2>5
<1>12. ASSUME NEW q \in Requests, RepoSave(q) PROVE TokenTypes /\ RequestTypeOK'
  BY <1>0, <1>12, AnswerTypes DEF RepoSave, RefreshTypeOK
<1>13. ASSUME NEW q \in Requests, RevokeAll(q) PROVE TokenTypes /\ RequestTypeOK'
  <2>1. {family[t] : t \in 1..minted} \in SUBSET Tokens
    BY <1>0
  <2>2. condemned' \in [Requests -> SUBSET Tokens]
    BY <1>2, <1>13, <2>1 DEF RevokeAll, RequestTypeOK
  <2>3. RequestTypeOK'
    BY <1>2, <1>13, <2>2 DEF RevokeAll, RequestTypeOK
  <2>4. TokenTypes
    BY <1>0, <1>13 DEF RevokeAll, tokenVars, RefreshTypeOK
  <2>5. QED BY <2>3, <2>4
<1>14. ASSUME NEW q \in Requests, RevokeFamilies(q) PROVE TokenTypes /\ RequestTypeOK'
  <2>1. condemned[q] \subseteq Tokens
    BY <1>2 DEF RequestTypeOK
  <2>2. CASE store = "memory" \/ CondemnedBy(q) = {}
    <3>1. /\ record' = [t \in Tokens |-> IF t \in CondemnedBy(q) THEN "none" ELSE record[t]]
          /\ revoked' = revoked \union condemned[q]
          /\ Answered(q) /\ UNCHANGED <<store, minted, family, expired, overlapped>>
      BY <1>14, <2>2 DEF RevokeFamilies
    <3>2. TokenTypes
      BY <1>0, <2>1, <3>1 DEF RefreshTypeOK
    <3>3. QED BY <1>0, <3>1, <3>2, AnswerTypes
  <2>3. CASE ~(store = "memory" \/ CondemnedBy(q) = {})
    <3>1. CondemnedBy(q) \in SUBSET Tokens BY DEF CondemnedBy
    <3>2. RequestTypeOK'
      BY <1>2, <1>14, <2>3, <3>1 DEF RevokeFamilies, RequestTypeOK
    <3>3. /\ UNCHANGED <<store, minted, family, expired, record, revoked>>
          /\ overlapped' \subseteq overlapped \union condemned[q]
      BY <1>14, <2>3 DEF RevokeFamilies
    <3>4. TokenTypes
      BY <1>0, <2>1, <3>3 DEF RefreshTypeOK
    <3>5. QED BY <3>2, <3>4
  <2>4. QED BY <2>2, <2>3
<1>15. ASSUME NEW q \in Requests, RequestDies(q) PROVE TokenTypes /\ RequestTypeOK'
  BY <1>0, <1>15, AnswerTypes DEF RequestDies, tokenVars, RefreshTypeOK
<1>16. CASE UNCHANGED refreshVars
  BY <1>0, <1>2, <1>16 DEF refreshVars, tokenVars, requestVars, RefreshTypeOK, RequestTypeOK
<1>17. QED
  BY <1>3, <1>4, <1>5, <1>6, <1>7, <1>8, <1>9, <1>10, <1>11, <1>12, <1>13, <1>14, <1>15, <1>16
     DEF RefreshNext

\* The steps that are not quiet: a token is issued, a successor is minted, and
\* the exchange, in one step or in two.
LEMMA LoudSteps ==
  ASSUME RefreshInv, [RefreshNext]_refreshVars
  PROVE  \/ Quiet
         \/ Issue
         \/ \E q \in Requests, t \in Tokens : RotateFind(q, t) /\ record[t] # "spent"
         \/ \E q \in Requests : MemoryRotate(q) /\ Exchangeable(presented[q]) /\ presented[q] \notin expired
         \/ \E q \in Requests : RepoSwap(q) /\ Exchangeable(presented[q])
         \/ \E q \in Requests : RepoSave(q)
<1>1. CASE UNCHANGED refreshVars
  BY <1>1 DEF refreshVars, tokenVars, requestVars, Quiet
<1>2. CASE RefreshNext
  BY <1>2, QuietSteps DEF RefreshNext, RefreshInv
<1>3. QED BY <1>1, <1>2

\* What the loud steps do to the tokens and to the requests that rotate.
LEMMA IssueEffect ==
  ASSUME RefreshInv, Issue
  PROVE  /\ minted + 1 \in Tokens /\ minted' = minted + 1 /\ record[minted + 1] = "none"
         /\ family' = [family EXCEPT ![minted + 1] = minted + 1]
         /\ record' = [record EXCEPT ![minted + 1] = "live"]
         /\ UNCHANGED <<store, rtpc, presented, next, victims, condemned, revoked, overlapped>>
BY RefreshAssumption DEF Issue, Mint, RefreshInv, RefreshTypeOK, Minted, Tokens, requestVars

\* What minting a token changes: the new record, and nothing of the others.
LEMMA MintEffect ==
  ASSUME RefreshInv, NEW q \in Requests, NEW t \in Tokens, RotateFind(q, t), record[t] # "spent"
  PROVE  /\ t \in 1..minted /\ rtpc[q] = "idle"
         /\ minted + 1 \in Tokens /\ minted' = minted + 1 /\ record[minted + 1] = "none"
         /\ family' = [family EXCEPT ![minted + 1] = family[t]]
         /\ presented' = [presented EXCEPT ![q] = t]
         /\ next' = [next EXCEPT ![q] = minted + 1]
         /\ rtpc' = [rtpc EXCEPT ![q] = IF store = "memory" THEN "rotate" ELSE "lookup"]
         /\ UNCHANGED <<store, record, victims, condemned, revoked, overlapped>>
BY RefreshAssumption DEF RotateFind, HandedOut, Mint, RefreshInv, RefreshTypeOK, Minted, Tokens

\* What the start of an exchange changes, by the state its token is found in.
LEMMA ExchangeEffect ==
  ASSUME RefreshInv, NEW q \in Requests, MemoryRotate(q), Exchangeable(presented[q]), presented[q] \notin expired
  PROVE  /\ rtpc[q] = "rotate" /\ record[presented[q]] = "live"
         /\ record' = [record EXCEPT ![presented[q]] = "spent", ![next[q]] = "live"]
         /\ rtpc' = [rtpc EXCEPT ![q] = "idle"] /\ presented' = [presented EXCEPT ![q] = 0]
         /\ next' = [next EXCEPT ![q] = 0] /\ victims' = [victims EXCEPT ![q] = {}]
         /\ condemned' = [condemned EXCEPT ![q] = {}]
         /\ UNCHANGED <<store, minted, family, revoked, overlapped>>
BY DEF MemoryRotate, Answered, Exchangeable

\* What the compare-and-swap of a rotation changes, won or lost.
LEMMA SwapEffect ==
  ASSUME RefreshInv, NEW q \in Requests, RepoSwap(q), Exchangeable(presented[q])
  PROVE  /\ rtpc[q] = "swap" /\ record[presented[q]] = "live"
         /\ record' = [record EXCEPT ![presented[q]] = "spent"]
         /\ rtpc' = [rtpc EXCEPT ![q] = "save"]
         /\ overlapped' = overlapped \union ({family[presented[q]]} \intersect BeingDeleted)
         /\ UNCHANGED <<store, minted, family, presented, next, victims, condemned, revoked>>
BY DEF RepoSwap, Exchangeable

\* What saving the rotated family changes.
LEMMA SaveEffect ==
  ASSUME RefreshInv, NEW q \in Requests, RepoSave(q)
  PROVE  /\ rtpc[q] = "save"
         /\ record' = [record EXCEPT ![next[q]] = "live"]
         /\ rtpc' = [rtpc EXCEPT ![q] = "idle"] /\ presented' = [presented EXCEPT ![q] = 0]
         /\ next' = [next EXCEPT ![q] = 0] /\ victims' = [victims EXCEPT ![q] = {}]
         /\ condemned' = [condemned EXCEPT ![q] = {}]
         /\ UNCHANGED <<store, minted, family, revoked, overlapped>>
BY DEF RepoSave, Answered

\* Every step keeps the successors of two requests apart.
LEMMA SuccessorsKept ==
  ASSUME RefreshInv, [RefreshNext]_refreshVars
  PROVE  OwnSuccessor'
<1> USE DEF Rotating
<1>0. RefreshTypeOK /\ Minted /\ OwnSuccessor BY DEF RefreshInv
<1>a. /\ 1..minted \subseteq Tokens /\ minted \in Nat
      /\ \A q \in Requests : rtpc[q] \in Rotating =>
           /\ presented[q] \in 1..minted /\ next[q] \in 1..minted
           /\ presented[q] \in Tokens /\ next[q] \in Tokens
           /\ presented[q] # minted + 1 /\ next[q] # minted + 1
  BY <1>0, RefreshAssumption DEF RefreshTypeOK, OwnSuccessor, Tokens
<1>1. CASE Quiet
  BY <1>1, QuietKeepsSuccessors
<1>2. CASE Issue
  BY <1>0, <1>2, <1>a, IssueEffect DEF OwnSuccessor, RefreshTypeOK
<1>3. ASSUME NEW q \in Requests, NEW t \in Tokens, RotateFind(q, t), record[t] # "spent"
      PROVE  OwnSuccessor'
  <2>1. /\ t \in 1..minted /\ minted + 1 \in Tokens /\ record[minted + 1] = "none"
        /\ minted' = minted + 1 /\ record' = record /\ t # minted + 1
        /\ family' = [family EXCEPT ![minted + 1] = family[t]]
    BY <1>3, <1>a, MintEffect
  <2>2. /\ presented'[q] = t /\ next'[q] = minted + 1
        /\ \A p \in Requests \ {q} : presented'[p] = presented[p] /\ next'[p] = next[p] /\ rtpc'[p] = rtpc[p]
    BY <1>0, <1>3, MintEffect DEF RefreshTypeOK
  <2>3. /\ family'[minted + 1] = family[t]
        /\ \A u \in Tokens \ {minted + 1} : family'[u] = family[u]
    BY <1>0, <2>1 DEF RefreshTypeOK
  <2>4. ASSUME NEW p \in Requests, rtpc'[p] \in Rotating
        PROVE  /\ presented'[p] \in 1..minted' /\ next'[p] \in 1..minted'
               /\ family'[next'[p]] = family'[presented'[p]] /\ record'[next'[p]] = "none"
    <3>1. CASE p = q BY <1>a, <2>1, <2>2, <2>3, <3>1
    <3>2. CASE p # q
      <4>1. rtpc[p] \in Rotating /\ presented'[p] = presented[p] /\ next'[p] = next[p]
        BY <2>2, <2>4, <3>2
      <4>2. QED BY <1>0, <1>a, <2>1, <2>3, <4>1 DEF OwnSuccessor
    <3>3. QED BY <3>1, <3>2
  <2>5. ASSUME NEW p \in Requests, NEW r \in Requests,
               rtpc'[p] \in Rotating, rtpc'[r] \in Rotating, next'[p] = next'[r]
        PROVE  p = r
    BY <1>0, <1>a, <2>2, <2>5 DEF OwnSuccessor
  <2>6. QED BY <2>4, <2>5 DEF OwnSuccessor
<1>4. ASSUME NEW q \in Requests,
             \/ MemoryRotate(q) /\ Exchangeable(presented[q]) /\ presented[q] \notin expired
             \/ RepoSave(q)
      PROVE  OwnSuccessor'
  <2>1. /\ rtpc[q] \in Rotating /\ rtpc' = [rtpc EXCEPT ![q] = "idle"]
        /\ next' = [next EXCEPT ![q] = 0] /\ presented' = [presented EXCEPT ![q] = 0]
        /\ UNCHANGED <<minted, family>>
        /\ \/ /\ record[presented[q]] = "live"
              /\ record' = [record EXCEPT ![presented[q]] = "spent", ![next[q]] = "live"]
           \/ record' = [record EXCEPT ![next[q]] = "live"]
    BY <1>4, ExchangeEffect, SaveEffect
  <2>2. \A p \in Requests : rtpc'[p] \in Rotating =>
          p # q /\ rtpc[p] \in Rotating /\ presented'[p] = presented[p] /\ next'[p] = next[p]
    BY <1>0, <2>1 DEF RefreshTypeOK
  <2>3. ASSUME NEW p \in Requests, rtpc'[p] \in Rotating
        PROVE  record'[next'[p]] = "none"
    <3>1. next[p] # next[q] /\ record[next[p]] = "none" /\ next[p] \in Tokens
      BY <1>0, <1>a, <2>1, <2>2, <2>3 DEF OwnSuccessor
    <3>2. QED BY <1>0, <2>1, <2>2, <2>3, <3>1 DEF RefreshTypeOK
  <2>4. QED BY <1>0, <2>1, <2>2, <2>3 DEF OwnSuccessor
<1>5. ASSUME NEW q \in Requests, RepoSwap(q), Exchangeable(presented[q])
      PROVE  OwnSuccessor'
  <2>1. /\ rtpc[q] = "swap" /\ rtpc' = [rtpc EXCEPT ![q] = "save"]
        /\ record[presented[q]] = "live" /\ record' = [record EXCEPT ![presented[q]] = "spent"]
        /\ UNCHANGED <<minted, family, next, presented>>
    BY <1>5, SwapEffect
  <2>2. \A p \in Requests : rtpc'[p] \in Rotating => rtpc[p] \in Rotating
    BY <1>0, <2>1 DEF RefreshTypeOK
  <2>3. ASSUME NEW p \in Requests, rtpc'[p] \in Rotating
        PROVE  record'[next[p]] = "none"
    <3>1. record[next[p]] = "none" /\ next[p] \in Tokens
      BY <1>0, <1>a, <2>2, <2>3 DEF OwnSuccessor
    <3>2. QED BY <1>0, <2>1, <3>1 DEF RefreshTypeOK
  <2>4. QED BY <1>0, <2>1, <2>2, <2>3 DEF OwnSuccessor
<1>6. QED BY <1>1, <1>2, <1>3, <1>4, <1>5, LoudSteps

\* Every step keeps what is known of the numbers that were handed out.
LEMMA MintedKept ==
  ASSUME RefreshInv, [RefreshNext]_refreshVars
  PROVE  Minted'
<1>0. /\ RefreshTypeOK /\ Minted /\ OwnSuccessor
      /\ minted \in Nat /\ MaxTokens \in Nat /\ minted <= MaxTokens
      /\ \A t \in 1..minted : family[t] \in 1..minted
      /\ \A q \in Requests : rtpc[q] \in Rotating =>
           /\ presented[q] \in 1..minted /\ next[q] \in 1..minted
           /\ family[presented[q]] \in 1..minted
  BY RefreshAssumption DEF RefreshInv, RefreshTypeOK, Minted, OwnSuccessor
<1>1. (\A t \in Tokens : t > minted' => record'[t] = "none") /\ minted <= minted' /\ minted' \in Nat
  <2>0. minted' \in Nat BY TypesKept, RefreshAssumption DEF RefreshTypeOK
  <2>1. CASE Quiet
    BY <1>0, <2>1 DEF Quiet, Minted, Tokens
  <2>2. CASE Issue
    BY <1>0, <2>2, IssueEffect DEF Minted, RefreshTypeOK, Tokens
  <2>3. ASSUME NEW q \in Requests, NEW t \in Tokens, RotateFind(q, t), record[t] # "spent"
        PROVE  (\A u \in Tokens : u > minted' => record'[u] = "none") /\ minted <= minted'
    BY <1>0, <2>3, MintEffect DEF Minted, Tokens
  <2>4. ASSUME NEW q \in Requests,
               \/ MemoryRotate(q) /\ Exchangeable(presented[q]) /\ presented[q] \notin expired
               \/ RepoSave(q)
               \/ RepoSwap(q) /\ Exchangeable(presented[q])
        PROVE  (\A u \in Tokens : u > minted' => record'[u] = "none") /\ minted <= minted'
    <3>1. /\ minted' = minted /\ presented[q] \in 1..minted /\ next[q] \in 1..minted
          /\ \/ record' = [record EXCEPT ![presented[q]] = "spent", ![next[q]] = "live"]
             \/ record' = [record EXCEPT ![next[q]] = "live"]
             \/ record' = [record EXCEPT ![presented[q]] = "spent"]
      BY <1>0, <2>4, ExchangeEffect, SaveEffect, SwapEffect DEF Rotating
    <3>2. \A u \in Tokens : u > minted => record'[u] = record[u]
      BY <1>0, <3>1 DEF Tokens, RefreshTypeOK
    <3>3. QED BY <1>0, <3>1, <3>2 DEF Minted
  <2>5. QED BY <2>0, <2>1, <2>2, <2>3, <2>4, LoudSteps
<1>2. \A t \in 1..minted' : family'[t] \in 1..minted'
  <2>1. CASE UNCHANGED <<minted, family>>
    BY <1>0, <2>1
  <2>2. CASE Issue
    BY <1>0, <2>2, IssueEffect DEF RefreshTypeOK, Tokens
  <2>3. ASSUME NEW q \in Requests, NEW t \in Tokens, RotateFind(q, t), record[t] # "spent"
        PROVE  \A u \in 1..minted' : family'[u] \in 1..minted'
    <3>1. /\ t \in 1..minted /\ minted' = minted + 1
          /\ family' = [family EXCEPT ![minted + 1] = family[t]]
      BY <2>3, MintEffect
    <3>2. family[t] \in 1..minted' /\ \A u \in 1..minted : family[u] \in 1..minted'
      BY <1>0, <3>1
    <3>3. ASSUME NEW u \in 1..minted' PROVE family'[u] \in 1..minted'
      <4>1. u \in Tokens /\ (u = minted + 1 \/ (u \in 1..minted /\ u # minted + 1))
        BY <1>0, <2>3, <3>1, <3>3, MintEffect DEF Tokens
      <4>2. family \in [Tokens -> Tokens \union {0}]
        BY <1>0 DEF RefreshTypeOK
      <4>3. QED BY <3>1, <3>2, <4>1, <4>2
    <3>4. QED BY <3>3
  <2>4. QED BY <2>1, <2>2, <2>3, LoudSteps, ExchangeEffect, SwapEffect, SaveEffect DEF Quiet
<1>3. \A q \in Requests : condemned'[q] \subseteq 1..minted'
  <2>1. SUFFICES \A q \in Requests : condemned'[q] \subseteq 1..minted
    BY <1>0, <1>1
  <2>2. \A q \in Requests : condemned[q] \subseteq 1..minted /\ condemned \in [Requests -> SUBSET Tokens]
    BY <1>0 DEF Minted, RefreshTypeOK
  <2>3. CASE UNCHANGED condemned
    BY <2>2, <2>3
  <2>4. ASSUME NEW q \in Requests, NEW C, C \subseteq 1..minted,
               condemned' = [condemned EXCEPT ![q] = C]
        PROVE  \A p \in Requests : condemned'[p] \subseteq 1..minted
    BY <2>2, <2>4
  <2>5. ASSUME NEW q \in Requests, Answered(q)
        PROVE  \A p \in Requests : condemned'[p] \subseteq 1..minted
    BY <2>4, <2>5 DEF Answered
  <2>6. ASSUME NEW q \in Requests, Burn(q), rtpc[q] \in Rotating
        PROVE  \A p \in Requests : condemned'[p] \subseteq 1..minted
    <3>1. {family[presented[q]]} \subseteq 1..minted BY <1>0, <2>6
    <3>2. QED BY <2>4, <2>6, <3>1 DEF Burn
  <2>7. ASSUME NEW q \in Requests, NEW t \in Tokens, RotateFind(q, t) \/ Revoke(q, t)
        PROVE  \A p \in Requests : condemned'[p] \subseteq 1..minted
    <3>1. t \in 1..minted /\ {family[t]} \subseteq 1..minted
      BY <1>0, <2>7 DEF RotateFind, Revoke, HandedOut
    <3>2. condemned' = condemned \/ condemned' = [condemned EXCEPT ![q] = {family[t]}]
      BY <2>7 DEF RotateFind, Revoke
    <3>3. QED BY <2>3, <2>4, <3>1, <3>2
  <2>8. ASSUME NEW q \in Requests, RevokeAll(q)
        PROVE  \A p \in Requests : condemned'[p] \subseteq 1..minted
    <3>1. {family[t] : t \in 1..minted} \subseteq 1..minted BY <1>0
    <3>2. QED BY <2>4, <2>8, <3>1 DEF RevokeAll
  <2>9. ASSUME NEW q \in Requests,
               MemoryRotate(q) \/ RepoLookup(q) \/ RepoSwap(q) \/ RepoSave(q) \/ RevokeFamilies(q) \/ RequestDies(q)
        PROVE  UNCHANGED condemned \/ Answered(q) \/ (Burn(q) /\ rtpc[q] \in Rotating)
    BY <2>9 DEF MemoryRotate, RepoLookup, RepoSwap, RepoSave, RevokeFamilies, RequestDies, Rotating
  <2>10. ASSUME NEW q \in Requests, NEW t \in Tokens, DeleteNext(q, t)
         PROVE  UNCHANGED condemned \/ Answered(q)
    BY <2>10 DEF DeleteNext
  <2>11. CASE Issue \/ PurgeExpired \/ (\E t \in Tokens : Expire(t)) \/ UNCHANGED refreshVars
    BY <2>3, <2>11 DEF Issue, PurgeExpired, Expire, refreshVars, requestVars
  <2>12. QED
    BY <2>3, <2>5, <2>6, <2>7, <2>8, <2>9, <2>10, <2>11 DEF RefreshNext
<1>4. revoked' \subseteq 1..minted'
  <2>1. revoked \subseteq 1..minted /\ \A q \in Requests : condemned[q] \subseteq 1..minted
    BY <1>0 DEF Minted
  <2>2. revoked' = revoked \/ \E q \in Requests : revoked' = revoked \union condemned[q]
    BY DEF RefreshNext, refreshVars, Issue, PurgeExpired, Expire, RotateFind, Revoke, DeleteNext,
           MemoryRotate, RepoLookup, RepoSwap, RepoSave, RevokeAll, RevokeFamilies, RequestDies
  <2>3. 1..minted \subseteq 1..minted'
    BY <1>0, <1>1
  <2>4. revoked' \subseteq 1..minted
    BY <2>1, <2>2
  <2>5. QED BY <2>3, <2>4
<1>5. QED BY <1>1, <1>2, <1>3, <1>4 DEF Minted

-----------------------------------------------------------------------------
\* The exchange of request q, by either store.
Exchanges(q) ==
  /\ Exchangeable(presented[q])
  /\ (MemoryRotate(q) /\ presented[q] \notin expired) \/ RepoSwap(q)

\* What can be live was minted, and a token that waits to be saved is not stored.
LEMMA PossibleWasMinted ==
  ASSUME RefreshInv, NEW t \in Tokens, CanBeLive(t)
  PROVE  t \in 1..minted /\ family[t] \in 1..minted
<1>1. t \in 1..minted
  BY RefreshAssumption DEF RefreshInv, RefreshTypeOK, Minted, OwnSuccessor, CanBeLive, Rotating, Tokens
<1>2. QED BY <1>1 DEF RefreshInv, Minted

\* An exchange gives up the token it was called with for its successor, of the
\* same family; what else can be live could be before.
LEMMA ExchangeReplaces ==
  ASSUME RefreshInv, NEW q \in Requests, Exchanges(q)
  PROVE  /\ presented[q] \in Tokens /\ next[q] \in Tokens /\ CanBeLive(presented[q])
         /\ family[next[q]] = family[presented[q]] /\ UNCHANGED <<store, minted, family, revoked>>
         /\ \A t \in Tokens : CanBeLive(t)' => t = next[q] \/ (CanBeLive(t) /\ t # presented[q])
<1>1. /\ RefreshTypeOK /\ Minted /\ OwnSuccessor /\ rtpc[q] \in Rotating
      /\ presented[q] \in Tokens /\ next[q] \in Tokens /\ record[presented[q]] = "live"
      /\ family[next[q]] = family[presented[q]] /\ record[next[q]] = "none"
  BY ExchangeEffect, SwapEffect, RotatingHasTokens DEF Exchanges, RefreshInv, Rotating
<1>2. UNCHANGED <<store, minted, family, revoked>>
  BY ExchangeEffect, SwapEffect DEF Exchanges
<1>3. ASSUME NEW t \in Tokens, CanBeLive(t)', t # next[q]
      PROVE  CanBeLive(t) /\ t # presented[q]
  <2>1. \/ record' = [record EXCEPT ![presented[q]] = "spent", ![next[q]] = "live"]
        \/ record' = [record EXCEPT ![presented[q]] = "spent"]
    BY ExchangeEffect, SwapEffect DEF Exchanges
  <2>2. \A p \in Requests : rtpc'[p] = "save" =>
          next'[p] = next[p] /\ (p = q \/ rtpc[p] = "save")
    BY <1>1, ExchangeEffect, SwapEffect DEF Exchanges, RefreshTypeOK
  <2>3. CASE record'[t] = "live"
    BY <1>1, <1>3, <2>1, <2>3 DEF CanBeLive, RefreshTypeOK
  <2>4. CASE record'[t] # "live"
    <3>1. PICK p \in Requests : rtpc'[p] = "save" /\ next'[p] = t
      BY <1>3, <2>4 DEF CanBeLive
    <3>2. rtpc[p] = "save" /\ next[p] = t
      BY <1>3, <2>2, <3>1
    <3>3. record[t] = "none"
      BY <1>1, <3>2 DEF OwnSuccessor, Rotating
    <3>4. QED BY <1>1, <3>2, <3>3 DEF CanBeLive
  <2>5. QED BY <2>3, <2>4
<1>4. QED BY <1>1, <1>2, <1>3 DEF CanBeLive

\* The other steps add nothing to what can be live, except that issue adds the
\* first token of a family.
LEMMA PossibleElsewhere ==
  ASSUME RefreshInv, [RefreshNext]_refreshVars, \A q \in Requests : ~Exchanges(q),
         NEW t \in Tokens, CanBeLive(t)'
  PROVE  /\ UNCHANGED revoked \/ Quiet
         /\ \/ CanBeLive(t) /\ family'[t] = family[t]
            \/ Issue /\ t = minted + 1 /\ family'[t] = t
<1>0. RefreshTypeOK BY DEF RefreshInv
<1>a. CanBeLive(t) => t # minted + 1
  BY <1>0, PossibleWasMinted, RefreshAssumption DEF RefreshTypeOK
<1>1. CASE Quiet
  BY <1>0, <1>1, QuietAddsNothing DEF Quiet
<1>2. CASE Issue
  BY <1>0, <1>2, <1>a, IssueEffect DEF CanBeLive, RefreshTypeOK
<1>3. ASSUME NEW q \in Requests, NEW u \in Tokens, RotateFind(q, u), record[u] # "spent"
      PROVE  UNCHANGED revoked /\ CanBeLive(t) /\ family'[t] = family[t]
  <2>1. CanBeLive(t)
    BY <1>0, <1>3, MintEffect DEF CanBeLive, RefreshTypeOK
  <2>2. QED BY <1>0, <1>3, <1>a, <2>1, MintEffect DEF RefreshTypeOK
<1>4. ASSUME NEW q \in Requests, RepoSave(q)
      PROVE  UNCHANGED revoked /\ CanBeLive(t) /\ family'[t] = family[t]
  <2>1. \A p \in Requests : rtpc'[p] = "save" => rtpc[p] = "save" /\ next'[p] = next[p]
    BY <1>0, <1>4, SaveEffect DEF RefreshTypeOK
  <2>2. record'[t] = "live" => record[t] = "live" \/ t = next[q]
    BY <1>0, <1>4, SaveEffect DEF RefreshTypeOK
  <2>3. QED BY <1>4, <2>1, <2>2, SaveEffect DEF CanBeLive
<1>5. QED BY <1>1, <1>2, <1>3, <1>4, LoudSteps DEF Exchanges

\* Every step leaves a family with one token at most that is live or will be.
LEMMA OneKept ==
  ASSUME RefreshInv, [RefreshNext]_refreshVars
  PROVE  OnePossible'
<1>1. SUFFICES ASSUME NEW t \in Tokens, NEW u \in Tokens,
                      CanBeLive(t)', CanBeLive(u)', family'[t] = family'[u]
               PROVE  t = u
  BY DEF OnePossible
<1>2. OnePossible /\ RefreshTypeOK BY DEF RefreshInv
<1>3. CASE \E q \in Requests : Exchanges(q)
  <2>1. PICK q \in Requests : Exchanges(q) BY <1>3
  <2>2. /\ family' = family /\ presented[q] \in Tokens /\ CanBeLive(presented[q])
        /\ family[next[q]] = family[presented[q]]
        /\ t = next[q] \/ (CanBeLive(t) /\ t # presented[q])
        /\ u = next[q] \/ (CanBeLive(u) /\ u # presented[q])
    BY <1>1, <2>1, ExchangeReplaces
  <2>3. QED BY <1>1, <1>2, <2>2 DEF OnePossible
<1>4. CASE \A q \in Requests : ~Exchanges(q)
  <2>1. /\ \/ CanBeLive(t) /\ family'[t] = family[t]
           \/ Issue /\ t = minted + 1 /\ family'[t] = t
        /\ \/ CanBeLive(u) /\ family'[u] = family[u]
           \/ Issue /\ u = minted + 1 /\ family'[u] = u
    BY <1>1, <1>4, PossibleElsewhere
  <2>2. /\ CanBeLive(t) => family[t] # minted + 1
        /\ CanBeLive(u) => family[u] # minted + 1
    BY <1>2, PossibleWasMinted, RefreshAssumption DEF RefreshTypeOK
  <2>3. QED BY <1>1, <1>2, <2>1, <2>2 DEF OnePossible
<1>5. QED BY <1>3, <1>4

\* Every step keeps the two stores apart.
LEMMA OneTurnKept ==
  ASSUME RefreshInv, [RefreshNext]_refreshVars
  PROVE  InOneTurn'
<1>0. RefreshTypeOK /\ InOneTurn BY DEF RefreshInv
<1>1. SUFFICES ASSUME NEW p \in Requests
               PROVE  /\ rtpc'[p] \in {"lookup", "swap", "save", "delete"} => store = "repo"
                      /\ rtpc'[p] = "rotate" => store = "memory"
  <2>1. store' = store
    BY DEF RefreshNext, refreshVars, Issue, PurgeExpired, Expire, RotateFind, Revoke, DeleteNext,
      MemoryRotate, RepoLookup, RepoSwap, RepoSave, RevokeAll, RevokeFamilies, RequestDies
  <2>2. QED BY <2>1 DEF InOneTurn
<1>2. CASE UNCHANGED rtpc
  BY <1>0, <1>2 DEF InOneTurn
<1>3. ASSUME NEW q \in Requests, NEW v, rtpc' = [rtpc EXCEPT ![q] = v],
             \/ v \in {"idle", "revoke"}
             \/ v = "rotate" /\ store = "memory"
             \/ v \in {"lookup", "swap", "save", "delete"} /\ store = "repo"
      PROVE  /\ rtpc'[p] \in {"lookup", "swap", "save", "delete"} => store = "repo"
             /\ rtpc'[p] = "rotate" => store = "memory"
  BY <1>0, <1>3 DEF RefreshTypeOK, InOneTurn
<1>4. ASSUME NEW q \in Requests, Answered(q) \/ Burn(q)
      PROVE  rtpc' = [rtpc EXCEPT ![q] = "idle"] \/ rtpc' = [rtpc EXCEPT ![q] = "revoke"]
  BY <1>4 DEF Answered, Burn
<1>5. CASE Issue \/ PurgeExpired \/ (\E t \in Tokens : Expire(t)) \/ UNCHANGED refreshVars
  BY <1>2, <1>5 DEF Issue, PurgeExpired, Expire, refreshVars, requestVars
<1>6. ASSUME NEW q \in Requests, NEW t \in Tokens, RotateFind(q, t) \/ Revoke(q, t)
      PROVE  \/ rtpc' = [rtpc EXCEPT ![q] = "revoke"]
             \/ rtpc' = [rtpc EXCEPT ![q] = "rotate"] /\ store = "memory"
             \/ rtpc' = [rtpc EXCEPT ![q] = "lookup"] /\ store = "repo"
  BY <1>0, <1>6 DEF RotateFind, Revoke, RefreshTypeOK
<1>7. ASSUME NEW q \in Requests,
             \/ MemoryRotate(q) \/ RepoLookup(q) \/ RepoSwap(q) \/ RepoSave(q)
             \/ RevokeAll(q) \/ RevokeFamilies(q) \/ RequestDies(q)
             \/ \E t \in Tokens : DeleteNext(q, t)
      PROVE  \/ Answered(q) \/ Burn(q) \/ UNCHANGED rtpc
             \/ rtpc' = [rtpc EXCEPT ![q] = "revoke"]
             \/ rtpc' = [rtpc EXCEPT ![q] = "swap"] /\ store = "repo"
             \/ rtpc' = [rtpc EXCEPT ![q] = "save"] /\ store = "repo"
             \/ rtpc' = [rtpc EXCEPT ![q] = "delete"] /\ store = "repo"
  BY <1>0, <1>7 DEF MemoryRotate, RepoLookup, RepoSwap, RepoSave, RevokeAll,
     RevokeFamilies, RequestDies, DeleteNext, InOneTurn, RefreshTypeOK
<1>8. QED BY <1>2, <1>3, <1>4, <1>5, <1>6, <1>7 DEF RefreshNext

-----------------------------------------------------------------------------
\* Overlaps are never forgotten, and families keep their tokens.
LEMMA NothingForgotten ==
  ASSUME RefreshInv, [RefreshNext]_refreshVars
  PROVE  /\ store' = store /\ overlapped \subseteq overlapped'
         /\ \A t \in 1..minted : family'[t] = family[t]
<1>1. store' = store /\ overlapped \subseteq overlapped'
  BY DEF RefreshNext, refreshVars, Issue, PurgeExpired, Expire, RotateFind, Revoke, DeleteNext,
    MemoryRotate, RepoLookup, RepoSwap, RepoSave, RevokeAll, RevokeFamilies, RequestDies
<1>2. family' = family \/ \E f : family' = [family EXCEPT ![minted + 1] = f]
  BY LoudSteps, IssueEffect, MintEffect, ExchangeEffect, SwapEffect, SaveEffect DEF Quiet
<1>3. family \in [Tokens -> Tokens \union {0}] /\ minted \in 0..MaxTokens /\ MaxTokens \in Nat
  BY RefreshAssumption DEF RefreshInv, RefreshTypeOK
<1>4. \A t \in 1..minted : family'[t] = family[t]
  BY <1>2, <1>3 DEF Tokens
<1>5. QED BY <1>1, <1>4

\* The tokens that a repo loses are those a revocation has listed.
LEMMA OnlyListedGo ==
  ASSUME RefreshInv, Quiet, [RefreshNext]_refreshVars, store # "memory",
         NEW t \in Tokens, record'[t] # record[t]
  PROVE  \E q \in Requests : rtpc[q] = "delete" /\ t \in victims[q]
<1>0. RefreshTypeOK BY DEF RefreshInv
<1>1. CASE \E q \in Requests, u \in Tokens : DeleteNext(q, u)
  BY <1>0, <1>1 DEF DeleteNext, RefreshTypeOK
<1>2. CASE \E q \in Requests : RevokeFamilies(q)
  <2>1. PICK q \in Requests : RevokeFamilies(q) BY <1>2
  <2>2. CASE CondemnedBy(q) = {}
    <3>1. record' = [u \in Tokens |-> IF u \in {} THEN "none" ELSE record[u]]
      BY <2>1, <2>2 DEF RevokeFamilies
    <3>2. record'[t] = record[t] BY <3>1
    <3>3. QED BY <3>2
  <2>3. CASE CondemnedBy(q) # {}
    <3>1. record' = record BY <2>1, <2>3 DEF RevokeFamilies
    <3>2. QED BY <3>1
  <2>4. QED BY <2>2, <2>3
<1>3. CASE \E q \in Requests : MemoryRotate(q) \/ RepoSwap(q) \/ RepoSave(q)
  <2>1. PICK q \in Requests : MemoryRotate(q) \/ RepoSwap(q) \/ RepoSave(q) BY <1>3
  <2>2. CASE record' = record BY <2>2
  <2>3. CASE RepoSave(q)
    <3>1. record' = [record EXCEPT ![next[q]] = "live"] /\ next[q] \in Tokens /\ record[next[q]] = "none"
      BY <2>3, SaveEffect, RotatingHasTokens DEF RefreshInv, Rotating
    <3>2. record'[next[q]] = "live" BY <1>0, <3>1 DEF RefreshTypeOK
    <3>3. QED BY <3>1, <3>2 DEF Quiet
  <2>4. CASE Exchanges(q)
    <3>1. /\ presented[q] \in Tokens /\ next[q] \in Tokens /\ presented[q] # next[q]
          /\ record[presented[q]] = "live"
          /\ \/ record' = [record EXCEPT ![presented[q]] = "spent", ![next[q]] = "live"]
             \/ record' = [record EXCEPT ![presented[q]] = "spent"]
      BY <2>4, ExchangeEffect, SwapEffect, RotatingHasTokens DEF Exchanges, RefreshInv, Rotating
    <3>2. record'[presented[q]] = "spent" BY <1>0, <3>1 DEF RefreshTypeOK
    <3>3. QED BY <3>1, <3>2 DEF Quiet
  <2>5. QED BY <2>1, <2>2, <2>3, <2>4 DEF MemoryRotate, RepoSwap, Exchanges
<1>4. CASE Issue
  <2>1. record'[minted + 1] = "live" /\ record[minted + 1] = "none" /\ minted + 1 \in Tokens
    BY <1>0, <1>4, IssueEffect DEF RefreshTypeOK
  <2>2. QED BY <2>1 DEF Quiet
<1>5. QED
  BY <1>1, <1>2, <1>3, <1>4 DEF RefreshNext, refreshVars, tokenVars, PurgeExpired, Expire, RotateFind,
     Revoke, RepoLookup, RevokeAll, RequestDies

\* Every step keeps that a successor is saved only after its predecessor was spent.
LEMMA SpentKept ==
  ASSUME RefreshInv, [RefreshNext]_refreshVars
  PROVE  SaveFollowsSpent'
<1>0. RefreshTypeOK /\ OwnSuccessor /\ SaveFollowsSpent /\ InOneTurn /\ ListIsComplete
  BY DEF RefreshInv
<1>1. SUFFICES ASSUME NEW p \in Requests, rtpc'[p] = "save"
               PROVE  record'[presented'[p]] = "spent" \/ family'[presented'[p]] \in overlapped'
  BY DEF SaveFollowsSpent
<1>2. store # "memory"
  BY <1>1, OneTurnKept, NothingForgotten DEF InOneTurn
<1>3. ASSUME rtpc[p] = "save", presented'[p] = presented[p],
             record[presented[p]] = "spent" => record'[presented[p]] = "spent"
      PROVE  record'[presented'[p]] = "spent" \/ family'[presented'[p]] \in overlapped'
  <2>1. presented[p] \in 1..minted
    BY <1>0, <1>3 DEF OwnSuccessor, Rotating
  <2>2. QED BY <1>0, <1>3, <2>1, NothingForgotten DEF SaveFollowsSpent
<1>4. ASSUME rtpc[p] = "save" PROVE presented[p] \in Tokens /\ presented[p] # minted + 1
  <2>1. presented[p] \in 1..minted /\ presented[p] \in Tokens
    BY <1>0, <1>4, RotatingHasTokens DEF RefreshInv, OwnSuccessor, Rotating
  <2>2. QED BY <1>0, <2>1, RefreshAssumption DEF RefreshTypeOK
<1>5. CASE Quiet
  <2>1. rtpc[p] = "save" /\ presented'[p] = presented[p]
    BY <1>1, <1>5 DEF Quiet, Rotating
  <2>2. CASE record'[presented[p]] = record[presented[p]]
    BY <1>3, <2>1, <2>2
  <2>3. CASE record'[presented[p]] # record[presented[p]]
    <3>1. PICK q \in Requests : rtpc[q] = "delete" /\ presented[p] \in victims[q]
      BY <1>2, <1>4, <1>5, <2>1, <2>3, OnlyListedGo
    <3>2. family[presented[p]] \in condemned[q] /\ Saving(family[presented[p]])
      BY <1>0, <2>1, <3>1 DEF ListIsComplete, Saving, OwnSuccessor, Rotating
    <3>3. family[presented[p]] \in overlapped
      BY <1>0, <3>1, <3>2 DEF ListIsComplete
    <3>4. presented[p] \in 1..minted
      BY <1>0, <2>1 DEF OwnSuccessor, Rotating
    <3>5. QED BY <2>1, <3>3, <3>4, NothingForgotten
  <2>4. QED BY <2>2, <2>3
<1>6. CASE Issue
  BY <1>0, <1>1, <1>3, <1>4, <1>6, IssueEffect DEF RefreshTypeOK
<1>7. ASSUME NEW q \in Requests, NEW t \in Tokens, RotateFind(q, t), record[t] # "spent"
      PROVE  rtpc[p] = "save" /\ presented'[p] = presented[p] /\ record' = record
  BY <1>0, <1>1, <1>7, MintEffect DEF RefreshTypeOK
<1>8. ASSUME NEW q \in Requests, Exchanges(q)
      PROVE  record'[presented'[p]] = "spent" \/ family'[presented'[p]] \in overlapped'
  <2>1. /\ presented[q] \in Tokens /\ next[q] \in Tokens /\ record[next[q]] = "none"
    BY <1>0, <1>8, ExchangeEffect, SwapEffect, RotatingHasTokens DEF Exchanges, RefreshInv, Rotating
  <2>2. CASE RepoSwap(q)
    <3>1. /\ presented' = presented /\ record' = [record EXCEPT ![presented[q]] = "spent"]
          /\ p = q \/ rtpc[p] = "save"
      BY <1>0, <1>1, <1>8, <2>2, SwapEffect DEF RefreshTypeOK, Exchanges
    <3>2. CASE presented[p] = presented[q]
      BY <1>0, <2>1, <3>1, <3>2 DEF RefreshTypeOK
    <3>3. CASE presented[p] # presented[q]
      BY <1>0, <1>3, <3>1, <3>3 DEF RefreshTypeOK
    <3>4. QED BY <3>2, <3>3
  <2>3. CASE MemoryRotate(q) /\ presented[q] \notin expired
    <3>1. /\ p # q /\ rtpc[p] = "save" /\ presented'[p] = presented[p]
          /\ record' = [record EXCEPT ![presented[q]] = "spent", ![next[q]] = "live"]
      BY <1>0, <1>1, <1>8, <2>3, ExchangeEffect DEF RefreshTypeOK, Exchanges
    <3>2. record[presented[p]] = "spent" => record'[presented[p]] = "spent"
      BY <1>0, <1>4, <2>1, <3>1 DEF RefreshTypeOK
    <3>3. QED BY <1>3, <3>1, <3>2
  <2>4. QED BY <1>8, <2>2, <2>3 DEF Exchanges
<1>9. ASSUME NEW q \in Requests, RepoSave(q)
      PROVE  record'[presented'[p]] = "spent" \/ family'[presented'[p]] \in overlapped'
  <2>1. p # q /\ rtpc[p] = "save" /\ presented'[p] = presented[p]
    BY <1>0, <1>1, <1>9, SaveEffect DEF RefreshTypeOK
  <2>2. record[next[q]] = "none" /\ record' = [record EXCEPT ![next[q]] = "live"]
    BY <1>0, <1>9, SaveEffect DEF OwnSuccessor, Rotating
  <2>3. QED BY <1>0, <1>3, <1>4, <2>1, <2>2 DEF RefreshTypeOK
<1>10. QED
  BY <1>3, <1>5, <1>6, <1>7, <1>8, <1>9, LoudSteps DEF Exchanges

\* A revocation that deletes did so before, with the same families and the same
\* list but for what is gone, or has just made its list.
LEMMA DeletingSteps ==
  ASSUME RefreshInv, [RefreshNext]_refreshVars, NEW p \in Requests, rtpc'[p] = "delete"
  PROVE  \/ /\ rtpc[p] = "delete" /\ condemned'[p] = condemned[p] /\ victims'[p] \subseteq victims[p]
            /\ \A t \in victims[p] \ victims'[p] : t \in Tokens => record'[t] = "none"
         \/ RevokeFamilies(p) /\ CondemnedBy(p) # {} /\ store # "memory"
<1>0. RefreshTypeOK BY DEF RefreshInv
<1>1. ASSUME NEW q \in Requests, Answered(q) \/ Burn(q)
      PROVE  rtpc[p] = "delete" /\ condemned'[p] = condemned[p] /\ victims'[p] = victims[p]
  BY <1>0, <1>1 DEF Answered, Burn, RefreshTypeOK
<1>2. CASE UNCHANGED requestVars
  BY <1>2 DEF requestVars
<1>3. CASE \E q \in Requests, t \in Tokens : RotateFind(q, t) \/ Revoke(q, t)
  BY <1>0, <1>3 DEF RotateFind, Revoke, RefreshTypeOK
<1>4. ASSUME NEW q \in Requests, NEW t \in Tokens, DeleteNext(q, t), ~Answered(q)
      PROVE  \/ /\ rtpc[p] = "delete" /\ condemned'[p] = condemned[p] /\ victims'[p] \subseteq victims[p]
                /\ \A u \in victims[p] \ victims'[p] : u \in Tokens => record'[u] = "none"
  <2>1. /\ UNCHANGED <<rtpc, condemned>> /\ victims' = [victims EXCEPT ![q] = @ \ {t}]
        /\ record' = [record EXCEPT ![t] = "none"]
    BY <1>4 DEF DeleteNext
  <2>2. \A u \in victims[p] \ victims'[p] : u = t
    BY <1>0, <2>1 DEF RefreshTypeOK
  <2>3. record'[t] = "none"
    BY <1>0, <2>1 DEF RefreshTypeOK
  <2>4. QED BY <1>0, <2>1, <2>2, <2>3 DEF RefreshTypeOK
<1>5. CASE \E q \in Requests : RevokeFamilies(q) /\ ~Answered(q)
  BY <1>0, <1>5 DEF RevokeFamilies, RefreshTypeOK
<1>6. CASE \E q \in Requests : RevokeAll(q) \/ RepoLookup(q) \/ RepoSwap(q)
  BY <1>0, <1>1, <1>6 DEF RevokeAll, RepoLookup, RepoSwap, RefreshTypeOK
<1>7. QED
  BY <1>1, <1>2, <1>3, <1>4, <1>5, <1>6 DEF RefreshNext, refreshVars, Issue, PurgeExpired, Expire,
     MemoryRotate, RepoSave, RequestDies

\* Every step keeps the lists of the revocations complete.
LEMMA ListKept ==
  ASSUME RefreshInv, [RefreshNext]_refreshVars
  PROVE  ListIsComplete'
<1>0. RefreshTypeOK /\ Minted /\ OwnSuccessor /\ InOneTurn /\ ListIsComplete
  BY DEF RefreshInv
<1>1. SUFFICES ASSUME NEW p \in Requests, rtpc'[p] = "delete"
               PROVE  /\ \A t \in victims'[p] : t \in 1..minted' /\ family'[t] \in condemned'[p]
                      /\ \A f \in condemned'[p] \ overlapped' :
                           /\ ~Saving(f)'
                           /\ \A t \in Tokens : record'[t] = "live" /\ family'[t] = f => t \in victims'[p]
  BY DEF ListIsComplete
<1>a. /\ 1..minted \subseteq 1..minted' /\ 1..minted \subseteq Tokens
  <2>1. minted <= minted' /\ minted \in Nat /\ minted' \in Nat
    BY <1>0, LoudSteps, IssueEffect, MintEffect, ExchangeEffect, SwapEffect, SaveEffect, RefreshAssumption
       DEF Quiet, RefreshTypeOK
  <2>2. QED BY <1>0, <2>1, RefreshAssumption DEF RefreshTypeOK, Tokens
<1>2. CASE /\ rtpc[p] = "delete" /\ condemned'[p] = condemned[p] /\ victims'[p] \subseteq victims[p]
           /\ \A t \in victims[p] \ victims'[p] : t \in Tokens => record'[t] = "none"
  <2>1. \A t \in victims'[p] : t \in 1..minted' /\ family'[t] \in condemned'[p]
    BY <1>0, <1>2, <1>a, NothingForgotten DEF ListIsComplete
  <2>2. ASSUME NEW f \in condemned'[p] \ overlapped'
        PROVE  /\ f \in 1..minted /\ f \in condemned[p] \ overlapped /\ ~Saving(f)
               /\ \A t \in Tokens : record[t] = "live" /\ family[t] = f => t \in victims[p]
    BY <1>0, <1>2, <2>2, NothingForgotten DEF ListIsComplete, Minted
  <2>3. ASSUME NEW f \in condemned'[p] \ overlapped', Saving(f)'
        PROVE  FALSE
    <3>1. PICK r \in Requests : rtpc'[r] = "save" /\ family'[next'[r]] = f
      BY <2>3 DEF Saving
    <3>2. CASE \E q \in Requests : RepoSwap(q) /\ Exchangeable(presented[q])
      <4>1. PICK q \in Requests : RepoSwap(q) /\ Exchangeable(presented[q]) BY <3>2
      <4>2. UNCHANGED <<family, next>> /\ (r = q \/ rtpc[r] = "save")
        BY <1>0, <3>1, <4>1, SwapEffect DEF RefreshTypeOK
      <4>3. r = q BY <2>2, <2>3, <3>1, <4>2 DEF Saving
      <4>4. family[presented[q]] = f
        BY <1>0, <3>1, <4>1, <4>2, <4>3, SwapEffect DEF OwnSuccessor, Rotating
      <4>5. f \in BeingDeleted
        BY <1>2, <2>2, <2>3 DEF BeingDeleted
      <4>6. QED BY <2>3, <4>1, <4>4, <4>5, SwapEffect
    <3>3. CASE rtpc[r] = "save" /\ next'[r] = next[r]
      <4>1. next[r] \in 1..minted
        BY <1>0, <3>3 DEF OwnSuccessor, Rotating
      <4>2. QED BY <2>2, <2>3, <3>1, <3>3, <4>1, NothingForgotten DEF Saving
    <3>4. CASE ~(rtpc[r] = "save" /\ next'[r] = next[r])
      <4>1. CASE Quiet BY <3>1, <3>4, <4>1 DEF Quiet, Rotating
      <4>2. CASE Issue BY <3>1, <3>4, <4>2, IssueEffect
      <4>3. CASE \E q \in Requests, t \in Tokens : RotateFind(q, t) /\ record[t] # "spent"
        BY <1>0, <3>1, <3>4, <4>3, MintEffect DEF RefreshTypeOK
      <4>4. ASSUME NEW q \in Requests,
                   \/ MemoryRotate(q) /\ Exchangeable(presented[q]) /\ presented[q] \notin expired
                   \/ RepoSave(q)
            PROVE  FALSE
        BY <1>0, <3>1, <3>4, <4>4, ExchangeEffect, SaveEffect DEF RefreshTypeOK
      <4>5. QED BY <3>2, <4>1, <4>2, <4>3, <4>4, LoudSteps, <3>1, <3>4, <2>3
    <3>5. QED BY <3>3, <3>4
  <2>4. ASSUME NEW f \in condemned'[p] \ overlapped', NEW t \in Tokens, record'[t] = "live", family'[t] = f
        PROVE  t \in victims'[p]
    <3>1. SUFFICES t \in victims[p] BY <1>2, <2>4
    <3>2. SUFFICES record[t] = "live" /\ family[t] = f BY <2>2, <2>4
    <3>3. store # "memory" BY <1>0, <1>2 DEF InOneTurn
    <3>4. CASE Quiet BY <2>4, <3>4 DEF Quiet
    <3>5. CASE Issue
      <4>1. t # minted + 1
        BY <1>0, <2>2, <2>4, <3>5, IssueEffect, RefreshAssumption DEF RefreshTypeOK
      <4>2. QED BY <1>0, <2>4, <3>5, <4>1, IssueEffect DEF RefreshTypeOK
    <3>6. ASSUME NEW q \in Requests, NEW u \in Tokens, RotateFind(q, u), record[u] # "spent"
          PROVE  record[t] = "live" /\ family[t] = f
      BY <1>0, <2>4, <3>6, MintEffect DEF RefreshTypeOK
    <3>7. ASSUME NEW q \in Requests, RepoSwap(q), Exchangeable(presented[q])
          PROVE  record[t] = "live" /\ family[t] = f
      BY <1>0, <2>4, <3>7, SwapEffect DEF RefreshTypeOK
    <3>8. ASSUME NEW q \in Requests, RepoSave(q)
          PROVE  record[t] = "live" /\ family[t] = f
      <4>1. /\ rtpc[q] = "save" /\ record' = [record EXCEPT ![next[q]] = "live"] /\ family' = family
        BY <3>8, SaveEffect
      <4>2. t # next[q] BY <2>2, <2>4, <4>1 DEF Saving
      <4>3. QED BY <1>0, <2>4, <4>1, <4>2 DEF RefreshTypeOK
    <3>a. \A q \in Requests : ~MemoryRotate(q)
      BY <1>0, <3>3 DEF MemoryRotate, InOneTurn
    <3>9. QED BY <3>4, <3>5, <3>6, <3>7, <3>8, <3>a, LoudSteps
  <2>5. QED BY <2>1, <2>3, <2>4
<1>3. CASE RevokeFamilies(p) /\ CondemnedBy(p) # {} /\ store # "memory"
  <2>1. /\ victims'[p] = CondemnedBy(p) /\ rtpc' = [rtpc EXCEPT ![p] = "delete"]
        /\ overlapped' = overlapped \union (condemned[p] \intersect HalfRotated)
        /\ UNCHANGED <<minted, family, record, presented, next, condemned>>
    BY <1>0, <1>3 DEF RevokeFamilies, RefreshTypeOK
  <2>2. \A t \in CondemnedBy(p) : t \in 1..minted /\ family[t] \in condemned[p]
    BY <1>0, RefreshAssumption DEF CondemnedBy, Minted, RefreshTypeOK, Tokens
  <2>3. ASSUME NEW f \in condemned[p] \ overlapped', Saving(f)'
        PROVE  FALSE
    <3>1. PICK r \in Requests : rtpc'[r] = "save" /\ family[next[r]] = f
      BY <2>1, <2>3 DEF Saving
    <3>2. rtpc[r] = "save" BY <1>0, <2>1, <3>1 DEF RefreshTypeOK
    <3>3. family[presented[r]] = f BY <1>0, <3>1, <3>2 DEF OwnSuccessor, Rotating
    <3>4. f \in HalfRotated BY <3>2, <3>3 DEF HalfRotated
    <3>5. QED BY <2>1, <2>3, <3>4
  <2>4. QED BY <2>1, <2>2, <2>3 DEF CondemnedBy
<1>4. QED BY <1>1, <1>2, <1>3, DeletingSteps

\* Every step keeps revoked families without anything that can be live.
LEMMA GoneKept ==
  ASSUME RefreshInv, [RefreshNext]_refreshVars
  PROVE  RevokedIsGone'
<1>0. RefreshTypeOK /\ Minted /\ OwnSuccessor /\ InOneTurn /\ SaveFollowsSpent
      /\ ListIsComplete /\ RevokedIsGone
  BY DEF RefreshInv
<1>1. SUFFICES ASSUME NEW f \in revoked' \ overlapped', NEW t \in Tokens, family'[t] = f, CanBeLive(t)'
               PROVE  FALSE
  BY DEF RevokedIsGone
<1>2. f \notin overlapped BY <1>1, NothingForgotten
<1>3. ASSUME NEW q \in Requests, Exchanges(q) PROVE FALSE
  <2>1. /\ UNCHANGED <<family, revoked>> /\ presented[q] \in Tokens /\ CanBeLive(presented[q])
        /\ family[next[q]] = family[presented[q]]
        /\ t = next[q] \/ CanBeLive(t)
    BY <1>1, <1>3, ExchangeReplaces
  <2>2. QED BY <1>0, <1>1, <1>2, <2>1 DEF RevokedIsGone
<1>4. CASE Issue
  <2>1. revoked' = revoked /\ revoked \subseteq 1..minted /\ minted + 1 \notin 1..minted
    BY <1>0, <1>4, IssueEffect, RefreshAssumption DEF Minted, RefreshTypeOK
  <2>2. \A q \in Requests : ~Exchanges(q)
    BY <1>3
  <2>3. (CanBeLive(t) /\ family'[t] = family[t]) \/ (t = minted + 1 /\ family'[t] = t)
    BY <1>1, <2>2, PossibleElsewhere
  <2>4. QED BY <1>0, <1>1, <1>2, <2>1, <2>3 DEF RevokedIsGone
<1>5. CASE ~Issue
  <2>1. CanBeLive(t) /\ family[t] = f
    BY <1>1, <1>3, <1>5, PossibleElsewhere
  <2>2. f \notin revoked BY <1>0, <1>2, <2>1 DEF RevokedIsGone
  <2>3. PICK q \in Requests : /\ f \in condemned[q]
                              /\ \/ RevokeFamilies(q) /\ (store = "memory" \/ CondemnedBy(q) = {})
                                 \/ \E u \in Tokens : DeleteNext(q, u) /\ victims[q] = {u}
    <3>1. revoked' # revoked BY <1>1, <2>2
    <3>2. PICK q \in Requests : \/ RevokeFamilies(q) /\ (store = "memory" \/ CondemnedBy(q) = {})
                                \/ \E u \in Tokens : DeleteNext(q, u) /\ victims[q] = {u}
      BY <3>1 DEF RefreshNext, refreshVars, Issue, PurgeExpired, Expire, RotateFind, Revoke, DeleteNext,
        MemoryRotate, RepoLookup, RepoSwap, RepoSave, RevokeAll, RevokeFamilies, RequestDies
    <3>3. revoked' = revoked \union condemned[q]
      BY <3>2 DEF RevokeFamilies, DeleteNext
    <3>4. QED BY <1>1, <2>2, <3>2, <3>3
  <2>4. CASE RevokeFamilies(q) /\ (store = "memory" \/ CondemnedBy(q) = {})
    <3>1. /\ record' = [u \in Tokens |-> IF u \in CondemnedBy(q) THEN "none" ELSE record[u]]
          /\ rtpc' = [rtpc EXCEPT ![q] = "idle"] /\ next' = [next EXCEPT ![q] = 0] /\ store' = store
      BY <2>4 DEF RevokeFamilies, Answered
    <3>2. record'[t] # "live"
      BY <2>1, <2>3, <3>1 DEF CondemnedBy
    <3>3. PICK p \in Requests : rtpc'[p] = "save" /\ next'[p] = t
      BY <1>1, <3>2 DEF CanBeLive
    <3>4. rtpc[p] = "save" /\ next[p] = t
      BY <1>0, <3>1, <3>3 DEF RefreshTypeOK
    <3>5. CondemnedBy(q) = {}
      BY <1>0, <2>4, <3>4 DEF InOneTurn
    <3>6. family[presented[p]] = f /\ presented[p] \in Tokens
      BY <1>0, <2>1, <3>4, RotatingHasTokens DEF RefreshInv, Rotating
    <3>7. record[presented[p]] = "spent"
      BY <1>0, <1>2, <3>4, <3>6 DEF SaveFollowsSpent
    <3>8. presented[p] \in CondemnedBy(q)
      BY <2>3, <3>6, <3>7 DEF CondemnedBy
    <3>9. QED BY <3>5, <3>8
  <2>5. CASE \E u \in Tokens : DeleteNext(q, u) /\ victims[q] = {u}
    <3>1. PICK u \in Tokens : DeleteNext(q, u) /\ victims[q] = {u} BY <2>5
    <3>2. /\ rtpc[q] = "delete" /\ record' = [record EXCEPT ![u] = "none"]
          /\ rtpc' = [rtpc EXCEPT ![q] = "idle"] /\ next' = [next EXCEPT ![q] = 0]
      BY <3>1 DEF DeleteNext, Answered
    <3>3. ~Saving(f) /\ (record[t] = "live" => t = u)
      BY <1>0, <1>2, <2>1, <2>3, <3>1, <3>2 DEF ListIsComplete
    <3>4. record'[t] # "live"
      BY <1>0, <3>2, <3>3 DEF RefreshTypeOK
    <3>5. PICK p \in Requests : rtpc'[p] = "save" /\ next'[p] = t
      BY <1>1, <3>4 DEF CanBeLive
    <3>6. rtpc[p] = "save" /\ next[p] = t
      BY <1>0, <3>2, <3>5 DEF RefreshTypeOK
    <3>7. QED BY <2>1, <3>3, <3>6 DEF Saving
  <2>6. QED BY <2>3, <2>4, <2>5
<1>6. QED BY <1>4, <1>5

-----------------------------------------------------------------------------
\* The invariant is inductive.
THEOREM RefreshInvariant == RefreshSpec => []RefreshInv
<1>1. RefreshInit => RefreshInv
  <2>1. ASSUME RefreshInit PROVE RefreshInv
    <3>1. RefreshTypeOK BY <2>1, RefreshAssumption DEF RefreshInit, RefreshTypeOK, Tokens, Rotating
    <3>2. Minted /\ OwnSuccessor /\ InOneTurn /\ SaveFollowsSpent /\ ListIsComplete
      BY <2>1 DEF RefreshInit, Minted, OwnSuccessor, InOneTurn, SaveFollowsSpent, ListIsComplete, Rotating
    <3>3. \A t \in Tokens : ~CanBeLive(t)
      BY <2>1 DEF RefreshInit, CanBeLive
    <3>4. QED BY <3>1, <3>2, <3>3 DEF RefreshInv, OnePossible, RevokedIsGone
  <2>2. QED BY <2>1
<1>2. RefreshInv /\ [RefreshNext]_refreshVars => RefreshInv'
  BY TypesKept, MintedKept, SuccessorsKept, OneKept, OneTurnKept, SpentKept, ListKept, GoneKept
     DEF RefreshInv
<1>3. QED BY <1>1, <1>2, PTL DEF RefreshSpec

\* However many requests present the tokens of a family, over either store, and
\* whatever revokes it meanwhile, one of its tokens at most can be exchanged.
THEOREM FamiliesNeverFork == RefreshSpec => []OneLivePerFamily
<1>1. RefreshInv => OneLivePerFamily
  BY DEF RefreshInv, OnePossible, CanBeLive, OneLivePerFamily
<1>2. QED BY <1>1, RefreshInvariant, PTL

\* A family that was revoked has nothing left to exchange, ever after, unless a
\* rotation and the revocation overlapped in the repo store.
THEOREM RevocationsStick == RefreshSpec => []LogoutSticks
<1>1. RefreshInv => LogoutSticks
  BY DEF RefreshInv, RevokedIsGone, CanBeLive, LogoutSticks, Of
<1>2. QED BY <1>1, RefreshInvariant, PTL

-----------------------------------------------------------------------------
(* Sessions.  A record carries the time of its login wherever it is copied;  *)
(* a regeneration that has yet to retire a session left a later one of its   *)
(* chain behind, so that no circle of retirements can end a login.           *)

\* A call in one of these states has a session in hand.
Holding == {"drop", "touch", "resave", "create", "retire", "active"}

\* What is stored, read, listed or logged out has been minted, and carries its login.
MintedSessions ==
  /\ \A s \in SessionIds : sessions[s].live => s \in 1..created /\ sessions[s].auth = chain[s].login
  /\ \A s \in 1..created : chain[s].root \in 1..created
  /\ loggedOut \subseteq 1..created
  /\ \A c \in Callers : spc[c] \in Holding => subjectOf[c] \in 1..created

\* What a call keeps of the record it read.
KeepsLogin ==
  \A c \in Callers :
    /\ spc[c] \in {"touch", "resave", "create"} => readAs[c].auth = chain[subjectOf[c]].login
    /\ spc[c] \in {"touch", "resave", "active"} => readAs[c].at < chain[subjectOf[c]].login + Absolute

\* The chain of s was ended, or goes on in a session that is newer than n.
GoesOnAfter(s, n) ==
  \/ chain[s].root \in ended
  \/ \E t \in 1..created : t > n /\ sessions[t].live /\ chain[t].root = chain[s].root

RetiredGoesOn == \A c \in Callers : spc[c] = "retire" => GoesOnAfter(subjectOf[c], subjectOf[c])
ListedIsEnded == \A c \in Callers : \A s \in doomed[c] : s \in 1..created /\ chain[s].root \in ended

SessionInv ==
  /\ SessionTypeOK /\ MintedSessions /\ KeepsLogin /\ RetiredGoesOn /\ ListedIsEnded
  /\ ChainAlive /\ LoggedOutStaysOut

\* What Kept keeps is a record, with the fields that are still needed.
LEMMA KeptFields ==
  ASSUME NEW state, NEW r \in Records, MaxClock \in Nat
  PROVE  /\ Kept(state, r) \in Records
         /\ state \in {"touch", "resave", "create"} => Kept(state, r).auth = r.auth
         /\ state \in {"touch", "resave", "active"} => Kept(state, r).at = r.at
<1>1. r.auth \in Times /\ r.at \in Times /\ 0 \in Times
  BY DEF Records, Times
<1> DEFINE a == IF state \in {"touch", "resave", "create"} THEN r.auth ELSE 0
           t == IF state \in {"touch", "resave", "active"} THEN r.at ELSE 0
<1>2. a \in Times /\ t \in Times
  BY <1>1
<1>3. NoSession \in Records
  BY <1>1 DEF NoSession, Records
<1>4. PICK y \in Records : y = NoSession
  BY <1>3
<1>5. Kept(state, r) = [y EXCEPT !.auth = a, !.at = t]
  BY <1>4 DEF Kept
<1>6. a = r.auth \/ state \notin {"touch", "resave", "create"}
  OBVIOUS
<1>7. t = r.at \/ state \notin {"touch", "resave", "active"}
  OBVIOUS
<1> HIDE DEF a, t
<1>8. Kept(state, r) \in Records /\ Kept(state, r).auth = a /\ Kept(state, r).at = t
  BY <1>2, <1>5 DEF Records
<1> QED
  BY <1>6, <1>7, <1>8

\* Deleting leaves records, and the others as they are.
LEMMA DeletedFacts ==
  ASSUME SessionTypeOK, MaxClock \in Nat, NEW S
  PROVE  /\ Deleted(S) \in [SessionIds -> Records]
         /\ \A s \in SessionIds : s \notin S => Deleted(S)[s] = sessions[s]
         /\ \A s \in SessionIds : s \in S => ~Deleted(S)[s].live
BY DEF SessionTypeOK, Deleted, NoSession, Records, Times

\* A call that goes on, or returns, keeps the types.
LEMMA GoesTypes ==
  ASSUME SessionTypeOK, NEW c \in Callers, NEW st \in Busy \union {"idle", "active"},
         NEW s \in SessionIds \union {0}, NEW r \in Records, Goes(c, st, s, r)
  PROVE  /\ spc' \in [Callers -> Busy \union {"idle", "active"}]
         /\ subjectOf' \in [Callers -> SessionIds \union {0}]
         /\ readAs' \in [Callers -> Records]
         /\ spc'[c] = st /\ subjectOf'[c] = s /\ readAs'[c] = Kept(st, r)
         /\ \A d \in Callers \ {c} : spc'[d] = spc[d] /\ subjectOf'[d] = subjectOf[d] /\ readAs'[d] = readAs[d]
BY KeptFields, SessionAssumption DEF SessionTypeOK, Goes

\* So does one that returns.
LEMMA ReturnTypes ==
  ASSUME SessionTypeOK, NEW c \in Callers, Returns(c)
  PROVE  /\ spc' \in [Callers -> Busy \union {"idle", "active"}]
         /\ subjectOf' \in [Callers -> SessionIds \union {0}]
         /\ readAs' \in [Callers -> Records]
         /\ spc'[c] = "idle"
         /\ \A d \in Callers \ {c} : spc'[d] = spc[d] /\ subjectOf'[d] = subjectOf[d] /\ readAs'[d] = readAs[d]
<1>1. NoSession \in Records
  BY SessionAssumption DEF NoSession, Records, Times
<1> QED
  BY <1>1, GoesTypes, SessionAssumption DEF Returns

\* The variables of the calls have their types.
CallTypes ==
  /\ spc \in [Callers -> Busy \union {"idle", "active"}]
  /\ subjectOf \in [Callers -> SessionIds \union {0}]
  /\ readAs \in [Callers -> Records]
  /\ doomed \in [Callers -> SUBSET SessionIds]

\* Every step of a call keeps the types of the calls.
LEMMA CallsTyped == SessionInv /\ [SessionNext]_sessionVars => CallTypes'
<1> SUFFICES ASSUME SessionInv, [SessionNext]_sessionVars PROVE CallTypes'
  OBVIOUS
<1>t. SessionTypeOK /\ CallTypes /\ clock \in Times /\ NoSession \in Records
  BY SessionAssumption DEF SessionInv, SessionTypeOK, CallTypes, NoSession, Records, Times
<1>r. \A s \in SessionIds : [sessions[s] EXCEPT !.at = clock] \in Records
  <2> TAKE s \in SessionIds
  <2>1. PICK r \in Records : r = sessions[s]
    BY <1>t DEF SessionTypeOK
  <2>2. [r EXCEPT !.at = clock] \in Records
    BY <1>t DEF Records
  <2> QED
    BY <2>1, <2>2
<1>c. \A c \in Callers : subjectOf[c] \in SessionIds \union {0} /\ readAs[c] \in Records
  BY <1>t DEF CallTypes
<1>1. CASE UNCHANGED callVarsS
  BY <1>t, <1>1 DEF CallTypes, callVarsS
<1>2. ASSUME NEW c \in Callers, NEW s \in SessionIds, Resolve(c, s) \/ Regenerate(c, s) PROVE CallTypes'
  BY <1>2, <1>t, <1>r, GoesTypes DEF Resolve, Regenerate, Busy, CallTypes
<1>3. ASSUME NEW c \in Callers, DropExpired(c) \/ Answer(c) \/ Retire(c) PROVE CallTypes'
  BY <1>3, <1>t, ReturnTypes DEF DropExpired, Answer, Retire, CallTypes
<1>4. ASSUME NEW c \in Callers, TouchInMemory(c) \/ TouchFind(c) \/ TouchSave(c) PROVE CallTypes'
  BY <1>4, <1>t, <1>c, GoesTypes DEF TouchInMemory, TouchFind, TouchSave, Busy, CallTypes
<1>5. ASSUME NEW c \in Callers, CreateNext(c) PROVE CallTypes'
  BY <1>5, <1>t, <1>c, GoesTypes DEF CreateNext, Busy, CallTypes
<1>6. ASSUME NEW c \in Callers, CallDies(c) PROVE CallTypes'
  BY <1>6, <1>t, ReturnTypes DEF CallDies, CallTypes
<1>7. ASSUME NEW c \in Callers, RevokeEverywhere(c) PROVE CallTypes'
  BY <1>t, <1>7 DEF RevokeEverywhere, CallTypes, callVarsS, Busy
<1>8. ASSUME NEW c \in Callers, NEW s \in SessionIds, DeleteListed(c, s) PROVE CallTypes'
  BY <1>t, <1>8 DEF DeleteListed, CallTypes, Busy
<1>9. CASE Login \/ PurgeSessions \/ Tick \/ \E s \in SessionIds : Revoke1(s)
  BY <1>9, <1>1 DEF Login, PurgeSessions, Tick, Revoke1
<1> QED
  BY <1>1, <1>2, <1>3, <1>4, <1>5, <1>6, <1>7, <1>8, <1>9 DEF SessionNext, sessionVars

\* What is stored under the ids stays typed, and as it is but for what a step is about.
LEMMA StoreTyped ==
  SessionInv /\ [SessionNext]_sessionVars =>
    sessions' \in [SessionIds -> Records] /\ created' \in 0..MaxSessions
<1> SUFFICES ASSUME SessionInv, [SessionNext]_sessionVars
             PROVE  sessions' \in [SessionIds -> Records] /\ created' \in 0..MaxSessions
  OBVIOUS
<1>t. SessionTypeOK /\ CallTypes /\ clock \in Times /\ created \in Nat /\ MaxSessions \in Nat
  BY SessionAssumption DEF SessionInv, SessionTypeOK, CallTypes
<1>r. \A a \in Times : NewRecord(a) \in Records
  <2> TAKE a \in Times
  <2>1. clock \in Times /\ 0 \in Times
    BY <1>t, SessionAssumption DEF Times
  <2> QED
    BY <2>1 DEF NewRecord, Records
<1>c. \A c \in Callers : readAs[c].auth \in Times /\ readAs[c].at \in Times
  BY <1>t DEF CallTypes, Records
<1>1. CASE UNCHANGED <<sessions, created>>
  BY <1>t, <1>1 DEF SessionTypeOK
<1>2. ASSUME NEW S, sessions' = Deleted(S), created' = created
      PROVE  sessions' \in [SessionIds -> Records] /\ created' \in 0..MaxSessions
  BY <1>t, <1>2, DeletedFacts, SessionAssumption DEF SessionTypeOK
<1>3. ASSUME NEW a \in Times, created < MaxSessions, created' = created + 1,
             sessions' = [sessions EXCEPT ![created + 1] = NewRecord(a)]
      PROVE  sessions' \in [SessionIds -> Records] /\ created' \in 0..MaxSessions
  <2>1. created + 1 \in 0..MaxSessions
    BY <1>t, <1>3
  <2>2. sessions \in [SessionIds -> Records] /\ NewRecord(a) \in Records
    BY <1>t, <1>r DEF SessionTypeOK
  <2> QED
    BY <2>1, <2>2, <1>3
<1>4. ASSUME NEW c \in Callers, TouchInMemory(c) \/ TouchSave(c)
      PROVE  sessions' \in [SessionIds -> Records] /\ created' \in 0..MaxSessions
  <2> DEFINE s == subjectOf[c]
  <2>0. s \in SessionIds
    BY <1>4, <1>t DEF TouchInMemory, TouchSave, Holding, SessionInv, MintedSessions, SessionTypeOK, SessionIds
  <2>1. Touched(s, readAs[c].at) \in Records
    BY <1>t, <2>0, <1>c DEF SessionTypeOK, Records, Touched
  <2>2. [live |-> TRUE, auth |-> readAs[c].auth, seen |-> readAs[c].at, at |-> 0] \in Records
    BY <1>c, SessionAssumption DEF Records, Times
  <2>3. PICK x \in Records : sessions' = [sessions EXCEPT ![s] = x]
    BY <1>4, <2>1, <2>2 DEF TouchInMemory, TouchSave
  <2>4. created' = created
    BY <1>4 DEF TouchInMemory, TouchSave
  <2> HIDE DEF s
  <2> QED
    BY <1>t, <2>3, <2>4 DEF SessionTypeOK
<1>5. CASE Login \/ \E c \in Callers : CreateNext(c)
  BY <1>t, <1>c, <1>3, <1>5 DEF Login, CreateNext, RenewedAuth
<1>6. CASE \/ PurgeSessions \/ \E s \in SessionIds : Revoke1(s)
           \/ \E c \in Callers : \/ \E s \in SessionIds : DeleteListed(c, s)
                                 \/ DropExpired(c) \/ Retire(c)
  BY <1>2, <1>6 DEF PurgeSessions, Revoke1, DeleteListed, DropExpired, Retire
<1>7. ASSUME NEW c \in Callers, RevokeEverywhere(c)
      PROVE  sessions' \in [SessionIds -> Records] /\ created' \in 0..MaxSessions
  BY <1>1, <1>2, <1>7 DEF RevokeEverywhere
<1>8. CASE \/ Tick \/ UNCHANGED sessionVars
           \/ \E c \in Callers : \/ \E s \in SessionIds : Resolve(c, s) \/ Regenerate(c, s)
                                 \/ TouchFind(c) \/ Answer(c) \/ CallDies(c)
  BY <1>1, <1>8 DEF Tick, sessionVars, Resolve, Regenerate, TouchFind, Answer, CallDies
<1> QED
  BY <1>4, <1>5, <1>6, <1>7, <1>8 DEF SessionNext

\* What all steps but a login and the creation of a next session have in common:
\* no id is minted, and what they delete is ended, or retired by a regeneration.
NothingMinted ==
  /\ created' = created /\ chain' = chain /\ ended \subseteq ended' /\ ended' \subseteq 1..created \union ended
  /\ broughtBack \subseteq broughtBack' /\ broughtBack' \subseteq SessionIds
OnlyEndedGo ==
  \A s \in SessionIds : sessions[s].live /\ ~sessions'[s].live =>
    chain[s].root \in ended' \/ \E c \in Callers : Retire(c) /\ s = subjectOf[c]
OnlyReadComeBack ==
  \A s \in SessionIds : sessions'[s].live =>
    \/ sessions[s].live /\ sessions'[s].auth = sessions[s].auth
    \/ /\ \E c \in Callers : /\ spc[c] = "resave" /\ subjectOf[c] = s
                             /\ sessions'[s].auth = readAs[c].auth
       /\ s \in loggedOut => s \in broughtBack'
OnlyGoneLogOut == \A s \in loggedOut' : s \in loggedOut \/ (s \in 1..created /\ ~sessions'[s].live)
Unminting == NothingMinted /\ OnlyEndedGo /\ OnlyReadComeBack /\ OnlyGoneLogOut

\* Deletions of sessions whose chain is ended.
LEMMA DeletesEnded ==
  ASSUME SessionInv, NEW S \in SUBSET (1..created), sessions' = Deleted(S), created' = created, chain' = chain,
         ended' = ended \union {chain[s].root : s \in S} \/ (ended' = ended /\ \A s \in S : chain[s].root \in ended),
         broughtBack' = broughtBack, loggedOut' = loggedOut \/ loggedOut' = loggedOut \union S
  PROVE  Unminting
<1>1. SessionTypeOK /\ MintedSessions
  BY DEF SessionInv
<1>2. /\ \A s \in SessionIds : s \notin S => sessions'[s] = sessions[s]
      /\ \A s \in SessionIds : s \in S => ~sessions'[s].live
  BY <1>1, DeletedFacts, SessionAssumption
<1>3. broughtBack' \subseteq SessionIds /\ S \subseteq SessionIds
  BY <1>1, SessionAssumption DEF SessionTypeOK, SessionIds
<1>4. \A s \in S : chain[s].root \in 1..created /\ chain[s].root \in ended'
  BY <1>1 DEF MintedSessions
<1>5. NothingMinted
  BY <1>3, <1>4 DEF NothingMinted
<1>6. OnlyEndedGo
  BY <1>2, <1>4 DEF OnlyEndedGo
<1>7. OnlyReadComeBack
  BY <1>2 DEF OnlyReadComeBack
<1>8. OnlyGoneLogOut
  BY <1>2, <1>3 DEF OnlyGoneLogOut
<1> QED
  BY <1>5, <1>6, <1>7, <1>8 DEF Unminting

\* Steps that leave the sessions, or all but the times of one, as they are.
LEMMA StepsUnminting ==
  ASSUME SessionInv, [SessionNext]_sessionVars, ~Login, \A c \in Callers : ~CreateNext(c)
  PROVE  Unminting
<1>t. SessionTypeOK /\ MintedSessions /\ ListedIsEnded
  BY DEF SessionInv
<1>i. 1..created \subseteq SessionIds /\ broughtBack \subseteq SessionIds
  BY <1>t, SessionAssumption DEF SessionTypeOK, SessionIds
<1>s. \A c \in Callers : spc[c] \in Holding => subjectOf[c] \in 1..created
  BY <1>t DEF MintedSessions
<1>1. CASE UNCHANGED <<sessions, created, chain, loggedOut, broughtBack>> /\ ended' = ended
  BY <1>1, <1>i DEF NothingMinted, OnlyEndedGo, OnlyReadComeBack, OnlyGoneLogOut, Unminting
<1>2. ASSUME NEW c \in Callers, RevokeEverywhere(c) PROVE Unminting
  <2> DEFINE there == {s \in SessionIds : sessions[s].live}
  <2>1. there \in SUBSET (1..created)
    BY <1>t DEF MintedSessions
  <2>2. \A s \in there : chain[s].root \in 1..created
    BY <2>1, <1>t DEF MintedSessions
  <2>3. CASE sessionStore = "memory"
    BY <1>2, <2>1, <2>3, DeletesEnded DEF RevokeEverywhere
  <2>4. CASE sessionStore # "memory"
    BY <1>2, <2>2, <2>4, <1>i DEF RevokeEverywhere, Unminting, NothingMinted, OnlyEndedGo, OnlyReadComeBack, OnlyGoneLogOut
  <2> QED
    BY <2>3, <2>4
<1>3. CASE PurgeSessions
  <2> DEFINE old == {s \in SessionIds : sessions[s].live /\ sessions[s].auth + Absolute <= clock}
  <2>1. old \in SUBSET (1..created)
    BY <1>t DEF MintedSessions
  <2> QED
    BY <1>3, <2>1, DeletesEnded DEF PurgeSessions
<1>4. ASSUME NEW s \in SessionIds, Revoke1(s) PROVE Unminting
  BY <1>4, DeletesEnded DEF Revoke1
<1>5. ASSUME NEW c \in Callers, DropExpired(c) PROVE Unminting
  BY <1>s, <1>5, DeletesEnded DEF DropExpired, Holding
<1>6. ASSUME NEW c \in Callers, NEW s \in SessionIds, DeleteListed(c, s) PROVE Unminting
  BY <1>t, <1>6, DeletesEnded DEF DeleteListed, ListedIsEnded
<1>7. ASSUME NEW c \in Callers, Retire(c) PROVE Unminting
  <2>1. /\ \A s \in SessionIds : s # subjectOf[c] => sessions'[s] = sessions[s]
        /\ \A s \in SessionIds : s = subjectOf[c] => ~sessions'[s].live
    BY <1>t, <1>7, DeletedFacts, SessionAssumption DEF Retire
  <2>2. UNCHANGED <<created, chain, loggedOut, ended, broughtBack>>
    BY <1>7 DEF Retire, ghostsS
  <2> QED
    BY <1>7, <1>i, <2>1, <2>2 DEF Unminting, NothingMinted, OnlyEndedGo, OnlyReadComeBack, OnlyGoneLogOut
<1>8. ASSUME NEW c \in Callers, TouchInMemory(c) PROVE Unminting
  <2>1. UNCHANGED <<created, chain, loggedOut, ended, broughtBack>>
    BY <1>8 DEF TouchInMemory, ghostsS
  <2>2. \A s \in SessionIds : sessions'[s].live = sessions[s].live /\ sessions'[s].auth = sessions[s].auth
    <3> TAKE s \in SessionIds
    <3>1. PICK r \in Records : r = sessions[s]
      BY <1>t DEF SessionTypeOK
    <3>2. sessions'[s] = r \/ sessions'[s] = [r EXCEPT !.seen = readAs[c].at]
      BY <1>8, <1>t, <3>1 DEF TouchInMemory, Touched, SessionTypeOK
    <3> QED
      BY <3>1, <3>2 DEF Records
  <2> QED
    BY <1>i, <2>1, <2>2 DEF Unminting, NothingMinted, OnlyEndedGo, OnlyReadComeBack, OnlyGoneLogOut
<1>9. ASSUME NEW c \in Callers, TouchSave(c) PROVE Unminting
  <2>1. UNCHANGED <<created, chain, loggedOut, ended>> /\ spc[c] = "resave"
        /\ broughtBack' = broughtBack \union ({subjectOf[c]} \intersect loggedOut)
    BY <1>9 DEF TouchSave
  <2>2. subjectOf[c] \in 1..created /\ subjectOf[c] \in SessionIds
    BY <1>s, <1>i, <2>1 DEF Holding
  <2>3. /\ sessions'[subjectOf[c]].live /\ sessions'[subjectOf[c]].auth = readAs[c].auth
        /\ \A s \in SessionIds : s # subjectOf[c] => sessions'[s] = sessions[s]
    BY <1>9, <1>t, <2>2 DEF TouchSave, SessionTypeOK
  <2> QED
    BY <1>i, <2>1, <2>2, <2>3 DEF Unminting, NothingMinted, OnlyEndedGo, OnlyReadComeBack, OnlyGoneLogOut
<1>10. CASE \/ Tick \/ UNCHANGED sessionVars
            \/ \E c \in Callers : \/ \E s \in SessionIds : Resolve(c, s) \/ Regenerate(c, s)
                                  \/ TouchFind(c) \/ Answer(c) \/ CallDies(c)
  BY <1>1, <1>10 DEF Tick, sessionVars, ghostsS, Resolve, Regenerate, TouchFind, Answer, CallDies
<1> QED
  BY <1>2, <1>3, <1>4, <1>5, <1>6, <1>7, <1>8, <1>9, <1>10 DEF SessionNext

\* A new session, of a login or of the next one of its chain, is there under a new id.
LEMMA MintsOne ==
  ASSUME SessionInv, Login \/ \E c \in Callers : CreateNext(c)
  PROVE  /\ created \in Nat /\ created' = created + 1 /\ created + 1 \in SessionIds
         /\ \A s \in SessionIds : s # created + 1 => sessions'[s] = sessions[s] /\ chain'[s] = chain[s]
         /\ sessions'[created + 1].live /\ sessions'[created + 1].auth = chain'[created + 1].login
         /\ chain'[created + 1].root \in 1..created + 1
         /\ ~(created + 1 \in 1..created) /\ 1..created \subseteq SessionIds
         /\ UNCHANGED <<loggedOut, ended, broughtBack, doomed, clock, sessionStore>>
<1>t. SessionTypeOK /\ created \in Nat /\ MaxSessions \in Nat
  BY SessionAssumption DEF SessionInv, SessionTypeOK
<1>n. \A a \in Times : NewRecord(a).live /\ NewRecord(a).auth = a
  BY DEF NewRecord
<1>m. created < MaxSessions /\ created' = created + 1
  BY DEF Login, CreateNext
<1>i. created + 1 \in SessionIds /\ ~(created + 1 \in 1..created) /\ 1..created \subseteq SessionIds
  BY <1>t, <1>m DEF SessionIds
<1>u. UNCHANGED <<loggedOut, ended, broughtBack, doomed, clock, sessionStore>>
  BY DEF Login, CreateNext, callVarsS
<1>1. CASE Login
  BY <1>t, <1>1, <1>i, <1>n, <1>m, <1>u DEF SessionTypeOK, Login
<1>2. ASSUME NEW c \in Callers, CreateNext(c)
      PROVE  /\ \A s \in SessionIds : s # created + 1 => sessions'[s] = sessions[s] /\ chain'[s] = chain[s]
             /\ sessions'[created + 1].live /\ sessions'[created + 1].auth = chain'[created + 1].login
             /\ chain'[created + 1].root \in 1..created + 1
  <2>1. spc[c] = "create"
        /\ sessions' = [sessions EXCEPT ![created + 1] = NewRecord(readAs[c].auth)]
        /\ chain' = [chain EXCEPT ![created + 1] = chain[subjectOf[c]]]
    BY <1>2 DEF CreateNext, RenewedAuth
  <2>2. subjectOf[c] \in 1..created /\ chain[subjectOf[c]].root \in 1..created
        /\ readAs[c].auth = chain[subjectOf[c]].login
    BY <2>1 DEF SessionInv, MintedSessions, Holding, KeepsLogin
  <2>3. readAs[c].auth \in Times
    BY <1>t DEF SessionTypeOK, Records
  <2>4. /\ \A s \in SessionIds : s # created + 1 => sessions'[s] = sessions[s] /\ chain'[s] = chain[s]
        /\ sessions'[created + 1] = NewRecord(readAs[c].auth)
        /\ chain'[created + 1] = chain[subjectOf[c]]
    BY <2>1, <1>i, <1>t DEF SessionTypeOK
  <2>5. chain'[created + 1].root \in 1..created + 1
    BY <1>t, <2>2, <2>4
  <2> QED
    BY <1>n, <2>2, <2>3, <2>4, <2>5
<1> QED
  BY <1>t, <1>m, <1>i, <1>u, <1>1, <1>2

\* A chain that was ended, or goes on in a session newer than n, does so after a step.
LEMMA ChainsGoOn ==
  ASSUME SessionInv, [SessionNext]_sessionVars, NEW s \in 1..created, NEW n \in Nat, GoesOnAfter(s, n)
  PROVE  /\ s \in 1..created' /\ chain'[s] = chain[s]
         /\ chain[s].root \in ended' \/ \E t \in 1..created' : t > n /\ sessions'[t].live /\ chain'[t].root = chain'[s].root
<1>t. SessionTypeOK /\ created \in Nat /\ 1..created \subseteq SessionIds
  BY SessionAssumption DEF SessionInv, SessionTypeOK, SessionIds
<1>1. CASE Login \/ \E c \in Callers : CreateNext(c)
  BY <1>1, <1>t, MintsOne DEF GoesOnAfter
<1>2. CASE ~Login /\ \A c \in Callers : ~CreateNext(c)
  <2>1. NothingMinted /\ OnlyEndedGo
    BY <1>2, StepsUnminting DEF Unminting
  <2>2. CASE chain[s].root \in ended
    BY <2>1, <2>2 DEF NothingMinted
  <2>3. CASE chain[s].root \notin ended
    <3>1. PICK t \in 1..created : t > n /\ sessions[t].live /\ chain[t].root = chain[s].root
      BY <2>3 DEF GoesOnAfter
    <3>2. CASE sessions'[t].live
      BY <2>1, <3>1, <3>2 DEF NothingMinted
    <3>3. CASE ~sessions'[t].live /\ chain[t].root \in ended'
      BY <2>1, <3>1, <3>3 DEF NothingMinted
    <3>4. CASE ~sessions'[t].live /\ chain[t].root \notin ended'
      <4>1. PICK c \in Callers : Retire(c) /\ t = subjectOf[c]
        BY <1>t, <2>1, <3>1, <3>4 DEF OnlyEndedGo
      <4>2. spc[c] = "retire" /\ ended' = ended
        BY <4>1 DEF Retire, ghostsS
      <4>3. PICK u \in 1..created : u > t /\ sessions[u].live /\ chain[u].root = chain[t].root
        BY <3>4, <4>1, <4>2 DEF SessionInv, RetiredGoesOn, GoesOnAfter
      <4>4. sessions'[u] = sessions[u] /\ u > n
        BY <1>t, <3>1, <4>1, <4>3, DeletedFacts, SessionAssumption DEF Retire
      <4> QED
        BY <2>1, <3>1, <4>3, <4>4 DEF NothingMinted
    <3> QED
      BY <3>2, <3>3, <3>4
  <2> QED
    BY <2>1, <2>2, <2>3 DEF NothingMinted
<1> QED
  BY <1>1, <1>2

\* So do the ghosts.
LEMMA GhostsTyped == SessionInv /\ [SessionNext]_sessionVars =>
    /\ sessionStore' \in {"memory", "repo"} /\ clock' \in Times
    /\ chain' \in [SessionIds -> [root : SessionIds \union {0}, login : Times]]
    /\ loggedOut' \subseteq SessionIds /\ ended' \subseteq SessionIds /\ broughtBack' \subseteq SessionIds
<1> SUFFICES ASSUME SessionInv, [SessionNext]_sessionVars
             PROVE  /\ sessionStore' \in {"memory", "repo"} /\ clock' \in Times
                    /\ chain' \in [SessionIds -> [root : SessionIds \union {0}, login : Times]]
                    /\ loggedOut' \subseteq SessionIds /\ ended' \subseteq SessionIds
                    /\ broughtBack' \subseteq SessionIds
  OBVIOUS
<1>t. SessionTypeOK /\ 1..created \subseteq SessionIds /\ loggedOut \subseteq 1..created
  BY SessionAssumption DEF SessionInv, SessionTypeOK, SessionIds, MintedSessions
<1>1. sessionStore' \in {"memory", "repo"}
  BY <1>t, ZenonT(60) DEF SessionTypeOK, SessionNext, sessionVars, Login, PurgeSessions, Tick, Revoke1, Resolve, Regenerate,
     DropExpired, TouchInMemory, TouchFind, TouchSave, Answer, CreateNext, Retire, CallDies, DeleteListed,
     RevokeEverywhere
<1>2. clock' \in Times
  <2>1. CASE Tick
    BY <1>t, <2>1, SessionAssumption DEF SessionTypeOK, Tick, Times
  <2>2. CASE ~Tick
    BY <1>t, <2>2 DEF SessionTypeOK, SessionNext, sessionVars, Login, PurgeSessions, Revoke1, Resolve, Regenerate,
       DropExpired, TouchInMemory, TouchFind, TouchSave, Answer, CreateNext, Retire, CallDies, DeleteListed,
       RevokeEverywhere
  <2> QED
    BY <2>1, <2>2
<1>3. CASE ~Login /\ \A c \in Callers : ~CreateNext(c)
  BY <1>3, StepsUnminting, <1>t, <1>1, <1>2 DEF Unminting, SessionTypeOK, NothingMinted, OnlyGoneLogOut
<1>4. CASE Login \/ \E c \in Callers : CreateNext(c)
  <2>1. UNCHANGED <<loggedOut, ended, broughtBack>> /\ created + 1 \in SessionIds
    BY <1>4, MintsOne
  <2>2. chain' \in [SessionIds -> [root : SessionIds \union {0}, login : Times]]
    <3>1. CASE Login
      BY <3>1, <1>t, <2>1 DEF Login, SessionTypeOK
    <3>2. ASSUME NEW c \in Callers, CreateNext(c)
          PROVE  chain' \in [SessionIds -> [root : SessionIds \union {0}, login : Times]]
      BY <3>2, <1>t DEF CreateNext, SessionInv, MintedSessions, Holding, SessionTypeOK
    <3> QED
      BY <1>4, <3>1, <3>2
  <2> QED
    BY <1>t, <1>1, <1>2, <2>1, <2>2 DEF SessionTypeOK
<1> QED
  BY <1>3, <1>4

\* Wherever a call goes, it has a minted session in hand and its login, read in time.
LEMMA CallKeeps ==
  ASSUME SessionInv, [SessionNext]_sessionVars, NEW d \in Callers
  PROVE  /\ spc'[d] \in Holding => subjectOf'[d] \in 1..created
         /\ spc'[d] \in {"touch", "resave", "create"} => readAs'[d].auth = chain[subjectOf'[d]].login
         /\ spc'[d] \in {"touch", "resave", "active"} => readAs'[d].at < chain[subjectOf'[d]].login + Absolute
         /\ spc'[d] = "retire" => subjectOf'[d] = subjectOf[d] /\ (spc[d] = "retire" \/ CreateNext(d))
<1> DEFINE Good == /\ spc'[d] \in Holding => subjectOf'[d] \in 1..created
                   /\ spc'[d] \in {"touch", "resave", "create"} => readAs'[d].auth = chain[subjectOf'[d]].login
                   /\ spc'[d] \in {"touch", "resave", "active"} =>
                        readAs'[d].at < chain[subjectOf'[d]].login + Absolute
                   /\ spc'[d] = "retire" => subjectOf'[d] = subjectOf[d] /\ (spc[d] = "retire" \/ CreateNext(d))
<1> SUFFICES Good
  OBVIOUS
<1>t. SessionTypeOK /\ CallTypes /\ clock \in Times /\ NoSession \in Records
  BY SessionAssumption DEF SessionInv, SessionTypeOK, CallTypes, NoSession, Records, Times
<1>0. /\ spc[d] \in Holding => subjectOf[d] \in 1..created
      /\ spc[d] \in {"touch", "resave", "create"} => readAs[d].auth = chain[subjectOf[d]].login
      /\ spc[d] \in {"touch", "resave", "active"} => readAs[d].at < chain[subjectOf[d]].login + Absolute
  BY DEF SessionInv, MintedSessions, KeepsLogin
<1>1. CASE spc'[d] = spc[d] /\ subjectOf'[d] = subjectOf[d] /\ readAs'[d] = readAs[d]
  BY <1>0, <1>1
<1>2. CASE spc'[d] \in {"idle", "delete"}
  BY <1>2 DEF Holding
<1>c. subjectOf[d] \in SessionIds \union {0} /\ readAs[d] \in Records
  BY <1>t DEF CallTypes
<1>3. ASSUME NEW c \in Callers, NEW s \in SessionIds, Resolve(c, s) \/ Regenerate(c, s) PROVE Good
  <2> DEFINE r == [sessions[s] EXCEPT !.at = clock]
  <2>1. /\ sessions[s].live /\ s \in 1..created
        /\ \/ Goes(c, "drop", s, r)
           \/ ~Expired(r) /\ (Goes(c, "touch", s, r) \/ Goes(c, "active", s, r) \/ Goes(c, "create", s, r))
    BY <1>3 DEF Resolve, Regenerate
  <2>2. r \in Records /\ r.auth = chain[s].login /\ r.at = clock
    BY <1>t, <2>1 DEF SessionTypeOK, Records, SessionInv, MintedSessions
  <2>3. ~Expired(r) => clock < chain[s].login + Absolute
    BY <1>t, SessionAssumption, <2>2 DEF SessionTypeOK, Times, Expired
  <2> HIDE DEF r
  <2>4. ASSUME NEW st \in {"drop", "touch", "active", "create"}, Goes(c, st, s, r), c = d
        PROVE  /\ spc'[d] = st /\ subjectOf'[d] = s
               /\ st \in {"touch", "create"} => readAs'[d].auth = r.auth
               /\ st \in {"touch", "active"} => readAs'[d].at = r.at
    BY <1>t, <2>2, <2>4, GoesTypes, KeptFields, SessionAssumption DEF Busy
  <2>5. ASSUME NEW st \in {"drop", "touch", "active", "create"}, Goes(c, st, s, r), c # d
        PROVE  spc'[d] = spc[d] /\ subjectOf'[d] = subjectOf[d] /\ readAs'[d] = readAs[d]
    BY <1>t, <2>5 DEF Goes, CallTypes
  <2>6. CASE c = d
    BY <2>1, <2>2, <2>3, <2>4, <2>6 DEF Holding
  <2> QED
    BY <1>1, <2>1, <2>5, <2>6
<1>4. ASSUME NEW c \in Callers, DropExpired(c) \/ Answer(c) \/ Retire(c) \/ CallDies(c) PROVE Good
  BY <1>4, <1>t, <1>1, <1>2, ReturnTypes DEF DropExpired, Answer, Retire, CallDies
<1>5. ASSUME NEW c \in Callers, TouchInMemory(c) \/ TouchFind(c) \/ TouchSave(c) PROVE Good
  <2>1. /\ spc[c] = "touch" \/ spc[c] = "resave"
        /\ Goes(c, "resave", subjectOf[c], readAs[c]) \/ Goes(c, "active", subjectOf[c], readAs[c])
    BY <1>5 DEF TouchInMemory, TouchFind, TouchSave
  <2>2. ASSUME NEW st \in {"resave", "active"}, Goes(c, st, subjectOf[c], readAs[c]), c = d
        PROVE  /\ spc'[d] = st /\ subjectOf'[d] = subjectOf[d]
               /\ st = "resave" => readAs'[d].auth = readAs[d].auth
               /\ readAs'[d].at = readAs[d].at
    BY <1>t, <1>c, <2>2, GoesTypes, KeptFields, SessionAssumption DEF Busy
  <2>3. ASSUME NEW st \in {"resave", "active"}, Goes(c, st, subjectOf[c], readAs[c]), c # d
        PROVE  spc'[d] = spc[d] /\ subjectOf'[d] = subjectOf[d] /\ readAs'[d] = readAs[d]
    BY <1>t, <2>3 DEF Goes, CallTypes
  <2>4. CASE c = d
    BY <1>0, <2>1, <2>2, <2>4 DEF Holding
  <2> QED
    BY <1>1, <2>1, <2>3, <2>4
<1>6. ASSUME NEW c \in Callers, CreateNext(c) PROVE Good
  <2>1. spc[c] = "create" /\ Goes(c, "retire", subjectOf[c], NoSession)
    BY <1>6 DEF CreateNext
  <2>2. CASE c = d
    BY <1>t, <2>1, <2>2, <1>0, <1>6 DEF Goes, CallTypes, Holding
  <2>3. CASE c # d
    BY <1>t, <1>1, <2>1, <2>3 DEF Goes, CallTypes
  <2> QED
    BY <2>2, <2>3
<1>7. ASSUME NEW c \in Callers, RevokeEverywhere(c) PROVE Good
  BY <1>t, <1>1, <1>2, <1>7 DEF RevokeEverywhere, CallTypes, callVarsS
<1>8. ASSUME NEW c \in Callers, NEW s \in SessionIds, DeleteListed(c, s) PROVE Good
  BY <1>t, <1>1, <1>2, <1>8 DEF DeleteListed, CallTypes
<1>9. CASE Login \/ PurgeSessions \/ Tick \/ UNCHANGED sessionVars \/ \E s \in SessionIds : Revoke1(s)
  BY <1>1, <1>9 DEF Login, PurgeSessions, Tick, Revoke1, callVarsS, sessionVars
<1> HIDE DEF Good
<1> QED
  BY <1>3, <1>4, <1>5, <1>6, <1>7, <1>8, <1>9 DEF SessionNext

\* Every step keeps what is stored, read and logged out minted, and its login.
LEMMA MintedSessionsKept == SessionInv /\ [SessionNext]_sessionVars => MintedSessions' /\ LoggedOutStaysOut'
<1> SUFFICES ASSUME SessionInv, [SessionNext]_sessionVars PROVE MintedSessions' /\ LoggedOutStaysOut'
  OBVIOUS
<1>t. SessionTypeOK /\ MintedSessions /\ KeepsLogin /\ LoggedOutStaysOut
      /\ created \in Nat /\ 1..created \subseteq SessionIds
  BY SessionAssumption DEF SessionInv, SessionTypeOK, SessionIds
<1>c. \A d \in Callers : spc'[d] \in Holding => subjectOf'[d] \in 1..created
  BY CallKeeps
<1>1. CASE Login \/ \E c \in Callers : CreateNext(c)
  <2> DEFINE n == created + 1
             Old == 1..created
             New == 1..created'
  <2>1. /\ Old \subseteq New /\ n \in New /\ n \notin Old /\ \A s \in New : s # n => s \in Old
        /\ loggedOut' = loggedOut /\ broughtBack' = broughtBack
        /\ \A s \in SessionIds : s # n => sessions'[s] = sessions[s] /\ chain'[s] = chain[s]
        /\ sessions'[n].auth = chain'[n].login
        /\ chain'[n].root \in New
    BY <1>1, <1>t, MintsOne
  <2>6. /\ \A s \in SessionIds : sessions[s].live => s \in Old /\ sessions[s].auth = chain[s].login
        /\ \A s \in Old : chain[s].root \in Old
        /\ loggedOut \subseteq Old /\ Old \subseteq SessionIds
    BY <1>t DEF MintedSessions
  <2>7. \A d \in Callers : spc'[d] \in Holding => subjectOf'[d] \in Old
    BY <1>c
  <2> HIDE DEF n, Old, New
  <2>2. \A s \in SessionIds : sessions'[s].live => s \in New /\ sessions'[s].auth = chain'[s].login
    BY <2>1, <2>6
  <2>3. \A s \in New : chain'[s].root \in New
    BY <2>1, <2>6
  <2>4. loggedOut' \subseteq New
    BY <2>1, <2>6
  <2>5. LoggedOutStaysOut'
    BY <1>t, <2>1, <2>6 DEF LoggedOutStaysOut
  <2> QED
    BY <2>1, <2>2, <2>3, <2>4, <2>5, <2>7 DEF MintedSessions, New
<1>2. CASE ~Login /\ \A c \in Callers : ~CreateNext(c)
  <2>1. NothingMinted /\ OnlyReadComeBack /\ OnlyGoneLogOut
    BY <1>2, StepsUnminting DEF Unminting
  <2>2. \A s \in SessionIds : sessions'[s].live => s \in 1..created /\ sessions'[s].auth = chain[s].login
    BY <1>t, <2>1 DEF MintedSessions, KeepsLogin, Holding, OnlyReadComeBack
  <2>3. loggedOut' \subseteq 1..created
    BY <1>t, <2>1 DEF MintedSessions, OnlyGoneLogOut
  <2>4. LoggedOutStaysOut'
    BY <1>t, <2>1, <2>3 DEF LoggedOutStaysOut, OnlyGoneLogOut, OnlyReadComeBack, NothingMinted
  <2> QED
    BY <1>t, <1>c, <2>1, <2>2, <2>3, <2>4 DEF MintedSessions, NothingMinted
<1> QED
  BY <1>1, <1>2

\* Every step keeps the login of what the calls have read.
LEMMA LoginsKept == SessionInv /\ [SessionNext]_sessionVars => KeepsLogin'
<1> SUFFICES ASSUME SessionInv, [SessionNext]_sessionVars PROVE KeepsLogin'
  OBVIOUS
<1>1. \A s \in 1..created : chain'[s] = chain[s]
  BY SessionAssumption, MintsOne, StepsUnminting DEF SessionInv, SessionTypeOK, SessionIds, Unminting, NothingMinted
<1>2. \A d \in Callers : spc'[d] \in Holding => chain'[subjectOf'[d]] = chain[subjectOf'[d]]
  BY <1>1, CallKeeps
<1> QED
  BY <1>2, CallKeeps DEF KeepsLogin, Holding

\* Every step keeps a live session for every login that was not ended.
LEMMA ChainsKept == SessionInv /\ [SessionNext]_sessionVars => RetiredGoesOn' /\ ChainAlive'
<1> SUFFICES ASSUME SessionInv, [SessionNext]_sessionVars PROVE RetiredGoesOn' /\ ChainAlive'
  OBVIOUS
<1>t. created \in Nat /\ created \in 0..MaxSessions /\ 1..created \subseteq SessionIds
  BY SessionAssumption DEF SessionInv, SessionTypeOK, SessionIds
<1>1. ASSUME NEW s \in 1..created, NEW n \in Nat, GoesOnAfter(s, n) PROVE GoesOnAfter(s, n)'
  BY <1>1, ChainsGoOn DEF GoesOnAfter
<1>2. ChainAlive'
  <2> SUFFICES ASSUME NEW s \in 1..created'
               PROVE  chain'[s].root \in ended' \/ \E t \in 1..created' : sessions'[t].live /\ chain'[t].root = chain'[s].root
    BY DEF ChainAlive
  <2>1. CASE s \in 1..created
    BY <1>t, <2>1, <1>1 DEF SessionInv, ChainAlive, GoesOnAfter
  <2>2. CASE s \notin 1..created
    <3>1. CASE Login \/ \E c \in Callers : CreateNext(c)
      BY <1>t, <2>2, <3>1, MintsOne
    <3>2. CASE ~Login /\ \A c \in Callers : ~CreateNext(c)
      BY <2>2, <3>2, StepsUnminting DEF Unminting, NothingMinted
    <3> QED
      BY <3>1, <3>2
  <2> QED
    BY <2>1, <2>2
<1>3. RetiredGoesOn'
  <2> SUFFICES ASSUME NEW d \in Callers, spc'[d] = "retire"
               PROVE  GoesOnAfter(subjectOf[d], subjectOf[d])' /\ subjectOf'[d] = subjectOf[d]
    BY DEF RetiredGoesOn, GoesOnAfter
  <2>1. subjectOf'[d] = subjectOf[d] /\ subjectOf[d] \in 1..created /\ (spc[d] = "retire" \/ CreateNext(d))
    BY CallKeeps DEF Holding
  <2>2. CASE spc[d] = "retire"
    BY <1>1, <2>1, <2>2 DEF SessionInv, RetiredGoesOn, GoesOnAfter
  <2>3. CASE CreateNext(d)
    <3>1. /\ created + 1 \in 1..created' /\ sessions'[created + 1].live /\ created + 1 > subjectOf[d]
          /\ chain'[subjectOf[d]] = chain[subjectOf[d]]
      BY <1>t, <2>1, <2>3, MintsOne
    <3>2. chain'[created + 1] = chain[subjectOf[d]]
      BY <2>3, MintsOne DEF CreateNext, SessionInv, SessionTypeOK
    <3> QED
      BY <2>1, <3>1, <3>2 DEF GoesOnAfter
  <2> QED
    BY <2>1, <2>2, <2>3
<1> QED
  BY <1>2, <1>3

\* What a logout everywhere has listed stays listed with its chain ended.
LEMMA ListedKept == SessionInv /\ [SessionNext]_sessionVars => ListedIsEnded'
<1> SUFFICES ASSUME SessionInv, [SessionNext]_sessionVars, NEW d \in Callers, NEW s \in doomed'[d]
             PROVE  s \in 1..created' /\ chain'[s].root \in ended'
  BY DEF ListedIsEnded
<1>t. CallTypes /\ MintedSessions /\ 1..created \subseteq SessionIds
  BY SessionAssumption DEF SessionInv, SessionTypeOK, SessionIds, CallTypes
<1>1. \A u \in 1..created : chain[u].root \in ended => u \in 1..created' /\ chain'[u].root \in ended'
  BY <1>t, MintsOne, StepsUnminting DEF Unminting, NothingMinted
<1>2. CASE s \in doomed[d]
  BY <1>1, <1>2 DEF SessionInv, ListedIsEnded
<1>3. ASSUME NEW c \in Callers, RevokeEverywhere(c), s \notin doomed[d]
      PROVE  s \in 1..created' /\ chain'[s].root \in ended'
  BY <1>3, <1>t DEF RevokeEverywhere, callVarsS, CallTypes, MintedSessions
<1>4. ASSUME NEW c \in Callers, CallDies(c) \/ \E u \in SessionIds : DeleteListed(c, u)
      PROVE  doomed'[d] \subseteq doomed[d]
  <2>1. doomed' = [doomed EXCEPT ![c] = {}] \/ \E u \in SessionIds : doomed' = [doomed EXCEPT ![c] = @ \ {u}]
    BY <1>4 DEF CallDies, DeleteListed
  <2>2. \E kept \in SUBSET doomed[c] : doomed' = [doomed EXCEPT ![c] = kept]
    BY <2>1
  <2>3. DOMAIN doomed = Callers
    BY <1>t DEF CallTypes
  <2> QED
    BY <2>2, <2>3
<1>5. CASE doomed' = doomed
  BY <1>2, <1>5
<1>6. CASE \/ Login \/ PurgeSessions \/ Tick \/ UNCHANGED sessionVars \/ \E u \in SessionIds : Revoke1(u)
           \/ \E c \in Callers : \/ \E u \in SessionIds : Resolve(c, u) \/ Regenerate(c, u)
                                 \/ DropExpired(c) \/ TouchInMemory(c) \/ TouchFind(c) \/ TouchSave(c)
                                 \/ Answer(c) \/ CreateNext(c) \/ Retire(c)
  BY <1>5, <1>6 DEF sessionVars, callVarsS, Login, PurgeSessions, Tick, Revoke1, Resolve, Regenerate,
     DropExpired, TouchInMemory, TouchFind, TouchSave, Answer, CreateNext, Retire
<1> QED
  BY <1>2, <1>3, <1>4, <1>6 DEF SessionNext

\* Every step keeps the invariant of the sessions.
LEMMA SessionInductive == SessionInv /\ [SessionNext]_sessionVars => SessionInv'
<1> SUFFICES ASSUME SessionInv, [SessionNext]_sessionVars PROVE SessionInv'
  OBVIOUS
<1>1. SessionTypeOK'
  BY CallsTyped, StoreTyped, GhostsTyped DEF SessionTypeOK, CallTypes
<1> QED
  BY <1>1, MintedSessionsKept, LoginsKept, ChainsKept, ListedKept DEF SessionInv

\* No session exists at the start.
LEMMA SessionInvInit == SessionInit => SessionInv
<1> SUFFICES ASSUME SessionInit PROVE SessionInv
  OBVIOUS
<1>1. 0 \in Times /\ NoSession \in Records /\ ~NoSession.live /\ 1..0 = {} /\ 0 \in 0..MaxSessions
  BY SessionAssumption DEF Times, NoSession, Records
<1>2. SessionTypeOK
  BY <1>1 DEF SessionInit, SessionTypeOK
<1> QED
  BY <1>1, <1>2 DEF SessionInit, SessionInv, MintedSessions, KeepsLogin, RetiredGoesOn, ListedIsEnded,
     ChainAlive, LoggedOutStaysOut, Holding

\* No touch and no regeneration carries a login past its limit, no login is lost while
\* none of its sessions is ended, and one logged out stays out, unless a touch of the repo
\* store saved it again.
THEOREM SessionsEnd == SessionSpec => [](AbsoluteCeiling /\ ChainAlive /\ LoggedOutStaysOut)
<1>1. SessionInv => AbsoluteCeiling /\ ChainAlive /\ LoggedOutStaysOut
  BY DEF SessionInv, KeepsLogin, AbsoluteCeiling
<1> QED
  BY SessionInvInit, SessionInductive, <1>1, PTL DEF SessionSpec

-----------------------------------------------------------------------------
(* Accounts.  Each call that compares a password counts as a failure before  *)
(* it has failed, and each that may still store one is of the password last  *)
(* chosen or was under way when that one was saved.                          *)

\* A password that may be stored, or be found stored.
Known(pw) == pw = latest \/ pw \in racing

AccountTypes ==
  /\ accountStore \in {"memory", "repo"} /\ accounts \in Nat
  /\ hash \in Hashes /\ failures \in Nat
  /\ apc \in [Clients -> {"idle", "create", "verify", "rehash", "choose"}]
  /\ typed \in [Clients -> Passwords \union {NoPassword}]
  /\ readHash \in [Clients -> Hashes]
  /\ latest \in Passwords \union {NoPassword} /\ racing \subseteq Passwords

PasswordsKnown ==
  /\ Known(hash.of)
  /\ \A c \in Clients :
       /\ apc[c] \in {"create", "verify", "rehash", "choose"} => typed[c] \in Passwords
       /\ apc[c] = "rehash" => Known(typed[c])
       /\ apc[c] = "verify" /\ Matches(typed[c], readHash[c]) => Known(typed[c])

AccountInv == AccountTypes /\ PasswordsKnown /\ AttemptsBounded /\ OneAccount

\* Where a call goes, what it has in hand, and that the others stay where they are.
LEMMA ToFacts ==
  ASSUME AccountTypes, NEW c \in Clients, NEW st \in {"idle", "create", "verify", "rehash", "choose"},
         NEW pw \in Passwords \union {NoPassword}, NEW h \in Hashes, To(c, st, pw, h)
  PROVE  /\ apc' \in [Clients -> {"idle", "create", "verify", "rehash", "choose"}]
         /\ typed' \in [Clients -> Passwords \union {NoPassword}]
         /\ readHash' \in [Clients -> Hashes]
         /\ apc'[c] = st /\ typed'[c] = pw /\ readHash'[c] = h
         /\ \A d \in Clients \ {c} : apc'[d] = apc[d] /\ typed'[d] = typed[d] /\ readHash'[d] = readHash[d]
BY DEF AccountTypes, To

\* A set of calls is finite.
LEMMA CallsCounted ==
  ASSUME NEW S \in SUBSET Clients
  PROVE  /\ IsFiniteSet(S) /\ Cardinality(S) \in Nat
         /\ Cardinality(Clients) \in Nat /\ Cardinality(S) <= Cardinality(Clients)
BY AccountAssumption, FS_Subset, FS_CardinalityType

\* The calls that verify are some of those in flight.
LEMMA VerifiersCounted ==
  /\ InParallel \in Nat
  /\ InState("verify") \in Nat /\ InState("verify") <= InParallel
  /\ InState("verify")' \in Nat /\ InState("verify")' <= InParallel
BY CallsCounted DEF InState, InParallel

\* A call that stops verifying is one less.
LEMMA OneVerifierLess ==
  ASSUME NEW c \in Clients, apc[c] = "verify", apc'[c] # "verify", \A d \in Clients \ {c} : apc'[d] = apc[d]
  PROVE  InState("verify")' = InState("verify") - 1
<1> DEFINE V == {d \in Clients : apc[d] = "verify"}
           W == {d \in Clients : apc'[d] = "verify"}
<1>1. W = V \ {c} /\ c \in V /\ V \in SUBSET Clients
  OBVIOUS
<1>2. IsFiniteSet(V)
  BY <1>1, CallsCounted
<1>3. InState("verify") = Cardinality(V) /\ InState("verify")' = Cardinality(W)
  BY DEF InState
<1> HIDE DEF V, W
<1> QED
  BY <1>1, <1>2, <1>3, FS_RemoveElement

\* Where nobody begins to verify there are as many at most.
LEMMA NoVerifierMore ==
  ASSUME \A d \in Clients : apc'[d] = "verify" => apc[d] = "verify"
  PROVE  InState("verify")' <= InState("verify")
<1> DEFINE V == {d \in Clients : apc[d] = "verify"}
           W == {d \in Clients : apc'[d] = "verify"}
<1>1. W \in SUBSET V /\ V \in SUBSET Clients
  OBVIOUS
<1>2. IsFiniteSet(V)
  BY <1>1, CallsCounted
<1>3. InState("verify") = Cardinality(V) /\ InState("verify")' = Cardinality(W)
  BY DEF InState
<1> HIDE DEF V, W
<1> QED
  BY <1>1, <1>2, <1>3, FS_Subset

\* Every step of a call keeps the types.
LEMMA AccountsTyped == AccountInv /\ [AccountNext]_accountVars => AccountTypes'
<1> SUFFICES ASSUME AccountInv, [AccountNext]_accountVars PROVE AccountTypes'
  OBVIOUS
<1>t. AccountTypes /\ NoHash \in Hashes
  BY DEF AccountInv, NoHash, Hashes
<1>c. \A c \in Clients : /\ typed[c] \in Passwords \union {NoPassword} /\ readHash[c] \in Hashes
                         /\ apc[c] = "choose" => typed[c] \in Passwords
  BY <1>t DEF AccountTypes, AccountInv, PasswordsKnown
<1>h. \A pw \in Passwords \union {NoPassword} : [of |-> pw, current |-> TRUE] \in Hashes
  BY DEF Hashes
<1>1. ASSUME NEW c \in Clients, NEW st \in {"idle", "create", "verify", "rehash", "choose"},
             NEW pw \in Passwords \union {NoPassword}, NEW h \in Hashes, To(c, st, pw, h),
             accountStore' = accountStore, accounts' \in Nat, failures' \in Nat, hash' \in Hashes,
             latest' \in Passwords \union {NoPassword}, racing' \subseteq Passwords
      PROVE  AccountTypes'
  BY <1>t, <1>1, ToFacts DEF AccountTypes
<1>2. CASE WindowEnds \/ UNCHANGED accountVars
  BY <1>t, <1>2 DEF AccountTypes, WindowEnds, accountVars, callVarsA
<1>3. CASE RaiseParameters
  BY <1>t, <1>3 DEF AccountTypes, Hashes, RaiseParameters, callVarsA
<1>4. ASSUME NEW c \in Clients, NEW pw \in Passwords, NEW other \in Passwords,
             CreateUser(c, pw) \/ LoginBegins(c, pw) \/ ChangeBegins(c, pw, other)
      PROVE  AccountTypes'
  BY <1>t, <1>1, <1>4 DEF CreateUser, LoginBegins, ChangeBegins, AccountTypes
<1>5. ASSUME NEW c \in Clients, SaveUser(c) PROVE AccountTypes'
  <2>1. /\ accountStore' = accountStore /\ accounts' \in Nat /\ UNCHANGED <<hash, failures, latest, racing>>
        /\ To(c, "choose", typed[c], NoHash) \/ To(c, "idle", NoPassword, NoHash)
    BY <1>t, <1>5 DEF SaveUser, Ends, AccountTypes
  <2> QED
    BY <1>t, <1>1, <1>c, <2>1 DEF AccountTypes
<1>6. ASSUME NEW c \in Clients, LoginEnds(c) PROVE AccountTypes'
  BY <1>t, <1>1, <1>c, <1>6 DEF LoginEnds, Ends, AccountTypes
<1>7. ASSUME NEW c \in Clients, SaveRehash(c) \/ ClientDies(c) PROVE AccountTypes'
  BY <1>t, <1>1, <1>c, <1>h, <1>7 DEF SaveRehash, ClientDies, Ends, AccountTypes
<1>8. ASSUME NEW c \in Clients, SavePassword(c) PROVE AccountTypes'
  BY <1>t, <1>1, <1>c, <1>h, <1>8 DEF UnderWay, AccountInv, PasswordsKnown, SavePassword, Ends, AccountTypes
<1> QED
  BY <1>2, <1>3, <1>4, <1>5, <1>6, <1>7, <1>8 DEF AccountNext

\* Every step keeps what is stored, or may be, known.
LEMMA PasswordsStayKnown == AccountInv /\ [AccountNext]_accountVars => PasswordsKnown'
<1> SUFFICES ASSUME AccountInv, [AccountNext]_accountVars PROVE PasswordsKnown'
  OBVIOUS
<1>t. AccountTypes /\ PasswordsKnown /\ NoHash \in Hashes
  BY DEF AccountInv, NoHash, Hashes
<1>c. \A c \in Clients : typed[c] \in Passwords \union {NoPassword} /\ readHash[c] \in Hashes
  BY <1>t DEF AccountTypes
<1>1. CASE /\ UNCHANGED callVarsA /\ hash'.of = hash.of /\ UNCHANGED <<latest, racing>>
  BY <1>t, <1>1 DEF PasswordsKnown, Known, callVarsA
<1>2. ASSUME NEW c \in Clients, NEW st \in {"idle", "create", "verify", "rehash", "choose"},
             NEW pw \in Passwords \union {NoPassword}, NEW h \in Hashes, To(c, st, pw, h),
             UNCHANGED <<latest, racing>>, Known(hash'.of),
             st \in {"create", "verify", "rehash", "choose"} => pw \in Passwords,
             st = "rehash" => Known(pw),
             st = "verify" /\ Matches(pw, h) => Known(pw)
      PROVE  PasswordsKnown'
  BY <1>t, <1>2, ToFacts DEF Known, PasswordsKnown, Matches
<1>3. CASE WindowEnds \/ UNCHANGED accountVars
  BY <1>1, <1>3 DEF WindowEnds, accountVars, callVarsA
<1>4. CASE RaiseParameters
  BY <1>t, <1>1, <1>4 DEF AccountTypes, Hashes, RaiseParameters
<1>k. Known(hash.of)
  BY <1>t DEF PasswordsKnown
<1>5. ASSUME NEW c \in Clients, NEW pw \in Passwords, NEW other \in Passwords,
             CreateUser(c, pw) \/ LoginBegins(c, pw) \/ ChangeBegins(c, pw, other)
      PROVE  PasswordsKnown'
  <2>1. CASE CreateUser(c, pw)
    BY <1>t, <1>2, <1>k, <2>1 DEF CreateUser
  <2>2. CASE LoginBegins(c, pw)
    BY <1>t, <1>k, <1>2, <2>2 DEF AccountTypes, Matches, LoginBegins
  <2>3. CASE ChangeBegins(c, pw, other)
    BY <1>t, <1>2, <1>k, <2>3 DEF ChangeBegins
  <2> QED
    BY <1>5, <2>1, <2>2, <2>3
<1>6. ASSUME NEW c \in Clients, SaveUser(c) PROVE PasswordsKnown'
  BY <1>t, <1>6, <1>2, <1>c, <1>k DEF SaveUser, Ends, PasswordsKnown
<1>7. ASSUME NEW c \in Clients, LoginEnds(c) PROVE PasswordsKnown'
  BY <1>t, <1>2, <1>k, <1>7 DEF LoginEnds, Ends, PasswordsKnown
<1>8. ASSUME NEW c \in Clients, SaveRehash(c) \/ ClientDies(c) PROVE PasswordsKnown'
  BY <1>t, <1>2, <1>k, <1>8 DEF SaveRehash, ClientDies, Ends, PasswordsKnown
<1>9. ASSUME NEW c \in Clients, SavePassword(c) PROVE PasswordsKnown'
  BY <1>t, <1>9, ToFacts DEF SavePassword, Ends, UnderWay, PasswordsKnown, Known
<1> QED
  BY <1>3, <1>4, <1>5, <1>6, <1>7, <1>8, <1>9 DEF AccountNext

\* Every step keeps the throttle's count, with those that still compare, in its bound.
LEMMA AttemptsCounted == AccountInv /\ [AccountNext]_accountVars => AttemptsBounded'
<1> SUFFICES ASSUME AccountInv, [AccountNext]_accountVars PROVE AttemptsBounded'
  OBVIOUS
<1>t. AccountTypes /\ AttemptsBounded /\ failures \in Nat /\ MaxAttempts \in Nat /\ MaxAttempts > 0
  BY AccountAssumption DEF AccountInv, AccountTypes
<1>1. ASSUME failures' <= failures, failures' \in Nat, \A d \in Clients : apc'[d] = "verify" => apc[d] = "verify"
      PROVE  AttemptsBounded'
  BY <1>t, <1>1, NoVerifierMore, VerifiersCounted DEF AttemptsBounded
<1>2. ASSUME NEW c \in Clients, NEW st \in {"idle", "create", "rehash", "choose"},
             NEW pw, NEW h, To(c, st, pw, h)
      PROVE  \A d \in Clients : apc'[d] = "verify" => apc[d] = "verify"
  BY <1>t, <1>2 DEF To, AccountTypes
<1>3. ASSUME NEW c \in Clients, NEW pw \in Passwords, LoginBegins(c, pw) PROVE AttemptsBounded'
  BY <1>t, <1>3, VerifiersCounted DEF LoginBegins, Allowed, AttemptsBounded, InParallel
<1>4. ASSUME NEW c \in Clients, LoginEnds(c) PROVE AttemptsBounded'
  <2>1. CASE failures' = 0
    BY <1>2, <1>4, <1>t, <1>1, <2>1 DEF LoginEnds, Ends
  <2>2. CASE failures' = failures + 1 /\ Ends(c)
    BY <1>t, <1>4, <2>2, OneVerifierLess, VerifiersCounted DEF LoginEnds, Ends, To, AccountTypes, AttemptsBounded
  <2> QED
    BY <1>4, <2>1, <2>2 DEF LoginEnds
<1>5. ASSUME NEW c \in Clients, NEW pw \in Passwords, NEW other \in Passwords,
             CreateUser(c, pw) \/ ChangeBegins(c, pw, other)
      PROVE  AttemptsBounded'
  BY <1>t, <1>1, <1>2, <1>5 DEF CreateUser, ChangeBegins
<1>6. ASSUME NEW c \in Clients, SaveUser(c) \/ SaveRehash(c) \/ SavePassword(c) \/ ClientDies(c)
      PROVE  AttemptsBounded'
  BY <1>6, <1>t, <1>1, <1>2 DEF SaveUser, SaveRehash, SavePassword, ClientDies, Ends
<1>7. CASE WindowEnds \/ RaiseParameters \/ UNCHANGED accountVars
  BY <1>t, <1>7, <1>1 DEF WindowEnds, RaiseParameters, accountVars, callVarsA
<1> QED
  BY <1>3, <1>4, <1>5, <1>6, <1>7 DEF AccountNext

\* Every step keeps the invariant of the accounts.
LEMMA AccountInductive == AccountInv /\ [AccountNext]_accountVars => AccountInv'
<1> SUFFICES ASSUME AccountInv, [AccountNext]_accountVars PROVE AccountInv'
  OBVIOUS
<1>1. OneAccount'
  <2>1. OneAccount /\ accounts \in Nat
    BY DEF AccountInv, AccountTypes
  <2>2. \/ accounts' = accounts /\ accountStore' = accountStore
        \/ accounts' = accounts + 1 /\ accountStore' = accountStore /\ (accountStore = "memory" => ~(accounts > 0))
    BY DEF AccountNext, accountVars, WindowEnds, RaiseParameters, CreateUser, LoginBegins, ChangeBegins,
       SaveUser, LoginEnds, SaveRehash, SavePassword, ClientDies, Taken
  <2> QED
    BY <2>1, <2>2 DEF OneAccount
<1> QED
  BY <1>1, AccountsTyped, PasswordsStayKnown, AttemptsCounted DEF AccountInv

\* Nobody has registered at the start.
LEMMA AccountInvInit == AccountInit => AccountInv
<1> SUFFICES ASSUME AccountInit PROVE AccountInv
  OBVIOUS
<1>1. AccountTypes
  BY DEF AccountInit, AccountTypes, NoHash, Hashes
<1>2. PasswordsKnown /\ OneAccount
  BY DEF AccountInit, PasswordsKnown, Known, NoHash, OneAccount
<1>3. AttemptsBounded
  BY FS_EmptySet, VerifiersCounted, AccountAssumption DEF AccountInit, InState, AttemptsBounded
<1> QED
  BY <1>1, <1>2, <1>3 DEF AccountInv

\* One identifier has one account in the memory store, the password last chosen stays,
\* or one that raced with it, and a window sees no more failures than it may.
THEOREM AccountsKeepTheirPassword == AccountSpec => [](OneAccount /\ ChosenPasswordStays /\ AttemptsBounded)
<1>1. AccountInv => OneAccount /\ ChosenPasswordStays /\ AttemptsBounded
  BY DEF AccountInv, PasswordsKnown, Known, ChosenPasswordStays
<1> QED
  BY AccountInvInit, AccountInductive, <1>1, PTL DEF AccountSpec

\* What proves an identity stays as strong as it was, whatever the numbers of
\* requests, tokens, sessions, clients and accounts.
THEOREM CredentialsStayStrong == RefreshSpec /\ SessionSpec /\ AccountSpec => []Credentials
BY FamiliesNeverFork, RevocationsStick, SessionsEnd, AccountsKeepTheirPassword, PTL DEF Credentials
-----------------------------------------------------------------------------
(* OAuth logins.  A code is issued for the scopes its flow asked for and its *)
(* subject agreed to, and what was granted for it has consumed it.           *)

OAuthTypes ==
  /\ entry \in [Flows -> {"none", "put", "expired", "taken"}]
  /\ asked \in [Flows -> SUBSET Scopes]
  /\ user \in Subjects \union {NoFlow}
  /\ consent \in [Subjects -> SUBSET Scopes] /\ agreed \in [Subjects -> SUBSET Scopes]
  /\ code \in [Flows -> Codes]
  /\ callback \subseteq Flows \X Flows
  /\ accepted \in [Flows -> Nat]

ConsentAgreed == \A s \in Subjects : consent[s] \subseteq agreed[s]

\* An issued code covers what was asked for and agreed to.
CodesCovered ==
  \A f \in Flows : code[f].state = "issued" =>
    /\ entry[f] # "none" /\ code[f].by \in Subjects
    /\ code[f].scope \subseteq agreed[code[f].by] \intersect asked[f] \intersect AllowedScopes

\* So does what was granted for a code, which is consumed.
GrantsCovered ==
  \A g \in grants : ~g.refreshed =>
    /\ g.flow = g.code /\ g.flow \in Flows /\ g.by \in Subjects
    /\ entry[g.flow] # "none" /\ code[g.flow].state = "consumed"
    /\ g.scope \subseteq agreed[g.by] \intersect asked[g.flow] \intersect AllowedScopes

OneGrantPerCode == \A g, h \in grants : ~g.refreshed /\ ~h.refreshed /\ g.code = h.code => g = h

TakenOnce == \A f \in Flows : accepted[f] <= (IF entry[f] = "taken" THEN 1 ELSE 0)

OAuthInv ==
  OAuthTypes /\ ConsentAgreed /\ CodesCovered /\ GrantsCovered /\ OneGrantPerCode /\ TakenOnce

\* Every step keeps the types of the flows and codes.
LEMMA OAuthTyped == OAuthTypes /\ [OAuthNext]_oauthVars => OAuthTypes'
<1> SUFFICES ASSUME OAuthTypes, [OAuthNext]_oauthVars PROVE OAuthTypes'
  OBVIOUS
<1>1. ASSUME NEW f \in Flows, NEW wanted \in SUBSET Scopes, StartFlow(f, wanted) PROVE OAuthTypes'
  BY <1>1 DEF StartFlow, OAuthTypes, serverVars
<1>2. ASSUME NEW f \in Flows, StateExpires(f) PROVE OAuthTypes'
  BY <1>2 DEF StateExpires, OAuthTypes, serverVars
<1>3. ASSUME NEW f \in Flows, NEW g \in Flows, Callback(f, g) PROVE OAuthTypes'
  BY <1>3 DEF Callback, Consumed, OAuthTypes, serverVars
<1>4. CASE ClearCookie
  BY <1>4 DEF ClearCookie, OAuthTypes, serverVars
<1>5. ASSUME NEW s \in Subjects, LogIn(s) PROVE OAuthTypes'
  BY <1>5 DEF LogIn, OAuthTypes, clientVars
<1>6. ASSUME NEW f \in Flows, Authorize(f) PROVE OAuthTypes'
  BY <1>6 DEF OAuthTypes, Codes, Authorize, clientVars
<1>7. ASSUME NEW scopes \in SUBSET Scopes, GrantConsent(scopes) PROVE OAuthTypes'
  BY <1>7 DEF GrantConsent, OAuthTypes, clientVars
<1>8. ASSUME NEW f \in Flows, NEW st \in {"expired", "consumed"}
      PROVE  [code EXCEPT ![f].state = st] \in [Flows -> Codes]
  BY DEF OAuthTypes, Codes
<1>9. ASSUME NEW f \in Flows, CodeExpires(f) PROVE OAuthTypes'
  BY <1>8, <1>9 DEF CodeExpires, OAuthTypes, clientVars
<1>10. ASSUME NEW f \in Flows, NEW g \in Flows, TokenByCode(f, g) PROVE OAuthTypes'
  BY <1>8, <1>10 DEF TokenByCode, OAuthTypes
<1>11. ASSUME NEW f \in Flows, NEW g \in Flows, TokenRequestLost(f, g) PROVE OAuthTypes'
  BY <1>11 DEF TokenRequestLost, OAuthTypes, serverVars
<1>12. CASE UNCHANGED <<clientVars, serverVars>>
  BY <1>12 DEF OAuthTypes, clientVars, serverVars
<1> QED
  BY <1>1, <1>2, <1>3, <1>4, <1>5, <1>6, <1>7, <1>9, <1>10, <1>11, <1>12
  DEF OAuthNext, oauthVars, RefreshCheck, RefreshIssue, RevokeToken

\* What a step does to an entry, what was asked with it, and the logins it completed.
LEMMA EntriesMove ==
  ASSUME OAuthTypes, [OAuthNext]_oauthVars, NEW f \in Flows
  PROVE  /\ entry[f] # "none" => entry'[f] # "none" /\ asked'[f] = asked[f]
         /\ \/ accepted'[f] = accepted[f] /\ (entry[f] = "taken" => entry'[f] = "taken")
            \/ entry[f] = "put" /\ entry'[f] = "taken" /\ accepted'[f] = accepted[f] + 1
<1>t. /\ entry \in [Flows -> {"none", "put", "expired", "taken"}]
      /\ asked \in [Flows -> SUBSET Scopes] /\ accepted \in [Flows -> Nat]
  BY DEF OAuthTypes
<1> DEFINE Goal == /\ entry[f] # "none" => entry'[f] # "none" /\ asked'[f] = asked[f]
                   /\ \/ accepted'[f] = accepted[f] /\ (entry[f] = "taken" => entry'[f] = "taken")
                      \/ entry[f] = "put" /\ entry'[f] = "taken" /\ accepted'[f] = accepted[f] + 1
<1>1. ASSUME NEW g \in Flows, NEW wanted \in SUBSET Scopes, StartFlow(g, wanted) PROVE Goal
  BY <1>t, <1>1 DEF StartFlow
<1>2. ASSUME NEW g \in Flows, StateExpires(g) PROVE Goal
  BY <1>t, <1>2 DEF StateExpires
<1>3. ASSUME NEW e \in Flows, NEW g \in Flows, Callback(e, g) PROVE Goal
  BY <1>t, <1>3 DEF Callback, Consumed
<1>4. ASSUME UNCHANGED <<entry, asked, accepted>> PROVE Goal
  BY <1>4
<1> HIDE DEF Goal
<1>5. \/ \E g \in Flows, wanted \in SUBSET Scopes : StartFlow(g, wanted)
      \/ \E g \in Flows : StateExpires(g)
      \/ \E e, g \in Flows : Callback(e, g)
      \/ UNCHANGED <<entry, asked, accepted>>
  BY DEF OAuthNext, oauthVars, ClearCookie, LogIn, Authorize, GrantConsent, CodeExpires,
     TokenByCode, TokenRequestLost, RefreshCheck, RefreshIssue, RevokeToken, clientVars
<1>6. Goal
  BY <1>1, <1>2, <1>3, <1>4, <1>5
<1> QED
  BY <1>6 DEF Goal

\* What a subject agreed to is only added to.
LEMMA AgreementsGrow ==
  ASSUME OAuthTypes, ConsentAgreed, [OAuthNext]_oauthVars
  PROVE  ConsentAgreed' /\ \A s \in Subjects : agreed[s] \subseteq agreed'[s]
<1>t. consent \in [Subjects -> SUBSET Scopes] /\ agreed \in [Subjects -> SUBSET Scopes]
  BY DEF OAuthTypes
<1>1. ASSUME NEW scopes \in SUBSET Scopes, GrantConsent(scopes)
      PROVE  ConsentAgreed' /\ \A s \in Subjects : agreed[s] \subseteq agreed'[s]
  BY <1>t, <1>1 DEF GrantConsent, ConsentAgreed
<1>2. CASE UNCHANGED <<consent, agreed>>
  BY <1>2 DEF ConsentAgreed
<1> QED
  BY <1>1, <1>2 DEF OAuthNext, oauthVars, ClearCookie, LogIn, Authorize, CodeExpires, TokenByCode,
     StartFlow, StateExpires, Callback, TokenRequestLost, RefreshCheck, RefreshIssue, RevokeToken, serverVars

\* Every step keeps an issued code covered by what was asked for and agreed to.
LEMMA CodesStayCovered == OAuthInv /\ [OAuthNext]_oauthVars => CodesCovered'
<1> SUFFICES ASSUME OAuthInv, [OAuthNext]_oauthVars, NEW f \in Flows, code'[f].state = "issued"
             PROVE  /\ entry'[f] # "none" /\ code'[f].by \in Subjects
                    /\ code'[f].scope \subseteq agreed'[code'[f].by] \intersect asked'[f] \intersect AllowedScopes
  BY DEF CodesCovered
<1>t. /\ OAuthTypes /\ ConsentAgreed /\ CodesCovered /\ code \in [Flows -> Codes]
      /\ user \in Subjects \union {NoFlow}
  BY DEF OAuthInv, OAuthTypes
<1>e. /\ entry[f] # "none" => entry'[f] # "none" /\ asked'[f] = asked[f]
      /\ \A s \in Subjects : agreed[s] \subseteq agreed'[s]
  BY <1>t, EntriesMove, AgreementsGrow
<1>1. CASE code'[f] = code[f]
  BY <1>1, <1>t, <1>e DEF CodesCovered
<1>2. CASE /\ entry[f] # "none" /\ asked[f] \subseteq AllowedScopes /\ user # NoFlow
           /\ Missing(asked[f], consent[user]) = {}
           /\ code'[f] = [state |-> "issued", by |-> user, scope |-> asked[f]]
  BY <1>2, <1>t, <1>e DEF Missing, ConsentAgreed
<1>3. code'[f] = code[f] \/ /\ entry[f] # "none" /\ asked[f] \subseteq AllowedScopes /\ user # NoFlow
                            /\ Missing(asked[f], consent[user]) = {}
                            /\ code'[f] = [state |-> "issued", by |-> user, scope |-> asked[f]]
  <2> DEFINE Issued == /\ entry[f] # "none" /\ asked[f] \subseteq AllowedScopes /\ user # NoFlow
                       /\ Missing(asked[f], consent[user]) = {}
                       /\ code'[f] = [state |-> "issued", by |-> user, scope |-> asked[f]]
  <2>1. ASSUME NEW g \in Flows, Authorize(g) PROVE code'[f] = code[f] \/ Issued
    BY <1>t, <2>1 DEF Authorize
  <2>2. ASSUME NEW g \in Flows, NEW st \in {"expired", "consumed"}, code' = [code EXCEPT ![g].state = st]
        PROVE  code'[f] = code[f]
    BY <1>t, <2>2 DEF Codes
  <2>3. \/ code' = code
        \/ \E g \in Flows : Authorize(g)
        \/ \E g \in Flows, st \in {"expired", "consumed"} : code' = [code EXCEPT ![g].state = st]
    BY DEF OAuthNext, oauthVars, serverVars, StartFlow, StateExpires, Callback, ClearCookie, LogIn, GrantConsent,
       CodeExpires, TokenByCode, TokenRequestLost, RefreshCheck, RefreshIssue, RevokeToken
  <2> HIDE DEF Issued
  <2>4. code'[f] = code[f] \/ Issued
    BY <2>1, <2>2, <2>3
  <2> QED
    BY <2>4 DEF Issued
<1> QED
  BY <1>1, <1>2, <1>3

\* A consumed code stays consumed, and a flow that was begun stays begun.
LEMMA ConsumedStays ==
  ASSUME OAuthTypes, [OAuthNext]_oauthVars, NEW f \in Flows, code[f].state = "consumed"
  PROVE  code'[f].state = "consumed"
<1>t. code \in [Flows -> Codes]
  BY DEF OAuthTypes
<1>1. ASSUME NEW g \in Flows, Authorize(g) PROVE code'[f].state = "consumed"
  BY <1>t, <1>1 DEF Authorize
<1>2. ASSUME NEW g \in Flows, CodeExpires(g) PROVE code'[f].state = "consumed"
  BY <1>t, <1>2 DEF CodeExpires
<1>3. ASSUME NEW e \in Flows, NEW g \in Flows, TokenByCode(e, g) PROVE code'[f].state = "consumed"
  BY <1>3, <1>t DEF TokenByCode, Codes
<1> QED
  BY <1>1, <1>2, <1>3 DEF OAuthNext, oauthVars, serverVars, StartFlow, StateExpires, Callback, ClearCookie, LogIn,
     GrantConsent, TokenRequestLost, RefreshCheck, RefreshIssue, RevokeToken

\* Codes that were granted for are consumed; the grant covers no more than the code.
CodeGrant(g) ==
  /\ ~g.refreshed => /\ g.flow \in Flows /\ g.code = g.flow /\ code[g.flow].state = "issued"
                     /\ code'[g.flow].state = "consumed"
                     /\ g.by = code[g.flow].by /\ g.scope = code[g.flow].scope

\* A step grants for one code at most, which it consumes, or for a refresh token.
LEMMA GrantsOnlyCome ==
  ASSUME OAuthTypes, [OAuthNext]_oauthVars
  PROVE  \/ grants' = grants
         \/ \E g : grants' = grants \union {g} /\ CodeGrant(g)
<1>t. code \in [Flows -> Codes] /\ callback \subseteq Flows \X Flows
  BY DEF OAuthTypes
<1>1. ASSUME NEW f \in Flows, NEW g \in Flows, TokenByCode(f, g), grants' # grants
      PROVE  \E r : grants' = grants \union {r} /\ CodeGrant(r)
  <2> DEFINE r == [n |-> NextGrant, flow |-> f, code |-> g, by |-> code[g].by,
                   scope |-> code[g].scope, refreshed |-> FALSE]
  <2>1. /\ code[g].state = "issued" /\ f = g /\ grants' = grants \union {r}
        /\ code' = [code EXCEPT ![g].state = "consumed"]
    BY <1>1 DEF TokenByCode, IssueTokens, VerifierMatches
  <2>2. code'[g].state = "consumed"
    BY <1>t, <2>1 DEF Codes
  <2>3. /\ r.flow = f /\ r.code = g /\ r.by = code[g].by /\ r.scope = code[g].scope
    OBVIOUS
  <2> HIDE DEF r
  <2>4. CodeGrant(r)
    BY <2>1, <2>2, <2>3 DEF CodeGrant
  <2> QED
    BY <2>1, <2>4
<1>2. ASSUME NEW n \in 1..MaxGrants, NEW scope \in SUBSET Scopes, RefreshIssue(n, scope)
      PROVE  \E r : grants' = grants \union {r} /\ CodeGrant(r)
  <2>1. PICK g \in grants : IssueTokens(g.flow, g.code, g.by, scope, TRUE)
    BY <1>2 DEF RefreshIssue
  <2> DEFINE r == [n |-> NextGrant, flow |-> g.flow, code |-> g.code, by |-> g.by,
                   scope |-> scope, refreshed |-> TRUE]
  <2>2. grants' = grants \union {r} /\ r.refreshed
    BY <2>1 DEF IssueTokens
  <2> HIDE DEF r
  <2> QED
    BY <2>2 DEF CodeGrant
<1> QED
  BY <1>1, <1>2 DEF OAuthNext, oauthVars, grantVars, StartFlow, StateExpires, Callback, ClearCookie, LogIn,
     Authorize, GrantConsent, CodeExpires, TokenRequestLost, RefreshCheck, RevokeToken

\* Every step keeps what was granted for a code covered, and its only grant.
LEMMA GrantsStayCovered == OAuthInv /\ [OAuthNext]_oauthVars => GrantsCovered' /\ OneGrantPerCode'
<1> SUFFICES ASSUME OAuthInv, [OAuthNext]_oauthVars PROVE GrantsCovered' /\ OneGrantPerCode'
  OBVIOUS
<1>t. OAuthTypes /\ ConsentAgreed /\ CodesCovered /\ GrantsCovered /\ OneGrantPerCode
  BY DEF OAuthInv
<1>e. /\ \A f \in Flows : entry[f] # "none" => entry'[f] # "none" /\ asked'[f] = asked[f]
      /\ \A s \in Subjects : agreed[s] \subseteq agreed'[s]
      /\ \A f \in Flows : code[f].state = "consumed" => code'[f].state = "consumed"
  BY <1>t, EntriesMove, AgreementsGrow, ConsumedStays
<1>1. ASSUME NEW g \in grants, ~g.refreshed
      PROVE  /\ g.flow = g.code /\ g.flow \in Flows /\ g.by \in Subjects
             /\ entry'[g.flow] # "none" /\ code'[g.flow].state = "consumed"
             /\ g.scope \subseteq agreed'[g.by] \intersect asked'[g.flow] \intersect AllowedScopes
  BY <1>1, <1>t, <1>e DEF GrantsCovered
<1>2. ASSUME NEW g, CodeGrant(g), ~g.refreshed
      PROVE  /\ g.flow = g.code /\ g.flow \in Flows /\ g.by \in Subjects
             /\ entry'[g.flow] # "none" /\ code'[g.flow].state = "consumed"
             /\ g.scope \subseteq agreed'[g.by] \intersect asked'[g.flow] \intersect AllowedScopes
             /\ \A h \in grants : ~h.refreshed => h.code # g.code
  BY <1>2, <1>t, <1>e DEF CodeGrant, CodesCovered, GrantsCovered
<1>3. grants' = grants \/ \E g : grants' = grants \union {g} /\ CodeGrant(g)
  BY <1>t, GrantsOnlyCome
<1>4. GrantsCovered'
  BY <1>1, <1>2, <1>3 DEF GrantsCovered
<1>5. OneGrantPerCode'
  BY <1>t, <1>2, <1>3 DEF OneGrantPerCode
<1> QED
  BY <1>4, <1>5

\* Every step keeps the invariant of the logins.
LEMMA OAuthInductive == OAuthInv /\ [OAuthNext]_oauthVars => OAuthInv'
<1> SUFFICES ASSUME OAuthInv, [OAuthNext]_oauthVars PROVE OAuthInv'
  OBVIOUS
<1>1. TakenOnce'
  BY EntriesMove DEF OAuthInv, OAuthTypes, TakenOnce
<1> QED
  BY <1>1, OAuthTyped, AgreementsGrow, CodesStayCovered, GrantsStayCovered DEF OAuthInv

\* Nobody has begun to log in at the start.
LEMMA OAuthInvInit == OAuthInit => OAuthInv
<1> SUFFICES ASSUME OAuthInit PROVE OAuthInv
  OBVIOUS
<1>1. OAuthTypes
  BY DEF OAuthInit, OAuthTypes, NoCode, Codes
<1>2. ConsentAgreed /\ CodesCovered /\ GrantsCovered /\ OneGrantPerCode /\ TakenOnce
  BY DEF OAuthInit, ConsentAgreed, CodesCovered, GrantsCovered, OneGrantPerCode, TakenOnce, NoCode
<1> QED
  BY <1>1, <1>2 DEF OAuthInv

\* What a code grants goes to the flow it was issued for, once, within what was asked for
\* and agreed to; and a login is completed once per press of the button.
THEOREM LoginsAreTraceable == OAuthSpec => [](GrantsTraceable /\ OneLoginPerFlow)
<1>1. OAuthInv => GrantsTraceable /\ OneLoginPerFlow
  BY DEF OAuthInv, GrantsCovered, OneGrantPerCode, GrantsTraceable, OAuthTypes, TakenOnce, OneLoginPerFlow
<1> QED
  BY OAuthInvInit, OAuthInductive, <1>1, PTL DEF OAuthSpec
-----------------------------------------------------------------------------
(* Keys of a provider.  The document counts as fetched when it was, or never, *)
(* which is longer ago than it may be served stale.                          *)

RemoteInv ==
  /\ RemoteTypeOK
  /\ cachedAt \in {0, fetchedAt} /\ fetchedAt <= tick
  /\ NoKeyPastStale

\* The clock and the ages are natural numbers, and it starts later than they end.
LEMMA ClockCounts ==
  RemoteTypeOK => /\ tick \in Nat /\ cachedAt \in Nat /\ fetchedAt \in Nat /\ MaxStale < tick
                  /\ CacheTtl \in Nat /\ MaxStale \in Nat
BY RemoteAssumption DEF RemoteTypeOK, Clock

\* What is served fresh or stale was fetched that recently.
LEMMA ServedIsRecent ==
  ASSUME RemoteInv
  PROVE  /\ Fresh => tick - fetchedAt < CacheTtl
         /\ Servable => tick - fetchedAt < MaxStale
BY ClockCounts DEF RemoteInv, Fresh, Servable

\* The verifiers that wait for a document are the only ones that get it.
LEMMA ResumeGives ==
  ASSUME NEW key \in Keys \union {0}, RemoteTypeOK, Resume(key)
  PROVE  /\ got' \in [Verifiers -> Keys \union {0}]
         /\ kpc' \in [Verifiers -> {"idle", "first", "select", "second", "verified", "failed"}]
         /\ \A q \in Verifiers : kpc'[q] = "select" =>
              (kpc[q] = "select" /\ got'[q] = got[q]) \/ (key # 0 /\ got'[q] = key)
BY DEF RemoteTypeOK, Resume

\* Every step keeps the types of the key cache.
LEMMA RemoteTyped == RemoteTypeOK /\ [RemoteNext]_remoteVars => RemoteTypeOK'
<1> SUFFICES ASSUME RemoteTypeOK, [RemoteNext]_remoteVars PROVE RemoteTypeOK'
  OBVIOUS
<1>1. CASE Fetched
  BY <1>1, ResumeGives DEF Fetched, RemoteTypeOK, Keys
<1>2. CASE FetchFailed
  <2>1. (IF Servable THEN cached ELSE 0) \in Keys \union {0}
    BY DEF RemoteTypeOK
  <2>2. Resume(IF Servable THEN cached ELSE 0)
    BY <1>2 DEF FetchFailed
  <2> HIDE DEF Resume, Servable
  <2> QED
    BY <1>2, <2>1, <2>2, ResumeGives DEF FetchFailed, RemoteTypeOK
<1>3. CASE Refresh \/ Outage
  BY <1>3 DEF Refresh, Outage, Load, RemoteTypeOK, cacheVars, verifierVars
<1>4. CASE Rotate
  BY <1>4, RemoteAssumption DEF Rotate, RemoteTypeOK, cacheVars, verifierVars, Keys
<1>5. CASE TimePasses
  BY <1>5, RemoteAssumption DEF TimePasses, RemoteTypeOK, cacheVars, verifierVars, Clock
<1>6. ASSUME NEW q \in Verifiers, Select(q) PROVE RemoteTypeOK'
  BY <1>6 DEF Select, Load, RemoteTypeOK
<1>7. ASSUME NEW q \in Verifiers, NEW k \in Keys \union {0}, GetKey(q, k) PROVE RemoteTypeOK'
  BY <1>7 DEF GetKey, Load, RemoteTypeOK
<1>8. CASE UNCHANGED remoteVars
  BY <1>8 DEF remoteVars, RemoteTypeOK, cacheVars, verifierVars
<1> QED
  BY <1>1, <1>2, <1>3, <1>4, <1>5, <1>6, <1>7, <1>8 DEF RemoteNext

\* Every step keeps when the document was fetched, or forgets it.
LEMMA FetchedIsKnown ==
  RemoteInv /\ [RemoteNext]_remoteVars => cachedAt' \in {0, fetchedAt'} /\ fetchedAt' <= tick'
<1> SUFFICES ASSUME RemoteInv, [RemoteNext]_remoteVars
             PROVE  cachedAt' \in {0, fetchedAt'} /\ fetchedAt' <= tick'
  OBVIOUS
<1>1. tick \in Nat /\ fetchedAt \in Nat /\ fetchedAt <= tick /\ cachedAt \in {0, fetchedAt}
  BY ClockCounts DEF RemoteInv
<1>2. \/ fetchedAt' = tick /\ cachedAt' = tick /\ tick' = tick
      \/ fetchedAt' = fetchedAt /\ cachedAt' \in {0, cachedAt} /\ tick' \in {tick, tick + 1}
  BY DEF RemoteNext, remoteVars, cacheVars, verifierVars, Fetched, FetchFailed, Refresh, Rotate, Outage,
     TimePasses, Select, GetKey
<1> QED
  BY <1>1, <1>2

\* Every step gives a verifier only what is recent.
LEMMA KeysStayRecent == RemoteInv /\ [RemoteNext]_remoteVars => NoKeyPastStale'
<1> SUFFICES ASSUME RemoteInv, [RemoteNext]_remoteVars PROVE NoKeyPastStale'
  OBVIOUS
<1>t. /\ RemoteTypeOK /\ NoKeyPastStale
      /\ kpc \in [Verifiers -> {"idle", "first", "select", "second", "verified", "failed"}]
      /\ got \in [Verifiers -> Keys \union {0}]
  BY DEF RemoteInv, RemoteTypeOK
<1> DEFINE Recent == tick = fetchedAt \/ tick - fetchedAt < CacheTtl \/ tick - fetchedAt < MaxStale
<1>r. /\ Fresh \/ Servable => Recent
      /\ \A q \in Verifiers : kpc[q] = "select" /\ got[q] = cached => Recent
  BY <1>t, ServedIsRecent DEF NoKeyPastStale
<1>k. ASSUME UNCHANGED <<tick, fetchedAt>>,
             \A q \in Verifiers : kpc'[q] = "select" /\ got'[q] = cached' => Recent
      PROVE  NoKeyPastStale'
  BY <1>k DEF NoKeyPastStale
<1> HIDE DEF Recent
<1>1. CASE Fetched
  BY <1>1 DEF Fetched, NoKeyPastStale
<1>2. CASE FetchFailed
  <2> DEFINE key == IF Servable THEN cached ELSE 0
  <2>1. key \in Keys \union {0} /\ Resume(key)
    BY <1>2 DEF FetchFailed, RemoteInv, RemoteTypeOK
  <2>2. key # 0 => Recent
    BY <1>r
  <2> HIDE DEF key
  <2>3. \A q \in Verifiers : kpc'[q] = "select" /\ got'[q] = cached' => Recent
    BY <1>2, <1>t, <1>r, <2>1, <2>2, ResumeGives DEF FetchFailed
  <2> QED
    BY <1>2, <1>k, <2>3 DEF FetchFailed
<1>3. CASE Refresh \/ Outage \/ Rotate \/ UNCHANGED remoteVars
  BY <1>3, <1>r, <1>k DEF Refresh, Outage, Rotate, remoteVars, cacheVars, verifierVars
<1>5. CASE TimePasses
  BY <1>5 DEF TimePasses, NoKeyPastStale, verifierVars
<1>6. ASSUME NEW q \in Verifiers, Select(q) PROVE NoKeyPastStale'
  BY <1>6, <1>t, <1>r, <1>k DEF Select
<1>7. ASSUME NEW q \in Verifiers, NEW k \in Keys \union {0}, GetKey(q, k) PROVE NoKeyPastStale'
  BY <1>7, <1>t, <1>r, <1>k DEF GetKey
<1> QED
  BY <1>1, <1>2, <1>3, <1>5, <1>6, <1>7 DEF RemoteNext

\* A verifier is never given a document that is older than the two bounds allow: with a
\* fetch that takes its time, refreshes of the application and outages in between.
THEOREM KeysAreRecent == RemoteSpec => []NoKeyPastStale
<1>1. RemoteInit => RemoteInv
  <2> SUFFICES ASSUME RemoteInit PROVE RemoteInv
    OBVIOUS
  <2>1. 1 \in Keys /\ Start \in Clock /\ Start \in Nat
    BY RemoteAssumption DEF Keys, Clock
  <2>2. RemoteTypeOK
    BY <2>1 DEF RemoteInit, RemoteTypeOK
  <2>3. NoKeyPastStale
    BY DEF RemoteInit, NoKeyPastStale
  <2> QED
    BY <2>1, <2>2, <2>3 DEF RemoteInit, RemoteInv
<1>2. RemoteInv /\ [RemoteNext]_remoteVars => RemoteInv'
  BY RemoteTyped, FetchedIsKnown, KeysStayRecent DEF RemoteInv
<1>3. RemoteInv => NoKeyPastStale
  BY DEF RemoteInv
<1> QED
  BY <1>1, <1>2, <1>3, PTL DEF RemoteSpec
-----------------------------------------------------------------------------
(* Passkeys.  A challenge is taken by one handler, which has its ceremony to *)
(* itself; the version of a credential tells its counter.                    *)

\* A challenge is put once, and accepted only after it was taken.
ChallengesOnce ==
  \A k \in Ceremonies :
    /\ options[k] # "sent" => challenge[k] = "none"
    /\ challenge[k] # "taken" => acceptedAs[k] = 0 /\ \A h \in Handlers : ceremony[h] # k

\* Whoever verifies a ceremony does so alone, and it was not accepted before.
VerifiedAlone ==
  \A h \in Handlers :
    /\ wpc[h] = "idle" <=> ceremony[h] = NoCeremony
    /\ wpc[h] # "idle" => acceptedAs[ceremony[h]] = 0 /\ \A i \in Handlers : ceremony[i] = ceremony[h] => i = h

\* A registration is saved, a login with a response is looked up.
RightKind ==
  \A h \in Handlers :
    /\ wpc[h] \in {"check", "save"} => ceremony[h] \in Registrations
    /\ wpc[h] \in {"find", "swap"} => ceremony[h] \in Logins /\ response[ceremony[h]] # NoResponse

\* A response is that of a registered authenticator.
ResponsesSigned ==
  \A l \in Logins : response[l] # NoResponse => response[l].by \in Registrations

\* What is stored was accepted; while the version is the one that was read, so is the counter.
VersionTellsCount ==
  /\ \A k \in Registrations :
       IF credential[k].there THEN acceptedAs[k] > 0 ELSE credential[k].count = 0
  /\ \A h \in Handlers : wpc[h] = "swap" =>
       LET k == response[ceremony[h]].by IN
       /\ credential[k].there /\ seenCred[h].version <= credential[k].version
       /\ seenCred[h].version = credential[k].version => seenCred[h].count = credential[k].count

\* Every handle that went out finds the user, or was replaced in the repo.
HandlesKnown ==
  /\ handle # NoCeremony => handle \in known
  /\ \A k \in Registrations : options[k] = "sent" =>
       givenHandle[k] \in known \/ (userStore = "repo" /\ handle # givenHandle[k])

PasskeyInv ==
  /\ PasskeyTypeOK /\ ChallengesOnce /\ VerifiedAlone /\ RightKind /\ ResponsesSigned
  /\ VersionTellsCount /\ HandlesKnown /\ AcceptedOnce

\* Every step keeps the types of the ceremonies.
LEMMA PasskeysTyped == PasskeyInv /\ [PasskeyNext]_passkeyVars => PasskeyTypeOK'
<1> SUFFICES ASSUME PasskeyInv, [PasskeyNext]_passkeyVars PROVE PasskeyTypeOK'
  OBVIOUS
<1>t. PasskeyTypeOK
  BY DEF PasskeyInv
<1>1. ASSUME NEW k \in Registrations, RegistrationOptions(k) \/ MintHandle(k) PROVE PasskeyTypeOK'
  BY <1>t, <1>1 DEF PasskeyTypeOK, RegistrationOptions, MintHandle, KnownAfter, deviceVars, handlerVars
<1>2. ASSUME NEW l \in Logins, LoginOptions(l) PROVE PasskeyTypeOK'
  BY <1>t, <1>2 DEF PasskeyTypeOK, LoginOptions, deviceVars, handlerVars, Ceremonies
<1>3. ASSUME NEW l \in Logins, NEW k \in Registrations, Sign(l, k) PROVE PasskeyTypeOK'
  BY <1>3, <1>t, PasskeyAssumption DEF Sign, PasskeyTypeOK, handleVars, handlerVars
<1>4. ASSUME NEW k \in Ceremonies, ChallengeExpires(k) PROVE PasskeyTypeOK'
  BY <1>t, <1>4 DEF PasskeyTypeOK, ChallengeExpires, handleVars, deviceVars, handlerVars
<1>5. ASSUME NEW k \in Ceremonies, NEW h \in Handlers, VerifyResponse(h, k) PROVE PasskeyTypeOK'
  BY <1>t, <1>5 DEF PasskeyTypeOK, VerifyResponse, ChallengeTaken, handleVars, deviceVars
<1>n. NoCredential \in CredentialRecords
  BY PasskeyAssumption DEF NoCredential, CredentialRecords
<1>6. ASSUME NEW h \in Handlers, SaveCredential(h) PROVE PasskeyTypeOK'
  <2>1. ceremony[h] \in Registrations
    BY <1>6 DEF PasskeyInv, RightKind, SaveCredential
  <2>2. [there |-> TRUE, count |-> 0, version |-> 0] \in CredentialRecords
    BY PasskeyAssumption DEF CredentialRecords
  <2>3. credential' \in [Registrations -> CredentialRecords]
    BY <1>t, <1>6, <2>1, <2>2 DEF PasskeyTypeOK, SaveCredential
  <2>4. acceptedAs' \in [Ceremonies -> Nat]
    BY <1>t, <1>6, <2>1 DEF PasskeyTypeOK, SaveCredential, Ceremonies
  <2>5. Finished(h) /\ UNCHANGED <<userStore, onClone, handleVars, challenge, deviceVars>>
    BY <1>6 DEF SaveCredential
  <2> QED
    BY <1>t, <1>n, <2>3, <2>4, <2>5 DEF PasskeyTypeOK, Finished, handleVars, deviceVars
<1>c. ASSUME NEW h \in Handlers, CheckRegistered(h) PROVE PasskeyTypeOK'
  BY <1>t, <1>n, <1>c DEF PasskeyTypeOK, CheckRegistered, Finished, handleVars, deviceVars
<1>s. \A h \in Handlers : wpc[h] \in {"find", "swap"} =>
        /\ ceremony[h] \in Logins /\ response[ceremony[h]].by \in Registrations
        /\ response[ceremony[h]].count \in 0..MaxCount
  BY <1>t DEF PasskeyInv, PasskeyTypeOK, RightKind, ResponsesSigned
<1>7. ASSUME NEW h \in Handlers, FindCredential(h) PROVE PasskeyTypeOK'
  BY <1>t, <1>n, <1>s, <1>7 DEF PasskeyTypeOK, FindCredential, Finished, handleVars, deviceVars
<1>8. ASSUME NEW h \in Handlers, UpdateSignCount(h) PROVE PasskeyTypeOK'
  <2> DEFINE l == ceremony[h]
             k == response[l].by
             n == response[l].count
  <2>1. l \in Logins /\ k \in Registrations /\ n \in 0..MaxCount
    BY <1>s, <1>8 DEF UpdateSignCount
  <2>2. /\ \/ credential' = [credential EXCEPT ![k] = [there |-> TRUE, count |-> n, version |-> @.version + 1]]
              /\ acceptedAs' = [acceptedAs EXCEPT ![l] = @ + 1]
           \/ UNCHANGED <<credential, acceptedAs>>
        /\ Finished(h)
        /\ UNCHANGED <<userStore, onClone, handleVars, challenge, deviceVars>>
    BY <1>8 DEF UpdateSignCount
  <2> HIDE DEF l, k, n
  <2>3. credential' \in [Registrations -> CredentialRecords] /\ acceptedAs' \in [Ceremonies -> Nat]
    <3>1. [there |-> TRUE, count |-> n, version |-> credential[k].version + 1] \in CredentialRecords
      BY <1>t, <2>1 DEF PasskeyTypeOK, CredentialRecords
    <3>2. credential \in [Registrations -> CredentialRecords] /\ acceptedAs \in [Ceremonies -> Nat]
      BY <1>t DEF PasskeyTypeOK
    <3>3. CASE UNCHANGED <<credential, acceptedAs>>
      BY <3>2, <3>3
    <3>4. CASE /\ credential' = [credential EXCEPT ![k] = [there |-> TRUE, count |-> n, version |-> @.version + 1]]
               /\ acceptedAs' = [acceptedAs EXCEPT ![l] = @ + 1]
      BY <3>1, <3>2, <3>4, <2>1 DEF Ceremonies
    <3> QED
      BY <2>2, <3>3, <3>4
  <2> QED
    BY <1>t, <1>n, <2>2, <2>3 DEF PasskeyTypeOK, Finished, handleVars, deviceVars
<1>9. CASE UNCHANGED passkeyVars
  BY <1>t, <1>9 DEF PasskeyTypeOK, passkeyVars, handleVars, deviceVars, handlerVars
<1> QED
  BY <1>1, <1>2, <1>3, <1>4, <1>5, <1>6, <1>c, <1>7, <1>8, <1>9 DEF PasskeyNext

\* Who takes a challenge is the only one that verifies its ceremony, and counts once.
LEMMA ChallengesStayOnce ==
  PasskeyInv /\ [PasskeyNext]_passkeyVars => ChallengesOnce' /\ VerifiedAlone' /\ AcceptedOnce'
<1> SUFFICES ASSUME PasskeyInv, [PasskeyNext]_passkeyVars
             PROVE  ChallengesOnce' /\ VerifiedAlone' /\ AcceptedOnce'
  OBVIOUS
<1>t. /\ ChallengesOnce /\ VerifiedAlone /\ AcceptedOnce /\ RightKind
      /\ options \in [Ceremonies -> {"none", "minting", "sent"}]
      /\ challenge \in [Ceremonies -> {"none", "put", "expired", "taken"}]
      /\ wpc \in [Handlers -> {"idle", "check", "save", "find", "swap"}]
      /\ ceremony \in [Handlers -> Ceremonies \union {NoCeremony}]
      /\ acceptedAs \in [Ceremonies -> Nat]
      /\ NoCeremony \notin Ceremonies /\ Registrations \subseteq Ceremonies /\ Logins \subseteq Ceremonies
  BY PasskeyAssumption DEF PasskeyInv, PasskeyTypeOK, Ceremonies
\* Steps that leave the handlers alone put challenges or let them expire.
<1>1. ASSUME UNCHANGED <<wpc, ceremony, acceptedAs>>,
             \A k \in Ceremonies : options'[k] # "sent" => options[k] # "sent" /\ challenge'[k] = challenge[k],
             \A k \in Ceremonies : challenge'[k] # "taken" => challenge[k] # "taken"
      PROVE  ChallengesOnce' /\ VerifiedAlone' /\ AcceptedOnce'
  BY <1>t, <1>1 DEF ChallengesOnce, VerifiedAlone, AcceptedOnce
<1>2. ASSUME NEW k \in Registrations, RegistrationOptions(k) \/ MintHandle(k)
      PROVE  ChallengesOnce' /\ VerifiedAlone' /\ AcceptedOnce'
  BY <1>2, <1>t, <1>1 DEF RegistrationOptions, MintHandle, ChallengesOnce, handlerVars
<1>3. ASSUME NEW l \in Logins, LoginOptions(l) PROVE ChallengesOnce' /\ VerifiedAlone' /\ AcceptedOnce'
  BY <1>t, <1>3, <1>1 DEF LoginOptions, ChallengesOnce, handlerVars
<1>4. ASSUME NEW k \in Ceremonies, ChallengeExpires(k) PROVE ChallengesOnce' /\ VerifiedAlone' /\ AcceptedOnce'
  BY <1>t, <1>4, <1>1 DEF ChallengeExpires, ChallengesOnce, handlerVars, handleVars
<1>5. ASSUME UNCHANGED <<wpc, ceremony, acceptedAs, options, challenge>>
      PROVE  ChallengesOnce' /\ VerifiedAlone' /\ AcceptedOnce'
  BY <1>t, <1>5 DEF ChallengesOnce, VerifiedAlone, AcceptedOnce
<1>6. ASSUME NEW k \in Ceremonies, NEW h \in Handlers, VerifyResponse(h, k)
      PROVE  ChallengesOnce' /\ VerifiedAlone' /\ AcceptedOnce'
  BY <1>t, <1>6 DEF VerifyResponse, ChallengesOnce, ChallengeTaken, handleVars, VerifiedAlone, AcceptedOnce
\* A handler that ends has counted its ceremony at most.
<1>7. ASSUME NEW h \in Handlers, wpc[h] # "idle", Finished(h), UNCHANGED <<options, challenge>>,
             acceptedAs' \in {acceptedAs, [acceptedAs EXCEPT ![ceremony[h]] = @ + 1]}
      PROVE  ChallengesOnce' /\ VerifiedAlone' /\ AcceptedOnce'
  BY <1>t, <1>7 DEF VerifiedAlone, ChallengesOnce, Finished, AcceptedOnce
<1>8. ASSUME NEW h \in Handlers, SaveCredential(h) \/ UpdateSignCount(h)
      PROVE  ChallengesOnce' /\ VerifiedAlone' /\ AcceptedOnce'
  BY <1>8, <1>7 DEF SaveCredential, UpdateSignCount, handleVars
<1>9. ASSUME NEW h \in Handlers, FindCredential(h) PROVE ChallengesOnce' /\ VerifiedAlone' /\ AcceptedOnce'
  <2>1. /\ wpc[h] = "find" /\ UNCHANGED <<options, challenge, acceptedAs>>
        /\ Finished(h) \/ (wpc' = [wpc EXCEPT ![h] = "swap"] /\ ceremony' = ceremony)
    BY <1>9 DEF FindCredential, handleVars
  <2>2. CASE Finished(h)
    BY <1>7, <2>1, <2>2
  <2>3. CASE wpc' = [wpc EXCEPT ![h] = "swap"] /\ ceremony' = ceremony
    BY <1>t, <2>1, <2>3 DEF ChallengesOnce, AcceptedOnce, VerifiedAlone
  <2> QED
    BY <2>1, <2>2, <2>3
<1>10. ASSUME NEW h \in Handlers, CheckRegistered(h) PROVE ChallengesOnce' /\ VerifiedAlone' /\ AcceptedOnce'
  <2>1. /\ wpc[h] = "check" /\ UNCHANGED <<options, challenge, acceptedAs>>
        /\ Finished(h) \/ (wpc' = [wpc EXCEPT ![h] = "save"] /\ ceremony' = ceremony)
    BY <1>10 DEF CheckRegistered, handleVars
  <2>2. CASE Finished(h)
    BY <1>7, <2>1, <2>2
  <2>3. CASE wpc' = [wpc EXCEPT ![h] = "save"] /\ ceremony' = ceremony
    BY <1>t, <2>1, <2>3 DEF ChallengesOnce, AcceptedOnce, VerifiedAlone
  <2> QED
    BY <2>1, <2>2, <2>3
<1> QED
  BY <1>2, <1>3, <1>4, <1>5, <1>6, <1>8, <1>9, <1>10
  DEF PasskeyNext, Sign, passkeyVars, handleVars, handlerVars

\* A step answers a login at most, with an assertion of somebody who registered.
LEMMA ResponsesOnlyCome ==
  ASSUME PasskeyTypeOK, [PasskeyNext]_passkeyVars
  PROVE  \/ response' = response
         \/ \E l \in Logins, k \in Registrations, n \in 0..MaxCount :
              /\ response[l] = NoResponse /\ response' = [response EXCEPT ![l] = [by |-> k, count |-> n]]
              /\ UNCHANGED <<userStore, onClone, handleVars, challenge, credential, handlerVars, acceptedAs>>
<1>1. ASSUME NEW l \in Logins, NEW k \in Registrations, Sign(l, k)
      PROVE  \E n \in 0..MaxCount :
               /\ response[l] = NoResponse /\ response' = [response EXCEPT ![l] = [by |-> k, count |-> n]]
               /\ UNCHANGED <<userStore, onClone, handleVars, challenge, credential, handlerVars, acceptedAs>>
  <2>1. PICK n \in {0, counter[k] + 1} :
          n <= MaxCount /\ response' = [response EXCEPT ![l] = [by |-> k, count |-> n]]
    BY <1>1 DEF Sign
  <2>2. counter[k] \in 0..MaxCount
    BY DEF PasskeyTypeOK
  <2>3. n \in 0..MaxCount
    BY <2>1, <2>2, PasskeyAssumption
  <2> QED
    BY <1>1, <2>1, <2>3 DEF Sign
<1> QED
  BY <1>1 DEF PasskeyNext, passkeyVars, deviceVars, RegistrationOptions, MintHandle, LoginOptions,
     ChallengeExpires, VerifyResponse, CheckRegistered, SaveCredential, FindCredential, UpdateSignCount

\* Every step keeps a response with its authenticator, and a handler with the kind
\* of ceremony it verifies.
LEMMA KindsStay == PasskeyInv /\ [PasskeyNext]_passkeyVars => RightKind' /\ ResponsesSigned'
<1> SUFFICES ASSUME PasskeyInv, [PasskeyNext]_passkeyVars PROVE RightKind' /\ ResponsesSigned'
  OBVIOUS
<1>t. /\ PasskeyTypeOK /\ RightKind /\ ResponsesSigned
      /\ wpc \in [Handlers -> {"idle", "check", "save", "find", "swap"}]
      /\ ceremony \in [Handlers -> Ceremonies \union {NoCeremony}]
      /\ response \in [Logins -> [by : Registrations \union {NoCeremony}, count : 0..MaxCount]]
  BY DEF PasskeyInv, PasskeyTypeOK
<1>1. CASE response' # response
  BY <1>t, <1>1, ResponsesOnlyCome, PasskeyAssumption DEF NoResponse, ResponsesSigned, RightKind, handlerVars
<1>2. CASE response' = response
  <2>1. ResponsesSigned'
    BY <1>t, <1>2 DEF ResponsesSigned
  <2>2. ASSUME NEW h \in Handlers, Finished(h) PROVE RightKind'
    BY <1>t, <1>2, <2>2 DEF RightKind, Finished
  <2>3. ASSUME NEW k \in Ceremonies, NEW h \in Handlers, VerifyResponse(h, k) PROVE RightKind'
    BY <1>t, <1>2, <2>3 DEF RightKind, VerifyResponse, Ceremonies
  <2>4. ASSUME NEW h \in Handlers, FindCredential(h) PROVE RightKind'
    BY <2>4, <1>t, <1>2, <2>2 DEF FindCredential, RightKind
  <2>5. CASE UNCHANGED handlerVars
    BY <2>5, <1>t, <1>2, <2>1 DEF handlerVars, RightKind
  <2>7. ASSUME NEW h \in Handlers, CheckRegistered(h) PROVE RightKind'
    BY <2>7, <1>t, <1>2, <2>2 DEF CheckRegistered, RightKind
  <2>6. RightKind'
    BY <2>2, <2>3, <2>4, <2>5, <2>7 DEF PasskeyNext, passkeyVars, RegistrationOptions, MintHandle, LoginOptions,
       Sign, ChallengeExpires, CheckRegistered, SaveCredential, UpdateSignCount
  <2> QED
    BY <2>1, <2>6
<1> QED
  BY <1>1, <1>2

\* A handler counts credential k under its next version.
CountedBy(k, h) ==
  /\ wpc[h] = "swap" /\ k = response[ceremony[h]].by /\ UnchangedSince(k, seenCred[h])
  /\ Regressed(response[ceremony[h]].count, seenCred[h]) => onClone = "warn"
  /\ credential'[k].there /\ credential'[k].count = response[ceremony[h]].count
  /\ credential'[k].version = credential[k].version + 1

\* A step leaves a credential as it is, makes it, or counts it under the next version.
LEMMA CredentialsOnlyCount ==
  ASSUME PasskeyInv, [PasskeyNext]_passkeyVars, NEW k \in Registrations
  PROVE  \/ credential'[k] = credential[k]
         \/ ~credential[k].there /\ credential'[k].there /\ credential'[k].count = 0
         \/ \E h \in Handlers : CountedBy(k, h)
<1>t. credential \in [Registrations -> CredentialRecords]
  BY DEF PasskeyInv, PasskeyTypeOK
<1>1. ASSUME NEW h \in Handlers, SaveCredential(h)
      PROVE  \/ credential'[k] = credential[k]
             \/ ~credential[k].there /\ credential'[k].there /\ credential'[k].count = 0
  BY <1>1, <1>t DEF SaveCredential, PasskeyInv, RightKind, VerifiedAlone, VersionTellsCount
<1>2. ASSUME NEW h \in Handlers, UpdateSignCount(h)
      PROVE  credential'[k] = credential[k] \/ CountedBy(k, h)
  <2> DEFINE j == response[ceremony[h]].by
             n == response[ceremony[h]].count
  <2>1. /\ wpc[h] = "swap"
        /\ \/ credential' = credential
           \/ /\ Regressed(n, seenCred[h]) => onClone = "warn"
              /\ UnchangedSince(j, seenCred[h])
              /\ credential' = [credential EXCEPT ![j] = [there |-> TRUE, count |-> n, version |-> @.version + 1]]
    BY <1>2 DEF UpdateSignCount
  <2>2. \/ credential'[k] = credential[k]
        \/ k = j /\ credential'[k] = [there |-> TRUE, count |-> n, version |-> credential[k].version + 1]
    BY <1>t, <2>1
  <2>3. CASE credential' = credential
    BY <2>3
  <2>4. CASE /\ k = j /\ UnchangedSince(j, seenCred[h]) /\ (Regressed(n, seenCred[h]) => onClone = "warn")
             /\ credential'[k] = [there |-> TRUE, count |-> n, version |-> credential[k].version + 1]
    BY <2>4, <2>1 DEF CountedBy
  <2> QED
    BY <2>1, <2>2, <2>3, <2>4
<1>3. credential' = credential \/ \E h \in Handlers : SaveCredential(h) \/ UpdateSignCount(h)
  BY DEF PasskeyNext, passkeyVars, RegistrationOptions, MintHandle, LoginOptions, Sign,
     ChallengeExpires, VerifyResponse, CheckRegistered, FindCredential
<1> QED
  BY <1>1, <1>2, <1>3

\* Every step keeps what is stored accepted.
LEMMA StoredIsAccepted ==
  ASSUME PasskeyInv, [PasskeyNext]_passkeyVars, NEW k \in Registrations, credential'[k].there
  PROVE  acceptedAs'[k] > 0
<1>t. /\ credential \in [Registrations -> CredentialRecords] /\ acceptedAs \in [Ceremonies -> Nat]
      /\ Registrations \subseteq Ceremonies /\ Registrations \intersect Logins = {}
      /\ credential[k].there => acceptedAs[k] > 0
  BY PasskeyAssumption DEF PasskeyInv, PasskeyTypeOK, VersionTellsCount, Ceremonies
<1>1. ASSUME NEW h \in Handlers, SaveCredential(h) PROVE acceptedAs'[k] > 0
  BY <1>1, <1>t DEF SaveCredential
<1>2. ASSUME NEW h \in Handlers, UpdateSignCount(h) PROVE acceptedAs'[k] > 0
  <2> DEFINE j == response[ceremony[h]].by
  <2>1. /\ wpc[h] = "swap"
        /\ \/ UNCHANGED <<credential, acceptedAs>>
           \/ /\ credential' = [credential EXCEPT ![j] =
                                 [there |-> TRUE, count |-> response[ceremony[h]].count, version |-> @.version + 1]]
              /\ acceptedAs' = [acceptedAs EXCEPT ![ceremony[h]] = @ + 1]
    BY <1>2 DEF UpdateSignCount
  <2>2. credential[j].there
    BY <2>1 DEF PasskeyInv, VersionTellsCount
  <2>3. credential[k].there
    BY <1>t, <2>1, <2>2
  <2>4. acceptedAs'[k] \in {acceptedAs[k], acceptedAs[k] + 1}
    BY <1>t, <2>1
  <2> QED
    BY <1>t, <2>3, <2>4
<1>3. UNCHANGED <<credential, acceptedAs>> \/ \E h \in Handlers : SaveCredential(h) \/ UpdateSignCount(h)
  BY DEF PasskeyNext, passkeyVars, RegistrationOptions, MintHandle, LoginOptions, Sign,
     ChallengeExpires, VerifyResponse, CheckRegistered, FindCredential
<1> QED
  BY <1>t, <1>1, <1>2, <1>3

\* Every step keeps the version telling the counter.
LEMMA VersionsTell == PasskeyInv /\ [PasskeyNext]_passkeyVars => VersionTellsCount'
<1> SUFFICES ASSUME PasskeyInv, [PasskeyNext]_passkeyVars PROVE VersionTellsCount'
  OBVIOUS
<1>t. /\ PasskeyTypeOK /\ RightKind /\ ResponsesSigned /\ VersionTellsCount
      /\ wpc \in [Handlers -> {"idle", "check", "save", "find", "swap"}]
      /\ seenCred \in [Handlers -> CredentialRecords]
  BY DEF PasskeyInv, PasskeyTypeOK
<1>r. \A k \in Registrations : credential[k].version \in Nat /\ credential[k].count \in 0..MaxCount
  BY <1>t DEF PasskeyTypeOK, CredentialRecords
<1>1. ASSUME NEW k \in Registrations, ~credential'[k].there PROVE credential'[k].count = 0
  BY <1>1, <1>t, CredentialsOnlyCount DEF VersionTellsCount, CountedBy
<1>3. ASSUME NEW k \in Registrations, credential'[k].there PROVE acceptedAs'[k] > 0
  BY <1>3, StoredIsAccepted
<1>2. ASSUME NEW h \in Handlers, wpc'[h] = "swap"
      PROVE  LET k == response'[ceremony'[h]].by IN
             /\ credential'[k].there /\ seenCred'[h].version <= credential'[k].version
             /\ seenCred'[h].version = credential'[k].version => seenCred'[h].count = credential'[k].count
  <2> DEFINE k == response[ceremony[h]].by
  <2>1. /\ ceremony'[h] = ceremony[h] /\ response'[ceremony[h]] = response[ceremony[h]]
        /\ \/ wpc[h] = "swap" /\ seenCred'[h] = seenCred[h] /\ ~Finished(h)
           \/ wpc[h] = "find" /\ credential' = credential /\ credential[k].there /\ seenCred'[h] = credential[k]
    <3>1. ~Finished(h)
      BY <1>2, <1>t DEF Finished
    <3>2. CASE UNCHANGED handlerVars
      BY <1>t, <1>2, <3>2, ResponsesOnlyCome, <3>1 DEF PasskeyTypeOK, handlerVars, RightKind
    <3>3. ASSUME NEW i \in Handlers, Finished(i), response' = response
          PROVE  wpc[h] = "swap" /\ ceremony'[h] = ceremony[h] /\ seenCred'[h] = seenCred[h]
      BY <1>2, <1>t, <3>3, <3>1 DEF Finished, PasskeyTypeOK
    <3>4. ASSUME NEW i \in Handlers, NEW j \in Ceremonies, VerifyResponse(i, j)
          PROVE  wpc[h] = "swap" /\ ceremony'[h] = ceremony[h] /\ seenCred'[h] = seenCred[h] /\ response' = response
      BY <1>2, <1>t, <3>4 DEF VerifyResponse, PasskeyTypeOK, deviceVars
    <3>5. ASSUME NEW i \in Handlers, FindCredential(i), ~Finished(i)
          PROVE  /\ ceremony'[h] = ceremony[h] /\ response' = response /\ credential' = credential
                 /\ \/ wpc[h] = "swap" /\ seenCred'[h] = seenCred[h]
                    \/ wpc[h] = "find" /\ credential[k].there /\ seenCred'[h] = credential[k]
      BY <3>5, <1>2, <1>t DEF FindCredential, deviceVars
    <3>7. ASSUME NEW i \in Handlers, CheckRegistered(i), ~Finished(i)
          PROVE  wpc[h] = "swap" /\ ceremony'[h] = ceremony[h] /\ seenCred'[h] = seenCred[h] /\ response' = response
      BY <1>2, <1>t, <3>7 DEF CheckRegistered, PasskeyTypeOK, deviceVars
    <3>6. response' = response \/ UNCHANGED handlerVars
      BY DEF PasskeyNext, passkeyVars, RegistrationOptions, MintHandle, LoginOptions, Sign,
         ChallengeExpires, VerifyResponse, FindCredential, CheckRegistered, SaveCredential, UpdateSignCount, deviceVars
    <3> QED
      BY <3>1, <3>2, <3>3, <3>4, <3>5, <3>6, <3>7
      DEF PasskeyNext, passkeyVars, RegistrationOptions, MintHandle, LoginOptions, Sign,
         ChallengeExpires, CheckRegistered, SaveCredential, UpdateSignCount, deviceVars, FindCredential
  <2>2. k \in Registrations
    BY <1>t, <2>1 DEF RightKind, ResponsesSigned
  <2> HIDE DEF k
  <2>3. CASE wpc[h] = "find" /\ credential' = credential /\ credential[k].there /\ seenCred'[h] = credential[k]
    BY <1>r, <2>1, <2>2, <2>3 DEF k
  <2>4. CASE wpc[h] = "swap" /\ seenCred'[h] = seenCred[h] /\ ~Finished(h)
    BY <1>t, <2>4, <2>2, CredentialsOnlyCount, <1>r, <2>1 DEF VersionTellsCount, k, CredentialRecords, CountedBy
  <2> QED
    BY <2>1, <2>3, <2>4
<1> QED
  BY <1>1, <1>2, <1>3 DEF VersionTellsCount

\* With onClone "throw", no step lowers a counter.
LEMMA CountersGrow ==
  PasskeyInv /\ [PasskeyNext]_passkeyVars =>
    \A k \in Registrations : onClone = "throw" => credential'[k].count >= credential[k].count
<1> SUFFICES ASSUME PasskeyInv, [PasskeyNext]_passkeyVars, NEW k \in Registrations, onClone = "throw"
             PROVE  credential'[k].count >= credential[k].count
  OBVIOUS
<1>1. credential[k].count \in Nat /\ (~credential[k].there => credential[k].count = 0)
  BY PasskeyAssumption DEF PasskeyInv, PasskeyTypeOK, CredentialRecords, VersionTellsCount
<1>2. ASSUME NEW h \in Handlers, wpc[h] = "swap", k = response[ceremony[h]].by,
             UnchangedSince(k, seenCred[h]), ~Regressed(response[ceremony[h]].count, seenCred[h])
      PROVE  response[ceremony[h]].count >= credential[k].count
  BY <1>2, <1>1, PasskeyAssumption DEF PasskeyInv, VersionTellsCount, UnchangedSince, RightKind, PasskeyTypeOK, Regressed
<1>3. CASE credential'[k] = credential[k]
  BY <1>1, <1>3
<1>4. CASE \E h \in Handlers : CountedBy(k, h)
  BY <1>2, <1>4 DEF CountedBy
<1> QED
  BY <1>1, <1>3, <1>4, CredentialsOnlyCount

\* Every step keeps the handles findable.
LEMMA HandlesStayKnown == PasskeyInv /\ [PasskeyNext]_passkeyVars => HandlesKnown'
<1> SUFFICES ASSUME PasskeyInv, [PasskeyNext]_passkeyVars PROVE HandlesKnown'
  OBVIOUS
<1>t. /\ HandlesKnown
      /\ options \in [Ceremonies -> {"none", "minting", "sent"}]
      /\ givenHandle \in [Registrations -> Registrations \union {NoCeremony}]
      /\ userStore \in {"memory", "repo"} /\ NoCeremony \notin Registrations
      /\ Registrations \subseteq Ceremonies /\ Registrations \intersect Logins = {} /\ Logins \subseteq Ceremonies
  BY PasskeyAssumption DEF PasskeyInv, PasskeyTypeOK, Ceremonies
<1>1. ASSUME NEW k \in Registrations, RegistrationOptions(k) PROVE HandlesKnown'
  BY <1>t, <1>1 DEF HandlesKnown, RegistrationOptions
<1>2. ASSUME NEW k \in Registrations, MintHandle(k) PROVE HandlesKnown'
  BY <1>2, <1>t DEF MintHandle, KnownAfter, HandlesKnown
<1>3. ASSUME NEW l \in Logins, LoginOptions(l) PROVE HandlesKnown'
  BY <1>t, <1>3 DEF HandlesKnown, LoginOptions
<1>4. CASE UNCHANGED <<userStore, handleVars>>
  BY <1>t, <1>4 DEF HandlesKnown, handleVars
<1> QED
  BY <1>1, <1>2, <1>3, <1>4 DEF PasskeyNext, passkeyVars, Sign, ChallengeExpires, VerifyResponse,
     CheckRegistered, SaveCredential, FindCredential, UpdateSignCount

\* Nobody has begun at the start.
LEMMA PasskeysAtRest == PasskeyInit => PasskeyInv
<1> SUFFICES ASSUME PasskeyInit PROVE PasskeyInv
  OBVIOUS
<1>1. NoCredential \in CredentialRecords /\ 0 \in 0..MaxCount
  BY PasskeyAssumption DEF NoCredential, CredentialRecords
<1>2. NoResponse \in [by : Registrations \union {NoCeremony}, count : 0..MaxCount]
  BY <1>1 DEF NoResponse
<1>3. PasskeyTypeOK
  BY <1>1, <1>2 DEF PasskeyInit, PasskeyTypeOK
<1>4. ChallengesOnce /\ VerifiedAlone /\ RightKind /\ HandlesKnown /\ AcceptedOnce /\ ResponsesSigned
  BY PasskeyAssumption DEF PasskeyInit, ChallengesOnce, VerifiedAlone, RightKind, HandlesKnown, AcceptedOnce,
     ResponsesSigned, Ceremonies
<1>5. VersionTellsCount
  BY DEF PasskeyInit, VersionTellsCount, NoCredential
<1> QED
  BY <1>3, <1>4, <1>5 DEF PasskeyInv

\* Every step keeps the invariant of the passkeys.
LEMMA PasskeyInductive == PasskeyInv /\ [PasskeyNext]_passkeyVars => PasskeyInv'
BY PasskeysTyped, ChallengesStayOnce, KindsStay, VersionsTell, HandlesStayKnown DEF PasskeyInv

\* Each ceremony is accepted once at most, and the handle that a registration gave away
\* finds its user, or was replaced in the repo.
THEOREM CeremoniesHold == PasskeySpec => [](AcceptedOnce /\ HandleFindsUser)
<1>1. PasskeyInv => AcceptedOnce /\ HandleFindsUser
  BY DEF PasskeyInv, ChallengesOnce, Ceremonies, HandleFindsUser, HandlesKnown
<1> QED
  BY PasskeysAtRest, PasskeyInductive, <1>1, PTL DEF PasskeySpec

\* With onClone "throw" the counter that is stored never falls, whatever the order of the
\* handlers that read it and of those that write it.
THEOREM CountersNeverFall == PasskeySpec => SignCountGrows
<1>1. PasskeyInv /\ [PasskeyNext]_passkeyVars =>
        [\A k \in Registrations : onClone = "throw" => credential'[k].count >= credential[k].count]_passkeyVars
  BY CountersGrow
<1> QED
  BY PasskeysAtRest, PasskeyInductive, <1>1, PTL DEF PasskeySpec, SignCountGrows

\* What answers a challenge is taken once and for what was asked.
THEOREM SignInHolds == OAuthSpec /\ PasskeySpec /\ RemoteSpec => []SignIn
BY LoginsAreTraceable, CeremoniesHold, KeysAreRecent, PTL DEF SignIn
-----------------------------------------------------------------------------
(* The queue worker.  Timers, polls and tasks are of a loop that was made;   *)
(* over the memory backend, with no task left by a stop, of the last one.    *)

StopStates == [at : {"none", "waiting", "clean", "late"}, awaited : SUBSET [j : QueueJobs, a : Nat],
               missed : SUBSET QueueJobs]

WorkerTypes ==
  /\ jobStore \in {"memory", "wasm"}
  /\ job \in [QueueJobs -> [status : {"pending", "processing", "completed", "dead-letter"},
                            attempts : Nat, ripe : BOOLEAN]]
  /\ running \in BOOLEAN /\ starting \in BOOLEAN /\ lateLease \in BOOLEAN
  /\ loops \in Nat /\ pollTimer \in Nat
  /\ poll \in [PollSlots -> [loop : Nat, at : {"none", "loop", "asking", "claimed"},
                             claim : QueueJobs \union {"none"}]]
  /\ executing \subseteq [job : QueueJobs, attempt : Nat, loop : Nat,
       at : {"running", "completing", "failing", "writing"}, read : Nat]
  /\ stopping \in StopStates
  /\ IsFiniteSet(executing)

\* What polls and executes is of a loop, a poll that has claimed has a job, and over the
\* memory backend one poll at a time goes round.
OfALoop ==
  /\ \A p \in PollSlots : poll[p].at # "none" => poll[p].loop > 0
  /\ \A p \in PollSlots : poll[p].at = "none" => poll[p] = NoPoll
  /\ \A p \in PollSlots : poll[p].at = "claimed" => poll[p].claim \in QueueJobs
  /\ jobStore = "memory" =>
       \A p, q \in PollSlots : poll[p].at # "none" /\ poll[q].at # "none" => p = q
  /\ \A t \in executing : t.loop > 0 /\ (t.at = "writing" => jobStore = "wasm")

\* A worker that does not run has no timer; over the memory backend no poll either.
StoppedHasNoTimer == ~running => pollTimer = 0

\* Over the memory backend all is of the last loop, while no task was left by a stop.
LastLoop ==
  jobStore = "memory" /\ ~lateLease =>
    /\ \A t \in executing : t.loop = loops
    /\ \A p \in PollSlots : poll[p].at # "none" => poll[p].loop = loops
    /\ pollTimer \in {0, loops}
    /\ starting => executing = {} /\ pollTimer = 0 /\ \A p \in PollSlots : poll[p].at = "none"
    /\ Cardinality(executing) <= WorkerLimit
    /\ \A p \in PollSlots : poll[p].at = "claimed" => Cardinality(executing) < WorkerLimit

\* A stop awaits what is executed, but for the one job that a poll has claimed and not begun.
AwaitedAll ==
  jobStore = "memory" =>
    /\ \A i, j \in stopping.missed : i = j
    /\ ~running /\ stopping.at \in {"waiting", "clean"} =>
         /\ \A p \in PollSlots : poll[p].at = "claimed" => poll[p].claim \in stopping.missed
         /\ \A t \in executing : \/ t.job \in stopping.missed
                                 \/ stopping.at = "waiting" /\ [j |-> t.job, a |-> t.attempt] \in stopping.awaited

\* A job that may be claimed has deliveries left.
Deliverable(j) == job[j].attempts + (IF job[j].status = "pending" THEN 1 ELSE 0) <= JobRetries

\* Over the wasm backend one poll or one task has a job, whose lease runs.
HeldOnce ==
  jobStore = "wasm" /\ ~lateLease =>
    /\ \A j \in QueueJobs : InHands(j) => job[j].status = "processing" /\ ~job[j].ripe
    /\ \A t, u \in executing : t.job = u.job => t = u
    /\ \A p, q \in PollSlots :
         poll[p].at = "claimed" /\ poll[q].at = "claimed" /\ poll[p].claim = poll[q].claim => p = q
    /\ \A p \in PollSlots, t \in executing : ~(poll[p].at = "claimed" /\ poll[p].claim = t.job)
    /\ \A t \in executing : t.at = "writing" => t.read = job[t.job].attempts

WorkerInv ==
  /\ WorkerTypes /\ OfALoop /\ StoppedHasNoTimer /\ LastLoop /\ AwaitedAll /\ HeldOnce /\ LoopAlive
  /\ jobStore = "memory" \/ ~lateLease => \A j \in QueueJobs : Deliverable(j)

Jobs == [status : {"pending", "processing", "completed", "dead-letter"}, attempts : Nat, ripe : BOOLEAN]
Tasks == [job : QueueJobs, attempt : Nat, loop : Nat,
          at : {"running", "completing", "failing", "writing"}, read : Nat]
Polls == [loop : Nat, at : {"none", "loop", "asking", "claimed"}, claim : QueueJobs \union {"none"}]

\* A task at its next step.
Onward(t, u) == /\ u \in Tasks /\ u.job = t.job /\ u.attempt = t.attempt /\ u.loop = t.loop
                /\ u.at = "writing" => u.read = job[t.job].attempts /\ jobStore = "wasm"

\* A task that poll p begins on job j, which it holds.
Begins(p, j, t) == t \in Tasks /\ t.job = j /\ t.loop = poll[p].loop /\ t.at = "running" /\ j \in QueueJobs

\* A recovery sends back the jobs whose lease has run out, and nothing else.
LEMMA RecoveredFields ==
  ASSUME NEW j \in Jobs
  PROVE  /\ Recovered(j) \in Jobs /\ Recovered(j).attempts = j.attempts
         /\ Recovered(j).status = "pending" => j.status = "pending" \/ j.attempts < JobRetries
         /\ j.status = "processing" /\ ~j.ripe => Recovered(j) = j
<1>0. j.attempts \in Nat /\ JobRetries \in Nat
  BY WorkerAssumption DEF Jobs
<1>1. CASE j.status # "processing" \/ ~j.ripe
  BY <1>1 DEF Recovered
<1>2. CASE j.status = "processing" /\ j.ripe /\ j.attempts >= JobRetries
  BY <1>2 DEF Recovered, Jobs
<1>3. CASE j.status = "processing" /\ j.ripe /\ ~(j.attempts >= JobRetries)
  <2>1. Recovered(j) = [j EXCEPT !.status = "pending", !.ripe = TRUE]
    BY <1>3 DEF Recovered
  <2>2. [j EXCEPT !.status = "pending", !.ripe = TRUE] \in Jobs
    BY DEF Jobs
  <2>3. [j EXCEPT !.status = "pending", !.ripe = TRUE].attempts = j.attempts
    BY DEF Jobs
  <2> QED
    BY <1>0, <1>3, <2>1, <2>2, <2>3
<1> QED
  BY <1>1, <1>2, <1>3

\* A failure sends the job back while deliveries are left.
LEMMA FailedFields ==
  ASSUME NEW j \in Jobs, NEW n \in Nat, NEW after \in JobFailed(j, n)
  PROVE  after \in Jobs /\ after.attempts = j.attempts /\ (after.status = "pending" => n < JobRetries)
<1>1. CASE n < JobRetries
  BY <1>1 DEF JobFailed, Jobs
<1>2. CASE ~(n < JobRetries)
  BY <1>2 DEF JobFailed, Jobs
<1> QED
  BY <1>1, <1>2

\* A claim makes the job one that is processed, for the next time.
LEMMA ClaimedFields ==
  ASSUME job \in [QueueJobs -> Jobs], NEW j \in QueueJobs, job' = Claimed(j)
  PROVE  /\ job' \in [QueueJobs -> Jobs] /\ \A i \in QueueJobs \ {j} : job'[i] = job[i]
         /\ job'[j].status = "processing" /\ job'[j].attempts = job[j].attempts + 1 /\ job'[j].ripe = FALSE
BY DEF Jobs, Claimed

\* What a step of a task does to its job.
JobOfTask(t) ==
  \/ job' = job
  \/ job' = [job EXCEPT ![t.job].status = "completed"]
  \/ \E n \in Nat :
       /\ \E after \in JobFailed(job[t.job], n) : job' = [job EXCEPT ![t.job] = after]
       /\ n = job[t.job].attempts \/ (t.at = "writing" /\ n = t.read)

\* What a step does to the tasks.
TaskSteps ==
  \/ executing' = executing
  \/ \E t \in executing, u \in Tasks :
       /\ executing' = (executing \ {t}) \union {u} /\ Onward(t, u)
       /\ UNCHANGED <<jobStore, job, running, starting, loops, pollTimer, poll, stopping, lateLease>>
  \/ \E t \in executing :
       /\ executing' = executing \ {t} /\ Schedule(t.loop) /\ JobOfTask(t)
       /\ UNCHANGED <<jobStore, running, starting, loops, poll, stopping, lateLease>>
  \/ \E p \in PollSlots, j \in QueueJobs, t \in Tasks :
       /\ executing' = executing \union {t} /\ Begins(p, j, t)
       /\ UNCHANGED <<jobStore, job, running, starting, loops, pollTimer, stopping, lateLease>>
       /\ poll[p].at = "claimed" /\ poll[p].claim = j
       /\ poll' = [poll EXCEPT ![p].at = "loop", ![p].claim = "none"]

\* There is no other step.
LEMMA TasksStep == WorkerTypes /\ OfALoop /\ [WorkerNext]_workerVars => TaskSteps
<1> SUFFICES ASSUME WorkerTypes, OfALoop, [WorkerNext]_workerVars PROVE TaskSteps
  OBVIOUS
<1>t. /\ executing \subseteq Tasks /\ job \in [QueueJobs -> Jobs] /\ poll \in [PollSlots -> Polls]
  BY DEF WorkerTypes, Tasks, Jobs, Polls
<1>1. ASSUME NEW t \in executing, TaskHandled(t) PROVE TaskSteps
  <2>1. PICK at \in {"completing", "failing"} : executing' = (executing \ {t}) \union {[t EXCEPT !.at = at]}
    BY <1>1 DEF TaskHandled, TaskAt
  <2>2. PICK r \in Tasks : r = t
    BY <1>t
  <2>3. [r EXCEPT !.at = at] \in Tasks /\ Onward(r, [r EXCEPT !.at = at])
    BY DEF Onward, Tasks
  <2> QED
    BY <1>1, <2>1, <2>2, <2>3 DEF TaskSteps, TaskHandled
<1>2. ASSUME NEW t \in executing, TaskCompletes(t) PROVE TaskSteps
  <2>1. CASE job' = [job EXCEPT ![t.job].status = "completed"] /\ TaskOver(t)
    BY <1>2, <2>1 DEF TaskSteps, TaskCompletes, TaskOver, JobOfTask
  <2>2. CASE jobStore = "wasm" /\ TaskAt(t, "failing") /\ UNCHANGED <<job, pollTimer>>
    <3>1. PICK r \in Tasks : r = t
      BY <1>t
    <3>2. [r EXCEPT !.at = "failing"] \in Tasks /\ Onward(r, [r EXCEPT !.at = "failing"])
      BY DEF Onward, Tasks
    <3> QED
      BY <1>2, <2>2, <3>1, <3>2 DEF TaskSteps, TaskCompletes, TaskAt
  <2> QED
    BY <1>2, <2>1, <2>2 DEF TaskCompletes
<1>3. ASSUME NEW t \in executing, MemoryFail(t) PROVE TaskSteps
  BY <1>t, <1>3 DEF Tasks, Jobs, MemoryFail, JobOfTask, TaskSteps, TaskOver
<1>4. ASSUME NEW t \in executing, WasmFailReads(t) PROVE TaskSteps
  <2>1. PICK r \in Tasks : r = t
    BY <1>t
  <2>2. job[r.job].attempts \in Nat
    BY <1>t DEF Tasks, Jobs
  <2> DEFINE u == [r EXCEPT !.at = "writing", !.read = job[r.job].attempts]
  <2>3. u \in Tasks /\ Onward(r, u)
    BY <1>4, <2>2 DEF Onward, Tasks, WasmFailReads
  <2>4. executing' = (executing \ {r}) \union {u}
    BY <1>4, <2>1 DEF WasmFailReads
  <2> HIDE DEF u
  <2> QED
    BY <1>4, <2>1, <2>3, <2>4 DEF TaskSteps, WasmFailReads
<1>5. ASSUME NEW t \in executing, WasmFailWrites(t) PROVE TaskSteps
  BY <1>t, <1>5 DEF Tasks, WasmFailWrites, JobOfTask, TaskSteps, TaskOver
<1>6. ASSUME NEW p \in PollSlots, PollOn(p) PROVE TaskSteps
  BY <1>6 DEF PollOn, TaskSteps
<1>7. ASSUME NEW p \in PollSlots, PollResumes(p) PROVE TaskSteps
  <2> DEFINE j == poll[p].claim
             t == [job |-> j, attempt |-> job[j].attempts, loop |-> poll[p].loop, at |-> "running", read |-> 0]
  <2>1. poll[p].at = "claimed" /\ j \in QueueJobs
    BY <1>7 DEF PollResumes, OfALoop
  <2>2. job[j].attempts \in Nat /\ poll[p].loop \in Nat
    BY <1>t, <2>1 DEF Jobs, Polls
  <2>3. t \in Tasks /\ Begins(p, j, t)
    BY <2>1, <2>2 DEF Begins, Tasks
  <2>4. executing' = executing \union {t}
    BY <1>7 DEF PollResumes
  <2> HIDE DEF t
  <2> QED
    BY <1>7, <2>1, <2>3, <2>4 DEF TaskSteps, PollResumes
<1>8. CASE executing' = executing
  BY <1>8 DEF TaskSteps
<1> QED
  BY <1>1, <1>2, <1>3, <1>4, <1>5, <1>6, <1>7, <1>8
  DEF WorkerNext, workerVars, StartWorker, StartLoop, RecoveryTick, StopWorker, StopReturns, PollTimerFires,
      ClaimForPoll, PollBreaks, JobRipens

\* What a step does to a job: it keeps the attempts, and sends it back only with deliveries
\* left, of which a task may have read too few; or it claims it.
JobStep(j) ==
  \/ /\ job'[j].attempts = job[j].attempts
     /\ job'[j].status = "pending" => \/ job[j].status = "pending" \/ job[j].attempts < JobRetries
                                      \/ \E t \in executing : t.job = j /\ t.at = "writing" /\ t.read < JobRetries
  \/ /\ job[j].status = "pending" /\ job'[j].status = "processing" /\ job'[j].attempts = job[j].attempts + 1
     /\ \A i \in QueueJobs \ {j} : job'[i] = job[i]

\* There is no other step.
LEMMA JobsStep ==
  WorkerTypes /\ OfALoop /\ [WorkerNext]_workerVars =>
    job' \in [QueueJobs -> Jobs] /\ \A j \in QueueJobs : JobStep(j)
<1> DEFINE Goal == job' \in [QueueJobs -> Jobs] /\ \A j \in QueueJobs : JobStep(j)
<1> SUFFICES ASSUME WorkerTypes, OfALoop, [WorkerNext]_workerVars PROVE Goal
  OBVIOUS
<1>t. executing \subseteq Tasks /\ job \in [QueueJobs -> Jobs]
  BY DEF WorkerTypes, Tasks, Jobs
<1>1. ASSUME \A j \in QueueJobs : job'[j] = job[j] \/ job'[j] = Recovered(job[j]),
             job' = [j \in QueueJobs |-> job'[j]]
      PROVE  Goal
  BY <1>t, <1>1, RecoveredFields DEF JobStep
<1>2. ASSUME NEW j \in QueueJobs, job[j].status = "pending", job' = Claimed(j) PROVE Goal
  BY <1>t, <1>2, ClaimedFields DEF JobStep
<1>3. ASSUME NEW t \in executing, JobOfTask(t) PROVE Goal
  <2> DEFINE k == t.job
  <2>1. k \in QueueJobs /\ job[k] \in Jobs /\ job[k].attempts \in Nat
    BY <1>t DEF Tasks, Jobs
  <2>2. ASSUME NEW after \in Jobs, after.attempts = job[k].attempts,
               after.status = "pending" => \/ job[k].attempts < JobRetries
                                           \/ t.at = "writing" /\ t.read < JobRetries,
               job' = [job EXCEPT ![k] = after]
        PROVE  Goal
    BY <1>t, <2>1, <2>2 DEF JobStep
  <2>3. CASE job' = job
    BY <1>t, <2>3 DEF JobStep
  <2>4. CASE job' = [job EXCEPT ![k].status = "completed"]
    BY <2>4, <2>1, <2>2 DEF Jobs
  <2>5. ASSUME NEW n \in Nat, NEW after \in JobFailed(job[k], n), job' = [job EXCEPT ![k] = after],
               n = job[k].attempts \/ (t.at = "writing" /\ n = t.read)
        PROVE  Goal
    <3>1. after \in Jobs /\ after.attempts = job[k].attempts /\ (after.status = "pending" => n < JobRetries)
      BY <2>1, <2>5, FailedFields
    <3> HIDE DEF Goal, k
    <3> QED
      BY <2>2, <2>5, <3>1
  <2> HIDE DEF Goal
  <2> QED
    BY <1>3, <2>3, <2>4, <2>5 DEF JobOfTask
<1>4. ASSUME NEW j \in QueueJobs, job' = [job EXCEPT ![j].ripe = TRUE] PROVE Goal
  BY <1>t, <1>4 DEF Jobs, JobStep
<1>5. ASSUME job' = job PROVE Goal
  BY <1>t, <1>5 DEF JobStep
<1> HIDE DEF Goal
<1>6. ASSUME StartLoop \/ RecoveryTick PROVE Goal
  BY <1>6, <1>1 DEF StartLoop, RecoveryTick
<1>7. ASSUME NEW p \in PollSlots, ClaimForPoll(p) PROVE Goal
  BY <1>7, <1>2 DEF ClaimForPoll, Claimable
<1>8. ASSUME executing' # executing PROVE Goal
  BY TasksStep, <1>2, <1>3, <1>5, <1>8 DEF TaskSteps
<1>9. ASSUME NEW t \in executing, executing' = executing,
             TaskHandled(t) \/ TaskCompletes(t) \/ MemoryFail(t) \/ WasmFailReads(t) \/ WasmFailWrites(t)
      PROVE  Goal
  <2>1. JobOfTask(t)
    <3>1. t.read \in Nat /\ job[t.job].attempts \in Nat
      BY <1>t DEF Tasks, Jobs
    <3> QED
      BY <1>9, <3>1 DEF TaskHandled, TaskCompletes, MemoryFail, WasmFailReads, WasmFailWrites, JobOfTask
  <2> QED
    BY <1>3, <2>1
<1>10. ASSUME NEW p \in PollSlots, PollOn(p) PROVE Goal
  BY <1>10, <1>2, <1>5 DEF PollOn, Claimable
<1> QED
  BY <1>4, <1>5, <1>6, <1>7, <1>8, <1>9, <1>10
  DEF WorkerNext, workerVars, StartWorker, StopWorker, StopReturns, PollTimerFires, PollResumes, PollBreaks, JobRipens

\* What a step does to the polls: a timer begins one, one that goes on gets a job or asks
\* for it, one hands its job on, or ends.
PollSteps ==
  \/ poll' = poll
  \/ \E p \in PollSlots, b \in Polls :
       /\ poll' = [poll EXCEPT ![p] = b]
       /\ \/ /\ pollTimer # 0 /\ b.at = "loop" /\ b.loop = pollTimer /\ b.claim = "none" /\ TurnEnds
          \/ /\ poll[p].at = "loop" /\ b.at = "asking" /\ b.loop = poll[p].loop
          \/ /\ b.at = "claimed" /\ poll[p].at \in {"loop", "asking"} /\ b.loop = poll[p].loop
             /\ b.claim \in QueueJobs /\ job[b.claim].status = "pending" /\ job' = Claimed(b.claim)
             /\ executing' = executing
             /\ jobStore = "memory" => running /\ Active(poll[p].loop) < WorkerLimit
          \/ /\ b.at = "loop" /\ poll[p].at = "claimed" /\ b.loop = poll[p].loop /\ b.claim = "none"
          \/ b = NoPoll

\* There is no other step.
LEMMA PollsStep == WorkerTypes /\ OfALoop /\ [WorkerNext]_workerVars => PollSteps
<1> SUFFICES ASSUME WorkerTypes, OfALoop, [WorkerNext]_workerVars PROVE PollSteps
  OBVIOUS
<1>t. poll \in [PollSlots -> Polls] /\ pollTimer \in Nat
  BY DEF WorkerTypes, Polls
<1>n. NoPoll \in Polls
  BY DEF NoPoll, Polls
<1>1. ASSUME NEW p \in PollSlots, PollTimerFires(p) PROVE PollSteps
  <2> DEFINE b == [NoPoll EXCEPT !.loop = pollTimer, !.at = "loop"]
  <2>1. b \in Polls /\ b.at = "loop" /\ b.loop = pollTimer /\ b.claim = "none"
    BY <1>t DEF NoPoll, Polls
  <2>2. poll' = [poll EXCEPT ![p] = b] /\ pollTimer # 0 /\ TurnEnds
    BY <1>1 DEF PollTimerFires
  <2> HIDE DEF b
  <2> QED
    BY <2>1, <2>2 DEF PollSteps
<1>2. ASSUME NEW p \in PollSlots, PollOn(p), job' = job PROVE PollSteps
  <2>1. PICK r \in Polls : r = poll[p]
    BY <1>t
  <2> DEFINE b == [r EXCEPT !.at = "asking"]
  <2>2. b \in Polls /\ b.at = "asking" /\ b.loop = r.loop
    BY DEF Polls
  <2>3. poll[p].at = "loop" /\ ~(jobStore = "memory" /\ Claimable # {}) => poll' = [poll EXCEPT ![p] = b]
    BY <1>2, <2>1 DEF PollOn
  <2> HIDE DEF b
  <2>4. jobStore = "memory" /\ Claimable # {} => FALSE
    BY <1>2, ClaimedFields DEF PollOn, Claimable, WorkerTypes, Jobs
  <2>5. poll[p].at = "loop"
    BY <1>2 DEF PollOn
  <2> QED
    BY <2>1, <2>2, <2>3, <2>4, <2>5 DEF PollSteps
<1>3. ASSUME NEW p \in PollSlots, NEW j \in Claimable, job' = Claimed(j), executing' = executing,
             poll' = [poll EXCEPT ![p].at = "claimed", ![p].claim = j], poll[p].at \in {"loop", "asking"},
             jobStore = "memory" => running /\ Active(poll[p].loop) < WorkerLimit
      PROVE  PollSteps
  <2>1. PICK r \in Polls : r = poll[p]
    BY <1>t
  <2>2. j \in QueueJobs /\ job[j].status = "pending"
    BY DEF Claimable
  <2> DEFINE b == [r EXCEPT !.at = "claimed", !.claim = j]
  <2>3. b \in Polls /\ b.at = "claimed" /\ b.loop = r.loop /\ b.claim = j
    BY <2>2 DEF Polls
  <2>4. poll' = [poll EXCEPT ![p] = b]
    BY <1>3, <2>1
  <2> HIDE DEF b
  <2> QED
    BY <1>3, <2>1, <2>2, <2>3, <2>4 DEF PollSteps
<1>8. ASSUME NEW p \in PollSlots, PollOn(p) \/ ClaimForPoll(p) PROVE PollSteps
  BY <1>8, <1>2, <1>3 DEF PollOn, ClaimForPoll
<1>4. ASSUME NEW p \in PollSlots, PollResumes(p) PROVE PollSteps
  <2>1. PICK r \in Polls : r = poll[p]
    BY <1>t
  <2> DEFINE b == [r EXCEPT !.at = "loop", !.claim = "none"]
  <2>2. b \in Polls /\ b.at = "loop" /\ b.loop = r.loop /\ b.claim = "none"
    BY DEF Polls
  <2>3. poll' = [poll EXCEPT ![p] = b] /\ poll[p].at = "claimed"
    BY <1>4, <2>1 DEF PollResumes
  <2> HIDE DEF b
  <2> QED
    BY <2>1, <2>2, <2>3 DEF PollSteps
<1>5. ASSUME NEW p \in PollSlots, PollBreaks(p) PROVE PollSteps
  BY <1>n, <1>5 DEF PollBreaks, PollSteps
<1>6. ASSUME poll' = poll PROVE PollSteps
  BY <1>6 DEF PollSteps
<1>7. ASSUME NEW t \in executing,
             TaskHandled(t) \/ TaskCompletes(t) \/ MemoryFail(t) \/ WasmFailReads(t) \/ WasmFailWrites(t)
      PROVE  poll' = poll
  BY <1>7 DEF TaskHandled, TaskCompletes, MemoryFail, WasmFailReads, WasmFailWrites
<1> QED
  BY <1>1, <1>4, <1>5, <1>6, <1>7, <1>8
  DEF WorkerNext, workerVars, StartWorker, StartLoop, RecoveryTick, StopWorker, StopReturns, JobRipens

\* Every step keeps the loops of polls and tasks, and their types.
LEMMA LoopsStay ==
  WorkerTypes /\ OfALoop /\ [WorkerNext]_workerVars =>
    /\ poll' \in [PollSlots -> Polls] /\ executing' \subseteq Tasks /\ IsFiniteSet(executing') /\ OfALoop'
<1> SUFFICES ASSUME WorkerTypes, OfALoop, [WorkerNext]_workerVars
             PROVE  /\ poll' \in [PollSlots -> Polls] /\ executing' \subseteq Tasks /\ IsFiniteSet(executing')
                    /\ OfALoop'
  OBVIOUS
<1>t. /\ poll \in [PollSlots -> Polls] /\ executing \subseteq Tasks /\ IsFiniteSet(executing)
      /\ pollTimer \in Nat /\ OfALoop
  BY DEF WorkerTypes, Polls, Tasks
<1>s. jobStore' = jobStore
  BY DEF WorkerNext, workerVars, StartWorker, StartLoop, RecoveryTick, StopWorker, StopReturns, PollTimerFires, PollOn,
     ClaimForPoll, PollResumes, PollBreaks, TaskHandled, TaskCompletes, MemoryFail, WasmFailReads, WasmFailWrites,
     JobRipens
<1>1. poll' \in [PollSlots -> Polls]
  BY <1>t, PollsStep DEF PollSteps
<1>2. \A p \in PollSlots : /\ poll'[p].at # "none" => poll'[p].loop > 0
                           /\ poll'[p].at = "none" => poll'[p] = NoPoll
                           /\ poll'[p].at = "claimed" => poll'[p].claim \in QueueJobs
  BY <1>t, PollsStep DEF OfALoop, NoPoll, PollSteps
<1> DEFINE Goal == /\ executing' \subseteq Tasks /\ IsFiniteSet(executing')
                   /\ \A t \in executing' : t.loop > 0 /\ (t.at = "writing" => jobStore' = "wasm")
<1>3. Goal
  <2>1. TaskSteps
    BY TasksStep
  <2>2. CASE executing' = executing
    BY <1>t, <1>s, <2>2 DEF OfALoop
  <2>3. ASSUME NEW t \in executing, NEW u \in Tasks, Onward(t, u), executing' = (executing \ {t}) \union {u}
        PROVE  Goal
    BY <1>t, <2>3, FS_AddElement, FS_RemoveElement, <1>s DEF OfALoop, Onward
  <2>4. ASSUME NEW t \in executing, executing' = executing \ {t} PROVE Goal
    BY <1>t, <2>4, FS_RemoveElement, <1>s DEF OfALoop
  <2>5. ASSUME NEW p \in PollSlots, NEW j \in QueueJobs, NEW t \in Tasks, Begins(p, j, t),
               executing' = executing \union {t}, poll[p].at # "none"
        PROVE  Goal
    BY <1>t, <2>5, FS_AddElement, <1>s DEF OfALoop, Begins
  <2> HIDE DEF Goal
  <2> QED
    BY <2>1, <2>2, <2>3, <2>4, <2>5 DEF TaskSteps
<1>4. jobStore' = "memory" => \A p, q \in PollSlots : poll'[p].at # "none" /\ poll'[q].at # "none" => p = q
  BY <1>t, PollsStep, <1>s DEF OfALoop, NoPoll, TurnEnds, Polling, PollSteps
<1> QED
  BY <1>1, <1>2, <1>3, <1>4 DEF OfALoop

\* The steps that tasks take.
TaskStepsOf(t) == TaskHandled(t) \/ TaskCompletes(t) \/ MemoryFail(t) \/ WasmFailReads(t) \/ WasmFailWrites(t)

\* Every step keeps the types of the flags and the timer, and the timer of a worker that runs.
LEMMA FlagsStay ==
  WorkerTypes /\ OfALoop /\ StoppedHasNoTimer /\ [WorkerNext]_workerVars =>
    /\ jobStore' = jobStore /\ running' \in BOOLEAN /\ starting' \in BOOLEAN /\ lateLease' \in BOOLEAN
    /\ loops' \in Nat /\ pollTimer' \in Nat
    /\ stopping' \in StopStates
    /\ StoppedHasNoTimer' /\ (lateLease => lateLease')
<1> DEFINE Goal == /\ jobStore' = jobStore /\ running' \in BOOLEAN /\ starting' \in BOOLEAN /\ lateLease' \in BOOLEAN
                   /\ loops' \in Nat /\ pollTimer' \in Nat
                   /\ stopping' \in StopStates
                   /\ StoppedHasNoTimer' /\ (lateLease => lateLease')
<1> SUFFICES ASSUME WorkerTypes, OfALoop, StoppedHasNoTimer, [WorkerNext]_workerVars PROVE Goal
  OBVIOUS
<1>t. /\ running \in BOOLEAN /\ starting \in BOOLEAN /\ lateLease \in BOOLEAN
      /\ loops \in Nat /\ pollTimer \in Nat /\ stopping \in StopStates /\ (~running => pollTimer = 0)
      /\ executing \subseteq Tasks /\ poll \in [PollSlots -> Polls]
  BY DEF WorkerTypes, StoppedHasNoTimer, Tasks, Polls
<1>s. NotStopping \in StopStates
  BY DEF NotStopping, StopStates
<1>1. ASSUME StartWorker PROVE Goal
  BY <1>1, <1>t, <1>s DEF StartWorker, StoppedHasNoTimer
<1>8. ASSUME StartLoop PROVE Goal
  <2>1. /\ UNCHANGED <<jobStore, running, stopping, lateLease>> /\ starting' = FALSE /\ loops' = loops + 1
        /\ pollTimer' = IF running THEN loops + 1 ELSE pollTimer
    BY <1>8 DEF StartLoop
  <2>2. pollTimer' \in Nat /\ loops' \in Nat /\ StoppedHasNoTimer'
    BY <1>t, <2>1 DEF StoppedHasNoTimer
  <2> QED
    BY <1>t, <2>1, <2>2
<1>9. ASSUME RecoveryTick PROVE Goal
  BY <1>9, <1>t DEF RecoveryTick, StoppedHasNoTimer
<1>2. ASSUME StopWorker PROVE Goal
  <2>1. InFlight \subseteq [j : QueueJobs, a : Nat]
    BY <1>t DEF InFlight, Tasks
  <2>3. ClaimsInHand \subseteq QueueJobs
    BY DEF ClaimsInHand, OfALoop
  <2>2. [at |-> "waiting", awaited |-> InFlight, missed |-> ClaimsInHand] \in StopStates
    BY <2>1, <2>3 DEF StopStates
  <2> QED
    BY <1>2, <1>t, <2>2 DEF StopWorker, StoppedHasNoTimer
<1>3. ASSUME StopReturns PROVE Goal
  BY <1>t, <1>3 DEF StopStates, StopReturns, StoppedHasNoTimer
<1>4. ASSUME NEW p \in PollSlots,
             PollTimerFires(p) \/ PollOn(p) \/ ClaimForPoll(p) \/ PollResumes(p) \/ PollBreaks(p)
      PROVE  Goal
  <2>1. poll[p].loop \in Nat
    BY <1>t DEF Polls
  <2> QED
    BY <1>4, <1>t, <2>1
    DEF PollTimerFires, PollOn, ClaimForPoll, PollResumes, PollBreaks, PollEnds, Schedule, StoppedHasNoTimer
<1>5. ASSUME NEW t \in executing, TaskStepsOf(t) PROVE Goal
  <2>1. t.loop \in Nat
    BY <1>t DEF Tasks
  <2> QED
    BY <1>5, <1>t, <2>1
    DEF TaskStepsOf, TaskHandled, TaskCompletes, MemoryFail, WasmFailReads, WasmFailWrites, TaskOver, Schedule,
        StoppedHasNoTimer
<1>6. ASSUME NEW j \in QueueJobs, JobRipens(j) PROVE Goal
  BY <1>6, <1>t DEF JobRipens, StoppedHasNoTimer
<1>7. ASSUME UNCHANGED workerVars PROVE Goal
  BY <1>7, <1>t DEF workerVars, StoppedHasNoTimer
<1> HIDE DEF Goal
<1> QED
  BY <1>1, <1>2, <1>3, <1>4, <1>5, <1>6, <1>7, <1>8, <1>9 DEF WorkerNext, TaskStepsOf

\* A worker that runs has a timer or a poll after each step.
LEMMA LoopStaysAlive ==
  WorkerTypes /\ OfALoop /\ LoopAlive /\ [WorkerNext]_workerVars => LoopAlive'
<1> SUFFICES ASSUME WorkerTypes, OfALoop, LoopAlive, [WorkerNext]_workerVars PROVE LoopAlive'
  OBVIOUS
<1>t. /\ loops \in Nat /\ pollTimer \in Nat /\ executing \subseteq Tasks /\ poll \in [PollSlots -> Polls]
      /\ poll' \in [PollSlots -> Polls]
  BY LoopsStay DEF WorkerTypes, Tasks, Polls
<1>n. NoPoll.at = "none"
  BY DEF NoPoll
<1>p. \A p \in PollSlots : poll'[p].at # "none" => p \in Polling'
  BY <1>n DEF Polling
<1>1. ASSUME StartWorker \/ StopWorker PROVE LoopAlive'
  BY <1>1 DEF StartWorker, StopWorker, LoopAlive
<1>2. ASSUME StartLoop PROVE LoopAlive'
  BY <1>2, <1>t DEF StartLoop, LoopAlive
<1>3. ASSUME NEW p \in PollSlots, PollTimerFires(p) PROVE LoopAlive'
  BY <1>3, <1>t, <1>p DEF NoPoll, PollTimerFires, LoopAlive
<1>4. ASSUME NEW p \in PollSlots, PollBreaks(p) PROVE LoopAlive'
  BY <1>4, <1>t DEF PollBreaks, OfALoop, Polls, PollEnds, Schedule, LoopAlive
<1>5. ASSUME NEW t \in executing, executing' = executing \ {t}, Schedule(t.loop), running' = running PROVE LoopAlive'
  BY <1>t, <1>5 DEF OfALoop, Tasks, Schedule, LoopAlive
<1>6. ASSUME NEW p \in PollSlots, PollOn(p) \/ ClaimForPoll(p) \/ PollResumes(p) PROVE LoopAlive'
  <2>1. UNCHANGED <<running, starting, pollTimer>>
    BY <1>6 DEF PollOn, ClaimForPoll, PollResumes
  <2>2. poll' # poll => poll'[p].at # "none"
    <3>1. PICK r \in Polls : r = poll[p]
      BY <1>t
    <3>2. \A c \in QueueJobs \union {"none"} :
            /\ [r EXCEPT !.at = "asking"].at = "asking"
            /\ [r EXCEPT !.at = "claimed", !.claim = c].at = "claimed"
            /\ [r EXCEPT !.at = "loop", !.claim = "none"].at = "loop"
      BY DEF Polls
    <3>3. CASE PollOn(p)
      <4>1. \/ poll' = [poll EXCEPT ![p].at = "asking"]
            \/ \E j \in QueueJobs : poll' = [poll EXCEPT ![p].at = "claimed", ![p].claim = j]
        BY <3>3 DEF PollOn, Claimable
      <4> QED
        BY <1>t, <3>1, <3>2, <4>1
    <3>4. CASE ClaimForPoll(p)
      BY <1>t, <3>1, <3>2, <3>4 DEF ClaimForPoll, Claimable
    <3>5. CASE PollResumes(p)
      BY <1>t, <3>1, <3>2, <3>5 DEF PollResumes
    <3> QED
      BY <1>6, <3>3, <3>4, <3>5
  <2>3. CASE poll' = poll
    BY <2>1, <2>3 DEF LoopAlive, Polling
  <2> QED
    BY <1>p, <2>1, <2>2, <2>3 DEF LoopAlive
<1>7. ASSUME UNCHANGED <<running, starting, pollTimer, poll>> PROVE LoopAlive'
  BY <1>7 DEF LoopAlive, Polling
<1>8. ASSUME NEW t \in executing, TaskStepsOf(t) PROVE LoopAlive'
  BY <1>5, <1>7, <1>8
  DEF TaskStepsOf, TaskHandled, TaskCompletes, MemoryFail, WasmFailReads, WasmFailWrites, TaskOver, TaskAt
<1> QED
  BY <1>1, <1>2, <1>3, <1>4, <1>6, <1>7, <1>8
  DEF WorkerNext, workerVars, TaskStepsOf, RecoveryTick, StopReturns, JobRipens

\* In memory a step of a loop that is not starting keeps all to the last loop.
LEMMA LastLoopStays ==
  WorkerTypes /\ OfALoop /\ StoppedHasNoTimer /\ LastLoop /\ [WorkerNext]_workerVars => LastLoop'
<1> SUFFICES ASSUME WorkerTypes, OfALoop, StoppedHasNoTimer, LastLoop, [WorkerNext]_workerVars,
                    jobStore' = "memory", ~lateLease'
             PROVE  LastLoop'
  BY DEF LastLoop
<1>t. /\ loops \in Nat /\ pollTimer \in Nat /\ executing \subseteq Tasks /\ poll \in [PollSlots -> Polls]
      /\ IsFiniteSet(executing) /\ lateLease \in BOOLEAN /\ WorkerLimit \in Nat \ {0}
  BY WorkerAssumption DEF WorkerTypes, Tasks, Polls
<1>m. jobStore = "memory" /\ ~lateLease
  BY <1>t, FlagsStay
<1>l. /\ \A t \in executing : t.loop = loops
      /\ \A p \in PollSlots : poll[p].at # "none" => poll[p].loop = loops
      /\ pollTimer \in {0, loops}
      /\ starting => executing = {} /\ pollTimer = 0 /\ \A p \in PollSlots : poll[p].at = "none"
      /\ Cardinality(executing) <= WorkerLimit
      /\ \A p \in PollSlots : poll[p].at = "claimed" => Cardinality(executing) < WorkerLimit
  BY <1>m DEF LastLoop
<1>n. NoPoll.at = "none"
  BY DEF NoPoll
<1>o. \A p, q \in PollSlots : poll[p].at # "none" /\ poll[q].at # "none" => p = q
  BY <1>m DEF OfALoop
<1>c. Cardinality(executing) \in Nat
  BY <1>t, FS_CardinalityType
<1>1. ASSUME StartWorker PROVE LastLoop'
  BY <1>1, <1>m, <1>n, <1>l DEF StartWorker, Polling, StoppedHasNoTimer, LastLoop
<1>2. ASSUME StartLoop PROVE LastLoop'
  BY <1>2, <1>l DEF StartLoop, LastLoop
<1>3. ASSUME UNCHANGED <<executing, poll, loops, starting>>, pollTimer' \in {0, pollTimer} PROVE LastLoop'
  BY <1>3, <1>l DEF LastLoop
<1>4. ASSUME NEW p \in PollSlots, PollTimerFires(p) PROVE LastLoop'
  <2> DEFINE b == [NoPoll EXCEPT !.loop = pollTimer, !.at = "loop"]
  <2>1. b.at = "loop" /\ b.loop = pollTimer
    BY DEF NoPoll
  <2>2. poll' = [poll EXCEPT ![p] = b] /\ pollTimer = loops /\ ~starting
    BY <1>4, <1>l DEF PollTimerFires
  <2> HIDE DEF b
  <2>3. \A q \in PollSlots : /\ poll'[q].at # "none" => poll'[q].loop = loops
                             /\ poll'[q].at = "claimed" => poll[q].at = "claimed"
    BY <1>t, <1>l, <2>1, <2>2
  <2> QED
    BY <1>4, <1>l, <2>2, <2>3 DEF PollTimerFires, LastLoop
<1>5. ASSUME NEW p \in PollSlots, PollOn(p) PROVE LastLoop'
  <2>1. poll[p].at = "loop" /\ UNCHANGED <<loops, pollTimer, starting, executing>>
    BY <1>5 DEF PollOn
  <2>2. poll[p].loop = loops /\ ~starting
    BY <1>l, <2>1
  <2>3. {u \in executing : u.loop = loops} = executing
    BY <1>l
  <2>4. Cardinality(executing) < WorkerLimit
    BY <1>5, <2>2, <2>3 DEF PollOn, Active
  <2>5. \A q \in PollSlots : poll'[q].loop = poll[q].loop /\ (poll'[q].at # "none" => poll[q].at # "none")
    BY <1>t, <1>5, <2>1 DEF Polls, PollOn
  <2> QED
    BY <1>l, <2>1, <2>2, <2>4, <2>5 DEF LastLoop
<1>8. ASSUME NEW p \in PollSlots, PollResumes(p) PROVE LastLoop'
  <2> DEFINE t == [job |-> poll[p].claim, attempt |-> job[poll[p].claim].attempts, loop |-> poll[p].loop,
                   at |-> "running", read |-> 0]
  <2>1. /\ executing' = executing \union {t} /\ t.loop = poll[p].loop /\ poll[p].at = "claimed"
        /\ UNCHANGED <<loops, pollTimer, starting>>
    BY <1>8 DEF PollResumes
  <2> HIDE DEF t
  <2>2. poll[p].loop = loops /\ ~starting /\ Cardinality(executing) < WorkerLimit
    BY <1>l, <2>1
  <2>3. Cardinality(executing') <= WorkerLimit
    <3>1. Cardinality(executing') \in {Cardinality(executing), Cardinality(executing) + 1}
      BY <1>t, <2>1, FS_AddElement
    <3> QED
      BY <1>t, <1>c, <2>2, <3>1
  <2>4. \A q \in PollSlots : /\ poll'[q].loop = poll[q].loop /\ poll'[q].at # "claimed"
                             /\ poll'[q].at # "none" => poll[q].at # "none"
    BY <1>t, <1>o, <2>1, <1>8 DEF Polls, PollResumes
  <2> QED
    BY <1>l, <2>1, <2>2, <2>3, <2>4 DEF LastLoop
<1>6. ASSUME NEW p \in PollSlots, PollBreaks(p) PROVE LastLoop'
  BY <1>6, <1>l, <1>t, <1>n DEF PollBreaks, PollEnds, Schedule, LastLoop
<1>7. ASSUME NEW t \in executing, TaskStepsOf(t) PROVE LastLoop'
  <2>1. UNCHANGED <<loops, poll, starting>> /\ ~starting /\ t.loop = loops
    BY <1>7, <1>l DEF TaskStepsOf, TaskHandled, TaskCompletes, MemoryFail, WasmFailReads, WasmFailWrites
  <2>2. pollTimer' \in {pollTimer, loops}
    BY <1>7, <2>1 DEF TaskStepsOf, TaskHandled, TaskCompletes, MemoryFail, WasmFailReads, WasmFailWrites, TaskOver,
                      Schedule
  <2>3. IsFiniteSet(executing \ {t}) /\ Cardinality(executing \ {t}) = Cardinality(executing) - 1
    BY <1>t, FS_RemoveElement
  <2>4. CASE executing' = executing \ {t}
    <3>1. /\ Cardinality(executing') <= WorkerLimit
          /\ \A p \in PollSlots : poll[p].at = "claimed" => Cardinality(executing') < WorkerLimit
      BY <1>t, <1>c, <1>l, <2>1, <2>3, <2>4
    <3>2. /\ \A u \in executing' : u.loop = loops
          /\ \A p \in PollSlots : poll[p].at # "none" => poll[p].loop = loops
          /\ pollTimer' \in {0, loops}
      BY <1>l, <2>2, <2>4
    <3> QED
      BY <2>1, <3>1, <3>2 DEF LastLoop
  <2>5. ASSUME NEW at \in {"completing", "failing"}, TaskAt(t, at) PROVE LastLoop'
    <3>1. PICK r \in Tasks : r = t
      BY <1>t
    <3>2. [r EXCEPT !.at = at].loop = r.loop
      BY DEF Tasks
    <3> DEFINE u == [r EXCEPT !.at = at]
    <3>3. executing' = (executing \ {t}) \union {u}
      BY <2>5, <3>1 DEF TaskAt
    <3>4. u.loop = loops
      BY <2>1, <3>1, <3>2
    <3> HIDE DEF u
    <3>5. Cardinality(executing') <= Cardinality(executing)
      BY <2>3, <3>3, FS_AddElement, <1>c
    <3>6. Cardinality(executing') \in Nat
      BY <2>3, <3>3, FS_AddElement, FS_CardinalityType
    <3>7. /\ Cardinality(executing') <= WorkerLimit
          /\ \A p \in PollSlots : poll[p].at = "claimed" => Cardinality(executing') < WorkerLimit
      BY <1>t, <1>c, <1>l, <3>5, <3>6
    <3>8. /\ \A v \in executing' : v.loop = loops
          /\ \A p \in PollSlots : poll[p].at # "none" => poll[p].loop = loops
          /\ pollTimer' \in {0, loops}
      BY <1>l, <2>2, <3>3, <3>4
    <3> QED
      BY <2>1, <3>7, <3>8 DEF LastLoop
  <2>6. t.at # "writing"
    BY <1>m DEF OfALoop
  <2> QED
    BY <1>7, <1>m, <2>4, <2>5, <2>6
    DEF TaskStepsOf, TaskHandled, TaskCompletes, MemoryFail, WasmFailReads, WasmFailWrites, TaskOver
<1> QED
  BY <1>1, <1>2, <1>3, <1>4, <1>5, <1>6, <1>7, <1>8, <1>m
  DEF WorkerNext, workerVars, TaskStepsOf, RecoveryTick, StopWorker, StopReturns, JobRipens, ClaimForPoll

\* In memory a stop awaits whatever is executed, but for a job just claimed.
LEMMA StopsAwaitAll ==
  WorkerTypes /\ OfALoop /\ AwaitedAll /\ [WorkerNext]_workerVars => AwaitedAll'
<1> SUFFICES ASSUME WorkerTypes, OfALoop, AwaitedAll, [WorkerNext]_workerVars, jobStore' = "memory"
             PROVE  AwaitedAll'
  BY DEF AwaitedAll
<1>t. /\ executing \subseteq Tasks /\ poll \in [PollSlots -> Polls] /\ running \in BOOLEAN
      /\ stopping \in StopStates
  BY DEF WorkerTypes, Tasks, Polls
<1>m. jobStore = "memory"
  BY DEF WorkerNext, workerVars, StartWorker, StartLoop, RecoveryTick, StopWorker, StopReturns, PollTimerFires, PollOn,
     ClaimForPoll, PollResumes, PollBreaks, TaskHandled, TaskCompletes, MemoryFail, WasmFailReads, WasmFailWrites,
     JobRipens
<1>a. /\ \A i, j \in stopping.missed : i = j
      /\ ~running /\ stopping.at \in {"waiting", "clean"} =>
           /\ \A p \in PollSlots : poll[p].at = "claimed" => poll[p].claim \in stopping.missed
           /\ \A t \in executing : \/ t.job \in stopping.missed
                                   \/ stopping.at = "waiting" /\ [j |-> t.job, a |-> t.attempt] \in stopping.awaited
  BY <1>m DEF AwaitedAll
<1>1. ASSUME StopWorker PROVE AwaitedAll'
  BY <1>m, <1>1 DEF InFlight, ClaimsInHand, OfALoop, StopWorker, AwaitedAll
<1>2. ASSUME StopReturns PROVE AwaitedAll'
  <2>1. /\ stopping.at = "waiting" /\ UNCHANGED <<running, poll, executing>> /\ stopping'.missed = stopping.missed
        /\ stopping'.at = IF stopping.awaited \intersect InFlight = {} THEN "clean" ELSE "late"
    BY <1>2 DEF StopReturns
  <2>2. \A t \in executing : [j |-> t.job, a |-> t.attempt] \in InFlight
    BY DEF InFlight
  <2>3. stopping'.at = "clean" => stopping.awaited \intersect InFlight = {}
    BY <2>1
  <2>4. stopping'.at \in {"clean", "late"}
    BY <2>1
  <2> QED
    BY <1>a, <2>1, <2>2, <2>3, <2>4 DEF AwaitedAll
<1>3. ASSUME UNCHANGED <<running, stopping>>,
             \A p \in PollSlots : ~running /\ poll'[p].at = "claimed" =>
               poll[p].at = "claimed" /\ poll'[p].claim = poll[p].claim,
             \A t \in executing' :
               \/ \E u \in executing : t.job = u.job /\ t.attempt = u.attempt
               \/ \E p \in PollSlots : poll[p].at = "claimed" /\ poll[p].claim = t.job
      PROVE  AwaitedAll'
  BY <1>a, <1>3 DEF AwaitedAll
<1>4. \A t \in executing' :
        \/ \E u \in executing : t.job = u.job /\ t.attempt = u.attempt
        \/ \E p \in PollSlots : poll[p].at = "claimed" /\ poll[p].claim = t.job
  BY TasksStep DEF TaskSteps, Onward, Begins
<1>5. \A p \in PollSlots : ~running /\ poll'[p].at = "claimed" => poll[p].at = "claimed" /\ poll'[p].claim = poll[p].claim
  BY <1>m, PollsStep, <1>t DEF NoPoll, PollSteps
<1>6. ASSUME StartWorker PROVE AwaitedAll'
  BY <1>6, <1>a DEF StartWorker, AwaitedAll, NotStopping
<1>7. UNCHANGED <<running, stopping>> \/ StartWorker \/ StopWorker \/ StopReturns
  BY DEF WorkerNext, workerVars, StartLoop, RecoveryTick, PollTimerFires, PollOn,
     ClaimForPoll, PollResumes, PollBreaks, TaskHandled, TaskCompletes, MemoryFail, WasmFailReads, WasmFailWrites,
     JobRipens
<1> QED
  BY <1>1, <1>2, <1>3, <1>4, <1>5, <1>6, <1>7

\* The conjuncts of HeldOnce, about any jobs, polls and tasks.
HeldFacts ==
  /\ \A t \in executing : job[t.job].status = "processing" /\ ~job[t.job].ripe
  /\ \A p \in PollSlots : poll[p].at = "claimed" =>
       job[poll[p].claim].status = "processing" /\ ~job[poll[p].claim].ripe
  /\ \A t, u \in executing : t.job = u.job => t = u
  /\ \A p, q \in PollSlots :
       poll[p].at = "claimed" /\ poll[q].at = "claimed" /\ poll[p].claim = poll[q].claim => p = q
  /\ \A p \in PollSlots, t \in executing : ~(poll[p].at = "claimed" /\ poll[p].claim = t.job)
  /\ \A t \in executing : t.at = "writing" => t.read = job[t.job].attempts

\* They are its conjuncts.
LEMMA HeldIsFacts ==
  ASSUME WorkerTypes, OfALoop, jobStore = "wasm", ~lateLease
  PROVE  HeldOnce <=> HeldFacts
<1>1. \A t \in executing : t.job \in QueueJobs /\ InHands(t.job)
  BY DEF WorkerTypes, InHands
<1>2. \A p \in PollSlots : poll[p].at = "claimed" => poll[p].claim \in QueueJobs /\ InHands(poll[p].claim)
  BY DEF OfALoop, InHands
<1>3. ASSUME HeldOnce PROVE HeldFacts
  BY <1>1, <1>2, <1>3 DEF HeldOnce, HeldFacts
<1>4. ASSUME HeldFacts PROVE HeldOnce
  BY <1>4 DEF HeldFacts, InHands, HeldOnce
<1> QED
  BY <1>3, <1>4

\* Over the wasm backend a step keeps jobs in one pair of hands.
LEMMA HandsStay ==
  ASSUME WorkerTypes, OfALoop, jobStore = "wasm", HeldFacts, [WorkerNext]_workerVars, ~lateLease'
  PROVE  HeldFacts'
<1>t. /\ executing \subseteq Tasks /\ job \in [QueueJobs -> Jobs] /\ poll \in [PollSlots -> Polls]
      /\ \A p \in PollSlots : poll[p].at = "claimed" => poll[p].claim \in QueueJobs
  BY DEF WorkerTypes, Tasks, Jobs, Polls, OfALoop
<1>j. \A t \in executing : t.job \in QueueJobs
  BY <1>t DEF Tasks
<1>1. ASSUME executing' = executing,
             \A p \in PollSlots : /\ (poll'[p].at = "claimed") <=> (poll[p].at = "claimed")
                                  /\ poll[p].at = "claimed" => poll'[p].claim = poll[p].claim,
             \A j \in QueueJobs : InHands(j) => job'[j] = job[j]
      PROVE  HeldFacts'
  BY <1>1, <1>j, <1>t DEF InHands, HeldFacts
<1>2. ASSUME NEW p \in PollSlots, ClaimForPoll(p) PROVE HeldFacts'
  <2>1. PICK j \in Claimable : job' = Claimed(j) /\ poll' = [poll EXCEPT ![p].at = "claimed", ![p].claim = j]
    BY <1>2 DEF ClaimForPoll
  <2>2. PICK r \in Polls : r = poll[p]
    BY <1>t
  <2>3. j \in QueueJobs /\ job[j].status = "pending" /\ executing' = executing /\ poll[p].at = "asking"
    BY <1>2 DEF Claimable, ClaimForPoll
  <2>4. /\ [r EXCEPT !.at = "claimed", !.claim = j].at = "claimed"
        /\ [r EXCEPT !.at = "claimed", !.claim = j].claim = j
    BY <2>3 DEF Polls
  <2>5. poll'[p].at = "claimed" /\ poll'[p].claim = j /\ \A q \in PollSlots \ {p} : poll'[q] = poll[q]
    BY <1>t, <2>1, <2>2, <2>4
  <2>6. /\ job'[j].status = "processing" /\ job'[j].ripe = FALSE
        /\ \A i \in QueueJobs \ {j} : job'[i] = job[i]
    BY <1>t, <2>1, <2>3, ClaimedFields
  <2>7. /\ \A t \in executing : t.job # j
        /\ \A q \in PollSlots : poll[q].at = "claimed" => poll[q].claim # j
    BY <2>3 DEF HeldFacts
  <2>8. /\ \A t \in executing : job'[t.job] = job[t.job]
        /\ \A q \in PollSlots : poll[q].at = "claimed" => job'[poll[q].claim] = job[poll[q].claim]
    BY <1>t, <1>j, <2>6, <2>7
  <2>9. \A q \in PollSlots : poll'[q].at = "claimed" => q = p \/ (poll[q].at = "claimed" /\ poll'[q] = poll[q] /\ q # p)
    BY <2>5
  <2> QED
    BY <2>3, <2>5, <2>6, <2>7, <2>8, <2>9 DEF HeldFacts
<1>3. ASSUME NEW p \in PollSlots, PollResumes(p) PROVE HeldFacts'
  <2> DEFINE j == poll[p].claim
             t == [job |-> j, attempt |-> job[j].attempts, loop |-> poll[p].loop, at |-> "running", read |-> 0]
  <2>1. PICK r \in Polls : r = poll[p]
    BY <1>t
  <2>2. [r EXCEPT !.at = "loop", !.claim = "none"].at = "loop"
    BY DEF Polls
  <2>3. poll'[p].at = "loop" /\ \A q \in PollSlots \ {p} : poll'[q] = poll[q]
    BY <1>3, <1>t, <2>1, <2>2 DEF PollResumes
  <2>4. poll[p].at = "claimed" /\ executing' = executing \union {t} /\ job' = job /\ t.job = j /\ t.at = "running"
    BY <1>3 DEF PollResumes
  <2> HIDE DEF t
  <2> QED
    BY <2>3, <2>4 DEF HeldFacts
<1>4. ASSUME NEW t \in executing, NEW u \in Tasks, Onward(t, u), executing' = (executing \ {t}) \union {u},
             UNCHANGED <<job, poll>>
      PROVE  HeldFacts'
  BY <1>4 DEF Onward, HeldFacts
<1>5. ASSUME NEW t \in executing, executing' = executing \ {t}, JobOfTask(t), poll' = poll PROVE HeldFacts'
  BY <1>5, <1>t, <1>j DEF JobOfTask, HeldFacts
<1>6. ASSUME executing' # executing PROVE HeldFacts'
  <2>1. TaskSteps
    BY TasksStep
  <2>2. ASSUME NEW p \in PollSlots, NEW j \in QueueJobs, NEW u \in Tasks,
               executing' = executing \union {u}, Begins(p, j, u), job' = job,
               poll[p].at = "claimed" /\ poll[p].claim = j,
               poll' = [poll EXCEPT ![p].at = "loop", ![p].claim = "none"]
        PROVE  HeldFacts'
    BY <1>t, <2>2 DEF Polls, Begins, HeldFacts
  <2> QED
    BY <1>4, <1>5, <1>6, <2>1, <2>2 DEF TaskSteps
<1>7. ASSUME executing' = executing, StartLoop \/ RecoveryTick PROVE HeldFacts'
  BY <1>7, <1>t, RecoveredFields, <1>1 DEF StartLoop, RecoveryTick, InHands, HeldFacts
<1>8. ASSUME executing' = executing, NEW p \in PollSlots, PollTimerFires(p) \/ PollOn(p) \/ PollBreaks(p) PROVE HeldFacts'
  <2>1. job' = job
    BY <1>8 DEF PollTimerFires, PollOn, PollBreaks
  <2>2. PICK b \in Polls : poll' = [poll EXCEPT ![p] = b] /\ b.at # "claimed"
    <3>1. PICK r \in Polls : r = poll[p]
      BY <1>t
    <3>2. NoPoll \in Polls /\ NoPoll.at = "none"
      BY DEF NoPoll, Polls
    <3>3. pollTimer \in Nat
      BY DEF WorkerTypes
    <3>4. /\ [r EXCEPT !.at = "asking"] \in Polls /\ [r EXCEPT !.at = "asking"].at = "asking"
          /\ [NoPoll EXCEPT !.loop = pollTimer, !.at = "loop"] \in Polls
          /\ [NoPoll EXCEPT !.loop = pollTimer, !.at = "loop"].at = "loop"
      BY <3>3 DEF Polls, NoPoll
    <3>5. CASE PollTimerFires(p)
      BY <3>4, <3>5 DEF PollTimerFires
    <3>6. CASE PollOn(p)
      BY <3>1, <3>4, <3>6 DEF PollOn
    <3>7. CASE PollBreaks(p)
      BY <3>2, <3>7 DEF PollBreaks
    <3> QED
      BY <1>8, <3>5, <3>6, <3>7
  <2>3. poll[p].at # "claimed"
    BY <1>8 DEF NoPoll, PollTimerFires, PollOn, PollBreaks, Polling
  <2>4. \A q \in PollSlots : /\ (poll'[q].at = "claimed") <=> (poll[q].at = "claimed")
                             /\ poll[q].at = "claimed" => poll'[q].claim = poll[q].claim
    BY <1>t, <2>2, <2>3
  <2> QED
    BY <1>1, <1>8, <2>1, <2>4
<1>9. ASSUME NEW j \in QueueJobs, JobRipens(j) PROVE HeldFacts'
  BY <1>9, <1>t, <1>1 DEF JobRipens
<1>10. ASSUME UNCHANGED <<executing, poll, job>> PROVE HeldFacts'
  BY <1>1, <1>10
<1>11. ASSUME NEW t \in executing, TaskStepsOf(t), executing' = executing PROVE HeldFacts'
  BY <1>11, <1>10 DEF TaskStepsOf, TaskHandled, TaskCompletes, MemoryFail, WasmFailReads, WasmFailWrites, TaskOver
<1> QED
  BY <1>2, <1>3, <1>6, <1>7, <1>8, <1>9, <1>10, <1>11
  DEF WorkerNext, workerVars, TaskStepsOf, StartWorker, StopWorker, StopReturns

\* A job that may be claimed has deliveries left, in memory, or while no lease ran out
\* of a job in hands.
DeliveriesLeft == jobStore = "memory" \/ ~lateLease => \A j \in QueueJobs : Deliverable(j)

\* Every step keeps the invariant of the worker.
LEMMA WorkerInductive == WorkerInv /\ [WorkerNext]_workerVars => WorkerInv'
<1> SUFFICES ASSUME WorkerInv, [WorkerNext]_workerVars PROVE WorkerInv'
  OBVIOUS
<1>0. /\ WorkerTypes /\ OfALoop /\ StoppedHasNoTimer /\ LastLoop /\ AwaitedAll /\ HeldOnce /\ LoopAlive
      /\ DeliveriesLeft
  BY DEF WorkerInv, DeliveriesLeft
<1>t. executing \subseteq Tasks /\ job \in [QueueJobs -> Jobs] /\ jobStore \in {"memory", "wasm"} /\ lateLease \in BOOLEAN
  BY <1>0 DEF WorkerTypes, Tasks, Jobs
<1>1. /\ jobStore' = jobStore /\ running' \in BOOLEAN /\ starting' \in BOOLEAN /\ lateLease' \in BOOLEAN
      /\ loops' \in Nat /\ pollTimer' \in Nat
      /\ stopping' \in StopStates
      /\ StoppedHasNoTimer' /\ (lateLease => lateLease')
  BY <1>0, FlagsStay
<1>2. /\ poll' \in [PollSlots -> Polls] /\ executing' \subseteq Tasks /\ IsFiniteSet(executing') /\ OfALoop'
  BY <1>0, LoopsStay
<1>3. job' \in [QueueJobs -> Jobs] /\ \A j \in QueueJobs : JobStep(j)
  BY <1>0, JobsStep
<1>4. WorkerTypes'
  BY <1>t, <1>1, <1>2, <1>3 DEF WorkerTypes, Tasks, Jobs, Polls
<1>5. LastLoop' /\ AwaitedAll' /\ LoopAlive'
  BY <1>0, LastLoopStays, StopsAwaitAll, LoopStaysAlive
<1>6. HeldOnce'
  <2>1. ASSUME jobStore = "wasm", ~lateLease' PROVE HeldOnce'
    BY <1>0, <1>1, <2>1, HeldIsFacts, HandsStay, <1>2 DEF Tasks, OfALoop, HeldFacts, InHands, HeldOnce
  <2> QED
    BY <1>1, <2>1 DEF HeldOnce
<1>7. ASSUME jobStore' = "memory" \/ ~lateLease', NEW j \in QueueJobs PROVE Deliverable(j)'
  <2>1. /\ job[j].attempts \in Nat /\ JobRetries \in Nat
        /\ job[j].attempts + (IF job[j].status = "pending" THEN 1 ELSE 0) <= JobRetries
    BY <1>0, <1>1, <1>7, <1>t, WorkerAssumption DEF DeliveriesLeft, Deliverable, Jobs
  <2>2. \A t \in executing : t.job = j /\ t.at = "writing" => t.read = job[j].attempts
    BY <1>0, <1>1, <1>7 DEF OfALoop, HeldOnce
  <2>3. \/ /\ job'[j].attempts = job[j].attempts
           /\ job'[j].status = "pending" => job[j].status = "pending" \/ job[j].attempts < JobRetries
        \/ job[j].status = "pending" /\ job'[j].status = "processing" /\ job'[j].attempts = job[j].attempts + 1
    BY <1>3, <2>2 DEF JobStep
  <2> QED
    BY <2>1, <2>3 DEF Deliverable
<1> QED
  BY <1>1, <1>2, <1>4, <1>5, <1>6, <1>7 DEF WorkerInv

\* Before its start the worker has nothing in hands.
LEMMA WorkerInvInit == WorkerInit => WorkerInv
<1> SUFFICES ASSUME WorkerInit PROVE WorkerInv
  OBVIOUS
<1>1. NoPoll \in Polls /\ NoPoll.at = "none"
  BY DEF NoPoll, Polls
<1>2. [status |-> "pending", attempts |-> 0, ripe |-> TRUE] \in Jobs
  BY DEF Jobs
<1>3. IsFiniteSet(executing) /\ Cardinality(executing) = 0
  BY FS_EmptySet DEF WorkerInit
<1>4. WorkerTypes
  BY <1>1, <1>2, <1>3 DEF WorkerInit, WorkerTypes, Polls, Jobs, NotStopping, StopStates
<1>5. OfALoop /\ StoppedHasNoTimer /\ AwaitedAll /\ LoopAlive
  BY <1>1 DEF WorkerInit, OfALoop, StoppedHasNoTimer, AwaitedAll, LoopAlive, NotStopping
<1>6. LastLoop
  BY <1>1, <1>3, WorkerAssumption DEF WorkerInit, LastLoop
<1>7. HeldOnce
  BY <1>1 DEF WorkerInit, HeldOnce, InHands
<1>8. \A j \in QueueJobs : Deliverable(j)
  BY WorkerAssumption DEF WorkerInit, Deliverable
<1> QED
  BY <1>4, <1>5, <1>6, <1>7, <1>8 DEF WorkerInv

\* A worker that runs keeps polling, whatever fails and however often it is stopped and
\* started; in memory it keeps its limit, and after a clean stop it executes nothing but the
\* one job that a poll had just claimed; and a job is delivered no more often than its
\* retries allow, but for a lease that ran out under a claim.
THEOREM WorkersKeepOn == WorkerSpec => [](LoopAlive /\ WithinLimit /\ StopIsQuiet /\ RetriesHold)
<1>1. WorkerInv => LoopAlive /\ WithinLimit /\ StopIsQuiet /\ RetriesHold
  <2> SUFFICES ASSUME WorkerInv PROVE LoopAlive /\ WithinLimit /\ StopIsQuiet /\ RetriesHold
    OBVIOUS
  <2>1. LoopAlive /\ LastLoop /\ AwaitedAll
    BY DEF WorkerInv
  <2>2. RetriesHold
    BY WorkerAssumption DEF RetriesHold, WorkerInv, WorkerTypes, Deliverable
  <2>3. (\A i, j \in stopping.missed : i = j) => Cardinality(stopping.missed) <= 1
    <3>1. CASE stopping.missed = {}
      BY <3>1, FS_EmptySet
    <3>2. ASSUME NEW j \in stopping.missed, \A i, k \in stopping.missed : i = k PROVE Cardinality(stopping.missed) <= 1
      BY <3>2, FS_Singleton
    <3> QED
      BY <3>1, <3>2
  <2> QED
    BY <2>1, <2>2, <2>3 DEF LastLoop, AwaitedAll, WithinLimit, StopIsQuiet
<1> QED
  BY <1>1, WorkerInvInit, WorkerInductive, PTL DEF WorkerSpec
-----------------------------------------------------------------------------
(* Bridges.  What a call has in hand, and at which step, depends on what it  *)
(* does; only a start attaches, and whatever a start that has ended attached *)
(* is listed under a handle that still listens for the clearing.             *)

\* A call at a step of what it does, with routes in hand only while it detaches, or when it failed.
InShape(c) ==
  /\ bcall[c].op = "none" => bcall[c] = Unused
  /\ bcall[c].op = "start" => bcall[c].at \in {"transport", "subscribe", "subscribing", "done", "failed"}
  /\ bcall[c].op \in {"stop", "teardown"} => bcall[c].at \in {"detaching", "stopped", "done", "failed"}
                                             /\ bcall[c].handle \in BridgeCalls
  /\ bcall[c].at = "subscribing" => bcall[c].route <= InboundRoutes
  /\ bcall[c].op = "clear" => bcall[c].at = "done"
  /\ bcall[c].hand # {} => bcall[c].op \in {"stop", "teardown"} /\ bcall[c].at \in {"detaching", "failed"}

CallsInShape == \A c \in BridgeCalls : InShape(c)

\* What is attached, and what a message is handled by, is of a handle that was created.
OfAHandle ==
  /\ \A r \in onContainer \union onBroker : bcall[r[1]].op = "start"
  /\ \A m \in BridgeMessages :
       delivery[m].at \in {"handling", "emitted"} => delivery[m].by \in BridgeCalls /\ bcall[delivery[m].by].op = "start"

\* Nothing comes back through a bridge that is the only one.
NoEcho == (\A c, d \in BridgeCalls : bcall[c].op = "start" /\ bcall[d].op = "start" => c = d) => ~echoed

\* A call stops handle h, or was rejected when it did.
StoppedBy(h, c) == /\ bcall[c].op \in {"stop", "teardown"} /\ bcall[c].handle = h
                   /\ bcall[c].at \in {"detaching", "stopped", "failed"}

StopFails(c) == DetachFails(c) \/ TransportStopFails(c)

\* A handle that is up listens for the clearing, is being stopped, or its stop was rejected.
UpListens == \A h \in bridgeUp : h \in onCleared \/ \E c \in BridgeCalls : StoppedBy(h, c)

\* Only a start has routes to detach; once it is done, it listens for the clearing.
ListedListens ==
  \A h \in BridgeCalls : listed[h] # {} =>
    /\ bcall[h].op = "start"
    /\ bcall[h].at = "done" => h \in onCleared

\* After a clearing that met no start nothing is attached to the container, and nothing
\* is left to be torn down by another.
AfterTeardown ==
  teardown =>
    /\ \A c \in BridgeCalls : bcall[c].op = "start" => bcall[c].at = "done"
    /\ onContainer = {} /\ onCleared = {} /\ \A h \in BridgeCalls : listed[h] = {}

BridgeInv ==
  /\ BridgeTypeOK /\ CallsInShape /\ RoutesAccounted /\ OfAHandle /\ NoEcho /\ UpListens /\ ListedListens
  /\ AfterTeardown

CallStates ==
  [op : {"none", "start", "stop", "teardown", "clear"},
   at : {"idle", "transport", "subscribe", "subscribing", "detaching", "stopped", "done", "failed"},
   handle : BridgeCalls \union {NoHandle}, route : 0..(InboundRoutes + 1), hand : SUBSET Routes]

\* One call has become what it says, the others are as they were.
Became(c, what, at, of, route, hand) ==
  /\ bcall' \in [BridgeCalls -> CallStates]
  /\ \A d \in BridgeCalls \ {c} : bcall'[d] = bcall[d]
  /\ bcall'[c].op = what /\ bcall'[c].at = at /\ bcall'[c].handle = of
  /\ bcall'[c].route = route /\ bcall'[c].hand = hand

\* A call that is replaced by e has become e.
LEMMA Replaced ==
  ASSUME bcall \in [BridgeCalls -> CallStates], NEW c \in BridgeCalls, NEW e \in CallStates,
         bcall' = [bcall EXCEPT ![c] = e]
  PROVE  Became(c, e.op, e.at, e.handle, e.route, e.hand)
BY DEF Became

\* A stop that begins.
LEMMA NewCalls ==
  ASSUME NEW h \in BridgeCalls, listed \in [BridgeCalls -> SUBSET Routes], NEW what \in {"stop", "teardown"}
  PROVE  /\ Stopping(what, h) \in CallStates
         /\ Stopping(what, h).op = what /\ Stopping(what, h).handle = h /\ Stopping(what, h).hand = listed[h]
         /\ Stopping(what, h).at = IF h \notin bridgeUp /\ listed[h] = {} THEN "stopped" ELSE "detaching"
         /\ Stopping(what, h).route = 0
<1>1. 0 \in 0..(InboundRoutes + 1)
  BY BridgeAssumption
<1>2. listed[h] \in SUBSET Routes
  OBVIOUS
<1> QED
  BY <1>1, <1>2 DEF CallStates, Unused, Stopping, TakenRoutes

\* What the steps of a call make of it.
LEMMA CallMoves ==
  ASSUME bcall \in [BridgeCalls -> CallStates], CallsInShape, NEW c \in BridgeCalls,
         listed \in [BridgeCalls -> SUBSET Routes], hostHandle \in BridgeCalls \union {NoHandle}
  PROVE  LET b == bcall[c]
         IN  /\ StartBridge(c) => Became(c, "start", "transport", c, 0, {})
             /\ TransportStarts(c) => Became(c, b.op, "subscribe", b.handle, 1, b.hand)
             /\ Subscribe(c) => Became(c, b.op, "subscribing", b.handle, b.route, b.hand)
             /\ Subscribed(c) => Became(c, b.op, "subscribe", b.handle, b.route + 1, b.hand)
             /\ BridgeStartFails(c) => Became(c, b.op, "failed", b.handle, b.route, b.hand)
             /\ BridgeStarted(c) => Became(c, b.op, "done", b.handle, b.route, b.hand)
             /\ StopBridge(c) =>
                  Became(c, "stop", IF hostHandle \notin bridgeUp /\ listed[hostHandle] = {} THEN "stopped" ELSE "detaching",
                         hostHandle, 0, listed[hostHandle])
             /\ TransportStops(c) => Became(c, b.op, "stopped", b.handle, b.route, b.hand)
             /\ StopFails(c) => Became(c, b.op, "failed", b.handle, b.route, b.hand)
             /\ BridgeStopEnds(c) => Became(c, b.op, "done", b.handle, b.route, b.hand)
             /\ \A r : Detach(c) /\ bcall' = [bcall EXCEPT ![c].hand = @ \ {r}] =>
                  Became(c, b.op, b.at, b.handle, b.route, b.hand \ {r})
<1> DEFINE b == bcall[c]
<1>b. b \in CallStates
  OBVIOUS
<1>n. b.route \in 0..(InboundRoutes + 1) /\ 0 \in 0..(InboundRoutes + 1) /\ 1 \in 0..(InboundRoutes + 1)
  BY <1>b, BridgeAssumption DEF CallStates
<1>g. \A at \in {"idle", "transport", "subscribe", "subscribing", "detaching", "stopped", "done", "failed"} :
        Goto(c, at) => Became(c, b.op, at, b.handle, b.route, b.hand)
  <2> SUFFICES ASSUME NEW at \in {"idle", "transport", "subscribe", "subscribing", "detaching", "stopped", "done", "failed"},
                      Goto(c, at)
               PROVE  Became(c, b.op, at, b.handle, b.route, b.hand)
    OBVIOUS
  <2>1. bcall' = [bcall EXCEPT ![c] = [b EXCEPT !.at = at]]
    BY DEF Goto
  <2> DEFINE e == [b EXCEPT !.at = at]
  <2>2. e \in CallStates /\ e.op = b.op /\ e.at = at /\ e.handle = b.handle /\ e.route = b.route /\ e.hand = b.hand
    BY <1>b DEF CallStates
  <2> HIDE DEF b, e
  <2>3. bcall' = [bcall EXCEPT ![c] = e]
    BY <2>1 DEF e
  <2> QED
    BY <2>2, <2>3, Replaced
<1>h. ASSUME NEW n \in 0..(InboundRoutes + 1), bcall' = [bcall EXCEPT ![c].at = "subscribe", ![c].route = n]
      PROVE  Became(c, b.op, "subscribe", b.handle, n, b.hand)
  <2>1. bcall' = [bcall EXCEPT ![c] = [b EXCEPT !.at = "subscribe", !.route = n]]
    BY <1>h
  <2> DEFINE e == [b EXCEPT !.at = "subscribe", !.route = n]
  <2>2. /\ e \in CallStates /\ e.op = b.op /\ e.at = "subscribe" /\ e.handle = b.handle /\ e.route = n
        /\ e.hand = b.hand
    BY <1>b, <1>h DEF CallStates
  <2> HIDE DEF b, e
  <2>3. bcall' = [bcall EXCEPT ![c] = e]
    BY <2>1 DEF e
  <2> QED
    BY <2>2, <2>3, Replaced
<1>1. StartBridge(c) => Became(c, "start", "transport", c, 0, {})
  <2> DEFINE e == [Unused EXCEPT !.op = "start", !.at = "transport", !.handle = c]
  <2>1. e \in CallStates /\ e.op = "start" /\ e.at = "transport" /\ e.handle = c /\ e.route = 0 /\ e.hand = {}
    BY <1>n DEF CallStates, Unused
  <2>2. StartBridge(c) => bcall' = [bcall EXCEPT ![c] = e]
    BY DEF StartBridge
  <2> HIDE DEF e
  <2> QED
    BY <2>1, <2>2, Replaced, ZenonT(60)
<1>2. TransportStarts(c) => Became(c, b.op, "subscribe", b.handle, 1, b.hand)
  BY <1>h, <1>n DEF TransportStarts
<1>3. Subscribed(c) => Became(c, b.op, "subscribe", b.handle, b.route + 1, b.hand)
  <2> SUFFICES ASSUME Subscribed(c) PROVE Became(c, b.op, "subscribe", b.handle, b.route + 1, b.hand)
    OBVIOUS
  <2>1. b.route + 1 \in 0..(InboundRoutes + 1)
    BY <1>n, BridgeAssumption DEF Subscribed, At, CallsInShape, InShape
  <2>2. bcall' = [bcall EXCEPT ![c].at = "subscribe", ![c].route = b.route + 1]
    BY DEF Subscribed
  <2> QED
    BY <1>h, <2>1, <2>2
<1>4. StopBridge(c) =>
        Became(c, "stop", IF hostHandle \notin bridgeUp /\ listed[hostHandle] = {} THEN "stopped" ELSE "detaching",
               hostHandle, 0, listed[hostHandle])
  <2> SUFFICES ASSUME StopBridge(c)
               PROVE  Became(c, "stop",
                             IF hostHandle \notin bridgeUp /\ listed[hostHandle] = {} THEN "stopped" ELSE "detaching",
                             hostHandle, 0, listed[hostHandle])
    OBVIOUS
  <2>1. hostHandle \in BridgeCalls /\ bcall' = [bcall EXCEPT ![c] = Stopping("stop", hostHandle)]
    BY DEF StopBridge
  <2> DEFINE e == Stopping("stop", hostHandle)
  <2>2. /\ e \in CallStates /\ e.op = "stop" /\ e.handle = hostHandle /\ e.route = 0 /\ e.hand = listed[hostHandle]
        /\ e.at = IF hostHandle \notin bridgeUp /\ listed[hostHandle] = {} THEN "stopped" ELSE "detaching"
    BY <2>1, NewCalls
  <2> HIDE DEF e
  <2>3. bcall' = [bcall EXCEPT ![c] = e]
    BY <2>1 DEF e
  <2> QED
    BY <2>2, <2>3, Replaced
<1>5. ASSUME NEW r, bcall' = [bcall EXCEPT ![c].hand = @ \ {r}]
      PROVE  Became(c, b.op, b.at, b.handle, b.route, b.hand \ {r})
  <2>1. bcall' = [bcall EXCEPT ![c] = [b EXCEPT !.hand = b.hand \ {r}]] /\ b.hand \ {r} \in SUBSET Routes
    BY <1>b, <1>5 DEF CallStates
  <2> DEFINE e == [b EXCEPT !.hand = b.hand \ {r}]
  <2>2. /\ e \in CallStates /\ e.op = b.op /\ e.at = b.at /\ e.handle = b.handle /\ e.route = b.route
        /\ e.hand = b.hand \ {r}
    BY <1>b, <2>1 DEF CallStates
  <2> HIDE DEF b, e
  <2>3. bcall' = [bcall EXCEPT ![c] = e]
    BY <2>1 DEF e
  <2> QED
    BY <2>2, <2>3, Replaced
<1>6. /\ Subscribe(c) => Became(c, b.op, "subscribing", b.handle, b.route, b.hand)
      /\ BridgeStartFails(c) => Became(c, b.op, "failed", b.handle, b.route, b.hand)
      /\ BridgeStarted(c) => Became(c, b.op, "done", b.handle, b.route, b.hand)
      /\ TransportStops(c) => Became(c, b.op, "stopped", b.handle, b.route, b.hand)
      /\ StopFails(c) => Became(c, b.op, "failed", b.handle, b.route, b.hand)
      /\ BridgeStopEnds(c) => Became(c, b.op, "done", b.handle, b.route, b.hand)
  BY <1>g DEF Subscribe, BridgeStartFails, BridgeStarted, TransportStops, StopFails, DetachFails, TransportStopFails,
              BridgeStopEnds
<1> QED
  BY <1>1, <1>2, <1>3, <1>4, <1>5, <1>6

\* What a clearing makes of the calls: each handle that listens gets a stop of its own.
LEMMA ClearMoves ==
  ASSUME bcall \in [BridgeCalls -> CallStates], CallsInShape, NEW c \in BridgeCalls,
         listed \in [BridgeCalls -> SUBSET Routes], onCleared \subseteq BridgeCalls, ClearContainer(c)
  PROVE  /\ bcall' \in [BridgeCalls -> CallStates] /\ bcall[c] = Unused
         /\ bcall'[c].op = "clear" /\ bcall'[c].at = "done" /\ bcall'[c].hand = {}
         /\ \A d \in BridgeCalls \ {c} :
              \/ bcall'[d] = bcall[d]
              \/ /\ bcall[d] = Unused
                 /\ \E h \in onCleared : bcall'[d] = Stopping("teardown", h)
         /\ \A h \in onCleared : \E d \in BridgeCalls \ {c} : bcall'[d] = Stopping("teardown", h)
<1>1. PICK stop \in [onCleared -> {d \in BridgeCalls \ {c} : At(d, "none", "idle")}] :
        /\ \A g, h \in onCleared : g # h => stop[g] # stop[h]
        /\ bcall' = [d \in BridgeCalls |->
             IF d = c THEN [Unused EXCEPT !.op = "clear", !.at = "done"]
             ELSE IF \E h \in onCleared : stop[h] = d
             THEN Stopping("teardown", CHOOSE h \in onCleared : stop[h] = d)
             ELSE bcall[d]]
  BY DEF ClearContainer
<1>2. \A d \in BridgeCalls : bcall[d].op = "none" => bcall[d] = Unused
  BY DEF CallsInShape, InShape
<1>3. bcall[c] = Unused
  BY <1>2 DEF ClearContainer, At
<1>4. ASSUME NEW h \in onCleared
      PROVE  /\ stop[h] \in BridgeCalls \ {c} /\ bcall[stop[h]] = Unused
             /\ bcall'[stop[h]] = Stopping("teardown", h)
  <2>1. stop[h] \in BridgeCalls \ {c} /\ At(stop[h], "none", "idle")
    BY <1>1
  <2>2. (CHOOSE g \in onCleared : stop[g] = stop[h]) = h
    <3> DEFINE g == CHOOSE g \in onCleared : stop[g] = stop[h]
    <3>1. g \in onCleared /\ stop[g] = stop[h]
      OBVIOUS
    <3> HIDE DEF g
    <3>2. g = h
      BY <1>1, <3>1
    <3> QED
      BY <3>2 DEF g
  <2>3. bcall'[stop[h]] = Stopping("teardown", CHOOSE g \in onCleared : stop[g] = stop[h])
    BY <1>1, <2>1
  <2> QED
    BY <1>2, <2>1, <2>2, <2>3 DEF At
<1>5. \A d \in BridgeCalls \ {c} :
        bcall'[d] = bcall[d] \/ (bcall[d] = Unused /\ \E h \in onCleared : bcall'[d] = Stopping("teardown", h))
  BY <1>4, <1>1
<1>6. bcall'[c] \in CallStates /\ bcall'[c].op = "clear" /\ bcall'[c].at = "done" /\ bcall'[c].hand = {}
  <2>1. bcall'[c] = [Unused EXCEPT !.op = "clear", !.at = "done"]
    BY <1>1
  <2>2. 0 \in 0..(InboundRoutes + 1)
    BY BridgeAssumption
  <2> QED
    BY <2>1, <2>2 DEF CallStates, Unused
<1>7. \A d \in BridgeCalls : bcall'[d] \in CallStates
  BY NewCalls, <1>5, <1>6
<1>8. bcall' \in [BridgeCalls -> CallStates]
  BY <1>1, <1>7
<1> QED
  BY <1>3, <1>4, <1>5, <1>6, <1>8

\* The steps of a call are the only ones that change calls, handles and routes.
CallStep(c) == StartBridge(c) \/ StopBridge(c) \/ BridgeStep(c)
MessageStep(m) == (\E h \in BridgeCalls : DeliverMessage(m, h)) \/ Emit(m) \/ Ack(m) \/ Nack(m)

\* A step of a call keeps the calls in shape.
LEMMA ShapeStays ==
  ASSUME BridgeTypeOK, CallsInShape, [BridgeNext]_bridgeVars
  PROVE  bcall' \in [BridgeCalls -> CallStates] /\ CallsInShape'
<1> DEFINE Goal == bcall' \in [BridgeCalls -> CallStates] /\ CallsInShape'
<1>t. /\ bcall \in [BridgeCalls -> CallStates] /\ listed \in [BridgeCalls -> SUBSET Routes]
      /\ hostHandle \in BridgeCalls \union {NoHandle} /\ onCleared \subseteq BridgeCalls
  BY DEF BridgeTypeOK, CallStates
<1>1. ASSUME NEW c \in BridgeCalls, NEW what, NEW at, NEW of, NEW route, NEW hand,
             Became(c, what, at, of, route, hand),
             what # "none", what = "clear" => at = "done",
             what = "start" => at \in {"transport", "subscribe", "subscribing", "done", "failed"},
             what \in {"stop", "teardown"} => at \in {"detaching", "stopped", "done", "failed"} /\ of \in BridgeCalls,
             at = "subscribing" => route <= InboundRoutes,
             hand # {} => what \in {"stop", "teardown"} /\ at \in {"detaching", "failed"}
      PROVE  Goal
  BY <1>1 DEF InShape, Became, CallsInShape
<1> HIDE DEF Goal
<1>2. ASSUME NEW c \in BridgeCalls, StartBridge(c) PROVE Goal
  BY <1>t, <1>2, CallMoves, <1>1
<1>3. ASSUME NEW c \in BridgeCalls,
             TransportStarts(c) \/ Subscribe(c) \/ Subscribed(c) \/ BridgeStartFails(c) \/ BridgeStarted(c)
      PROVE  Goal
  <2>1. bcall[c].op = "start"
    BY <1>3 DEF TransportStarts, Subscribe, Subscribed, BridgeStartFails, BridgeStarted, At
  <2>2. bcall[c].hand = {}
    BY <2>1 DEF CallsInShape, InShape
  <2>3. CASE TransportStarts(c)
    BY <1>t, <2>3, CallMoves, <1>1, <2>1, <2>2
  <2>4. CASE Subscribe(c)
    BY <1>t, <2>4, CallMoves, <1>1, <2>1, <2>2 DEF Subscribe
  <2>5. CASE Subscribed(c)
    BY <1>t, <2>5, CallMoves, <1>1, <2>1, <2>2
  <2>6. CASE BridgeStartFails(c)
    BY <1>t, <2>6, CallMoves, <1>1, <2>1, <2>2
  <2>7. CASE BridgeStarted(c)
    BY <1>t, <2>7, CallMoves, <1>1, <2>1, <2>2
  <2> QED
    BY <1>3, <2>3, <2>4, <2>5, <2>6, <2>7
<1>4. ASSUME NEW c \in BridgeCalls, StopBridge(c) PROVE Goal
  <2> DEFINE at == IF hostHandle \notin bridgeUp /\ listed[hostHandle] = {} THEN "stopped" ELSE "detaching"
  <2>1. Became(c, "stop", at, hostHandle, 0, listed[hostHandle])
    BY <1>t, <1>4, CallMoves
  <2>2. hostHandle \in BridgeCalls /\ at \in {"stopped", "detaching"} /\ (listed[hostHandle] # {} => at = "detaching")
    BY <1>t, <1>4 DEF StopBridge
  <2> HIDE DEF at
  <2> QED
    BY <1>1, <2>1, <2>2
<1>5. ASSUME NEW c \in BridgeCalls, Detach(c) \/ StopFails(c) \/ TransportStops(c) \/ BridgeStopEnds(c) PROVE Goal
  <2>1. bcall[c].op \in {"stop", "teardown"} /\ bcall[c].handle \in BridgeCalls
    BY <1>5 DEF Detach, StopFails, DetachFails, TransportStopFails, TransportStops, BridgeStopEnds, Stops, CallsInShape,
                InShape
  <2>5. CASE StopFails(c)
    BY <1>t, <2>5, CallMoves, <1>1, <2>1
  <2>2. CASE Detach(c)
    <3>1. PICK r : bcall' = [bcall EXCEPT ![c].hand = @ \ {r}]
      BY <2>2 DEF Detach
    <3>2. Became(c, bcall[c].op, bcall[c].at, bcall[c].handle, bcall[c].route, bcall[c].hand \ {r})
      BY <1>t, <2>2, <3>1, CallMoves
    <3>3. bcall[c].at = "detaching"
      BY <2>2 DEF Detach
    <3> QED
      BY <1>1, <2>1, <3>2, <3>3
  <2>3. CASE TransportStops(c)
    BY <1>t, <2>3, CallMoves, <1>1, <2>1 DEF TransportStops
  <2>4. CASE BridgeStopEnds(c)
    BY <1>t, <2>4, CallMoves, <1>1, <2>1 DEF BridgeStopEnds, CallsInShape, InShape
  <2> QED
    BY <1>5, <2>2, <2>3, <2>4, <2>5
<1>6. ASSUME NEW c \in BridgeCalls, ClearContainer(c) PROVE Goal
  <2>1. /\ bcall' \in [BridgeCalls -> CallStates]
        /\ bcall'[c].op = "clear" /\ bcall'[c].at = "done" /\ bcall'[c].hand = {}
        /\ \A d \in BridgeCalls \ {c} :
             bcall'[d] = bcall[d] \/ \E h \in onCleared : bcall'[d] = Stopping("teardown", h)
    BY <1>t, <1>6, ClearMoves
  <2>2. InShape(c)'
    BY <2>1 DEF InShape
  <2>3. ASSUME NEW d \in BridgeCalls \ {c} PROVE InShape(d)'
    <3>1. CASE bcall'[d] = bcall[d]
      BY <3>1 DEF InShape, CallsInShape
    <3>2. ASSUME NEW h \in onCleared, bcall'[d] = Stopping("teardown", h) PROVE InShape(d)'
      BY <1>t, <3>2, NewCalls DEF InShape
    <3> QED
      BY <2>1, <3>1, <3>2
  <2> QED
    BY <2>1, <2>2, <2>3 DEF Goal, CallsInShape
<1>7. ASSUME bcall' = bcall PROVE Goal
  BY <1>t, <1>7 DEF Goal, CallsInShape, InShape
<1>8. ASSUME NEW m \in BridgeMessages, MessageStep(m) PROVE Goal
  BY <1>7, <1>8 DEF MessageStep, DeliverMessage, Emit, Ack, Nack
<1> QED
  BY <1>2, <1>3, <1>4, <1>5, <1>6, <1>7, <1>8 DEF Goal, BridgeNext, BridgeStep, bridgeVars, MessageStep, StopFails

\* Every step keeps the types.
LEMMA BridgeTyped ==
  ASSUME BridgeTypeOK, CallsInShape, [BridgeNext]_bridgeVars
  PROVE  BridgeTypeOK'
<1>t. /\ transport \in [kind : {"memory", "kafka", "nats"}, up : BOOLEAN]
      /\ bridgeUp \subseteq BridgeCalls /\ onCleared \subseteq BridgeCalls
      /\ listed \in [BridgeCalls -> SUBSET Routes]
      /\ onContainer \subseteq Routes /\ onBroker \subseteq Routes
      /\ hostHandle \in BridgeCalls \union {NoHandle}
      /\ teardown \in BOOLEAN /\ echoed \in BOOLEAN
      /\ bcall \in [BridgeCalls -> CallStates]
  BY DEF BridgeTypeOK, CallStates
<1>d. delivery \in [BridgeMessages -> [at : {"broker", "handling", "emitted", "acked", "dropped"},
                                       by : BridgeCalls \union {NoHandle}]]
  BY DEF BridgeTypeOK
<1> DEFINE Deliveries == [at : {"broker", "handling", "emitted", "acked", "dropped"}, by : BridgeCalls \union {NoHandle}]
           Goal == /\ transport' \in [kind : {"memory", "kafka", "nats"}, up : BOOLEAN]
                   /\ bridgeUp' \subseteq BridgeCalls /\ onCleared' \subseteq BridgeCalls
                   /\ listed' \in [BridgeCalls -> SUBSET Routes]
                   /\ onContainer' \subseteq Routes /\ onBroker' \subseteq Routes
                   /\ hostHandle' \in BridgeCalls \union {NoHandle}
                   /\ teardown' \in BOOLEAN /\ echoed' \in BOOLEAN
                   /\ delivery' \in [BridgeMessages -> Deliveries]
<1>r. ASSUME NEW c \in BridgeCalls PROVE bcall[c].route \in 0..(InboundRoutes + 1) /\ <<c, 0>> \in Routes
  BY <1>t, BridgeAssumption DEF CallStates, Routes
<1>s. ASSUME NEW c \in BridgeCalls, bcall[c].route <= InboundRoutes PROVE <<c, bcall[c].route>> \in Routes
  <2>1. bcall[c].route \in 0..(InboundRoutes + 1)
    BY <1>r
  <2>2. bcall[c].route \in 0..InboundRoutes
    BY <1>s, <2>1, BridgeAssumption
  <2> QED
    BY <2>2 DEF Routes
<1>1. ASSUME NEW c \in BridgeCalls, StartBridge(c) \/ BridgeStartFails(c) \/ BridgeStarted(c) PROVE Goal
  BY <1>t, <1>d, <1>1 DEF StartBridge, BridgeStartFails, BridgeStarted, bridgeParts
<1>2. ASSUME NEW c \in BridgeCalls, TransportStarts(c) PROVE Goal
  BY <1>t, <1>r, <1>d, <1>2 DEF TransportStarts
<1>3. ASSUME NEW c \in BridgeCalls, Subscribe(c) PROVE Goal
  BY <1>3, <1>s, <1>t, <1>d DEF Subscribe
<1>4. ASSUME NEW c \in BridgeCalls, Subscribed(c) PROVE Goal
  BY <1>4, <1>s, <1>t, <1>d DEF Subscribed, At, CallsInShape, InShape
<1>5. ASSUME NEW c \in BridgeCalls, StopBridge(c) PROVE Goal
  BY <1>t, <1>d, <1>5 DEF StopBridge
<1>6. ASSUME NEW c \in BridgeCalls, Detach(c) \/ BridgeStopEnds(c) PROVE Goal
  BY <1>t, <1>d, <1>6 DEF Detach, BridgeStopEnds
<1>12. ASSUME NEW c \in BridgeCalls, StopFails(c) PROVE Goal
  BY <1>t, <1>d, <1>12 DEF StopFails, DetachFails, TransportStopFails, bridgeParts
<1>7. ASSUME NEW c \in BridgeCalls, TransportStops(c) PROVE Goal
  BY <1>t, <1>d, <1>7 DEF TransportStops
<1>8. ASSUME NEW c \in BridgeCalls, ClearContainer(c) PROVE Goal
  BY <1>8, <1>t, <1>d DEF ClearContainer
<1>9. ASSUME NEW m \in BridgeMessages, MessageStep(m) PROVE Goal
  <2>1. UNCHANGED <<transport, bridgeUp, listed, onContainer, onBroker, onCleared, hostHandle, teardown>>
    BY <1>9 DEF MessageStep, DeliverMessage, Emit, Ack, Nack, bridgeParts
  <2>2. echoed' \in BOOLEAN
    BY <1>t, <1>9 DEF MessageStep, DeliverMessage, Emit, Ack, Nack
  <2>3. delivery' \in [BridgeMessages -> Deliveries]
    <3>1. PICK r \in Deliveries : r = delivery[m]
      BY <1>d
    <3>2. /\ \A at \in {"emitted", "acked"} : [r EXCEPT !.at = at] \in Deliveries
          /\ [at |-> "dropped", by |-> r.by] \in Deliveries
          /\ \A h \in BridgeCalls : [at |-> "handling", by |-> h] \in Deliveries
          /\ InBroker \in Deliveries
      BY DEF InBroker
    <3>3. \E e \in Deliveries : delivery' = [delivery EXCEPT ![m] = e]
      BY <1>9, <3>1, <3>2 DEF MessageStep, DeliverMessage, Emit, Ack, Nack
    <3> HIDE DEF Deliveries
    <3> QED
      BY <1>d, <3>3 DEF Deliveries
  <2> HIDE DEF Deliveries
  <2> QED
    BY <1>t, <2>1, <2>2, <2>3
<1>10. ASSUME UNCHANGED bridgeVars PROVE Goal
  BY <1>t, <1>d, <1>10 DEF bridgeVars
<1>11. Goal
  <2> HIDE DEF Goal
  <2> QED
    BY <1>1, <1>2, <1>3, <1>4, <1>5, <1>6, <1>7, <1>8, <1>9, <1>10, <1>12 DEF BridgeNext, BridgeStep, MessageStep, StopFails
<1>13. bcall' \in [BridgeCalls -> CallStates]
  BY ShapeStays
<1> QED
  BY <1>11, <1>13 DEF BridgeTypeOK, CallStates

\* What is attached stays in a list, in hands, or at the route being subscribed.
LEMMA RoutesStayAccounted ==
  ASSUME BridgeTypeOK, CallsInShape, RoutesAccounted, [BridgeNext]_bridgeVars
  PROVE  RoutesAccounted'
<1>t. /\ bcall \in [BridgeCalls -> CallStates] /\ listed \in [BridgeCalls -> SUBSET Routes]
      /\ hostHandle \in BridgeCalls \union {NoHandle} /\ onCleared \subseteq BridgeCalls
      /\ onContainer \subseteq Routes /\ onBroker \subseteq Routes
  BY DEF BridgeTypeOK, CallStates
<1>r. \A r \in Routes : r[1] \in BridgeCalls /\ r = <<r[1], r[2]>>
  BY DEF Routes
<1> DEFINE Accounted(r) ==
             \/ r \in listed[r[1]]
             \/ \E c \in BridgeCalls : r \in bcall[c].hand
             \/ bcall[r[1]].at \in {"subscribing", "failed"} /\ bcall[r[1]].route = r[2]
           AccountedNext(r) ==
             \/ r \in listed'[r[1]]
             \/ \E c \in BridgeCalls : r \in bcall'[c].hand
             \/ bcall'[r[1]].at \in {"subscribing", "failed"} /\ bcall'[r[1]].route = r[2]
<1>0. \A r \in onContainer \union onBroker : r \in Routes /\ Accounted(r)
  BY <1>t DEF RoutesAccounted
<1>1. SUFFICES ASSUME NEW r \in Routes, r \in onContainer' \union onBroker' PROVE AccountedNext(r)
  BY BridgeTyped DEF BridgeTypeOK, RoutesAccounted
<1>k. r[1] \in BridgeCalls /\ r = <<r[1], r[2]>>
  BY <1>r
<1>h. \A d \in BridgeCalls : bcall[d] = Unused => bcall[d].hand = {} /\ bcall[d].at = "idle"
  BY DEF Unused
<1>u. \A d \in BridgeCalls : bcall[d].op = "none" => bcall[d] = Unused
  BY DEF CallsInShape, InShape
\* A call that was new had neither routes in hand nor one being subscribed.
<1>2. ASSUME NEW c \in BridgeCalls, NEW what, NEW at, NEW of, NEW route, NEW hand,
             Became(c, what, at, of, route, hand), bcall[c].hand \subseteq hand,
             bcall[c].at \in {"subscribing", "failed"} => at = "failed" /\ route = bcall[c].route,
             \A h \in BridgeCalls : listed[h] \subseteq listed'[h] \union hand,
             Accounted(r)
      PROVE  AccountedNext(r)
  BY <1>2, <1>k DEF Became
<1> HIDE DEF AccountedNext
<1>3. ASSUME NEW c \in BridgeCalls, StartBridge(c) PROVE AccountedNext(r)
  <2>1. Became(c, "start", "transport", c, 0, {}) /\ bcall[c].hand = {} /\ bcall[c].at = "idle"
    BY <1>t, <1>h, <1>u, <1>3, CallMoves DEF StartBridge, At
  <2>2. listed' = listed /\ onContainer' = onContainer /\ onBroker' = onBroker
    BY <1>3 DEF StartBridge, bridgeParts
  <2>3. Accounted(r)
    BY <1>0, <1>1, <2>2
  <2> QED
    BY <1>2, <2>1, <2>2, <2>3
<1>4. ASSUME NEW c \in BridgeCalls, TransportStarts(c) PROVE AccountedNext(r)
  <2>1. /\ Became(c, bcall[c].op, "subscribe", bcall[c].handle, 1, bcall[c].hand) /\ bcall[c].at = "transport"
        /\ listed' = [listed EXCEPT ![c] = @ \union {<<c, 0>>}]
        /\ onContainer' = onContainer \union {<<c, 0>>} /\ onBroker' = onBroker
    BY <1>t, <1>4, CallMoves DEF TransportStarts, At
  <2>2. CASE r = <<c, 0>>
    BY <1>t, <2>1, <2>2 DEF AccountedNext
  <2>3. CASE Accounted(r)
    BY <1>2, <1>t, <2>1, <2>3
  <2> QED
    BY <1>0, <1>1, <2>1, <2>2, <2>3
<1>5. ASSUME NEW c \in BridgeCalls, Subscribe(c) PROVE AccountedNext(r)
  BY <1>t, <1>5, CallMoves, <1>2, <1>0, <1>1 DEF Subscribe, At, AccountedNext, Became
<1>6. ASSUME NEW c \in BridgeCalls, Subscribed(c) PROVE AccountedNext(r)
  <2>1. /\ Became(c, bcall[c].op, "subscribe", bcall[c].handle, bcall[c].route + 1, bcall[c].hand)
        /\ bcall[c].at = "subscribing"
        /\ listed' = [listed EXCEPT ![c] = @ \union {<<c, bcall[c].route>>}]
        /\ onContainer' = onContainer /\ onBroker' = onBroker
    BY <1>t, <1>6, CallMoves DEF Subscribed, At
  <2>2. Accounted(r)
    BY <1>0, <1>1, <2>1
  <2>3. CASE r \in listed[r[1]]
    BY <1>t, <1>k, <2>1, <2>3 DEF AccountedNext
  <2>4. ASSUME NEW d \in BridgeCalls, r \in bcall[d].hand PROVE AccountedNext(r)
    BY <2>1, <2>4 DEF AccountedNext, Became
  <2>5. CASE bcall[r[1]].at \in {"subscribing", "failed"} /\ bcall[r[1]].route = r[2]
    <3>1. CASE r[1] = c
      BY <1>k, <2>5, <3>1, <1>t, <2>1 DEF AccountedNext
    <3>2. CASE r[1] # c
      BY <1>k, <2>1, <2>5, <3>2 DEF AccountedNext, Became
    <3> QED
      BY <3>1, <3>2
  <2> QED
    BY <2>2, <2>3, <2>4, <2>5
<1>7. ASSUME NEW c \in BridgeCalls, BridgeStartFails(c) \/ BridgeStarted(c) \/ BridgeStopEnds(c) PROVE AccountedNext(r)
  <2>1. listed' = listed /\ onContainer' = onContainer /\ onBroker' = onBroker
    BY <1>7 DEF BridgeStartFails, BridgeStarted, BridgeStopEnds, bridgeParts
  <2>2. Accounted(r)
    BY <1>0, <1>1, <2>1
  <2>3. CASE BridgeStartFails(c)
    BY <1>t, <2>3, CallMoves, <1>2, <2>1, <2>2
  <2>4. CASE BridgeStarted(c) \/ BridgeStopEnds(c)
    BY <1>t, <2>4, CallMoves, <1>2, <2>1, <2>2 DEF BridgeStarted, BridgeStopEnds, At
  <2> QED
    BY <1>7, <2>3, <2>4
<1>8. ASSUME NEW c \in BridgeCalls, StopBridge(c) PROVE AccountedNext(r)
  <2> DEFINE at == IF hostHandle \notin bridgeUp /\ listed[hostHandle] = {} THEN "stopped" ELSE "detaching"
  <2>1. Became(c, "stop", at, hostHandle, 0, listed[hostHandle]) /\ bcall[c].hand = {} /\ bcall[c].at = "idle"
    BY <1>t, <1>h, <1>u, <1>8, CallMoves DEF StopBridge, At
  <2>2. onContainer' = onContainer /\ onBroker' = onBroker /\ listed' \in {listed, [listed EXCEPT ![hostHandle] = {}]}
    BY <1>8 DEF StopBridge
  <2>3. Accounted(r)
    BY <1>0, <1>1, <2>2
  <2>4. \A h \in BridgeCalls : listed[h] \subseteq listed'[h] \union listed[hostHandle]
    BY <1>t, <2>2
  <2> HIDE DEF at
  <2> QED
    BY <1>2, <2>1, <2>3, <2>4
<1>9. ASSUME NEW c \in BridgeCalls, Detach(c) PROVE AccountedNext(r)
  BY <1>9, <1>t, CallMoves, <1>0, <1>1, <1>k DEF Detach, Became, AccountedNext
<1>10. ASSUME NEW c \in BridgeCalls, TransportStops(c) PROVE AccountedNext(r)
  BY <1>t, <1>10, CallMoves, <1>0, <1>1, <1>2 DEF TransportStops
<1>15. ASSUME NEW c \in BridgeCalls, StopFails(c) PROVE AccountedNext(r)
  BY <1>t, <1>15, CallMoves, <1>0, <1>1, <1>2 DEF StopFails, DetachFails, TransportStopFails, bridgeParts
<1>11. ASSUME NEW c \in BridgeCalls, ClearContainer(c) PROVE AccountedNext(r)
  <2>1. /\ bcall' \in [BridgeCalls -> CallStates] /\ bcall[c] = Unused
        /\ \A d \in BridgeCalls \ {c} : bcall'[d] = bcall[d] \/ bcall[d] = Unused
        /\ \A h \in onCleared : \E d \in BridgeCalls \ {c} : bcall'[d] = Stopping("teardown", h)
    BY <1>t, <1>11, ClearMoves
  <2>2. /\ listed' = [h \in BridgeCalls |-> IF h \in onCleared THEN {} ELSE listed[h]]
        /\ onContainer' = {} /\ onBroker' = onBroker
    BY <1>11 DEF ClearContainer
  <2>3. Accounted(r)
    BY <1>0, <1>1, <2>2
  <2>4. CASE r \in listed[r[1]]
    <3>1. CASE r[1] \in onCleared
      BY <2>1, <3>1, <1>t, <1>k, NewCalls, <2>4 DEF AccountedNext
    <3>2. CASE r[1] \notin onCleared
      BY <1>k, <2>2, <2>4, <3>2 DEF AccountedNext
    <3> QED
      BY <3>1, <3>2
  <2>5. ASSUME NEW d \in BridgeCalls, r \in bcall[d].hand PROVE AccountedNext(r)
    BY <1>h, <2>5, <2>1 DEF AccountedNext
  <2>6. CASE bcall[r[1]].at \in {"subscribing", "failed"} /\ bcall[r[1]].route = r[2]
    BY <1>h, <1>k, <2>6, <2>1 DEF AccountedNext
  <2> QED
    BY <2>3, <2>4, <2>5, <2>6
<1>12. ASSUME UNCHANGED <<bcall, bridgeParts>> PROVE AccountedNext(r)
  BY <1>0, <1>1, <1>12 DEF AccountedNext, bridgeParts
<1>13. ASSUME NEW m \in BridgeMessages, MessageStep(m) PROVE AccountedNext(r)
  BY <1>12, <1>13 DEF MessageStep, DeliverMessage, Emit, Ack, Nack
<1>14. ASSUME UNCHANGED bridgeVars PROVE AccountedNext(r)
  BY <1>12, <1>14 DEF bridgeVars, bridgeParts
<1> QED
  BY <1>3, <1>4, <1>5, <1>6, <1>7, <1>8, <1>9, <1>10, <1>11, <1>13, <1>14, <1>15
  DEF BridgeNext, BridgeStep, MessageStep, StopFails

\* What is attached and what handles a message stays of a handle that was created, and an
\* only handle hears no echo.
LEMMA HandlesStay ==
  ASSUME BridgeTypeOK, CallsInShape, OfAHandle, NoEcho, [BridgeNext]_bridgeVars
  PROVE  OfAHandle' /\ NoEcho'
<1>t. /\ bcall \in [BridgeCalls -> CallStates] /\ listed \in [BridgeCalls -> SUBSET Routes]
      /\ hostHandle \in BridgeCalls \union {NoHandle} /\ onCleared \subseteq BridgeCalls
      /\ onContainer \subseteq Routes /\ onBroker \subseteq Routes /\ echoed \in BOOLEAN
  BY DEF BridgeTypeOK, CallStates
<1>d. delivery \in [BridgeMessages -> [at : {"broker", "handling", "emitted", "acked", "dropped"},
                                       by : BridgeCalls \union {NoHandle}]]
  BY DEF BridgeTypeOK
<1>r. \A r \in Routes : r[1] \in BridgeCalls
  BY DEF Routes
<1>s. \A c \in BridgeCalls : bcall[c].op = "start" => bcall'[c].op = "start"
  <2> SUFFICES ASSUME NEW c \in BridgeCalls, bcall[c].op = "start" PROVE bcall'[c].op = "start"
    OBVIOUS
  <2>1. bcall[c] # Unused
    BY DEF Unused
  <2>2. ASSUME NEW d \in BridgeCalls, StartBridge(d) \/ StopBridge(d) PROVE bcall'[c].op = "start"
    BY <2>2, <1>t DEF StartBridge, StopBridge, At
  <2>3. ASSUME NEW d \in BridgeCalls, BridgeStep(d) PROVE bcall'[c].op = "start"
    <3>1. ASSUME NEW at, NEW of, NEW route, NEW hand, Became(d, bcall[d].op, at, of, route, hand)
          PROVE  bcall'[c].op = "start"
      BY <3>1 DEF Became
    <3>2. ASSUME Detach(d) PROVE bcall'[c].op = "start"
      BY <3>2, <1>t, CallMoves, <3>1 DEF Detach
    <3>3. ASSUME ~Detach(d)
          PROVE  \E at, of, route, hand : Became(d, bcall[d].op, at, of, route, hand)
      BY <1>t, <2>3, <3>3, CallMoves DEF BridgeStep, StopFails
    <3> QED
      BY <3>1, <3>2, <3>3
  <2>4. ASSUME NEW d \in BridgeCalls, ClearContainer(d) PROVE bcall'[c].op = "start"
    BY <1>t, <2>4, ClearMoves, <2>1
  <2>5. ASSUME NEW m \in BridgeMessages, MessageStep(m) PROVE bcall' = bcall
    BY <2>5 DEF MessageStep, DeliverMessage, Emit, Ack, Nack
  <2> QED
    BY <2>2, <2>3, <2>4, <2>5 DEF BridgeNext, bridgeVars, MessageStep
\* Only starts attach.
<1>1. \A r \in onContainer' \union onBroker' : r \in onContainer \union onBroker \/ bcall[r[1]].op = "start"
  <2>1. ASSUME NEW c \in BridgeCalls, TransportStarts(c) \/ Subscribe(c)
        PROVE  \A r \in onContainer' \union onBroker' : r \in onContainer \union onBroker \/ bcall[r[1]].op = "start"
    BY <2>1 DEF TransportStarts, Subscribe, At
  <2>2. ASSUME NEW c \in BridgeCalls,
               \/ StartBridge(c) \/ StopBridge(c) \/ ClearContainer(c)
               \/ Subscribed(c) \/ BridgeStartFails(c) \/ BridgeStarted(c)
               \/ Detach(c) \/ StopFails(c) \/ TransportStops(c) \/ BridgeStopEnds(c)
        PROVE  onContainer' \union onBroker' \subseteq onContainer \union onBroker
    BY <2>2
    DEF StartBridge, StopBridge, ClearContainer, Subscribed, BridgeStartFails, BridgeStarted, Detach, TransportStops,
        StopFails, DetachFails, TransportStopFails, BridgeStopEnds, bridgeParts
  <2>3. ASSUME NEW m \in BridgeMessages, MessageStep(m) PROVE onContainer' = onContainer /\ onBroker' = onBroker
    BY <2>3 DEF MessageStep, DeliverMessage, Emit, Ack, Nack, bridgeParts
  <2>4. UNCHANGED bridgeVars => onContainer' = onContainer /\ onBroker' = onBroker
    BY DEF bridgeVars
  <2> QED
    BY <2>1, <2>2, <2>3, <2>4 DEF BridgeNext, BridgeStep, MessageStep, StopFails
<1>2. \A r \in onContainer' \union onBroker' : bcall'[r[1]].op = "start"
  BY <1>1, <1>r, BridgeTyped, <1>s DEF OfAHandle, BridgeTypeOK
<1>3. \A m \in BridgeMessages : delivery'[m].at \in {"handling", "emitted"} =>
        delivery'[m].by \in BridgeCalls /\ bcall[delivery'[m].by].op = "start"
  <2>1. CASE delivery' = delivery
    BY <2>1 DEF OfAHandle
  <2>2. ASSUME NEW m \in BridgeMessages, MessageStep(m)
        PROVE  \A n \in BridgeMessages : delivery'[n].at \in {"handling", "emitted"} =>
                 delivery'[n].by \in BridgeCalls /\ bcall[delivery'[n].by].op = "start"
    <3>1. \A n \in BridgeMessages \ {m} : delivery'[n] = delivery[n]
      BY <1>d, <2>2 DEF MessageStep, DeliverMessage, Emit, Ack, Nack
    <3>2. PICK e \in [at : {"broker", "handling", "emitted", "acked", "dropped"}, by : BridgeCalls \union {NoHandle}] :
            e = delivery[m]
      BY <1>d
    <3>3. delivery'[m].at \in {"handling", "emitted"} =>
            delivery'[m].by \in BridgeCalls /\ bcall[delivery'[m].by].op = "start"
      <4>1. ASSUME NEW h \in BridgeCalls, DeliverMessage(m, h) PROVE delivery'[m].by = h /\ bcall[h].op = "start"
        BY <1>d, <4>1 DEF DeliverMessage, OfAHandle
      <4>2. CASE Emit(m)
        BY <1>d, <3>2, <4>2 DEF Emit, OfAHandle
      <4>3. CASE Ack(m)
        BY <1>d, <3>2, <4>3 DEF Ack
      <4>4. CASE Nack(m)
        BY <1>d, <3>2, <4>4 DEF Nack, InBroker
      <4> QED
        BY <2>2, <4>1, <4>2, <4>3, <4>4 DEF MessageStep
    <3> QED
      BY <3>1, <3>3 DEF OfAHandle
  <2> QED
    BY <2>1, <2>2
    DEF BridgeNext, bridgeVars, StartBridge, StopBridge, ClearContainer, BridgeStep, TransportStarts, Subscribe,
        Subscribed, BridgeStartFails, BridgeStarted, Detach, DetachFails, TransportStops, TransportStopFails,
        BridgeStopEnds, MessageStep
<1>4. OfAHandle'
  BY <1>2, <1>3, <1>s DEF OfAHandle
<1>5. NoEcho'
  <2>1. CASE echoed' = echoed
    BY <1>s, <2>1 DEF NoEcho
  <2>2. ASSUME NEW m \in BridgeMessages, Emit(m) PROVE NoEcho'
    BY <2>2, <1>t, <1>r DEF Emit, Publishers, OfAHandle, NoEcho
  <2> QED
    BY <2>1, <2>2
    DEF BridgeNext, bridgeVars, StartBridge, StopBridge, ClearContainer, BridgeStep, TransportStarts, Subscribe,
        Subscribed, BridgeStartFails, BridgeStarted, Detach, DetachFails, TransportStops, TransportStopFails,
        BridgeStopEnds, DeliverMessage, Ack, Nack
<1> QED
  BY <1>4, <1>5

\* A handle that is up keeps listening for the clearing until somebody stops it.
LEMMA UpKeepsListening ==
  ASSUME BridgeTypeOK, CallsInShape, UpListens, [BridgeNext]_bridgeVars
  PROVE  UpListens'
<1>t. /\ bcall \in [BridgeCalls -> CallStates] /\ listed \in [BridgeCalls -> SUBSET Routes]
      /\ hostHandle \in BridgeCalls \union {NoHandle} /\ onCleared \subseteq BridgeCalls /\ bridgeUp \subseteq BridgeCalls
  BY DEF BridgeTypeOK, CallStates
<1>1. ASSUME NEW c \in BridgeCalls, NEW what, NEW at, NEW of, NEW route, NEW hand,
             Became(c, what, at, of, route, hand),
             bcall[c].op \notin {"stop", "teardown"} \/ (what = bcall[c].op /\ at \in {"detaching", "stopped", "failed"}
                                                        /\ of = bcall[c].handle),
             \A h \in bridgeUp' : h \in bridgeUp \/ h \in onCleared',
             \A h \in onCleared : h \in onCleared' \/ (what \in {"stop", "teardown"} /\ at \in {"detaching", "stopped"} /\ of = h)
      PROVE  UpListens'
  <2> SUFFICES ASSUME NEW h \in bridgeUp', h \notin onCleared' PROVE \E d \in BridgeCalls : StoppedBy(h, d)'
    BY DEF UpListens
  <2>1. h \in bridgeUp
    BY <1>1
  <2>2. CASE h \in onCleared
    BY <1>1, <2>2 DEF StoppedBy, Became
  <2>3. ASSUME NEW d \in BridgeCalls, StoppedBy(h, d) PROVE \E e \in BridgeCalls : StoppedBy(h, e)'
    BY <1>1, <2>3 DEF StoppedBy, Became
  <2> QED
    BY <2>1, <2>2, <2>3 DEF UpListens
<1>2. ASSUME NEW c \in BridgeCalls, StartBridge(c) PROVE UpListens'
  BY <1>t, <1>2, CallMoves, <1>1 DEF StartBridge, At, bridgeParts
<1>3. ASSUME NEW c \in BridgeCalls,
             TransportStarts(c) \/ Subscribe(c) \/ Subscribed(c) \/ BridgeStartFails(c) \/ BridgeStarted(c)
      PROVE  UpListens'
  BY <1>3, <1>t, CallMoves, <1>1 DEF TransportStarts, Subscribe, Subscribed, BridgeStartFails, BridgeStarted, At,
       bridgeParts
<1>4. ASSUME NEW c \in BridgeCalls, StopBridge(c) PROVE UpListens'
  <2> DEFINE at == IF hostHandle \notin bridgeUp /\ listed[hostHandle] = {} THEN "stopped" ELSE "detaching"
  <2>1. Became(c, "stop", at, hostHandle, 0, listed[hostHandle]) /\ bcall[c].op = "none"
    BY <1>t, <1>4, CallMoves DEF StopBridge, At
  <2>2. at \in {"detaching", "stopped"}
    OBVIOUS
  <2>3. bridgeUp' = bridgeUp /\ onCleared' \in {onCleared, onCleared \ {hostHandle}}
    BY <1>4 DEF StopBridge
  <2> HIDE DEF at
  <2> QED
    BY <1>1, <2>1, <2>2, <2>3
<1>5. ASSUME NEW c \in BridgeCalls, Detach(c) PROVE UpListens'
  BY <1>5, <1>t, CallMoves, <1>1 DEF Detach
<1>6. ASSUME NEW c \in BridgeCalls, TransportStops(c) PROVE UpListens'
  BY <1>t, <1>6, CallMoves, <1>1 DEF TransportStops
<1>12. ASSUME NEW c \in BridgeCalls, StopFails(c) PROVE UpListens'
  BY <1>t, <1>12, CallMoves, <1>1 DEF StopFails, DetachFails, TransportStopFails, bridgeParts
<1>7. ASSUME NEW c \in BridgeCalls, BridgeStopEnds(c) PROVE UpListens'
  BY <1>t, <1>7, CallMoves DEF BridgeStopEnds, UpListens, StoppedBy, Became
<1>8. ASSUME NEW c \in BridgeCalls, ClearContainer(c) PROVE UpListens'
  <2>1. /\ bcall[c] = Unused
        /\ \A d \in BridgeCalls \ {c} : bcall'[d] = bcall[d] \/ bcall[d] = Unused
        /\ \A h \in onCleared : \E d \in BridgeCalls \ {c} : bcall'[d] = Stopping("teardown", h)
        /\ bridgeUp' = bridgeUp
    BY <1>t, <1>8, ClearMoves DEF ClearContainer
  <2> SUFFICES ASSUME NEW h \in bridgeUp' PROVE \E d \in BridgeCalls : StoppedBy(h, d)'
    BY DEF UpListens
  <2>2. CASE h \in onCleared
    BY <2>1, <2>2, <1>t, NewCalls DEF StoppedBy
  <2>3. ASSUME NEW d \in BridgeCalls, StoppedBy(h, d) PROVE StoppedBy(h, d)'
    BY <2>3, <2>1 DEF StoppedBy, Unused
  <2> QED
    BY <2>1, <2>2, <2>3 DEF UpListens
<1>9. ASSUME UNCHANGED <<bcall, bridgeParts>> PROVE UpListens'
  BY <1>9 DEF bridgeParts, UpListens, StoppedBy
<1>10. ASSUME NEW m \in BridgeMessages, MessageStep(m) PROVE UpListens'
  BY <1>9, <1>10 DEF MessageStep, DeliverMessage, Emit, Ack, Nack
<1>11. ASSUME UNCHANGED bridgeVars PROVE UpListens'
  BY <1>9, <1>11 DEF bridgeVars, bridgeParts
<1> QED
  BY <1>2, <1>3, <1>4, <1>5, <1>6, <1>7, <1>8, <1>10, <1>11, <1>12
  DEF BridgeNext, BridgeStep, MessageStep, StopFails

\* Only a start puts routes into a list, and a start that is done listens for the clearing.
LEMMA ListsKeepListening ==
  ASSUME BridgeTypeOK, CallsInShape, ListedListens, [BridgeNext]_bridgeVars
  PROVE  ListedListens'
<1>t. /\ bcall \in [BridgeCalls -> CallStates] /\ listed \in [BridgeCalls -> SUBSET Routes]
      /\ hostHandle \in BridgeCalls \union {NoHandle} /\ onCleared \subseteq BridgeCalls
  BY DEF BridgeTypeOK, CallStates
<1>u. \A d \in BridgeCalls : bcall[d].op = "none" => bcall[d] = Unused
  BY DEF CallsInShape, InShape
\* A call moves: only its own list may grow, and only those no longer listed may stop listening.
<1>1. ASSUME NEW c \in BridgeCalls, NEW what, NEW at, NEW of, NEW route, NEW hand,
             Became(c, what, at, of, route, hand),
             bcall[c].op # "start" => listed'[c] \subseteq listed[c],
             bcall[c].op = "start" => what = "start" /\ (at = "done" => c \in onCleared'),
             \A h \in BridgeCalls \ {c} : listed'[h] \subseteq listed[h],
             \A h \in onCleared : h \in onCleared' \/ listed'[h] = {}
      PROVE  ListedListens'
  <2> SUFFICES ASSUME NEW h \in BridgeCalls, listed'[h] # {}
               PROVE  bcall'[h].op = "start" /\ (bcall'[h].at = "done" => h \in onCleared')
    BY DEF ListedListens
  <2>1. CASE h = c /\ bcall[c].op = "start"
    BY <1>1, <2>1 DEF Became
  <2>2. CASE h = c /\ bcall[c].op # "start"
    BY <1>1, <2>2 DEF ListedListens
  <2>3. CASE h # c
    BY <1>1, <2>3 DEF Became, ListedListens
  <2> QED
    BY <2>1, <2>2, <2>3
<1>2. ASSUME NEW c \in BridgeCalls, StartBridge(c) PROVE ListedListens'
  BY <1>t, <1>2, CallMoves, <1>1 DEF StartBridge, At, bridgeParts
<1>3. ASSUME NEW c \in BridgeCalls,
             TransportStarts(c) \/ Subscribe(c) \/ Subscribed(c) \/ BridgeStartFails(c) \/ BridgeStarted(c)
      PROVE  ListedListens'
  <2>1. bcall[c].op = "start" /\ onCleared \subseteq onCleared'
    BY <1>3 DEF TransportStarts, Subscribe, Subscribed, BridgeStartFails, BridgeStarted, At, bridgeParts
  <2>2. \A h \in BridgeCalls \ {c} : listed'[h] = listed[h]
    BY <1>t, <1>3 DEF TransportStarts, Subscribe, Subscribed, BridgeStartFails, BridgeStarted, bridgeParts
  <2>3. \E at, of, route, hand : Became(c, "start", at, of, route, hand) /\ (at = "done" => c \in onCleared')
    BY <1>t, <1>3, <2>1, CallMoves DEF BridgeStarted
  <2> QED
    BY <1>1, <2>1, <2>2, <2>3
<1>4. ASSUME NEW c \in BridgeCalls, StopBridge(c) PROVE ListedListens'
  <2> DEFINE at == IF hostHandle \notin bridgeUp /\ listed[hostHandle] = {} THEN "stopped" ELSE "detaching"
  <2>1. Became(c, "stop", at, hostHandle, 0, listed[hostHandle]) /\ bcall[c].op = "none"
    BY <1>t, <1>4, CallMoves DEF StopBridge, At
  <2>2. \/ listed' = listed /\ onCleared' = onCleared
        \/ listed' = [listed EXCEPT ![hostHandle] = {}] /\ onCleared' = onCleared \ {hostHandle}
    BY <1>4 DEF StopBridge
  <2>3. \A h \in BridgeCalls : listed'[h] \subseteq listed[h]
    BY <1>t, <2>2
  <2>4. \A h \in onCleared : h \in onCleared' \/ listed'[h] = {}
    BY <1>t, <2>2
  <2> HIDE DEF at
  <2> QED
    BY <1>1, <2>1, <2>3, <2>4
<1>5. ASSUME NEW c \in BridgeCalls, Detach(c) \/ StopFails(c) \/ TransportStops(c) \/ BridgeStopEnds(c)
      PROVE  ListedListens'
  <2>1. bcall[c].op # "start" /\ listed' = listed /\ onCleared' = onCleared
    BY <1>5 DEF Detach, StopFails, DetachFails, TransportStopFails, TransportStops, BridgeStopEnds, Stops, bridgeParts
  <2>2. \E what, at, of, route, hand : Became(c, what, at, of, route, hand)
    <3>1. ASSUME Detach(c) PROVE \E what, at, of, route, hand : Became(c, what, at, of, route, hand)
      BY <3>1, <1>t, CallMoves DEF Detach
    <3> QED
      BY <1>t, <1>5, <3>1, CallMoves
  <2> QED
    BY <1>1, <2>1, <2>2
<1>6. ASSUME NEW c \in BridgeCalls, ClearContainer(c) PROVE ListedListens'
  BY <1>t, <1>6, ClearMoves DEF ClearContainer, ListedListens, Unused
<1>7. ASSUME UNCHANGED <<bcall, bridgeParts>> PROVE ListedListens'
  BY <1>7 DEF bridgeParts, ListedListens
<1>8. ASSUME NEW m \in BridgeMessages, MessageStep(m) PROVE ListedListens'
  BY <1>7, <1>8 DEF MessageStep, DeliverMessage, Emit, Ack, Nack
<1>9. ASSUME UNCHANGED bridgeVars PROVE ListedListens'
  BY <1>7, <1>9 DEF bridgeVars, bridgeParts
<1> QED
  BY <1>2, <1>3, <1>4, <1>5, <1>6, <1>8, <1>9 DEF BridgeNext, BridgeStep, MessageStep, StopFails

\* After a clearing that met no start, nothing is attached again until one begins.
LEMMA TeardownLasts ==
  ASSUME BridgeTypeOK, CallsInShape, ListedListens, AfterTeardown, [BridgeNext]_bridgeVars
  PROVE  AfterTeardown'
<1>t. /\ bcall \in [BridgeCalls -> CallStates] /\ listed \in [BridgeCalls -> SUBSET Routes]
      /\ hostHandle \in BridgeCalls \union {NoHandle} /\ onCleared \subseteq BridgeCalls
  BY DEF BridgeTypeOK, CallStates
<1> DEFINE Empty == onContainer = {} /\ onCleared = {} /\ \A h \in BridgeCalls : listed[h] = {}
           Done == \A c \in BridgeCalls : bcall[c].op = "start" => bcall[c].at = "done"
<1>1. ASSUME NEW c \in BridgeCalls, NEW what, NEW at, NEW of, NEW route, NEW hand,
             Became(c, what, at, of, route, hand), what # "start",
             teardown' = teardown, onContainer' \subseteq onContainer, onCleared' \subseteq onCleared,
             \A h \in BridgeCalls : listed'[h] \subseteq listed[h]
      PROVE  AfterTeardown'
  BY <1>1 DEF Became, AfterTeardown
<1>2. ASSUME NEW c \in BridgeCalls, StartBridge(c) PROVE AfterTeardown'
  BY <1>2 DEF StartBridge, AfterTeardown
<1>3. ASSUME NEW c \in BridgeCalls,
             TransportStarts(c) \/ Subscribe(c) \/ Subscribed(c) \/ BridgeStartFails(c) \/ BridgeStarted(c)
      PROVE  AfterTeardown'
  BY <1>3 DEF TransportStarts, Subscribe, Subscribed, BridgeStartFails, BridgeStarted, At, AfterTeardown
<1>4. ASSUME NEW c \in BridgeCalls, StopBridge(c) PROVE AfterTeardown'
  <2> DEFINE at == IF hostHandle \notin bridgeUp /\ listed[hostHandle] = {} THEN "stopped" ELSE "detaching"
  <2>1. Became(c, "stop", at, hostHandle, 0, listed[hostHandle])
    BY <1>t, <1>4, CallMoves
  <2>2. /\ \/ listed' = listed /\ onCleared' = onCleared
           \/ listed' = [listed EXCEPT ![hostHandle] = {}] /\ onCleared' = onCleared \ {hostHandle}
        /\ teardown' = teardown /\ onContainer' = onContainer
    BY <1>4 DEF StopBridge
  <2>3. \A h \in BridgeCalls : listed'[h] \subseteq listed[h]
    BY <1>t, <2>2
  <2> HIDE DEF at
  <2> QED
    BY <1>1, <2>1, <2>2, <2>3
<1>5. ASSUME NEW c \in BridgeCalls, Detach(c) \/ StopFails(c) \/ TransportStops(c) \/ BridgeStopEnds(c)
      PROVE  AfterTeardown'
  <2>1. /\ bcall[c].op # "start" /\ listed' = listed /\ onCleared' = onCleared
        /\ onContainer' \subseteq onContainer /\ teardown' = teardown
    BY <1>5 DEF Detach, StopFails, DetachFails, TransportStopFails, TransportStops, BridgeStopEnds, Stops, bridgeParts
  <2>2. \E at, of, route, hand : Became(c, bcall[c].op, at, of, route, hand)
    <3>1. ASSUME Detach(c) PROVE \E at, of, route, hand : Became(c, bcall[c].op, at, of, route, hand)
      BY <3>1, <1>t, CallMoves DEF Detach
    <3> QED
      BY <1>t, <1>5, <3>1, CallMoves
  <2> QED
    BY <1>1, <2>1, <2>2
<1>6. ASSUME NEW c \in BridgeCalls, ClearContainer(c) PROVE AfterTeardown'
  <2>1. /\ bcall'[c].op = "clear"
        /\ \A d \in BridgeCalls \ {c} :
             bcall'[d] = bcall[d] \/ \E h \in onCleared : bcall'[d] = Stopping("teardown", h)
    BY <1>t, <1>6, ClearMoves
  <2>2. /\ listed' = [h \in BridgeCalls |-> IF h \in onCleared THEN {} ELSE listed[h]]
        /\ onContainer' = {} /\ onCleared' = {}
        /\ teardown' = (Running({"start"}) = {} /\ \A d \in BridgeCalls : bcall[d].at # "failed")
    BY <1>6 DEF ClearContainer
  <2> SUFFICES ASSUME Running({"start"}) = {}, \A d \in BridgeCalls : bcall[d].at # "failed"
               PROVE  Done' /\ Empty'
    BY <2>2 DEF AfterTeardown
  <2>3. Done
    BY DEF Running
  <2>4. \A h \in onCleared : Stopping("teardown", h).op = "teardown"
    BY <1>t, NewCalls
  <2>5. Done'
    BY <2>1, <2>3, <2>4
  <2>6. \A h \in BridgeCalls : listed'[h] = {}
    BY <2>2, <2>3 DEF ListedListens
  <2> QED
    BY <2>2, <2>5, <2>6
<1>7. ASSUME UNCHANGED <<bcall, bridgeParts, teardown>> PROVE AfterTeardown'
  BY <1>7 DEF bridgeParts, AfterTeardown
<1>8. ASSUME NEW m \in BridgeMessages, MessageStep(m) PROVE AfterTeardown'
  BY <1>7, <1>8 DEF MessageStep, DeliverMessage, Emit, Ack, Nack
<1>9. ASSUME UNCHANGED bridgeVars PROVE AfterTeardown'
  BY <1>7, <1>9 DEF bridgeVars, bridgeParts
<1> QED
  BY <1>2, <1>3, <1>4, <1>5, <1>6, <1>8, <1>9 DEF BridgeNext, BridgeStep, MessageStep, StopFails

\* Every step keeps the invariant.
LEMMA BridgeInductive ==
  BridgeInv /\ [BridgeNext]_bridgeVars => BridgeInv'
BY BridgeTyped, ShapeStays, RoutesStayAccounted, HandlesStay, UpKeepsListening, ListsKeepListening, TeardownLasts
DEF BridgeInv

\* At the start there is no handle and nothing is attached.
LEMMA BridgeInvInit == BridgeInit => BridgeInv
<1> SUFFICES ASSUME BridgeInit PROVE BridgeInv
  OBVIOUS
<1>1. \A c \in BridgeCalls : bcall[c] = Unused /\ bcall[c].op = "none" /\ bcall[c].at = "idle" /\ bcall[c].hand = {}
  BY DEF BridgeInit, Unused
<1>2. Unused \in CallStates
  BY BridgeAssumption DEF CallStates, Unused
<1>3. bcall \in [BridgeCalls -> CallStates]
  BY <1>2 DEF BridgeInit
<1>4. \A m \in BridgeMessages : delivery[m].at = "broker"
  BY DEF BridgeInit, InBroker
<1>5. BridgeTypeOK
  BY <1>3 DEF InBroker, BridgeInit, BridgeTypeOK, CallStates
<1>6. CallsInShape
  BY <1>1 DEF CallsInShape, InShape
<1>7. RoutesAccounted /\ OfAHandle /\ NoEcho
  BY <1>4 DEF BridgeInit, RoutesAccounted, OfAHandle, NoEcho
<1>8. UpListens /\ ListedListens /\ AfterTeardown
  BY DEF BridgeInit, UpListens, ListedListens, AfterTeardown
<1> QED
  BY <1>5, <1>6, <1>7, <1>8 DEF BridgeInv

\* What the invariant says of a bridge torn down and of one that is alone.
LEMMA TornDownAndAlone == BridgeInv => ClearTearsDown /\ EchoStops
<1> SUFFICES ASSUME BridgeInv PROVE ClearTearsDown /\ EchoStops
  OBVIOUS
<1> USE DEF BridgeInv
<1>1. ClearTearsDown
  <2>0. teardown => onContainer = {}
    BY DEF AfterTeardown
  <2> SUFFICES ASSUME teardown, Running({"stop", "teardown"}) = {}, \A c \in BridgeCalls : bcall[c].at # "failed"
               PROVE  onBroker = {} /\ bridgeUp = {}
    BY <2>0 DEF ClearTearsDown
  <2>1. \A c \in BridgeCalls : bcall[c].op \in {"stop", "teardown"} => bcall[c].at = "done"
    BY DEF Running
  <2>2. \A c \in BridgeCalls : bcall[c].hand = {}
    BY <2>1 DEF CallsInShape, InShape
  <2>3. bridgeUp = {}
    BY <2>1 DEF BridgeTypeOK, UpListens, StoppedBy, AfterTeardown
  <2>4. ASSUME NEW r \in onBroker PROVE FALSE
    BY <2>4, <2>2 DEF BridgeTypeOK, Routes, OfAHandle, AfterTeardown, RoutesAccounted
  <2> QED
    BY <2>3, <2>4 DEF AfterTeardown
<1>2. EchoStops
  <2> DEFINE S == {c \in BridgeCalls : bcall[c].op = "start"}
  <2> SUFFICES ASSUME Cardinality(S) <= 1 PROVE ~echoed
    BY DEF EchoStops
  <2>1. IsFiniteSet(S)
    <3>1. S \subseteq BridgeCalls /\ IsFiniteSet(BridgeCalls)
      BY BridgeAssumption
    <3> HIDE DEF S
    <3> QED
      BY <3>1, FS_Subset
  <2>2. ASSUME NEW c \in S, NEW d \in S, c # d PROVE FALSE
    <3> HIDE DEF S
    <3>1. IsFiniteSet({c}) /\ Cardinality({c}) = 1 /\ d \notin {c}
      BY <2>2, FS_Singleton
    <3>2. Cardinality({c} \union {d}) = 2
      BY <3>1, FS_AddElement
    <3>3. {c} \union {d} \subseteq S
      OBVIOUS
    <3>4. Cardinality({c} \union {d}) <= Cardinality(S)
      BY <2>1, <3>3, FS_Subset
    <3>5. Cardinality(S) \in Nat
      BY <2>1, FS_CardinalityType
    <3> QED
      BY <3>2, <3>4, <3>5
  <2>3. \A c, d \in BridgeCalls : bcall[c].op = "start" /\ bcall[d].op = "start" => c = d
    BY <2>2
  <2> QED
    BY <2>3 DEF NoEcho
<1> QED
  BY <1>1, <1>2

\* What a bridge attached can be detached, a clearing tears every bridge down, as far as no
\* rejected await has cut a stop or a subscription short; and a bridge alone hears no echo of
\* what it took from the broker.
THEOREM BridgesTearDown == BridgeSpec => [](RoutesAccounted /\ ClearTearsDown /\ EchoStops)
<1>1. BridgeInv => RoutesAccounted /\ ClearTearsDown /\ EchoStops
  BY TornDownAndAlone DEF BridgeInv
<1> QED
  BY <1>1, BridgeInvInit, BridgeInductive, PTL DEF BridgeSpec

\* Bridges account for their subscriptions and tear them down, and the worker's loop stays
\* alive within its limits.
THEOREM MessagingHolds == BridgeSpec /\ WorkerSpec => []Messaging
BY BridgesTearDown, WorkersKeepOn, PTL DEF Messaging
-----------------------------------------------------------------------------
(* Storage of WebAssembly guests.  What is staged for a key is what the last *)
(* change of it left; there is one handle, the one that is cached.           *)

StorageTypes ==
  /\ dbHandles \in Nat /\ term \in Nat
  /\ stored \in Rows
  /\ tx \in [StoreUsers ->
       [at : {"idle", "connecting", "open", "committing", "committed", "failed"},
        handle : Nat, token : Nat, sets : SUBSET StoreKeys,
        deletes : SUBSET StoreKeys, cleared : BOOLEAN, changes : Seq(Changes)]]

\* The handle that is cached is the only one open.
OneHandle ==
  /\ connection \in Nat /\ openHandles = (IF connection = 0 THEN {} ELSE {connection})
  /\ opening => connection = 0
  /\ closing = "done" => connection = 0 /\ ~opening

\* What the changes of a transaction leave of a key.
Leaves(t, k) ==
  IF k \in t.sets THEN "set" ELSE IF k \in t.deletes \/ t.cleared THEN "gone" ELSE "as it was"

\* What change i of a sequence makes of a key.
Concerns(s, k, i) == s[i][1] = "clear" \/ s[i][2] = k
LastOf(s, k, i) == /\ i \in 1..Len(s) /\ Concerns(s, k, i)
                   /\ \A j \in 1..Len(s) : Concerns(s, k, j) => j <= i

\* What is staged is what the changes leave.
StagedRight(t) ==
  /\ t.sets \intersect t.deletes = {}
  /\ \A k \in StoreKeys :
       /\ (\A i \in 1..Len(t.changes) : ~Concerns(t.changes, k, i)) => Leaves(t, k) = "as it was"
       /\ \A i \in Nat : LastOf(t.changes, k, i) =>
            Leaves(t, k) = (IF t.changes[i][1] = "set" THEN "set" ELSE "gone")

StorageInv ==
  /\ StorageTypes /\ OneHandle
  /\ \A u \in StoreUsers : StagedRight(tx[u]) /\ tx[u].token <= term

\* The records of transactions.
TxRecords ==
  [at : {"idle", "connecting", "open", "committing", "committed", "failed"},
   handle : Nat, token : Nat, sets : SUBSET StoreKeys,
   deletes : SUBSET StoreKeys, cleared : BOOLEAN, changes : Seq(Changes)]

\* Staging a change, field by field.
LEMMA StagedFields ==
  ASSUME NEW t \in TxRecords, NEW c \in Changes
  PROVE  /\ Staged(t, c).changes = Append(t.changes, c)
         /\ Staged(t, c).sets = IF c[1] = "set" THEN t.sets \union {c[2]}
                                ELSE IF c[1] = "clear" THEN {} ELSE t.sets \ {c[2]}
         /\ Staged(t, c).deletes = IF c[1] = "delete" THEN t.deletes \union {c[2]}
                                   ELSE IF c[1] = "clear" THEN {} ELSE t.deletes \ {c[2]}
         /\ Staged(t, c).cleared = (t.cleared \/ c[1] = "clear")
         /\ Staged(t, c).at = t.at /\ Staged(t, c).handle = t.handle /\ Staged(t, c).token = t.token
         /\ Staged(t, c) \in TxRecords
<1>1. c[1] \in {"clear", "set", "delete"} /\ (c[1] # "clear" => c[2] \in StoreKeys)
  BY DEF Changes
<1>2. Append(t.changes, c) \in Seq(Changes)
  BY DEF TxRecords
<1> QED
  BY <1>1, <1>2 DEF Staged, TxRecords

\* Staging keeps what is staged to what the changes leave.
LEMMA StagingIsRight ==
  ASSUME NEW t \in TxRecords, NEW c \in Changes, StagedRight(t)
  PROVE  StagedRight(Staged(t, c))
<1> DEFINE r == Staged(t, c)
           s == t.changes
           n == Len(s)
<1>1. c[1] \in {"clear", "set", "delete"} /\ (c[1] # "clear" => c[2] \in StoreKeys)
  BY DEF Changes
<1>2. s \in Seq(Changes) /\ n \in Nat
  BY DEF TxRecords
<1>3. /\ r.changes = Append(s, c)
      /\ r.sets = IF c[1] = "set" THEN t.sets \union {c[2]} ELSE IF c[1] = "clear" THEN {} ELSE t.sets \ {c[2]}
      /\ r.deletes = IF c[1] = "delete" THEN t.deletes \union {c[2]}
                     ELSE IF c[1] = "clear" THEN {} ELSE t.deletes \ {c[2]}
      /\ r.cleared = (t.cleared \/ c[1] = "clear")
  BY StagedFields
<1> HIDE DEF r
<1>4. r.sets \intersect r.deletes = {}
  BY <1>1, <1>3 DEF StagedRight
<1>5. /\ Len(Append(s, c)) = n + 1 /\ Append(s, c)[n + 1] = c
      /\ \A i \in 1..n : Append(s, c)[i] = s[i]
  BY <1>2
<1>6. ASSUME NEW k \in StoreKeys
      PROVE  /\ (\A i \in 1..Len(r.changes) : ~Concerns(r.changes, k, i)) => Leaves(r, k) = "as it was"
             /\ \A i \in Nat : LastOf(r.changes, k, i) =>
                  Leaves(r, k) = (IF r.changes[i][1] = "set" THEN "set" ELSE "gone")
  <2>1. /\ \A i \in 1..n : Concerns(r.changes, k, i) <=> Concerns(s, k, i)
        /\ Concerns(r.changes, k, n + 1) <=> c[1] = "clear" \/ c[2] = k
        /\ Len(r.changes) = n + 1
    BY <1>2, <1>3, <1>5 DEF Concerns
  <2>2. CASE c[1] = "clear" \/ c[2] = k
    <3>1. \A i \in Nat : LastOf(r.changes, k, i) => i = n + 1
      BY <1>2, <2>1, <2>2 DEF LastOf
    <3>2. Leaves(r, k) = (IF c[1] = "set" THEN "set" ELSE "gone")
      BY <1>1, <1>3, <2>2 DEF Leaves
    <3> QED
      BY <1>2, <1>3, <1>5, <2>1, <2>2, <3>1, <3>2
  <2>3. CASE ~(c[1] = "clear" \/ c[2] = k)
    <3>1. Leaves(r, k) = Leaves(t, k)
      BY <1>1, <1>3, <2>3 DEF Leaves
    <3>2. (\A i \in 1..Len(r.changes) : ~Concerns(r.changes, k, i)) => (\A i \in 1..n : ~Concerns(s, k, i))
      BY <1>2, <2>1
    <3>3. ASSUME NEW i \in Nat, LastOf(r.changes, k, i)
          PROVE  LastOf(s, k, i) /\ r.changes[i] = s[i]
      BY <1>2, <1>3, <1>5, <2>1, <2>3, <3>3 DEF LastOf
    <3> QED
      BY <3>1, <3>2, <3>3 DEF StagedRight
  <2> QED
    BY <2>2, <2>3
<1> QED
  BY <1>4, <1>6 DEF StagedRight, r

\* Among the changes that concern a key there is a last one.
LEMMA LastChange ==
  ASSUME NEW s \in Seq(Changes), NEW k, NEW m \in 1..Len(s), Concerns(s, k, m)
  PROVE  \E i \in Nat : LastOf(s, k, i)
<1> DEFINE Before == {p \in Nat \X Nat : p[1] < p[2]}
           FromEnd == {d \in Nat : d < Len(s) /\ Concerns(s, k, Len(s) - d)}
<1>1. Len(s) \in Nat /\ Len(s) - m \in FromEnd
  OBVIOUS
<1>2. IsWellFoundedOn(Before, Nat)
  BY NatLessThanWellFounded DEF OpToRel
<1> HIDE DEF Before
<1>3. PICK d \in FromEnd : \A e \in FromEnd : ~(<<e, d>> \in Before)
  BY <1>1, <1>2, WFMin
<1>4. \A e \in FromEnd : ~(e < d)
  BY <1>3 DEF Before
<1>5. ASSUME NEW j \in 1..Len(s), Concerns(s, k, j) PROVE j <= Len(s) - d
  <2>1. Len(s) - j \in FromEnd /\ Len(s) - (Len(s) - j) = j
    BY <1>1, <1>5
  <2> QED
    BY <1>1, <1>4, <2>1
<1>6. Len(s) - d \in 1..Len(s) /\ Concerns(s, k, Len(s) - d)
  BY <1>1
<1>7. Len(s) - d \in Nat /\ LastOf(s, k, Len(s) - d)
  BY <1>1, <1>5, <1>6 DEF LastOf
<1> QED
  BY <1>7

\* What was staged right is written as the changes leave it.
LEMMA StagedIsApplied ==
  ASSUME NEW u \in StoreUsers, NEW k \in StoreKeys, tx[u] \in TxRecords, StagedRight(tx[u]), stored \in Rows
  PROVE  Applied(u, stored)[k] = CASE Leaves(tx[u], k) = "set" -> u
                                   [] Leaves(tx[u], k) = "gone" -> NoValue
                                   [] OTHER -> stored[k]
<1> DEFINE s == tx[u].changes
<1>1. s \in Seq(Changes)
  BY DEF TxRecords
<1>2. ChangesOf(u, k) = {i \in 1..Len(s) : Concerns(s, k, i)}
  BY <1>1 DEF ChangesOf, Concerns
<1>3. CASE ChangesOf(u, k) = {}
  BY <1>2, <1>3 DEF StagedRight, Applied
<1>4. CASE ChangesOf(u, k) # {}
  <2> DEFINE last == CHOOSE i \in ChangesOf(u, k) : \A j \in ChangesOf(u, k) : j <= i
  <2>1. PICK m \in 1..Len(s) : Concerns(s, k, m)
    BY <1>2, <1>4
  <2>2. \E i \in Nat : LastOf(s, k, i)
    BY <1>1, <2>1, LastChange
  <2>3. \E i \in ChangesOf(u, k) : \A j \in ChangesOf(u, k) : j <= i
    BY <1>2, <2>2 DEF LastOf
  <2>4. last \in ChangesOf(u, k) /\ \A j \in ChangesOf(u, k) : j <= last
    BY <2>3
  <2>5. Applied(u, stored)[k] = IF s[last][1] = "set" THEN u ELSE NoValue
    BY <1>4 DEF Applied
  <2> HIDE DEF last
  <2>6. LastOf(s, k, last) /\ last \in Nat
    BY <1>1, <1>2, <2>4 DEF LastOf
  <2>7. Leaves(tx[u], k) = (IF s[last][1] = "set" THEN "set" ELSE "gone")
    BY <2>6 DEF StagedRight
  <2> QED
    BY <2>5, <2>7
<1> QED
  BY <1>3, <1>4

\* It is what the transaction reads, and what it writes.
LEMMA ReadsAsApplied ==
  ASSUME NEW u \in StoreUsers, tx[u] \in TxRecords, StagedRight(tx[u]), stored \in Rows
  PROVE  /\ \A k \in StoreKeys : /\ Get(u, k) = Applied(u, stored)[k]
                                 /\ Has(u, k) <=> Applied(u, stored)[k] # NoValue
         /\ KeysOf(u) = {k \in StoreKeys : Applied(u, stored)[k] # NoValue}
         /\ Written(u) = Applied(u, stored)
<1>1. u # NoValue /\ tx[u].sets \subseteq StoreKeys /\ tx[u].sets \intersect tx[u].deletes = {}
  BY StoreAssumption DEF TxRecords, StagedRight
<1>2. ASSUME NEW k \in StoreKeys
      PROVE  /\ Get(u, k) = Applied(u, stored)[k]
             /\ Has(u, k) <=> Applied(u, stored)[k] # NoValue
             /\ k \in KeysOf(u) <=> Applied(u, stored)[k] # NoValue
             /\ Written(u)[k] = Applied(u, stored)[k]
  <2>1. \/ Leaves(tx[u], k) = "set" /\ k \in tx[u].sets /\ k \notin tx[u].deletes
        \/ Leaves(tx[u], k) = "gone" /\ k \notin tx[u].sets /\ (k \in tx[u].deletes \/ tx[u].cleared)
        \/ /\ Leaves(tx[u], k) \notin {"set", "gone"} /\ k \notin tx[u].sets /\ k \notin tx[u].deletes
           /\ ~tx[u].cleared
    BY <1>1 DEF Leaves
  <2>2. Applied(u, stored)[k] = CASE Leaves(tx[u], k) = "set" -> u
                                  [] Leaves(tx[u], k) = "gone" -> NoValue
                                  [] OTHER -> stored[k]
    BY StagedIsApplied
  <2> DEFINE a == Applied(u, stored)[k]
  <2> HIDE DEF a
  <2>3. CASE Leaves(tx[u], k) = "set" /\ k \in tx[u].sets /\ k \notin tx[u].deletes
    BY <2>2, <2>3, <1>1 DEF a, Get, Has, KeysOf, Written
  <2>4. CASE Leaves(tx[u], k) = "gone" /\ k \notin tx[u].sets /\ (k \in tx[u].deletes \/ tx[u].cleared)
    BY <2>2, <2>4, <1>1 DEF a, Get, Has, KeysOf, Written
  <2>5. CASE /\ Leaves(tx[u], k) \notin {"set", "gone"} /\ k \notin tx[u].sets /\ k \notin tx[u].deletes
             /\ ~tx[u].cleared
    BY <2>2, <2>5, <1>1 DEF a, Get, Has, KeysOf, Written
  <2> QED
    BY <2>1, <2>3, <2>4, <2>5
<1>3. KeysOf(u) \subseteq StoreKeys
  BY <1>1 DEF KeysOf
<1>4. Written(u) = [k \in StoreKeys |-> Written(u)[k]] /\ Applied(u, stored) = [k \in StoreKeys |-> Applied(u, stored)[k]]
  BY DEF Written, Applied
<1> QED
  BY <1>2, <1>3, <1>4

\* A transaction that fails drops what it has staged.
LEMMA FailedIsEmpty ==
  ASSUME term \in Nat
  PROVE  /\ [NewTx EXCEPT !.at = "failed"] \in TxRecords /\ StagedRight([NewTx EXCEPT !.at = "failed"])
         /\ [NewTx EXCEPT !.at = "failed"].token <= term
         /\ NewTx \in TxRecords /\ StagedRight(NewTx) /\ NewTx.token <= term
<1>1. /\ NewTx \in TxRecords /\ NewTx.token = 0 /\ NewTx.sets = {} /\ NewTx.deletes = {}
      /\ NewTx.cleared = FALSE /\ NewTx.changes = <<>>
  BY DEF NewTx, TxRecords
<1>2. ASSUME NEW t \in TxRecords
      PROVE  /\ [t EXCEPT !.at = "failed"] \in TxRecords
             /\ [t EXCEPT !.at = "failed"].token = t.token /\ [t EXCEPT !.at = "failed"].sets = t.sets
             /\ [t EXCEPT !.at = "failed"].deletes = t.deletes /\ [t EXCEPT !.at = "failed"].cleared = t.cleared
             /\ [t EXCEPT !.at = "failed"].changes = t.changes
  BY DEF TxRecords
<1>3. ASSUME NEW t \in TxRecords, t.sets = {}, t.deletes = {}, t.cleared = FALSE, t.changes = <<>>
      PROVE  StagedRight(t)
  <2>1. 1..Len(t.changes) = {}
    BY <1>3
  <2>2. \A k \in StoreKeys : Leaves(t, k) = "as it was"
    BY <1>3 DEF Leaves
  <2>3. \A k \in StoreKeys, i \in Nat : ~LastOf(t.changes, k, i)
    BY <2>1 DEF LastOf
  <2> QED
    BY <1>3, <2>2, <2>3 DEF StagedRight
<1> DEFINE f == [NewTx EXCEPT !.at = "failed"]
<1>4. /\ f \in TxRecords /\ f.token = 0 /\ f.sets = {} /\ f.deletes = {} /\ f.cleared = FALSE /\ f.changes = <<>>
  BY <1>1, <1>2
<1> HIDE DEF f
<1>5. StagedRight(f) /\ StagedRight(NewTx)
  BY <1>1, <1>3, <1>4
<1>6. f \in TxRecords /\ f.token <= term /\ NewTx.token <= term
  BY <1>1, <1>4
<1> QED
  BY <1>1, <1>5, <1>6 DEF f

\* Only where a transaction is, its handle and its generation have changed.
Follows(r, t) == /\ r \in TxRecords /\ r.token <= term
                 /\ r.sets = t.sets /\ r.deletes = t.deletes /\ r.cleared = t.cleared /\ r.changes = t.changes

\* A step moves a transaction on, stages a change in it, or ends it.
LEMMA TxMoves ==
  ASSUME StorageInv, [StoreNext]_storeVars, NEW u \in StoreUsers
  PROVE  \/ Follows(tx'[u], tx[u])
         \/ \E c \in Changes : tx'[u] = Staged(tx[u], c)
         \/ tx'[u] = [NewTx EXCEPT !.at = "failed"]
<1>t. /\ tx \in [StoreUsers -> TxRecords] /\ connection \in Nat /\ dbHandles \in Nat /\ term \in Nat
      /\ \A v \in StoreUsers : tx[v].token <= term
  BY DEF StorageInv, StorageTypes, OneHandle, TxRecords
<1>1. ASSUME NEW r \in TxRecords, r.token <= term, NEW a \in {"open", "connecting", "committing", "committed"}
      PROVE  Follows([r EXCEPT !.at = a], r)
  BY <1>1 DEF Follows, TxRecords
<1>n. term \in Nat /\ connection \in Nat /\ dbHandles + 1 \in Nat
  BY <1>t
<1> DEFINE Goal == \/ Follows(tx'[u], tx[u])
                   \/ \E c \in Changes : tx'[u] = Staged(tx[u], c)
                   \/ tx'[u] = [NewTx EXCEPT !.at = "failed"]
<1>s. tx[u] \in TxRecords /\ tx[u].token <= term /\ Follows(tx[u], tx[u])
  BY <1>t DEF Follows
<1>2. ASSUME NEW v \in StoreUsers, BeginTx(v) PROVE Goal
  <2>1. CASE tx' = [tx EXCEPT ![v].at = "open", ![v].handle = connection, ![v].token = term]
    <3>1. tx'[u] = tx[u] \/ tx'[u] = [tx[u] EXCEPT !.at = "open", !.handle = connection, !.token = term]
      BY <1>t, <2>1
    <3>2. ASSUME NEW r \in TxRecords
          PROVE  Follows([r EXCEPT !.at = "open", !.handle = connection, !.token = term], r)
      <4> DEFINE m == [r EXCEPT !.at = "open", !.handle = connection, !.token = term]
      <4>1. m \in TxRecords /\ m.token = term
        BY <1>n DEF TxRecords
      <4>2. m.sets = r.sets /\ m.deletes = r.deletes /\ m.cleared = r.cleared /\ m.changes = r.changes
        BY DEF TxRecords
      <4> HIDE DEF m
      <4>3. Follows(m, r)
        BY <1>n, <4>1, <4>2 DEF Follows
      <4> QED
        BY <4>3 DEF m
    <3> QED
      BY <1>s, <3>1, <3>2
  <2>2. CASE tx' = [tx EXCEPT ![v].at = "connecting", ![v].token = term]
    <3>1. tx'[u] = tx[u] \/ tx'[u] = [tx[u] EXCEPT !.at = "connecting", !.token = term]
      BY <1>t, <2>2
    <3>2. ASSUME NEW r \in TxRecords
          PROVE  Follows([r EXCEPT !.at = "connecting", !.token = term], r)
      <4> DEFINE m == [r EXCEPT !.at = "connecting", !.token = term]
      <4>1. m \in TxRecords /\ m.token = term
        BY <1>n DEF TxRecords
      <4>2. m.sets = r.sets /\ m.deletes = r.deletes /\ m.cleared = r.cleared /\ m.changes = r.changes
        BY DEF TxRecords
      <4> HIDE DEF m
      <4>3. Follows(m, r)
        BY <1>n, <4>1, <4>2 DEF Follows
      <4> QED
        BY <4>3 DEF m
    <3> QED
      BY <1>s, <3>1, <3>2
  <2> QED
    BY <1>2, <2>1, <2>2 DEF BeginTx
<1>3. ASSUME OpenEnds PROVE Goal
  <2>1. \/ tx'[u] = tx[u] \/ tx'[u] = [NewTx EXCEPT !.at = "failed"]
        \/ tx'[u] = [tx[u] EXCEPT !.at = "open", !.handle = dbHandles + 1]
    BY <1>3 DEF OpenEnds
  <2>2. ASSUME NEW r \in TxRecords, r.token <= term
        PROVE  Follows([r EXCEPT !.at = "open", !.handle = dbHandles + 1], r)
    BY <1>n, <2>2 DEF Follows, TxRecords
  <2> QED
    BY <1>s, <2>1, <2>2
<1>4. ASSUME OpenFails PROVE Goal
  BY <1>4, <1>s DEF OpenFails
<1>5. ASSUME NEW v \in StoreUsers, NEW c \in Changes, Stage(v, c) PROVE Goal
  BY <1>t, <1>5, <1>s DEF Stage
<1>6. ASSUME NEW v \in StoreUsers, CommitBegins(v) \/ CommitEnds(v) \/ CommitFails(v) \/ Rollback(v) PROVE Goal
  BY <1>6, <1>t, <1>1, <1>s DEF CommitBegins, CommitEnds, CommitFails, Rollback
<1>7. ASSUME tx' = tx PROVE Goal
  BY <1>s, <1>7
<1> HIDE DEF Goal
<1>8. Goal
  BY <1>2, <1>3, <1>4, <1>5, <1>6, <1>7
  DEF StoreNext, storeVars, CloseActor, CloseBegins, CloseEnds, AcquireBegins, AcquireEnds
<1> QED
  BY <1>8 DEF Goal

\* The generation of the ownership row only grows.
LEMMA TermsGrow == StorageInv /\ [StoreNext]_storeVars => term' \in Nat /\ term <= term'
<1> SUFFICES ASSUME StorageInv, [StoreNext]_storeVars PROVE term' \in Nat /\ term <= term'
  OBVIOUS
<1>1. term \in Nat
  BY DEF StorageInv, StorageTypes
<1>2. term' \in {term, term + 1}
  BY DEF StoreNext, storeVars, BeginTx, OpenEnds, OpenFails, CloseActor, CloseBegins, CloseEnds, Stage,
     CommitBegins, CommitEnds, CommitFails, Rollback, AcquireBegins, AcquireEnds
<1> QED
  BY <1>1, <1>2

\* Every step keeps what is staged right.
LEMMA StagedStaysRight ==
  StorageInv /\ [StoreNext]_storeVars =>
    /\ tx' \in [StoreUsers -> TxRecords]
    /\ \A u \in StoreUsers : StagedRight(tx'[u]) /\ tx'[u].token <= term'
<1> SUFFICES ASSUME StorageInv, [StoreNext]_storeVars
             PROVE  /\ tx' \in [StoreUsers -> TxRecords]
                    /\ \A u \in StoreUsers : StagedRight(tx'[u]) /\ tx'[u].token <= term'
  OBVIOUS
<1>t. /\ tx \in [StoreUsers -> TxRecords] /\ term \in Nat /\ term' \in Nat /\ term <= term'
      /\ \A u \in StoreUsers : StagedRight(tx[u]) /\ tx[u].token <= term
  BY TermsGrow DEF StorageInv, StorageTypes, TxRecords
<1>1. ASSUME NEW u \in StoreUsers PROVE tx'[u] \in TxRecords /\ StagedRight(tx'[u]) /\ tx'[u].token <= term
  <2>1. CASE Follows(tx'[u], tx[u])
    BY <1>t, <2>1 DEF Follows, StagedRight, Leaves
  <2>2. ASSUME NEW c \in Changes, tx'[u] = Staged(tx[u], c)
        PROVE  tx'[u] \in TxRecords /\ StagedRight(tx'[u]) /\ tx'[u].token <= term
    <3> DEFINE t == tx[u]
    <3>1. t \in TxRecords /\ StagedRight(t) /\ t.token <= term
      BY <1>t
    <3> HIDE DEF t
    <3>2. Staged(t, c) \in TxRecords /\ Staged(t, c).token = t.token /\ StagedRight(Staged(t, c))
      BY <3>1, StagedFields, StagingIsRight
    <3>3. t.token \in Nat
      BY <3>1 DEF TxRecords
    <3>4. tx'[u] = Staged(t, c)
      BY <2>2 DEF t
    <3> QED
      BY <1>t, <3>1, <3>2, <3>3, <3>4
  <2>3. CASE tx'[u] = [NewTx EXCEPT !.at = "failed"]
    BY <1>t, <2>3, FailedIsEmpty
  <2> QED
    BY <2>1, <2>2, <2>3, TxMoves
<1>2. tx' = [u \in StoreUsers |-> tx'[u]]
  BY <1>t DEF StoreNext, storeVars, BeginTx, OpenEnds, OpenFails, CloseActor, CloseBegins, CloseEnds, Stage,
     CommitBegins, CommitEnds, CommitFails, Rollback, AcquireBegins, AcquireEnds
<1>3. ASSUME NEW u \in StoreUsers PROVE tx'[u].token <= term'
  BY <1>1, <1>t DEF TxRecords
<1>4. tx' \in [StoreUsers -> TxRecords]
  BY <1>1, <1>2
<1> QED
  BY <1>1, <1>3, <1>4

\* Every step keeps one handle, the cached one.
LEMMA OneHandleStays == StorageInv /\ [StoreNext]_storeVars => OneHandle' /\ dbHandles' \in Nat
<1> SUFFICES ASSUME StorageInv, [StoreNext]_storeVars PROVE OneHandle' /\ dbHandles' \in Nat
  OBVIOUS
<1>t. OneHandle /\ dbHandles \in Nat
  BY DEF StorageInv, StorageTypes
<1>1. CASE OpenEnds
  <2>1. opening /\ connection = 0 /\ openHandles = {} /\ closing # "done"
    BY <1>t, <1>1 DEF OpenEnds, OneHandle
  <2>2. CASE closing = "no"
    <3>1. /\ connection' = dbHandles + 1 /\ openHandles' = {dbHandles + 1} /\ opening' = FALSE
          /\ closing' = "no" /\ dbHandles' = dbHandles + 1
      BY <1>1, <2>1, <2>2 DEF OpenEnds
    <3>2. dbHandles + 1 \in Nat /\ dbHandles + 1 # 0
      BY <1>t
    <3> QED
      BY <3>1, <3>2 DEF OneHandle
  <2>3. CASE closing # "no"
    BY <1>t, <1>1, <2>1, <2>3 DEF OpenEnds, OneHandle
  <2> QED
    BY <2>2, <2>3
<1>2. CASE CloseActor \/ CloseEnds
  BY <1>t, <1>2 DEF CloseActor, CloseEnds, OneHandle, TxSettled
<1>3. ASSUME NEW u \in StoreUsers, BeginTx(u) PROVE OneHandle' /\ dbHandles' \in Nat
  BY <1>t, <1>3 DEF BeginTx, OneHandle
<1>4. CASE OpenFails \/ CloseBegins
  BY <1>t, <1>4 DEF OpenFails, CloseBegins, OneHandle
<1>5. CASE UNCHANGED connVars
  BY <1>t, <1>5 DEF connVars, OneHandle
<1> QED
  BY <1>1, <1>2, <1>3, <1>4, <1>5 DEF StoreNext, storeVars, connVars, Stage,
     CommitBegins, CommitEnds, CommitFails, Rollback, AcquireBegins, AcquireEnds

\* The rows change by a commit only, which writes what it has staged.
LEMMA RowsOnlyCommitted ==
  ASSUME StorageInv, [StoreNext]_storeVars, stored' # stored
  PROVE  \E u \in StoreUsers : /\ tx[u].at = "committing" /\ tx'[u].at = "committed"
                               /\ stored' = Written(u) /\ ~Stale(u)
<1>1. PICK u \in StoreUsers : CommitEnds(u)
  BY DEF StoreNext, storeVars, BeginTx, OpenEnds, OpenFails, CloseActor, CloseBegins, CloseEnds, Stage,
     CommitBegins, CommitFails, Rollback, AcquireBegins, AcquireEnds
<1>2. tx \in [StoreUsers -> TxRecords]
  BY DEF StorageInv, StorageTypes, TxRecords
<1>3. /\ tx[u].at = "committing" /\ tx' = [tx EXCEPT ![u].at = "committed"]
      /\ stored' = Written(u) /\ ~Stale(u)
  BY <1>1 DEF CommitEnds
<1>4. tx'[u].at = "committed"
  BY <1>2, <1>3 DEF TxRecords
<1> QED
  BY <1>3, <1>4

\* Every step keeps the invariant of the storage.
LEMMA StorageInductive == StorageInv /\ [StoreNext]_storeVars => StorageInv'
<1> SUFFICES ASSUME StorageInv, [StoreNext]_storeVars PROVE StorageInv'
  OBVIOUS
<1>1. stored' \in Rows
  BY RowsOnlyCommitted DEF StorageInv, StorageTypes, Written, Rows
<1>2. StorageTypes'
  BY <1>1, StagedStaysRight, OneHandleStays, TermsGrow DEF StorageTypes, TxRecords
<1> QED
  BY <1>2, StagedStaysRight, OneHandleStays DEF StorageInv

\* Nothing is open, and nothing staged, at the start.
LEMMA StorageInvInit == StoreInit => StorageInv
BY FailedIsEmpty, StoreAssumption DEF StoreInit, OneHandle, Rows, StorageInv, StorageTypes, TxRecords

\* A transaction reads what its changes leave of the rows, whatever they are by then.
THEOREM ChangesAreRead == StoreSpec => [](ReadsOwnChanges /\ ClosedForGood)
<1>1. StorageInv => ReadsOwnChanges /\ ClosedForGood
  BY ReadsAsApplied DEF StorageInv, StorageTypes, TxRecords, ReadsOwnChanges, OneHandle, ClosedForGood
<1> QED
  BY StorageInvInit, StorageInductive, <1>1, PTL DEF StoreSpec

\* A commit writes all the changes of one transaction, under the generation it began with.
THEOREM CommitsAreWhole == StoreSpec => CommitsWhole
<1> DEFINE Whole ==
      stored' # stored =>
        \E u \in StoreUsers :
          /\ tx[u].at = "committing" /\ tx'[u].at = "committed"
          /\ stored' = Applied(u, stored)
          /\ tx[u].token = 0 \/ tx[u].token = term
<1>1. StorageInv /\ [StoreNext]_storeVars => [Whole]_storeVars
  BY RowsOnlyCommitted, ReadsAsApplied DEF StorageInv, StorageTypes, TxRecords, Stale
<1> QED
  BY StorageInvInit, StorageInductive, <1>1, PTL DEF StoreSpec, CommitsWhole
-----------------------------------------------------------------------------
(* GraphQL over websockets.  An entry of the map is a stream that runs under *)
(* its id; a stream that is not in it was returned, or is one of the missed. *)

GraphqlTypes ==
  /\ opId \in [Operations -> OperationIds]
  /\ op \in [Operations -> {"unsent", "executing", "subscribing", "streaming", "ended"}]
  /\ operations \in [OperationIds -> Operations \union {NoOperation}]

\* An entry is a stream of its id that the client has not ended.
EntriesStream ==
  \A o \in Operations : operations[opId[o]] = o => op[o] = "streaming" /\ (o \in cancelled => o \in missed)

EntriesInPlace == \A i \in OperationIds : operations[i] # NoOperation => opId[operations[i]] = i

\* What the client ended while it was being subscribed is one of the missed.
PendingMissed ==
  \A o \in Operations : o \in cancelled => op[o] # "unsent" /\ (op[o] = "subscribing" => o \in missed)

GraphqlInv == GraphqlTypes /\ EntriesStream /\ EntriesInPlace /\ PendingMissed /\ NoStreamLeft

\* Every step keeps the invariant of the streams.
LEMMA GraphqlInductive == GraphqlInv /\ [GraphqlWsNext]_wsVars => GraphqlInv'
<1> SUFFICES ASSUME GraphqlInv, [GraphqlWsNext]_wsVars PROVE GraphqlInv'
  OBVIOUS
<1>t. /\ EntriesStream /\ EntriesInPlace /\ PendingMissed /\ NoStreamLeft
      /\ opId \in [Operations -> OperationIds]
      /\ op \in [Operations -> {"unsent", "executing", "subscribing", "streaming", "ended"}]
      /\ operations \in [OperationIds -> Operations \union {NoOperation}]
      /\ NoOperation \notin Operations
  BY GraphqlWsAssumption DEF GraphqlInv, GraphqlTypes
<1> USE DEF GraphqlInv, GraphqlTypes, EntriesStream, EntriesInPlace, PendingMissed, NoStreamLeft
<1>1. CASE UNCHANGED <<opId, op, returned, operations, cancelled, missed>>
  BY <1>t, <1>1
<1>2. ASSUME NEW o \in Operations, SubscribeOp(o) PROVE GraphqlInv'
  BY <1>t, <1>2 DEF SubscribeOp
<1>3. CASE CloseSocket
  BY <1>t, <1>3 DEF CloseSocket, Dropped, Ongoing
<1>4. ASSUME NEW o \in Operations, Executed(o) PROVE GraphqlInv'
  BY <1>t, <1>4 DEF Executed
<1>5. ASSUME NEW o \in Operations, StreamReady(o) PROVE GraphqlInv'
  BY <1>t, <1>5 DEF StreamReady
<1>6. ASSUME NEW o \in Operations, YieldResult(o) PROVE GraphqlInv'
  BY <1>t, <1>6 DEF YieldResult, Listed
<1>7. ASSUME NEW o \in Operations, EndStream(o) PROVE GraphqlInv'
  BY <1>t, <1>7 DEF EndStream
<1>8. ASSUME NEW i \in OperationIds, CompleteId(i) PROVE GraphqlInv'
  BY <1>t, <1>8 DEF CompleteId, Ongoing
<1>9. ASSUME NEW o \in Operations, UnauthorizedSubscribe(o) PROVE GraphqlInv'
  BY <1>3, <1>9 DEF UnauthorizedSubscribe
<1> HIDE DEF GraphqlInv
<1> QED
  BY <1>1, <1>2, <1>3, <1>4, <1>5, <1>6, <1>7, <1>8, <1>9
  DEF GraphqlWsNext, StreamStep, wsVars, ConnectionInit, ContextReady

\* The map is empty at the start.
LEMMA GraphqlInvInit == GraphqlWsInit => GraphqlInv
BY GraphqlWsAssumption DEF GraphqlWsInit, GraphqlInv, GraphqlTypes, EntriesStream, EntriesInPlace, PendingMissed,
   NoStreamLeft

\* A stream that runs on is in the map or has been returned, or is one of those that were
\* ended while subscribe was pending or lost their id to another.
THEOREM StreamsAreReturned == GraphqlWsSpec => []NoStreamLeft
<1>1. GraphqlInv => NoStreamLeft
  BY DEF GraphqlInv
<1> QED
  BY GraphqlInvInit, GraphqlInductive, <1>1, PTL DEF GraphqlWsSpec

\* After complete no result of the stream goes out under an id that it had to itself.
THEOREM CompletedIsQuiet == GraphqlWsSpec => QuietAfterComplete
<1> DEFINE SaysNoMore ==
      \A o \in Operations :
        [op |-> o, type |-> "next"] \in sent' \ sent /\ o \in cancelled /\ op[o] = "streaming"
          => o \in missed \/ operations[opId[o]] \notin {NoOperation, o}
<1>1. GraphqlInv /\ [GraphqlWsNext]_wsVars => [SaysNoMore]_wsVars
  <2> SUFFICES ASSUME GraphqlInv, [GraphqlWsNext]_wsVars, NEW o \in Operations,
                      [op |-> o, type |-> "next"] \in sent' \ sent, o \in cancelled, op[o] = "streaming",
                      operations[opId[o]] \in {NoOperation, o}
               PROVE  o \in missed
    OBVIOUS
  <2>1. ASSUME NEW p \in Operations, Executed(p) PROVE p = o
    BY <2>1 DEF Executed, Says
  <2>2. ASSUME NEW p \in Operations, YieldResult(p) PROVE p = o /\ Listed(o)
    BY <2>2 DEF YieldResult, Says
  <2>3. \/ \E p \in Operations : Executed(p) \/ YieldResult(p)
    <3>1. ASSUME NEW p \in Operations, StreamReady(p) \/ EndStream(p) PROVE FALSE
      BY <3>1 DEF StreamReady, EndStream, Says
    <3> QED
      BY <3>1 DEF GraphqlWsNext, StreamStep, wsVars, ConnectionInit, ContextReady, CloseSocket, SubscribeOp,
         UnauthorizedSubscribe, CompleteId
  <2>4. Listed(o)
    BY <2>1, <2>2, <2>3 DEF Executed
  <2>5. operations[opId[o]] = o
    BY <2>4 DEF Listed
  <2> QED
    BY <2>5 DEF GraphqlInv, EntriesStream
<1> QED
  BY GraphqlInvInit, GraphqlInductive, <1>1, PTL DEF GraphqlWsSpec, QuietAfterComplete

\* A transaction reads what it changed, a closed store leaves no handle open, and
\* a stream of a cancelled subscription is returned, but for those that NoStreamLeft names.
THEOREM NothingIsLeft == StoreSpec /\ GraphqlWsSpec => []NothingDangles
BY ChangesAreRead, StreamsAreReturned, PTL DEF NothingDangles

\* Commits are of one transaction, signature counters never fall where a clone is refused,
\* and a completed subscription sends no more results.
THEOREM StepsStayWhole == StoreSpec /\ PasskeySpec /\ GraphqlWsSpec => StepsAreWhole
BY CommitsAreWhole, CountersNeverFall, CompletedIsQuiet, PTL DEF StepsAreWhole

-----------------------------------------------------------------------------
(* The components side by side.  The one that is chosen moves, the others    *)
(* stay in their first state: each behaves as its own specification says.    *)

\* The composed specification is one of every component.
LEMMA EachBehaves ==
  Spec => /\ RefreshSpec /\ SessionSpec /\ AccountSpec
          /\ OAuthSpec /\ PasskeySpec /\ RemoteSpec
          /\ BridgeSpec /\ WorkerSpec
          /\ StoreSpec /\ GraphqlWsSpec
<1>1. Init => /\ RefreshInit /\ SessionInit /\ AccountInit /\ OAuthInit /\ PasskeyInit /\ RemoteInit
              /\ BridgeInit /\ WorkerInit /\ StoreInit /\ GraphqlWsInit
  BY DEF Init
<1>2. [Next]_vars => /\ [RefreshNext]_refreshVars /\ [SessionNext]_sessionVars /\ [AccountNext]_accountVars
                     /\ [OAuthNext]_oauthVars /\ [PasskeyNext]_passkeyVars /\ [RemoteNext]_remoteVars
                     /\ [BridgeNext]_bridgeVars /\ [WorkerNext]_workerVars
                     /\ [StoreNext]_storeVars /\ [GraphqlWsNext]_wsVars
  BY DEF Next, vars
<1> QED
  BY <1>1, <1>2, PTL
  DEF Spec, RefreshSpec, SessionSpec, AccountSpec, OAuthSpec, PasskeySpec, RemoteSpec, BridgeSpec, WorkerSpec,
      StoreSpec, GraphqlWsSpec

\* The components of one run, whichever of them moves: what proves an identity stays as
\* strong as it was, what answers a challenge is taken once, nothing that a bridge, a worker,
\* a store or a socket holds is lost, and no step does half of what it says.
THEOREM HandlersHold ==
  Spec => [](Credentials /\ SignIn /\ Messaging /\ NothingDangles) /\ StepsAreWhole
BY EachBehaves, CredentialsStayStrong, SignInHolds, MessagingHolds, NothingIsLeft, StepsStayWhole, PTL
=============================================================================
