--------------------------- MODULE ActorOwnership ---------------------------
(***************************************************************************)
(* Single-writer ownership of one actor by several hosts that share its    *)
(* authoritative store (packages/di-framework-actors: storage/sqlite.ts,   *)
(* storage/memory.ts and the ownership part of runtime/runtime.ts).        *)
(*                                                                         *)
(* A host that runs a call takes or renews a lease on the actor, opens a   *)
(* transaction that carries the generation it was granted (the fencing     *)
(* token), reads committed state, and commits; the store compares the      *)
(* token with the ownership row inside the commit.  Every host runs at     *)
(* most one call of the actor at a time: that is what the mailbox of       *)
(* module ActorRuntime provides.                                           *)
(***************************************************************************)
EXTENDS Naturals, TLAPS

CONSTANTS
  Hosts,          (* runtimes with an ownerId                              *)
  NoHost,         (* owner of an absent row                                *)
  LeaseTtl,       (* leaseTtlMs in ticks of the clock; 0: no expiry        *)
  Never,          (* leaseExpiresAt = null                                 *)
  Modes,          (* the sets of hosts with autoAcquireOwnership to look at *)
  MaxGeneration,  (* bound on the generations a behaviour reaches          *)
  MaxVersion      (* bound on the commits of a behaviour                   *)

ASSUME OwnershipAssumption ==
  /\ NoHost \notin Hosts
  /\ LeaseTtl \in Nat
  /\ Never \notin Nat
  /\ Modes \subseteq SUBSET Hosts
  /\ MaxGeneration \in Nat \ {0}
  /\ MaxVersion \in Nat

VARIABLES
  own,      (* the row of _actor_ownership                                 *)
  version,  (* committed state: how many transactions have been applied    *)
  tx,       (* per host, the call it runs and the token and reads it holds *)
  up,       (* hosts whose process is running                              *)
  auto      (* hosts with autoAcquireOwnership                             *)

vars == <<own, version, tx, up, auto>>

\* The lease counts the ticks left before leaseExpiresAt < now.
Leases == (0..(LeaseTtl + 1)) \union {Never}

FreshLease == IF LeaseTtl = 0 THEN Never ELSE LeaseTtl + 1

NoRecord == [owner |-> NoHost, generation |-> 0, lease |-> Never]
IdleTx   == [pc |-> "idle", generation |-> 0, base |-> 0]

\* A call that has resolved its token, before it opens the transaction.
Holding(generation) == [pc |-> "fenced", generation |-> generation, base |-> 0]

\* generation = 0 stands for an undefined token: such a commit is not fenced.
TxRecords == [pc : {"idle", "fenced", "open"}, generation : Nat, base : Nat]

TypeOK ==
  /\ own \in [owner : Hosts \union {NoHost}, generation : Nat, lease : Leases]
  /\ version \in Nat
  /\ tx \in [Hosts -> TxRecords]
  /\ up \subseteq Hosts
  /\ auto \subseteq Hosts

\* A host that does not acquire ownership itself needs a row to be fenced by:
\* with such a host around some host owns the actor from the start.
Init ==
  /\ auto \in Modes
  /\ \/ own = NoRecord /\ auto = Hosts
     \/ \E h \in Hosts : own = [owner |-> h, generation |-> 1, lease |-> FreshLease]
  /\ version = 0
  /\ tx = [h \in Hosts |-> IdleTx]
  /\ up = Hosts

-----------------------------------------------------------------------------
Absent  == own.owner = NoHost
Expired == own.lease = 0

\* Bug: a takeover keeps the generation.
GrantedWithoutBump(h) ==
  [owner      |-> h,
   generation |-> IF Absent THEN own.generation + 1 ELSE own.generation,
   lease      |-> FreshLease]

\* The row that acquireOwnership leaves for h: a first acquisition starts at
\* generation 1 (an absent row counts as 0), a renewal keeps the generation,
\* a takeover bumps it.
Granted(h) ==
  [owner      |-> h,
   generation |-> IF own.owner = h THEN own.generation ELSE own.generation + 1,
   lease      |-> FreshLease]

\* Bug: an expired lease still excludes other hosts.
AcquireOwnershipIgnoringExpiry(h, force) ==
  /\ Absent \/ own.owner = h \/ force
  /\ Granted(h).generation <= MaxGeneration
  /\ own' = Granted(h)

\* acquireOwnership, one BEGIN IMMEDIATE transaction; otherwise the call
\* throws ActorOwnershipConflictError and changes nothing.
AcquireOwnership(h, force) ==
  /\ Absent \/ own.owner = h \/ Expired \/ force
  /\ Granted(h).generation <= MaxGeneration
  /\ own' = Granted(h)

\* acquireActorOwnership called by the application, forced or not.
Acquire(h, force) ==
  /\ h \in up
  /\ AcquireOwnership(h, force)
  /\ UNCHANGED <<version, tx, up, auto>>

\* releaseOwnership deletes the row of its owner.
ReleaseOwnership(h) ==
  /\ h \in up
  /\ own.owner = h
  /\ own' = NoRecord
  /\ UNCHANGED <<version, tx, up, auto>>

-----------------------------------------------------------------------------
\* A call resolves its fencing token before it opens the transaction.  With
\* automatic acquisition it takes or renews the lease ...
AcquireToken(h) ==
  /\ h \in auto
  /\ AcquireOwnership(h, FALSE)
  /\ tx' = [tx EXCEPT ![h] = Holding(own'.generation)]

\* ... without it, it adopts the current row's generation unless another host
\* holds a live lease (ActorNotOwnerError), and none when there is no row.
AdoptToken(h) ==
  /\ h \notin auto
  /\ Absent \/ own.owner = h \/ Expired
  /\ tx' = [tx EXCEPT ![h] = Holding(own.generation)]
  /\ UNCHANGED own

ResolveToken(h) ==
  /\ h \in up
  /\ tx[h].pc = "idle"
  /\ AcquireToken(h) \/ AdoptToken(h)
  /\ UNCHANGED <<version, up, auto>>

\* beginTransaction and the method's reads of committed state.
OpenTransaction(h) ==
  /\ h \in up
  /\ tx[h].pc = "fenced"
  /\ tx' = [tx EXCEPT ![h] = [pc |-> "open", generation |-> @.generation, base |-> version]]
  /\ UNCHANGED <<own, version, up, auto>>

\* Bug: only the owner is compared.
StaleOwnerByName(h) ==
  /\ tx[h].generation # 0
  /\ ~Absent
  /\ own.owner # h

\* The fencing check of commit: a row of a later generation, or of another
\* owner, rejects the transaction with StaleOwnerWriteError.
StaleOwner(h) ==
  /\ tx[h].generation # 0
  /\ ~Absent
  /\ own.generation > tx[h].generation \/ own.owner # h

Commit(h) ==
  /\ h \in up
  /\ tx[h].pc = "open"
  /\ ~StaleOwner(h)
  /\ version < MaxVersion
  /\ version' = version + 1
  /\ tx' = [tx EXCEPT ![h] = IdleTx]
  /\ UNCHANGED <<own, up, auto>>

\* The method fails, or the fencing check does: nothing is applied.
Rollback(h) ==
  /\ h \in up
  /\ tx[h].pc # "idle"
  /\ tx' = [tx EXCEPT ![h] = IdleTx]
  /\ UNCHANGED <<own, version, up, auto>>

-----------------------------------------------------------------------------

\* The clock reaches the next tick and the lease runs down.
Tick ==
  /\ own.lease \in Nat \ {0}
  /\ own' = [own EXCEPT !.lease = @ - 1]
  /\ UNCHANGED <<version, tx, up, auto>>

\* A host's process dies: its transactions vanish, the row stays.
Crash(h) ==
  /\ h \in up
  /\ up' = up \ {h}
  /\ tx' = [tx EXCEPT ![h] = IdleTx]
  /\ UNCHANGED <<own, version, auto>>

\* It comes back under the same ownerId.
Restart(h) ==
  /\ h \in Hosts \ up
  /\ up' = up \union {h}
  /\ UNCHANGED <<own, version, tx, auto>>

HostStep(h) ==
  \/ \E force \in BOOLEAN : Acquire(h, force)
  \/ ResolveToken(h)
  \/ OpenTransaction(h)
  \/ Commit(h)
  \/ Rollback(h)
  \/ Crash(h)
  \/ Restart(h)

\* Owners that keep the row until it expires or is taken over ...
Next == Tick \/ \E h \in Hosts : HostStep(h)

Spec == Init /\ [][Next]_vars

\* ... and owners that also call releaseActorOwnership.
NextRelease == Next \/ \E h \in Hosts : ReleaseOwnership(h)

SpecRelease == Init /\ [][NextRelease]_vars

\* Time passes, a call that has begun ends, and a host that is up now and then
\* gets to a call of the actor now and then.  Nothing makes a host come back.
Fairness ==
  /\ WF_vars(Tick)
  /\ \A h \in Hosts : SF_vars(ResolveToken(h)) /\ WF_vars(Rollback(h))

SpecFair == Spec /\ Fairness

-----------------------------------------------------------------------------
\* Generation 0 is the absent row's.
RowInv == Absent <=> own.generation = 0

\* A token is never ahead of the row; a call whose token is the row's, and
\* whose host is the row's owner, has read the current committed state.
TokenInv ==
  \A h \in Hosts : tx[h].pc # "idle" =>
    /\ ~Absent
    /\ tx[h].generation \in 1..own.generation
    /\ (tx[h].pc = "open" /\ tx[h].generation = own.generation /\ own.owner = h) =>
         tx[h].base = version

\* No lost update: a commit is applied only on top of the committed state its
\* call has read, however many hosts took over in between.  This is what the
\* fencing check of commit (sqlite.ts:227-243) exists for.
NoLostUpdate ==
  [][version' # version =>
       \E h \in Hosts : tx[h].pc = "open" /\ tx'[h].pc = "idle" /\ tx[h].base = version]_vars

\* Failover: while the owner is down, some host that is up and acquires
\* ownership by itself gets the actor, once the lease has run out (or no such
\* host is up, or the bound on generations is reached).
Failover ==
  \A h \in Hosts :
    (own.owner = h /\ h \notin up) ~>
      (own.owner # h \/ h \in up \/ up \cap auto = {} \/ own.generation = MaxGeneration)

(***************************************************************************)
(* Proofs: ownership for any set of hosts, any lease duration and any      *)
(* bounds: type correctness, the meaning of a fencing token, and that the  *)
(* fencing check of commit excludes lost updates as long as the ownership  *)
(* row is never deleted.                                                   *)
(***************************************************************************)
\* Calls take the lease themselves, or the ownership row exists already: no
\* call runs without a token.
Fenced == auto = Hosts \/ ~Absent

\* The inductive invariant: the tokens mean what TokenInv says, which needs
\* generations to be positive in a present row and tokens to exist at all.
IInv == TypeOK /\ RowInv /\ Fenced /\ TokenInv

-----------------------------------------------------------------------------
\* What acquireOwnership grants: the caller's row, with a generation at least
\* the current one, and beyond it when the actor changes hands.
LEMMA GrantedRow ==
  ASSUME TypeOK, RowInv, NEW h \in Hosts
  PROVE  /\ Granted(h) \in [owner : Hosts \union {NoHost}, generation : Nat, lease : Leases]
         /\ Granted(h).owner = h
         /\ Granted(h).generation > 0
         /\ Granted(h).generation >= own.generation
         /\ own.owner # h => Granted(h).generation > own.generation
         /\ own.owner = h => Granted(h).generation = own.generation
<1>1. FreshLease \in Leases
  BY OwnershipAssumption DEF FreshLease, Leases
<1>2. own.owner \in Hosts \union {NoHost} /\ own.generation \in Nat /\ h # NoHost
  BY OwnershipAssumption DEF TypeOK
<1>3. own.owner = h => own.generation > 0
  BY <1>2 DEF RowInv, Absent
<1> QED
  BY <1>1, <1>2, <1>3 DEF Granted

\* An acquisition keeps the invariant of every call in progress: a takeover
\* leaves all their tokens behind, a renewal changes no generation.
LEMMA AcquireKeepsTokens ==
  ASSUME IInv, NEW h \in Hosts, NEW force \in BOOLEAN,
         AcquireOwnership(h, force), UNCHANGED <<version, up, auto>>,
         \A k \in Hosts : k # h => tx'[k] = tx[k],
         tx' \in [Hosts -> TxRecords],
         \/ tx'[h] = tx[h]
         \/ tx'[h] = Holding(own'.generation)
  PROVE  IInv'
<1>1. own' = Granted(h)
  BY DEF AcquireOwnership
<1>2. /\ own' \in [owner : Hosts \union {NoHost}, generation : Nat, lease : Leases]
      /\ own'.owner = h
      /\ own'.generation > 0
      /\ own'.generation >= own.generation
      /\ own.owner # h => own'.generation > own.generation
      /\ own.owner = h => own'.generation = own.generation
  BY <1>1, GrantedRow DEF IInv
<1>3. TypeOK'
  BY <1>2 DEF IInv, TypeOK
<1>4. ~Absent' /\ RowInv' /\ Fenced'
  BY <1>2, OwnershipAssumption DEF RowInv, Absent, Fenced
<1>5. TokenInv'
  <2> SUFFICES ASSUME NEW k \in Hosts, tx'[k].pc # "idle"
               PROVE  /\ tx'[k].generation \in 1..own'.generation
                      /\ (tx'[k].pc = "open" /\ tx'[k].generation = own'.generation /\ own'.owner = k)
                           => tx'[k].base = version'
    BY <1>4 DEF TokenInv, Absent
  <2>1. own.generation \in Nat /\ own'.generation \in Nat
    BY <1>2 DEF IInv, TypeOK
  <2>2. CASE tx'[k] = tx[k]
    <3>1. /\ tx[k].generation \in 1..own.generation
          /\ (tx[k].pc = "open" /\ tx[k].generation = own.generation /\ own.owner = k)
               => tx[k].base = version
      BY <2>2 DEF IInv, TokenInv
    <3> QED
      BY <1>2, <2>1, <2>2, <3>1
  <2>3. CASE k = h /\ tx'[h] = Holding(own'.generation)
    BY <1>2, <2>1, <2>3 DEF Holding
  <2> QED
    BY <2>2, <2>3
<1> QED
  BY <1>3, <1>4, <1>5 DEF IInv

-----------------------------------------------------------------------------
LEMMA InitIInv == Init => IInv
<1>1. IdleTx \in TxRecords /\ IdleTx.pc = "idle"
  BY DEF IdleTx, TxRecords
<1>2. FreshLease \in Leases /\ Never \in Leases
  BY OwnershipAssumption DEF FreshLease, Leases
<1> QED
  BY <1>1, <1>2, OwnershipAssumption
     DEF Init, NoRecord, IInv, TypeOK, RowInv, Fenced, TokenInv, Absent

LEMMA NextIInv == IInv /\ [Next]_vars => IInv'
<1> SUFFICES ASSUME IInv, [Next]_vars
             PROVE  IInv'
  OBVIOUS
<1>1. ASSUME NEW h \in Hosts, NEW force \in BOOLEAN, Acquire(h, force)
      PROVE  IInv'
  BY <1>1, AcquireKeepsTokens DEF Acquire, IInv, TypeOK
<1>2. ASSUME NEW h \in Hosts, ResolveToken(h)
      PROVE  IInv'
  <2>1. CASE AcquireToken(h)
    <3>1. own' = Granted(h)
      BY <2>1 DEF AcquireToken, AcquireOwnership
    <3>2. own'.generation \in Nat
      BY <3>1, GrantedRow DEF IInv
    <3>3. tx' \in [Hosts -> TxRecords]
      BY <2>1, <3>2 DEF AcquireToken, IInv, TypeOK, Holding, TxRecords
    <3>4. tx'[h] = Holding(own'.generation)
      BY <2>1 DEF AcquireToken, IInv, TypeOK
    <3>5. \A k \in Hosts : k # h => tx'[k] = tx[k]
      BY <2>1 DEF AcquireToken, IInv, TypeOK
    <3> QED
      BY <1>2, <2>1, <3>3, <3>4, <3>5, AcquireKeepsTokens DEF ResolveToken, AcquireToken
  <2>2. CASE AdoptToken(h)
    <3>1. UNCHANGED <<own, version, up, auto>> /\ ~Absent
      BY <1>2, <2>2 DEF ResolveToken, AdoptToken, IInv, Fenced
    <3>2. own.generation \in Nat \ {0}
      BY <3>1 DEF IInv, TypeOK, RowInv
    <3>3. tx' = [tx EXCEPT ![h] = [pc |-> "fenced", generation |-> own.generation, base |-> 0]]
      BY <2>2 DEF AdoptToken, Holding
    <3>4. TypeOK'
      BY <3>1, <3>2, <3>3 DEF IInv, TypeOK, TxRecords
    <3>5. TokenInv'
      BY <3>1, <3>2, <3>3 DEF IInv, TypeOK, TokenInv, Absent
    <3> QED
      BY <3>1, <3>4, <3>5 DEF IInv, RowInv, Fenced, Absent
  <2> QED
    BY <1>2, <2>1, <2>2 DEF ResolveToken
<1>3. ASSUME NEW h \in Hosts, OpenTransaction(h)
      PROVE  IInv'
  <2>1. tx[h].pc = "fenced" /\ UNCHANGED <<own, version, up, auto>>
    BY <1>3 DEF OpenTransaction
  <2>2. tx' = [tx EXCEPT ![h] = [pc |-> "open", generation |-> tx[h].generation, base |-> version]]
    BY <1>3 DEF OpenTransaction, IInv, TypeOK, TxRecords
  <2>3. TypeOK'
    BY <2>1, <2>2 DEF IInv, TypeOK, TxRecords
  <2>4. TokenInv'
    BY <2>1, <2>2 DEF IInv, TypeOK, TokenInv, Absent
  <2> QED
    BY <2>1, <2>3, <2>4 DEF IInv, RowInv, Fenced, Absent
<1>4. ASSUME NEW h \in Hosts, Commit(h)
      PROVE  IInv'
  <2>1. /\ tx[h].pc = "open" /\ ~StaleOwner(h)
        /\ version' = version + 1
        /\ tx' = [tx EXCEPT ![h] = IdleTx]
        /\ UNCHANGED <<own, up, auto>>
    BY <1>4 DEF Commit
  <2>2. own.owner = h
    BY <2>1 DEF StaleOwner, IInv, TokenInv
  <2>3. TypeOK'
    BY <2>1 DEF IInv, TypeOK, IdleTx, TxRecords
  <2>4. TokenInv'
    BY <2>1, <2>2 DEF IInv, TypeOK, TokenInv, Absent, IdleTx
  <2> QED
    BY <2>1, <2>3, <2>4 DEF IInv, RowInv, Fenced, Absent
<1>5. ASSUME NEW h \in Hosts, Rollback(h) \/ Crash(h)
      PROVE  IInv'
  <2>1. tx' = [tx EXCEPT ![h] = IdleTx] /\ UNCHANGED <<own, version, auto>> /\ up' \subseteq Hosts
    BY <1>5 DEF Rollback, Crash, IInv, TypeOK
  <2>2. TypeOK'
    BY <2>1 DEF IInv, TypeOK, IdleTx, TxRecords
  <2>3. TokenInv'
    BY <2>1 DEF IInv, TypeOK, TokenInv, Absent, IdleTx
  <2> QED
    BY <2>1, <2>2, <2>3 DEF IInv, RowInv, Fenced, Absent
<1>6. ASSUME NEW h \in Hosts, Restart(h)
      PROVE  IInv'
  BY <1>6 DEF Restart, IInv, TypeOK, RowInv, Fenced, TokenInv, Absent
<1>7. ASSUME Tick
      PROVE  IInv'
  <2>1. /\ own.lease \in Nat \ {0} /\ UNCHANGED <<version, tx, up, auto>>
        /\ own' = [owner |-> own.owner, generation |-> own.generation, lease |-> own.lease - 1]
    BY <1>7 DEF Tick, IInv, TypeOK
  <2>2. own.lease - 1 \in Leases
    BY <2>1, OwnershipAssumption DEF IInv, TypeOK, Leases
  <2>3. TypeOK'
    BY <2>1, <2>2 DEF IInv, TypeOK
  <2>4. own'.owner = own.owner /\ own'.generation = own.generation
    BY <2>1
  <2> QED
    BY <2>1, <2>3, <2>4 DEF IInv, RowInv, Fenced, TokenInv, Absent
<1>8. CASE UNCHANGED vars
  BY <1>8 DEF vars, IInv, TypeOK, RowInv, Fenced, TokenInv, Absent
<1> QED
  BY <1>1, <1>2, <1>3, <1>4, <1>5, <1>6, <1>7, <1>8 DEF Next, HostStep

-----------------------------------------------------------------------------
\* The variables keep their types.
THEOREM TypeCorrect == Spec => []TypeOK
<1>1. Spec => []IInv
  BY InitIInv, NextIInv, PTL DEF Spec
<1>2. IInv => TypeOK
  BY DEF IInv
<1> QED
  BY <1>1, <1>2, PTL

\* Fencing tokens mean what the store takes them to mean.
THEOREM TokensMeanOwnership == Spec => []TokenInv
<1>1. Spec => []IInv
  BY InitIInv, NextIInv, PTL DEF Spec
<1>2. IInv => TokenInv
  BY DEF IInv
<1> QED
  BY <1>1, <1>2, PTL

\* A commit that passes the fencing check is based on the current state: no
\* takeover, renewal, crash or restart lets two calls overwrite each other.
THEOREM FencingExcludesLostUpdates == Spec => NoLostUpdate
<1>. DEFINE Based == \E h \in Hosts : tx[h].pc = "open" /\ tx'[h].pc = "idle" /\ tx[h].base = version
<1>1. Spec => []IInv
  BY InitIInv, NextIInv, PTL DEF Spec
<1>2. IInv /\ [Next]_vars => [version' # version => Based]_vars
  <2> SUFFICES ASSUME IInv, Next, version' # version
               PROVE  Based
    OBVIOUS
  <2>1. PICK h \in Hosts : Commit(h)
    BY DEF Next, HostStep, Tick, Acquire, ResolveToken, OpenTransaction, Rollback, Crash, Restart
  <2>2. /\ tx[h].pc = "open" /\ ~StaleOwner(h)
        /\ tx' = [tx EXCEPT ![h] = IdleTx]
    BY <2>1 DEF Commit
  <2>3. tx'[h].pc = "idle"
    BY <2>2 DEF IInv, TypeOK, IdleTx
  <2>4. tx[h].generation \in 1..own.generation /\ ~Absent /\ own.generation \in Nat
    BY <2>2 DEF IInv, TypeOK, TokenInv
  <2>5. own.owner = h /\ tx[h].generation = own.generation
    BY <2>2, <2>4 DEF StaleOwner
  <2>6. tx[h].base = version
    BY <2>2, <2>5 DEF IInv, TokenInv
  <2> QED
    BY <2>2, <2>3, <2>6
<1> QED
  BY <1>1, <1>2, PTL DEF Spec, NoLostUpdate
=============================================================================
