-------------------------- MODULE WasmActorStorage --------------------------
(***************************************************************************)
(* The SQLite storage for WebAssembly guests, for one actor: its cached    *)
(* connection, the transactions that stage their changes over it, and the  *)
(* ownership row.  Users are calls that begin a transaction; a timed-out   *)
(* one may still be open when the next begins.  All of them share the      *)
(* handle of the connection, so a BEGIN while another has begun fails.     *)
(*                                                                         *)
(* A change is <<"set", key>>, which writes the name of its user, or       *)
(* <<"delete", key>>, or <<"clear">>.                                      *)
(***************************************************************************)
EXTENDS Naturals, Sequences, FiniteSets

CONSTANTS
  StoreUsers,    \* transactions
  StoreKeys,     \* keys of the actor's state
  NoValue,       \* a key that is not there
  MaxHandles,    \* bounds the times the database is opened
  MaxChanges,    \* bounds the changes of a transaction
  MaxTerm        \* bounds the generations of the ownership row

ASSUME StoreAssumption ==
  StoreUsers # {} /\ NoValue \notin StoreUsers /\ MaxHandles \in Nat /\ MaxChanges \in Nat /\ MaxTerm \in Nat

VARIABLES
  dbHandles,   \* how many handles have been opened
  openHandles, \* those that are open
  connection,      \* the handle of the cached connection, 0 for none
  opening,     \* an open is pending; who needs a connection meanwhile shares it
  closing,     \* close: not called, awaiting the pending open, done
  sqlOpen,     \* who has begun an SQL transaction on the current handle
  tx,          \* the transactions
  stored,      \* the rows of the state
  term         \* the ownership row: its generation, 0 for no row

storeVars == <<dbHandles, openHandles, connection, opening, closing, sqlOpen, tx, stored, term>>
connVars == <<dbHandles, openHandles, connection, opening, closing>>

Changes == {<<"clear">>} \union ({"set", "delete"} \X StoreKeys)
NewTx == [at |-> "idle", handle |-> 0, token |-> 0, sets |-> {}, deletes |-> {}, cleared |-> FALSE,
          changes |-> <<>>]
Rows == [StoreKeys -> StoreUsers \union {NoValue}]
TheApplication == "application"

StoreInit ==
  /\ dbHandles = 0 /\ openHandles = {} /\ connection = 0 /\ opening = FALSE /\ closing = "no"
  /\ sqlOpen = NoValue
  /\ tx = [u \in StoreUsers |-> NewTx]
  /\ stored \in [StoreKeys -> {NoValue} \union {CHOOSE u \in StoreUsers : TRUE}]
  /\ term \in {0, 1}

-----------------------------------------------------------------------------
\* beginTransaction: the cached connection, or the pending open, or a new one.  The
\* generation is the one the caller has resolved.
BeginTx(u) ==
  /\ tx[u].at = "idle" /\ closing = "no"
  /\ IF connection # 0
     THEN /\ tx' = [tx EXCEPT ![u].at = "open", ![u].handle = connection, ![u].token = term]
          /\ UNCHANGED opening
     ELSE /\ opening \/ dbHandles < MaxHandles
          /\ tx' = [tx EXCEPT ![u].at = "connecting", ![u].token = term]
          /\ opening' = TRUE
  /\ UNCHANGED <<dbHandles, openHandles, connection, closing, sqlOpen, stored, term>>

Connecting == {u \in StoreUsers : tx[u].at = "connecting"}

\* The database is open and its schema there: the connection is cached, and everyone who
\* waits gets it; after close the handle is closed again and the waiting calls fail.
OpenEnds ==
  /\ opening /\ opening' = FALSE
  /\ dbHandles' = dbHandles + 1
  /\ IF closing = "no"
     THEN /\ connection' = dbHandles + 1
          /\ openHandles' = openHandles \union {dbHandles + 1}
          /\ tx' = [u \in StoreUsers |->
               IF u \in Connecting THEN [tx[u] EXCEPT !.at = "open", !.handle = dbHandles + 1]
               ELSE tx[u]]
     ELSE /\ tx' = [u \in StoreUsers |->
               IF u \in Connecting THEN [NewTx EXCEPT !.at = "failed"] ELSE tx[u]]
          /\ UNCHANGED <<connection, openHandles>>
  /\ UNCHANGED <<closing, sqlOpen, stored, term>>

\* The open, a pragma or the schema fails: every waiting call does.
OpenFails ==
  /\ opening /\ opening' = FALSE
  /\ tx' = [u \in StoreUsers |->
       IF u \in Connecting THEN [NewTx EXCEPT !.at = "failed"] ELSE tx[u]]
  /\ UNCHANGED <<dbHandles, openHandles, connection, closing, sqlOpen, stored, term>>

\* Closing a handle rolls back the SQL transaction on it.
CloseActor ==
  /\ connection # 0
  /\ connection' = 0
  /\ openHandles' = openHandles \ {connection}
  /\ sqlOpen' = NoValue
  /\ UNCHANGED <<dbHandles, opening, closing, tx, stored, term>>

CloseBegins ==
  /\ closing = "no" /\ closing' = "waiting"
  /\ UNCHANGED <<dbHandles, openHandles, connection, opening, sqlOpen, tx, stored, term>>

\* Bug: close does not wait for the opens that are pending.
SettledAtOnce == TRUE

TxSettled == ~opening

\* The opens that were pending have settled: the connection is closed.
CloseEnds ==
  /\ closing = "waiting" /\ TxSettled
  /\ closing' = "done"
  /\ connection' = 0
  /\ openHandles' = openHandles \ {connection}
  /\ sqlOpen' = NoValue
  /\ UNCHANGED <<dbHandles, opening, tx, stored, term>>

-----------------------------------------------------------------------------
\* Bug: setting a key leaves its earlier delete staged.
StagedKeepingDelete(t, c) ==
  [t EXCEPT !.changes = Append(@, c),
     !.sets = IF c[1] = "set" THEN @ \union {c[2]} ELSE IF c[1] = "clear" THEN {} ELSE @ \ {c[2]},
     !.deletes = IF c[1] = "delete" THEN @ \union {c[2]} ELSE IF c[1] = "clear" THEN {} ELSE @,
     !.cleared = @ \/ c[1] = "clear"]

\* What a change does to what is staged.
Staged(t, c) ==
  [t EXCEPT !.changes = Append(@, c),
     !.sets = IF c[1] = "set" THEN @ \union {c[2]} ELSE IF c[1] = "clear" THEN {} ELSE @ \ {c[2]},
     !.deletes = IF c[1] = "delete" THEN @ \union {c[2]}
                 ELSE IF c[1] = "clear" THEN {} ELSE @ \ {c[2]},
     !.cleared = @ \/ c[1] = "clear"]

Stage(u, c) ==
  /\ tx[u].at = "open" /\ Len(tx[u].changes) < MaxChanges
  /\ tx' = [tx EXCEPT ![u] = Staged(@, c)]
  /\ UNCHANGED <<connVars, sqlOpen, stored, term>>

\* get: what is staged hides what is stored.
Get(u, k) ==
  IF k \in tx[u].deletes THEN NoValue
  ELSE IF k \in tx[u].sets THEN u
  ELSE IF tx[u].cleared THEN NoValue ELSE stored[k]

Has(u, k) ==
  /\ k \notin tx[u].deletes
  /\ k \in tx[u].sets \/ (~tx[u].cleared /\ stored[k] # NoValue)

KeysOf(u) ==
  {k \in StoreKeys : ~tx[u].cleared /\ stored[k] # NoValue /\ k \notin tx[u].deletes}
    \union tx[u].sets

\* The statements of a commit, in their order: clear, deletes, upserts.
Written(u) ==
  [k \in StoreKeys |->
     IF k \in tx[u].sets THEN u
     ELSE IF k \in tx[u].deletes \/ tx[u].cleared THEN NoValue ELSE stored[k]]

\* Bug: the generation is compared before BEGIN only.
StaleNever(u) == FALSE

\* Another has a later generation than the one the call has resolved.
Stale(u) == tx[u].token > 0 /\ term > tx[u].token

\* BEGIN IMMEDIATE of a commit.  It fails on a closed handle, and on one with a transaction.
CommitBegins(u) ==
  /\ tx[u].at = "open"
  /\ IF tx[u].handle \in openHandles /\ sqlOpen = NoValue
     THEN sqlOpen' = u /\ tx' = [tx EXCEPT ![u].at = "committing"]
     ELSE tx' = [tx EXCEPT ![u] = [NewTx EXCEPT !.at = "failed"]] /\ UNCHANGED sqlOpen
  /\ UNCHANGED <<connVars, stored, term>>

\* The fencing look, the statements and COMMIT; or ROLLBACK, for a stale generation or any
\* statement that fails, as all do once the handle is closed. They are awaited one by one, but
\* the transaction keeps every other writer of the file out from BEGIN to COMMIT: what can come
\* between them is the closing of the handle, as it can before the first.
CommitEnds(u) ==
  /\ tx[u].at = "committing"
  /\ IF sqlOpen = u /\ ~Stale(u)
     THEN stored' = Written(u) /\ tx' = [tx EXCEPT ![u].at = "committed"]
     ELSE tx' = [tx EXCEPT ![u] = [NewTx EXCEPT !.at = "failed"]] /\ UNCHANGED stored
  /\ sqlOpen' = IF sqlOpen = u THEN NoValue ELSE sqlOpen
  /\ UNCHANGED <<connVars, term>>

\* A statement fails, or the record is of another owner without being of a later generation.
CommitFails(u) ==
  /\ tx[u].at = "committing"
  /\ tx' = [tx EXCEPT ![u] = [NewTx EXCEPT !.at = "failed"]]
  /\ sqlOpen' = IF sqlOpen = u THEN NoValue ELSE sqlOpen
  /\ UNCHANGED <<connVars, stored, term>>

Rollback(u) ==
  /\ tx[u].at = "open"
  /\ tx' = [tx EXCEPT ![u] = [NewTx EXCEPT !.at = "failed"]]
  /\ UNCHANGED <<connVars, sqlOpen, stored, term>>

\* acquireOwnership, called beside the calls: BEGIN IMMEDIATE on the handle they share ...
AcquireBegins ==
  /\ connection # 0 /\ sqlOpen = NoValue /\ term < MaxTerm
  /\ sqlOpen' = TheApplication
  /\ UNCHANGED <<connVars, tx, stored, term>>

\* ... and the row: inserted, or taken over from an owner whose lease is over or by force.
AcquireEnds ==
  /\ sqlOpen = TheApplication
  /\ sqlOpen' = NoValue
  /\ term' = term + 1
  /\ UNCHANGED <<connVars, tx, stored>>

StoreNext ==
  \/ OpenEnds \/ OpenFails \/ CloseActor \/ CloseBegins \/ CloseEnds
  \/ AcquireBegins \/ AcquireEnds
  \/ \E u \in StoreUsers :
       \/ BeginTx(u) \/ CommitBegins(u) \/ CommitEnds(u) \/ CommitFails(u) \/ Rollback(u)
       \/ \E c \in Changes : Stage(u, c)

StoreSpec == StoreInit /\ [][StoreNext]_storeVars

-----------------------------------------------------------------------------
StoreTypeOK ==
  /\ dbHandles \in 0..MaxHandles /\ openHandles \subseteq 1..MaxHandles
  /\ connection \in 0..MaxHandles /\ opening \in BOOLEAN /\ closing \in {"no", "waiting", "done"}
  /\ sqlOpen \in StoreUsers \union {NoValue, TheApplication}
  /\ tx \in [StoreUsers ->
       [at : {"idle", "connecting", "open", "committing", "committed", "failed"},
        handle : 0..MaxHandles, token : 0..MaxTerm, sets : SUBSET StoreKeys,
        deletes : SUBSET StoreKeys, cleared : BOOLEAN, changes : Seq(Changes)]]
  /\ stored \in Rows /\ term \in 0..MaxTerm

\* The changes of a transaction that concern a key.
ChangesOf(u, k) ==
  {i \in DOMAIN tx[u].changes : tx[u].changes[i][1] = "clear" \/ tx[u].changes[i][2] = k}

\* The rows after a sequence of changes: what a plain map would hold, which for each key
\* is what the last change of it left.
Applied(u, rows) ==
  [k \in StoreKeys |->
     IF ChangesOf(u, k) = {} THEN rows[k]
     ELSE LET last == CHOOSE i \in ChangesOf(u, k) : \A j \in ChangesOf(u, k) : j <= i
          IN IF tx[u].changes[last][1] = "set" THEN u ELSE NoValue]

\* Whatever a transaction has set, deleted and cleared, in whatever order, it reads what a
\* map would hold that the changes had been made to.
ReadsOwnChanges ==
  \A u \in StoreUsers : tx[u].at = "open" =>
    LET map == Applied(u, stored) IN
    /\ \A k \in StoreKeys : Get(u, k) = map[k] /\ (Has(u, k) <=> map[k] # NoValue)
    /\ KeysOf(u) = {k \in StoreKeys : map[k] # NoValue}

\* The rows change only by a commit, of all the changes of a transaction, made under a
\* generation that nobody has succeeded.
CommitsWhole ==
  [][stored' # stored =>
       \E u \in StoreUsers :
         /\ tx[u].at = "committing" /\ tx'[u].at = "committed"
         /\ stored' = Applied(u, stored)
         /\ tx[u].token = 0 \/ tx[u].token = term]_storeVars

\* Nothing is open any more once close has returned, whatever opens were pending.
ClosedForGood == closing = "done" => openHandles = {} /\ ~opening
=============================================================================
