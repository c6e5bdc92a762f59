----------------------------- MODULE MCServices -----------------------------
(***************************************************************************)
(* Five services that keep promises over time, on small instances: the      *)
(* migration runner, the transactions of a SQLite handle, the application   *)
(* context with its cron job, a secure socket and RPC calls.  They share no *)
(* state, so that one run checks them side by side: focus chooses the one   *)
(* that moves, the others stay in their first state.                        *)
(***************************************************************************)
EXTENDS MigrationRunner, SqlTransactions, Application, SecureSocket, RpcCalls, TLC

CONSTANTS t1, t2, s1, n1, d1, d3, LaterRunner

VARIABLE focus

\* One deployment has both migrations, the other the first alone.
MCDeployments == {(1 :> "a") @@ (2 :> "a"), (1 :> "a") @@ (2 :> None)}

\* n1, d1 and d3 are created in the callback of t1.
MCParent == [t \in Tasks |-> IF t \in {n1, d1, d3} THEN t1 ELSE NoTask]

Init ==
  /\ focus \in {"migrations", "transactions", "application", "sockets", "rpc"}
  /\ MigrationInit /\ (focus # "migrations" => immediate)
  /\ SqlInit
  /\ AppInit /\ (focus # "application" => ~concurrent)
  /\ SocketInit /\ (focus # "sockets" => link = "stream")
  /\ RpcInit /\ (focus # "rpc" => /\ rpcTransport = "duplex" /\ batch = {}
                                  /\ \A c \in Calls : callKind[c] = "unary")

\* What a dry run and single steps show, one of the runners shows.
Migrate == MigrationNext /\ mode'[LaterRunner] \in {"all", "status"}

\* A second frame goes to the hub, whose provider may sleep between the two.
Talk == SocketNext /\ \A s \in Sides : chan'[s].send > 1 => link = "hub" /\ s = "consumer"

\* The one in focus makes its step, the others stay as they are.
Moves(migrations, transactions, application, sockets, rpc) ==
  /\ UNCHANGED focus
  /\ IF focus = "migrations" THEN migrations ELSE UNCHANGED migrationVars
  /\ IF focus = "transactions" THEN transactions ELSE UNCHANGED sqlVars
  /\ IF focus = "application" THEN application ELSE UNCHANGED appVars
  /\ IF focus = "sockets" THEN sockets ELSE UNCHANGED socketVars
  /\ IF focus = "rpc" THEN rpc ELSE UNCHANGED rpcVars

Next == Moves(Migrate, SqlNext, AppNext, Talk, RpcNext)

vars == <<focus, migrationVars, sqlVars, appVars, socketVars, rpcVars>>

\* The fairness that each module states, for the one that moves.
Spec ==
  /\ Init /\ [][Next]_vars
  /\ \A r \in Runners : WF_migrationVars(focus = "migrations" /\ RunnerStep(r))
  /\ WF_migrationVars(focus = "migrations" /\ LockExpires)
  /\ \A t \in Tasks : WF_sqlVars(focus = "transactions" /\ TaskStep(t))
  /\ WF_appVars(focus = "application" /\ AppStep)
  /\ WF_socketVars(focus = "sockets" /\ SocketStep)
  /\ \A c \in Calls : WF_rpcVars(focus = "rpc" /\ RpcStep(c))

\* At most one runner is between taking and giving back the migration lock
\* unless its lease ran out, what is recorded was applied, and in order.
MigrationsExact == ExclusiveUnlessExpired /\ DoneMeansApplied /\ AppliedInOrder

\* Components live inside one another's lifetimes, a stopped context leaves
\* nothing running, and guarded executions of a cron job stay apart.
Lifetimes == NestedLifetimes /\ NothingLeftRunning /\ GuardedRunsApart

\* What has begun ends: executions of the migration runner, tasks on the SQLite
\* handle, calls of stop, handshakes, and RPC calls.
Progress ==
  /\ RunsEnd /\ EveryTaskServed /\ StopsEnd /\ EveryCallEnds
  /\ focus = "sockets" => HandshakeEnds
=============================================================================
