----------------------------- MODULE MCHandlers -----------------------------
(***************************************************************************)
(* Components whose handlers interleave over state they share, on small     *)
(* instances: the six of the auth package, the event bridge, the queue      *)
(* worker, the wasm actor storage, the connections of the SQLite actor      *)
(* storage and the GraphQL socket.  None of them touches the state of       *)
(* another, so that one run checks them side by side: focus chooses the one *)
(* that moves, the others stay in their first state.                        *)
(***************************************************************************)
EXTENDS RefreshTokens, Sessions, OAuthFlow, RemoteKeys, Passkeys, Accounts,
        EventBridge, QueueWorker, WasmActorStorage, ActorConnections, GraphqlWs, TLC

CONSTANTS act1, act2, use1, use2, use3, close1

VARIABLE focus

\* Two uses and a close of one actor, a use of another.
MCTargets == (use1 :> act1) @@ (use2 :> act1) @@ (use3 :> act2) @@ (close1 :> act1)

Init ==
  /\ focus \in {"refresh", "sessions", "oauth", "keys", "passkeys", "accounts",
                "bridge", "worker", "storage", "connections", "graphql"}
  /\ RefreshInit /\ (focus # "refresh" => store = "memory")
  /\ SessionInit /\ (focus # "sessions" => sessionStore = "memory")
  /\ OAuthInit /\ RemoteInit
  /\ PasskeyInit /\ (focus # "passkeys" => userStore = "memory" /\ onClone = "throw")
  /\ AccountInit /\ (focus # "accounts" => accountStore = "memory")
  /\ BridgeInit /\ (focus # "bridge" => transport.kind = "memory")
  /\ WorkerInit /\ (focus # "worker" => jobStore = "memory")
  /\ StoreInit /\ (focus # "storage" => term = 0 /\ \A k \in StoreKeys : stored[k] = NoValue)
  /\ ConnectionsInit
  /\ GraphqlWsInit /\ (focus # "graphql" => \A o, p \in Operations : opId[o] = opId[p]
                                            /\ opId[o] = CHOOSE i \in OperationIds : TRUE)

Next ==
  /\ UNCHANGED focus
  /\ IF focus = "refresh" THEN RefreshNext ELSE UNCHANGED refreshVars
  /\ IF focus = "sessions" THEN SessionNext ELSE UNCHANGED sessionVars
  /\ IF focus = "oauth" THEN OAuthNext ELSE UNCHANGED oauthVars
  /\ IF focus = "keys" THEN RemoteNext ELSE UNCHANGED remoteVars
  /\ IF focus = "passkeys" THEN PasskeyNext ELSE UNCHANGED passkeyVars
  /\ IF focus = "accounts" THEN AccountNext ELSE UNCHANGED accountVars
  /\ IF focus = "bridge" THEN BridgeNext ELSE UNCHANGED bridgeVars
  /\ IF focus = "worker" THEN WorkerNext ELSE UNCHANGED workerVars
  /\ IF focus = "storage" THEN StoreNext ELSE UNCHANGED storeVars
  /\ IF focus = "connections" THEN ConnectionsNext ELSE UNCHANGED connectionVars
  /\ IF focus = "graphql" THEN GraphqlWsNext ELSE UNCHANGED wsVars

vars == <<focus, refreshVars, sessionVars, oauthVars, remoteVars, passkeyVars, accountVars,
          bridgeVars, workerVars, storeVars, connectionVars, wsVars>>

Spec == Init /\ [][Next]_vars

\* What proves an identity stays as strong as it was: a family of refresh tokens
\* has one live member and none after a logout, a session ends at its ceiling and
\* stays ended, a password once chosen stays, one identifier has one account, and
\* the throttle counts every attempt.
Credentials ==
  /\ OneLivePerFamily /\ LogoutSticks
  /\ AbsoluteCeiling /\ ChainAlive /\ LoggedOutStaysOut
  /\ OneAccount /\ ChosenPasswordStays /\ AttemptsBounded

\* What answers a challenge is taken once and for what was asked: codes and state
\* entries, passkey ceremonies, and keys that are not too old.
SignIn ==
  /\ GrantsTraceable /\ OneLoginPerFlow
  /\ AcceptedOnce /\ HandleFindsUser
  /\ NoKeyPastStale

\* The bridge accounts for its subscriptions and tears them all down, and does not
\* publish again what came in; the worker's loop stays alive within its limits and
\* is quiet once stopped.
Messaging ==
  /\ RoutesAccounted /\ ClearTearsDown /\ EchoStops
  /\ LoopAlive /\ WithinLimit /\ StopIsQuiet /\ RetriesHold

\* A transaction reads what it changed, a closed store leaves no handle open, and
\* a stream of a cancelled subscription is returned.
NothingDangles == ReadsOwnChanges /\ ClosedForGood /\ NoStreamLeft

\* Steps: commits write all of one transaction on the generation it opened under,
\* signature counters never fall, and a completed subscription sends no more.
StepsAreWhole == CommitsWhole /\ SignCountGrows /\ QuietAfterComplete
=============================================================================
