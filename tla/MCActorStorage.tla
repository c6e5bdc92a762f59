--------------------------- MODULE MCActorStorage ---------------------------
(***************************************************************************)
(* What leaves the state of an actor one writer, on small instances: the    *)
(* ownership row with its fencing between hosts, and the lock file of a     *)
(* database between the processes of a host.  They share no variables, so   *)
(* that one run checks them side by side: focus chooses the one that moves, *)
(* the other stays in its first state.                                      *)
(***************************************************************************)
EXTENDS ActorOwnership, ActorFileLock

VARIABLE focus

StorageInit ==
  /\ focus \in {"ownership", "lock"}
  /\ Init /\ (focus # "ownership" => own = NoRecord /\ auto = Hosts)
  /\ LockInit

StorageNext ==
  /\ UNCHANGED focus
  /\ IF focus = "ownership" THEN Next ELSE UNCHANGED vars
  /\ IF focus = "lock" THEN LockNext ELSE UNCHANGED lockVars

storageVars == <<focus, vars, lockVars>>

\* The fairness that each module states, for the one that moves.
StorageSpec ==
  /\ StorageInit /\ [][StorageNext]_storageVars
  /\ WF_vars(focus = "ownership" /\ Tick)
  /\ \A h \in Hosts : /\ SF_vars(focus = "ownership" /\ ResolveToken(h))
                      /\ WF_vars(focus = "ownership" /\ Rollback(h))
  /\ \A p \in Processes : WF_lockVars(focus = "lock" /\ p \in alive /\ (Begin(p) \/ Acquiring(p)))
=============================================================================
