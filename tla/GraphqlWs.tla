---- MODULE GraphqlWs ----
(***************************************************************************)
(* The graphql-transport-ws handlers of di-framework-socket                *)
(* (integrations/graphql-transport-ws.ts): one connection, its map of      *)
(* operations and the streams behind them. startOperation awaits execute   *)
(* or subscribe before it writes the map; complete and close read it.      *)
(***************************************************************************)
EXTENDS Naturals, FiniteSets

CONSTANTS Operations,   \* subscribe messages of the client
          OperationIds, \* ids the client gives them
          NoOperation,  \* an id without an entry in data.operations
          MaxNext       \* results a stream yields

ASSUME GraphqlWsAssumption == NoOperation \notin Operations /\ MaxNext \in Nat

VARIABLES socket,       \* "up", "down"
          init,         \* connection_init: "none", "pending" (contextFromConnectionInit), "acked"
          opId,         \* id an operation was subscribed under
          op,           \* "unsent", "executing", "subscribing", "streaming", "ended"
          returned,     \* streams whose iterator got return()
          taken,      \* results taken from an operation's stream
          operations,   \* data.operations: id -> the operation whose stream it holds
          sent,         \* [op, type] the server has sent
          cancelled,    \* operations the client ended, or whose socket went down
          missed        \* operations cancelled, or replaced, behind the map's back

wsVars == <<socket, init, opId, op, returned, taken, operations, sent, cancelled, missed>>

GraphqlWsInit ==
  /\ socket = "up" /\ init = "none"
  /\ opId \in [Operations -> OperationIds]
  /\ op = [o \in Operations |-> "unsent"]
  /\ returned = {} /\ cancelled = {} /\ missed = {} /\ sent = {}
  /\ taken = [o \in Operations |-> 0]
  /\ operations = [i \in OperationIds |-> NoOperation]

Says(o, type) == IF socket = "up" THEN sent \union {[op |-> o, type |-> type]} ELSE sent

\* connection_init: the context may be awaited; a failure closes the socket (4403)
ConnectionInit ==
  /\ socket = "up" /\ init = "none"
  /\ init' \in {"pending", "acked"}
  /\ UNCHANGED <<socket, opId, op, returned, taken, operations, sent, cancelled, missed>>
ContextReady ==
  /\ init = "pending" /\ init' = "acked"
  /\ UNCHANGED <<socket, opId, op, returned, taken, operations, sent, cancelled, missed>>

Ongoing(o) == op[o] \in {"executing", "subscribing", "streaming"}

\* subscribe before the acknowledgement closes the socket (4401); after it the
\* operation starts, under whatever id it names
SubscribeOp(o) ==
  /\ socket = "up" /\ op[o] = "unsent" /\ init = "acked"
  /\ \E start \in {"executing", "subscribing"} : op' = [op EXCEPT ![o] = start]
  /\ UNCHANGED <<socket, init, opId, returned, taken, operations, sent, cancelled, missed>>

\* Bug: the map is emptied before its streams are looked up.
DroppedTooLate == {}
\* the streams still in the map are returned, the map is emptied
Dropped == {operations[i] : i \in OperationIds} \ {NoOperation}

CloseSocket ==
  /\ socket = "up" /\ socket' = "down"
  /\ returned' = returned \union Dropped
  /\ operations' = [i \in OperationIds |-> NoOperation]
  /\ cancelled' = cancelled \union {o \in Operations : Ongoing(o)}
  /\ missed' = missed \union {o \in Operations : op[o] = "subscribing"}
  /\ UNCHANGED <<init, opId, op, taken, sent>>
UnauthorizedSubscribe(o) == init # "acked" /\ op[o] = "unsent" /\ CloseSocket

\* execute has its result: next and complete, whatever happened meanwhile; or it threw
Executed(o) ==
  /\ op[o] = "executing"
  /\ op' = [op EXCEPT ![o] = "ended"]
  /\ sent' \in {Says(o, "next") \union Says(o, "complete"), Says(o, "error")}
  /\ UNCHANGED <<socket, init, opId, returned, taken, operations, cancelled, missed>>

\* subscribe has resolved: an error result ends the operation, a stream enters the map
\* and replaces the one another operation of this id has there
StreamReady(o) ==
  /\ op[o] = "subscribing"
  /\ \/ /\ op' = [op EXCEPT ![o] = "ended"]
        /\ sent' = Says(o, "error")
        /\ UNCHANGED <<operations, missed>>
     \/ /\ op' = [op EXCEPT ![o] = "streaming"]
        /\ operations' = [operations EXCEPT ![opId[o]] = o]
        /\ missed' = missed \union ({operations[opId[o]]} \ {NoOperation, o})
        /\ UNCHANGED sent
  /\ UNCHANGED <<socket, init, opId, returned, taken, cancelled>>

\* Bug: results are sent without a look at the map.
ListedAlways(o) == TRUE
\* a message of the stream goes out while the map has an entry for its id
Listed(o) == operations[opId[o]] # NoOperation

\* for await: the next result. Without an entry the loop ends and returns the iterator;
\* an iterator that got return() has no further result than the one it was working on.
YieldResult(o) ==
  /\ op[o] = "streaming" /\ taken[o] < MaxNext
  /\ taken' = [taken EXCEPT ![o] = IF o \in returned THEN MaxNext ELSE @ + 1]
  /\ IF Listed(o) THEN sent' = Says(o, "next") /\ UNCHANGED <<op, returned>>
     ELSE op' = [op EXCEPT ![o] = "ended"] /\ returned' = returned \union {o} /\ UNCHANGED sent
  /\ UNCHANGED <<socket, init, opId, operations, cancelled, missed>>

\* the stream ends by itself, by return() or with an error: the entry of its id goes. An error
\* is sent without a look at the map, after complete too
EndStream(o) ==
  /\ op[o] = "streaming"
  /\ op' = [op EXCEPT ![o] = "ended"]
  /\ \/ Listed(o) /\ sent' = Says(o, "complete")
     \/ ~Listed(o) /\ UNCHANGED sent
     \/ sent' = Says(o, "error")
  /\ operations' = [operations EXCEPT ![opId[o]] = NoOperation]
  /\ missed' = missed \union ({operations[opId[o]]} \ {NoOperation, o})
  /\ UNCHANGED <<socket, init, opId, returned, taken, cancelled>>

\* complete: what the map has under the id is returned and deleted
CompleteId(i) ==
  /\ socket = "up"
  /\ \E o \in Operations : opId[o] = i /\ op[o] # "unsent"
  /\ returned' = returned \union ({operations[i]} \ {NoOperation})
  /\ operations' = [operations EXCEPT ![i] = NoOperation]
  /\ cancelled' = cancelled \union {o \in Operations : opId[o] = i /\ Ongoing(o)}
  /\ missed' = missed \union {o \in Operations : opId[o] = i /\ op[o] = "subscribing"}
  /\ UNCHANGED <<socket, init, opId, op, taken, sent>>

StreamStep == \E o \in Operations : Executed(o) \/ StreamReady(o) \/ EndStream(o)

GraphqlWsNext ==
  \/ ConnectionInit \/ ContextReady \/ CloseSocket
  \/ \E o \in Operations : SubscribeOp(o) \/ UnauthorizedSubscribe(o) \/ YieldResult(o)
  \/ StreamStep
  \/ \E i \in OperationIds : CompleteId(i)

GraphqlWsSpec == GraphqlWsInit /\ [][GraphqlWsNext]_wsVars

GraphqlWsTypeOK ==
  /\ socket \in {"up", "down"} /\ init \in {"none", "pending", "acked"}
  /\ op \in [Operations -> {"unsent", "executing", "subscribing", "streaming", "ended"}]
  /\ operations \in [OperationIds -> Operations \union {NoOperation}]
  /\ returned \subseteq Operations /\ cancelled \subseteq Operations

\* No stream is left running: one the client has completed, or whose socket is down, has
\* been returned, and one that runs on is in the map, where complete and close find it.
\* The exceptions are the operations ended while subscribe was still pending and the ones
\* whose id another operation took over.
NoStreamLeft ==
  \A o \in Operations : op[o] = "streaming" /\ o \notin missed =>
    \/ o \in returned
    \/ operations[opId[o]] = o /\ o \notin cancelled

\* The results of a stream belong to a subscription the client still has: after complete, one
\* goes out only under an id that names a newer operation, or for a missed one. (An error may
\* follow a complete.)
QuietAfterComplete ==
  [][\A o \in Operations :
       [op |-> o, type |-> "next"] \in sent' \ sent /\ o \in cancelled /\ op[o] = "streaming"
         => o \in missed \/ operations[opId[o]] \notin {NoOperation, o}]_wsVars
====
