---- MODULE RpcCalls ----
(***************************************************************************)
(* Calls of di-framework-rpc, from the client proxy to the handler and     *)
(* back (client.ts, dispatcher.ts, server.ts, adapters/memory.ts,          *)
(* adapters/http.ts, adapters/grpc.ts). Four kinds of call share one       *)
(* surface; three transports carry it:                                     *)
(*   "duplex"  memory pair or socket with createRpcServer: frames in order *)
(*   "http"    one request per payload; send returns with the response     *)
(*   "grpc"    one Connect call per call, adapted to JSON-RPC frames       *)
(* A reply without a stream field settles a pending call, a frame with one *)
(* a pending stream, and neither is ever looked up in the other table.     *)
(***************************************************************************)
EXTENDS Naturals, Sequences, FiniteSets

CONSTANTS Calls,     \* calls of one client
          Streaming, \* the ones that may be of a streaming kind
          MaxItems   \* items a stream carries each way

VARIABLES rpcTransport, callKind,
          batch,     \* the unary calls sent as one $batch payload
          client,    \* "idle", "open" (in pending or pendingStreams), "failed" (its stream has
                     \* ended for the caller, the entry remains), "settled"
          fed,       \* items of the input stream sent; MaxItems + 1 once it has ended
          up, down,  \* frames of a call on their way to the server, to the client
          batchLeft, \* batch items the dispatcher has still to handle, one by one
          httpReply, \* unaryResponse of the HTTP request of the batch
          session,   \* activeSessions: "none", "open", "ended", "aborted"
          received,  \* items the handler has taken from its input
          server,    \* "none", "running", "done"
          yielded,   \* items the handler has sent
          chain,     \* stream frames the client is working on, in settle's promise chain
          got        \* items the caller has got

rpcVars == <<rpcTransport, callKind, batch, client, fed, up, down, batchLeft, httpReply, session,
             received, server, yielded, chain, got>>

Kinds == {"unary", "client", "server", "bidi"}
Feeds(c) == callKind[c] \in {"client", "bidi"}
Streams(c) == callKind[c] \in {"server", "bidi"}
Frame(type, n) == [type |-> type, n |-> n]
StreamFrames == {"next", "complete", "error"}

RpcInit ==
  /\ rpcTransport \in {"duplex", "http", "grpc"}
  /\ callKind \in [Calls -> Kinds] /\ \A c \in Calls \ Streaming : callKind[c] = "unary"
  /\ batch \in {{}, {c \in Calls : callKind[c] = "unary"}}
  /\ client = [c \in Calls |-> "idle"]
  /\ fed = [c \in Calls |-> 0] /\ received = [c \in Calls |-> 0] /\ yielded = [c \in Calls |-> 0]
  /\ up = [c \in Calls |-> << >>] /\ down = [c \in Calls |-> << >>]
  /\ batchLeft = {} /\ httpReply = {}
  /\ session = [c \in Calls |-> "none"] /\ server = [c \in Calls |-> "none"]
  /\ chain = [c \in Calls |-> << >>] /\ got = [c \in Calls |-> << >>]

Put(q, c, f) == [q EXCEPT ![c] = Append(@, f)]
Settled(c) == [client EXCEPT ![c] = "settled"]
HasEntry(c) == client[c] \in {"open", "failed"}

\* invokeOne: the entry is made, then the call is sent; if send throws, the entry goes
\* again and the caller gets the error
Invoke(c) ==
  /\ client[c] = "idle" /\ c \notin batch
  /\ \/ client' = [client EXCEPT ![c] = "open"] /\ up' = Put(up, c, Frame("call", 0))
     \/ client' = Settled(c) /\ UNCHANGED up
  /\ UNCHANGED <<rpcTransport, callKind, batch, fed, down, batchLeft, httpReply, session, received,
                 server, yielded, chain, got>>

\* $batch: all its calls go out as one payload, once every one has passed its interceptors
InvokeBatch ==
  /\ batch # {} /\ \A c \in batch : client[c] = "idle"
  /\ client' = [c \in Calls |-> IF c \in batch THEN "open" ELSE client[c]]
  /\ batchLeft' = batch
  /\ UNCHANGED <<rpcTransport, callKind, batch, fed, up, down, httpReply, session, received, server,
                 yielded, chain, got>>

\* the input stream is read only after send has returned: at once, or over HTTP with the
\* response. An input that throws rejects a client-streaming call; the server of a
\* bidirectional one is told.
Feed(c) ==
  /\ Feeds(c) /\ fed[c] <= MaxItems
  /\ HasEntry(c) \/ (client[c] = "settled" /\ fed[c] > 0)
  /\ rpcTransport = "http" => server[c] = "done"
  /\ \/ fed[c] < MaxItems /\ fed' = [fed EXCEPT ![c] = @ + 1] /\ up' = Put(up, c, Frame("next", 0))
        /\ UNCHANGED client
     \/ fed' = [fed EXCEPT ![c] = MaxItems + 1] /\ up' = Put(up, c, Frame("complete", 0))
        /\ UNCHANGED client
     \/ fed' = [fed EXCEPT ![c] = MaxItems + 1]
        /\ IF callKind[c] = "bidi" THEN up' = Put(up, c, Frame("error", 0)) /\ UNCHANGED client
           ELSE client' = Settled(c) /\ UNCHANGED up
  /\ UNCHANGED <<rpcTransport, callKind, batch, down, batchLeft, httpReply, session, received, server,
                 yielded, chain, got>>

\* a timeout or an abort: the entry goes; a stream's server is told, a pending call's is not
GiveUp(c) ==
  /\ HasEntry(c)
  /\ client' = Settled(c)
  /\ up' = IF Streams(c) THEN Put(up, c, Frame("error", 0)) ELSE up
  /\ UNCHANGED <<rpcTransport, callKind, batch, fed, down, batchLeft, httpReply, session, received,
                 server, yielded, chain, got>>

\* dispatchOne, up to the handler: a streaming call opens a session under its id (the
\* gRPC transport keeps one only for the input)
HasSession(c) == IF rpcTransport = "grpc" THEN Feeds(c) ELSE callKind[c] # "unary"
StartCall(c) ==
  /\ up[c] # << >> /\ Head(up[c]).type = "call"
  /\ up' = [up EXCEPT ![c] = Tail(@)]
  /\ server' = [server EXCEPT ![c] = "running"]
  /\ session' = [session EXCEPT ![c] = IF HasSession(c) THEN "open" ELSE "none"]
  /\ UNCHANGED <<rpcTransport, callKind, batch, client, fed, down, batchLeft, httpReply, received,
                 yielded, chain, got>>

\* dispatchStreamFrame: a frame without a session is dropped. complete takes the session
\* out of the dispatcher's table, so an error after it finds none (gRPC keeps it)
SessionAfter(c, f) ==
  CASE f.type = "complete" -> "ended"
    [] f.type = "error" /\ (session[c] = "open" \/ rpcTransport = "grpc") -> "aborted"
    [] OTHER -> session[c]
StreamFrameIn(c) ==
  /\ up[c] # << >> /\ Head(up[c]).type \in StreamFrames
  /\ up' = [up EXCEPT ![c] = Tail(@)]
  /\ session' = [session EXCEPT ![c] = IF @ = "none" THEN @ ELSE SessionAfter(c, Head(up[c]))]
  /\ received' = [received EXCEPT ![c] =
                    IF session[c] = "open" /\ Head(up[c]).type = "next" THEN @ + 1 ELSE @]
  /\ UNCHANGED <<rpcTransport, callKind, batch, client, fed, down, batchLeft, httpReply, server,
                 yielded, chain, got>>

\* Bug: a stream that fails is answered like a call, without a stream field.
FailureFrameAlways(c) == "failure"
\* what the dispatcher (over gRPC: the transport) answers when the handler throws: a
\* stream error for every streaming call; the gRPC transport a failure for client streams
FailureFrame(c) ==
  IF callKind[c] = "unary" \/ (rpcTransport = "grpc" /\ callKind[c] = "client") THEN "failure" ELSE "error"

\* the handler sends an item; a session that was aborted sends no more
Yield(c) ==
  /\ server[c] = "running" /\ Streams(c) /\ yielded[c] < MaxItems
  /\ session[c] # "aborted"
  /\ callKind[c] = "bidi" => yielded[c] < received[c]
  /\ yielded' = [yielded EXCEPT ![c] = @ + 1]
  /\ down' = Put(down, c, Frame("next", yielded[c] + 1))
  /\ UNCHANGED <<rpcTransport, callKind, batch, client, fed, up, batchLeft, httpReply, session,
                 received, server, chain, got>>

\* the handler ends: with its result, with the end of its stream, or with an error. A
\* handler that reads its input ends only when the input does.
Answer(c) ==
  \/ /\ Feeds(c) => session[c] = "ended"
     /\ down' = Put(down, c, Frame(IF Streams(c) THEN "complete" ELSE "result", 0))
  \/ /\ callKind[c] = "server" /\ session[c] = "aborted" /\ down' = Put(down, c, Frame("complete", 0))
  \/ /\ down' = Put(down, c, Frame(FailureFrame(c), 0))
Finish(c) ==
  /\ server[c] = "running" /\ c \notin batch
  /\ Answer(c)
  /\ server' = [server EXCEPT ![c] = "done"]
  /\ session' = [session EXCEPT ![c] = "none"]
  /\ UNCHANGED <<rpcTransport, callKind, batch, client, fed, up, batchLeft, httpReply, received,
                 yielded, chain, got>>

\* unaryResponse: the HTTP handler keeps the reply it got last
Kept(c) == {c}
\* dispatch of a batch: one item after the other. createRpcServer and the gRPC transport
\* send each reply, the HTTP handler answers once, when the last item is through
BatchItem(c) ==
  /\ c \in batchLeft
  /\ batchLeft' = batchLeft \ {c}
  /\ IF rpcTransport = "http"
     THEN /\ httpReply' = IF batchLeft' = {} THEN {} ELSE Kept(c)
          /\ down' = IF batchLeft' = {}
                     THEN [d \in Calls |-> IF d \in Kept(c) THEN Append(down[d], Frame("result", 0)) ELSE down[d]]
                     ELSE down
     ELSE down' = Put(down, c, Frame("result", 0)) /\ UNCHANGED httpReply
  /\ UNCHANGED <<rpcTransport, callKind, batch, client, fed, up, session, received, server, yielded,
                 chain, got>>

\* settle: a frame of a stream joins the chain of its pending stream, any other reply
\* settles its pending call; what has no entry is dropped
Settle(c) ==
  /\ down[c] # << >>
  /\ down' = [down EXCEPT ![c] = Tail(@)]
  /\ LET f == Head(down[c]) IN
       /\ chain' = IF f.type \in StreamFrames /\ Streams(c) /\ HasEntry(c)
                   THEN Put(chain, c, f) ELSE chain
       /\ client' = IF f.type \notin StreamFrames /\ ~Streams(c) THEN Settled(c) ELSE client
  /\ UNCHANGED <<rpcTransport, callKind, batch, fed, up, batchLeft, httpReply, session, received,
                 server, yielded, got>>

\* Bug: the frames are not chained, each is ready when its own interceptors are.
ReadyUnchained(c) == 1..Len(chain[c])
\* the frame of the chain whose turn it is
Ready(c) == {i \in 1..Len(chain[c]) : i = 1}

\* one link of the chain: interceptors of an item may be awaited, so the next frame waits for it;
\* what they or its hydration throw ends the caller's stream, and its items go nowhere from there
Chained(c) ==
  /\ \E i \in Ready(c) :
       /\ chain' = [chain EXCEPT ![c] = SubSeq(@, 1, i - 1) \o SubSeq(@, i + 1, Len(@))]
       /\ IF chain[c][i].type = "next"
          THEN \/ /\ got' = IF client[c] = "open" THEN [got EXCEPT ![c] = Append(@, chain[c][i].n)] ELSE got
                  /\ UNCHANGED client
               \/ client[c] = "open" /\ client' = [client EXCEPT ![c] = "failed"] /\ UNCHANGED got
          ELSE client' = Settled(c) /\ UNCHANGED got
  /\ UNCHANGED <<rpcTransport, callKind, batch, fed, up, down, batchLeft, httpReply, session, received,
                 server, yielded>>

RpcStep(c) ==
  Feed(c) \/ StartCall(c) \/ StreamFrameIn(c) \/ Finish(c) \/ BatchItem(c) \/ Settle(c) \/ Chained(c)

RpcNext ==
  \/ InvokeBatch
  \/ \E c \in Calls : RpcStep(c) \/ Invoke(c) \/ GiveUp(c) \/ Yield(c)

\* handlers end and frames arrive: nothing of a call is put off for ever
RpcFairness == \A c \in Calls : WF_rpcVars(RpcStep(c))
RpcSpec == RpcInit /\ [][RpcNext]_rpcVars /\ RpcFairness

RpcTypeOK ==
  /\ callKind \in [Calls -> Kinds] /\ batch \subseteq Calls /\ batchLeft \subseteq batch
  /\ client \in [Calls -> {"idle", "open", "failed", "settled"}]
  /\ server \in [Calls -> {"none", "running", "done"}]
  /\ session \in [Calls -> {"none", "open", "ended", "aborted"}]

\* The caller of a streaming method gets the items in the order the handler made them and
\* without a gap, however long the interceptors of one item take.
StreamInOrder == \A c \in Calls : got[c] = [i \in 1..Len(got[c]) |-> i]

\* calls whose answer is lost or never made: a client stream that fails over a duplex is
\* answered with a stream frame, over HTTP its input waits for its own response, and an
\* HTTP batch is answered with one reply
Unanswered(c) ==
  \/ callKind[c] = "client" /\ rpcTransport # "grpc"
  \/ Feeds(c) /\ rpcTransport = "http"
  \/ c \in batch /\ rpcTransport = "http" /\ Cardinality(batch) > 1

\* Every call the client has made ends for its caller, whatever the handler does.
EveryCallEnds == \A c \in Calls : (client[c] = "open" /\ ~Unanswered(c)) ~> client[c] \in {"failed", "settled"}
====
