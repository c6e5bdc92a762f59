---- MODULE RpcEndpoints ----
(***************************************************************************)
(* The two ends of di-framework-rpc around the calls of RpcCalls. Five     *)
(* machines share nothing; endpoint tells which one moves:                 *)
(*   "batch"    $batch: calls pass their interceptors one by one and go    *)
(*              out together (client.ts)                                   *)
(*   "wire"     a message encoded by its decorators, read by the other     *)
(*              side's (schema/messages.ts)                                *)
(*   "servers"  services and startRpcServices put servers on transports    *)
(*              (decorators.ts, server.ts, adapters/memory.ts)             *)
(*   "route"    one call through a gRPC route and back (adapters/grpc.ts)  *)
(*   "reader"   the push stream between a transport and its readers        *)
(***************************************************************************)
EXTENDS Integers, Sequences, FiniteSets

CONSTANTS BatchCalls, RpcHosts, StreamReaders,
          Int32Max,      \* int32 is -Int32Max - 1 .. Int32Max
          SafeInteger,       \* Number.MAX_SAFE_INTEGER
          Int64Max,      \* int64 is -Int64Max - 1 .. Int64Max
          MaxServers,    \* servers made
          Interceptors,  \* server interceptors of the route
          MaxStreamed       \* items of a stream

\* a batch has calls (the client sends none without); the numbers that two widths hold are
\* 2^32 and 2^64 scaled, and the safe integers are int64s
ASSUME RpcEndpointsAssumption ==
  /\ IsFiniteSet(BatchCalls) /\ BatchCalls # {}
  /\ "all" \notin RpcHosts
  /\ {Int32Max, SafeInteger, Int64Max, Interceptors} \subseteq Nat
  /\ SafeInteger <= Int64Max
  /\ \E k \in 1 .. Int64Max + 1 : Int64Max + 1 = k * (Int32Max + 1)

VARIABLES endpoint,
          round,     \* the batch: member, tally, payload, out, sent, spoiled
          letter,    \* the message: original, by, reader, carried, arrived, step
          lineOf,    \* host -> the transport of its decorator
          servers,   \* servers made so far: owner, line, subscribed, started
          starting,  \* servers awaiting transport.start
          fresh,     \* servers that started and are not recorded yet
          handleOf,      \* host -> its server, 0 for none (RPC_HANDLE)
          activeHandles,    \* activeHandles
          stopping,  \* stops awaiting transport.stop: <<server, by, which>>
          crossed,   \* a server was started over another one's transport
          exchange,  \* the gRPC call
          pushStream     \* the push stream

endpointVars == <<endpoint, round, letter, lineOf, servers, starting, fresh, handleOf, activeHandles, stopping,
                  crossed, exchange, pushStream>>
serverVars == <<lineOf, servers, starting, fresh, handleOf, activeHandles, stopping, crossed>>

---------------------------------------------------------------------------
\* $batch. A call waits in its interceptors; once they call next it is in the payload and
\* in pending ("queued"), and it ends "answered" or "failed".
NewRound == [member |-> [c \in BatchCalls |-> "waiting"], tally |-> 0, payload |-> {}, out |-> {},
             sent |-> FALSE, spoiled |-> FALSE]

\* Bug: the payload leaves one call too early.
DueEarly(b) == b.tally >= Cardinality(BatchCalls) - 1
\* markReady: the payload leaves when as many calls are ready as the batch has
Due(b) == b.tally = Cardinality(BatchCalls)

\* markReady and startSend: the payload goes out once; if send throws, every pending call
\* of the payload is rejected
MarkReady(b) ==
  LET counted == [b EXCEPT !.tally = @ + 1]
      out == [counted EXCEPT !.sent = TRUE, !.out = counted.payload]
      broken == [out EXCEPT !.member = [c \in BatchCalls |->
                   IF c \in out.payload /\ out.member[c] = "queued" THEN "failed" ELSE out.member[c]]]
  IN IF counted.sent \/ ~Due(counted) THEN {counted} ELSE {out, broken}

Becomes(b, c, state) == [b EXCEPT !.member[c] = state]

\* its interceptors call next: the call is pending and part of the payload
Passes(c) ==
  /\ round.member[c] = "waiting"
  /\ round' \in MarkReady([Becomes(round, c, "queued") EXCEPT !.payload = @ \union {c}])
\* Bug: a call whose interceptor throws is never counted.
FailsUncounted(c) ==
  /\ round.member[c] = "waiting" /\ round' = Becomes(round, c, "failed")
\* an interceptor throws before next: counted all the same
InterceptorFails(c) ==
  /\ round.member[c] = "waiting" /\ round' \in MarkReady(Becomes(round, c, "failed"))
\* an interceptor answers without next: the call is settled and never counted
AnswersItself(c) ==
  /\ round.member[c] = "waiting" /\ round' = [Becomes(round, c, "answered") EXCEPT !.spoiled = TRUE]
\* timeout or abort of a pending call: its rejection reaches the catch, which counts it again
EndsEarly(c) ==
  /\ round.member[c] = "queued"
  /\ round' \in MarkReady([Becomes(round, c, "failed") EXCEPT !.spoiled = @ \/ ~round.sent])
Replied(c) ==
  /\ round.sent /\ c \in round.out /\ round.member[c] = "queued"
  /\ round' = Becomes(round, c, "answered")

BatchNext ==
  \E c \in BatchCalls :
    Passes(c) \/ InterceptorFails(c) \/ AnswersItself(c) \/ EndsEarly(c) \/ Replied(c)

---------------------------------------------------------------------------
\* Messages. Integers are scaled: 2^32, 2^53 and 2^64 become small numbers.
Modulus32 == 2 * (Int32Max + 1)
Modulus64 == 2 * (Int64Max + 1)
Unset == [is |-> "absent"]
Number(n) == [is |-> "number", n |-> n]
BigInt(n) == [is |-> "bigint", n |-> n]
ListOf(s) == [is |-> "list", of |-> s]
NestedIn(m) == [is |-> "message", of |-> m]

WireField(number, type, repeated) == [number |-> number, type |-> type, repeated |-> repeated]
NestedSchema == [count |-> WireField(1, "int32", FALSE)]
FullSchema == [count |-> WireField(1, "int32", FALSE), total |-> WireField(2, "int64", FALSE),
               on |-> WireField(3, "bool", FALSE), blob |-> WireField(4, "bytes", FALSE),
               marks |-> WireField(5, "int32", TRUE), inner |-> WireField(6, "inner", FALSE)]
\* a reader built before total and inner existed
OlderSchema == [p \in DOMAIN FullSchema \ {"total", "inner"} |-> FullSchema[p]]
SchemaOf(reader) == IF reader = "same" THEN FullSchema ELSE OlderSchema

Int32s == {Number(n) : n \in -Int32Max - 1 .. Int32Max}
\* a bigint beyond the safe range, a number within it; one negative value stands for the rest
Int64s == {Number(n) : n \in -1 .. SafeInteger} \union {BigInt(n) : n \in SafeInteger + 1 .. Int64Max}
Originals ==
  [count : Int32s \union {Unset}, total : Int64s \union {Unset}, on : {[is |-> "flag", n |-> 1]},
   blob : {Unset, [is |-> "bytes", n |-> 1]},
   marks : {Unset, ListOf(<< >>), ListOf(<<Number(0), Number(-1)>>)},
   inner : {Unset, NestedIn([count |-> Unset]), NestedIn([count |-> Number(-1)])}]

\* encodeOne: ints as varints of 64 bits, everything else with its length
EncodeNested(m) == [number \in {1} |-> IF m.count = Unset THEN << >>
                                       ELSE <<[wire |-> 0, n |-> m.count.n % Modulus64]>>]
EncodeOne(type, v) ==
  CASE type \in {"int32", "int64", "bool"} -> [wire |-> 0, n |-> v.n % Modulus64]
    [] type = "bytes" -> [wire |-> 2, n |-> v.n]
    [] OTHER -> [wire |-> 2, in |-> EncodeNested(v.of)]

\* encodeRpcMessage: by field number, one occurrence a value, absent ones left out
EncodeRpcMessage(m) ==
  [number \in 1 .. 6 |->
     LET p == CHOOSE q \in DOMAIN FullSchema : FullSchema[q].number = number
         f == FullSchema[p]
     IN IF m[p] = Unset THEN << >>
        ELSE IF f.repeated THEN [k \in DOMAIN m[p].of |-> EncodeOne(f.type, m[p].of[k])]
        ELSE <<EncodeOne(f.type, m[p])>>]

\* Bug: an int32 is read without its sign.
Int32Unsigned(raw) == Number(raw % Modulus32)
\* BigInt.asIntN(32, raw)
AsInt32(raw) ==
  LET low == raw % Modulus32 IN Number(IF low > Int32Max THEN low - Modulus32 ELSE low)
\* decodeOne for int64: never read as signed
AsInt64(raw) == IF raw <= SafeInteger THEN Number(raw) ELSE BigInt(raw)

DecodeNested(w) == [count |-> IF w[1] = << >> THEN Unset ELSE AsInt32(w[1][1].n)]
DecodeOne(type, o) ==
  CASE o.wire = 0 /\ type = "bool" -> [is |-> "flag", n |-> IF o.n # 0 THEN 1 ELSE 0]
    [] o.wire = 0 /\ type = "int64" -> AsInt64(o.n)
    [] o.wire = 0 /\ type \notin {"bool", "int64"} -> AsInt32(o.n)
    [] o.wire = 2 /\ type = "bytes" -> [is |-> "bytes", n |-> o.n]
    [] o.wire = 2 /\ type = "inner" -> NestedIn(DecodeNested(o.in))

\* decodeRpcMessage: fields the reader does not know are skipped, a repeated field
\* collects its occurrences, of any other the last one counts
DecodeRpcMessage(schema, w) ==
  [p \in DOMAIN schema |->
     LET f == schema[p]
         values == [k \in DOMAIN w[f.number] |-> DecodeOne(f.type, w[f.number][k])]
     IN IF values = << >> THEN Unset
        ELSE IF f.repeated THEN ListOf(values) ELSE values[Len(values)]]

\* rpcMessageToJson: bytes as base64, a bigint as decimal text
JsonOne(v) ==
  CASE v.is = "bytes" -> [is |-> "base64", n |-> v.n]
    [] v.is = "bigint" -> [is |-> "decimal", n |-> v.n]
    [] OTHER -> v
RpcMessageToJson(m) ==
  [p \in DOMAIN m |-> IF m[p].is = "list" THEN ListOf([k \in DOMAIN m[p].of |-> JsonOne(m[p].of[k])])
                      ELSE JsonOne(m[p])]
\* hydrateRpcMessage: the reader's fields only; base64 of a bytes field is read back,
\* decimal text stays text
HydrateRpcMessage(schema, j) ==
  [p \in DOMAIN schema |->
     IF schema[p].type = "bytes" /\ j[p].is = "base64" THEN [is |-> "bytes", n |-> j[p].n] ELSE j[p]]

NoLetter == [step |-> "none"]
Carry ==
  /\ letter.step = "written"
  /\ letter' = [letter EXCEPT !.step = "carried",
                  !.carried = IF letter.by = "binary" THEN EncodeRpcMessage(letter.original)
                              ELSE RpcMessageToJson(letter.original)]
LetterArrives ==
  /\ letter.step = "carried"
  /\ letter' = [letter EXCEPT !.step = "arrived",
                  !.arrived = IF letter.by = "binary"
                              THEN DecodeRpcMessage(SchemaOf(letter.reader), letter.carried)
                              ELSE HydrateRpcMessage(SchemaOf(letter.reader), letter.carried)]
LetterNext == Carry \/ LetterArrives

---------------------------------------------------------------------------
\* Servers on transports. startRpcServices is the host "all", which starts a server over
\* any line and keeps no handle.
Lines == 1 .. 2
Server(owner, line) == [owner |-> owner, line |-> line, subscribed |-> FALSE, started |-> FALSE]
OnLine(line) == {h \in DOMAIN servers : servers[h].line = line}

\* Bug: $startRpc makes a server although it has one that is started.
NotRunningEver(h) == TRUE
\* $startRpc returns the server it has while that one says it is started
NotRunning(h) == h # 0 => ~servers[h].started

Make(owner, line) ==
  /\ Len(servers) < MaxServers
  /\ servers' = Append(servers, Server(owner, line))
  /\ starting' = starting \union {Len(servers) + 1}
  /\ crossed' = (crossed \/ \E h \in OnLine(line) : h \in starting \/ (servers[h].started /\ handleOf[owner] # h))
  /\ UNCHANGED <<lineOf, fresh, handleOf, activeHandles, stopping>>
StartRpc(s) == NotRunning(handleOf[s]) /\ Make(s, lineOf[s])
StartRpcServices == \E line \in Lines : Make("all", line)

\* transport.start has returned: the server subscribes; or it threw and the server is lost
SubscribeServer(h) ==
  /\ h \in starting /\ starting' = starting \ {h}
  /\ \/ servers' = [servers EXCEPT ![h].subscribed = TRUE, ![h].started = TRUE]
        /\ fresh' = fresh \union {h}
     \/ UNCHANGED <<servers, fresh>>
  /\ UNCHANGED <<lineOf, handleOf, activeHandles, stopping, crossed>>

\* Bug: a server is not recorded when its host has one already.
KeptUnlessHeld(h) == IF handleOf[servers[h].owner] = 0 THEN {h} ELSE {}
Recorded(h) == {h}
\* the continuation of handle.start: the host holds the server, activeHandles has it
Record(h) ==
  /\ h \in fresh /\ fresh' = fresh \ {h}
  /\ handleOf' = IF servers[h].owner = "all" THEN handleOf ELSE [handleOf EXCEPT ![servers[h].owner] = h]
  /\ activeHandles' = activeHandles \union Recorded(h)
  /\ UNCHANGED <<lineOf, servers, starting, stopping, crossed>>

Unsubscribed(hs) == [h \in DOMAIN servers |->
  IF h \in hs THEN [servers[h] EXCEPT !.subscribed = FALSE] ELSE servers[h]]
\* $stopRpc: a started server unsubscribes and stops its transport, another is forgotten
StopRpc(s) ==
  /\ handleOf[s] # 0
  /\ IF servers[handleOf[s]].started
     THEN \E n \in 1 .. 2 :
            /\ <<handleOf[s], s, n>> \notin stopping
            /\ stopping' = stopping \union {<<handleOf[s], s, n>>}
            /\ servers' = Unsubscribed({handleOf[s]}) /\ UNCHANGED <<handleOf, activeHandles>>
     ELSE activeHandles' = activeHandles \ {handleOf[s]} /\ handleOf' = [handleOf EXCEPT ![s] = 0] /\ UNCHANGED <<servers, stopping>>
  /\ UNCHANGED <<lineOf, starting, fresh, crossed>>
\* stopRpcServices: the set is emptied first, then every started server stops
StopRpcServices ==
  /\ activeHandles # {} /\ activeHandles' = {}
  /\ LET running == {h \in activeHandles : servers[h].started}
     IN /\ stopping' = stopping \union {<<h, "all", 1>> : h \in running}
        /\ servers' = Unsubscribed(running)
  /\ UNCHANGED <<lineOf, starting, fresh, handleOf, crossed>>

\* transport.stop clears every handler of the transport, its peers' too; then the server
\* is stopped and the host forgets whatever server it holds by then. It may throw: the
\* server goes on saying it is started.
TransportStops(stop) ==
  LET h == stop[1]  s == stop[2] IN
  /\ stop \in stopping /\ stopping' = stopping \ {stop}
  /\ \/ /\ servers' = [k \in DOMAIN servers |->
             [servers[k] EXCEPT !.subscribed = @ /\ servers[k].line # servers[h].line,
                                !.started = @ /\ k # h]]
        /\ IF s = "all" THEN UNCHANGED <<handleOf, activeHandles>>
           ELSE handleOf' = [handleOf EXCEPT ![s] = 0] /\ activeHandles' = activeHandles \ {h}
     \/ UNCHANGED <<servers, handleOf, activeHandles>>
  /\ UNCHANGED <<lineOf, starting, fresh, crossed>>

ServersNext ==
  \/ \E s \in RpcHosts : StartRpc(s) \/ StopRpc(s)
  \/ StartRpcServices \/ StopRpcServices
  \/ \E h \in starting : SubscribeServer(h)
  \/ \E h \in fresh : Record(h)
  \/ \E stop \in stopping : TransportStops(stop)

---------------------------------------------------------------------------
\* One call through createGrpcRoutes and grpcTransport.
NewExchange(kind) ==
  [kind |-> kind, step |-> "called", index |-> 0, calls |-> [i \in 1 .. Interceptors |-> 0],
   invoked |-> 0, taken |-> 0, frames |-> << >>, listening |-> TRUE]
ServerStreams(x) == x.kind \in {"server", "bidi"}
Shown(x, frame) == [x EXCEPT !.frames = IF x.listening THEN Append(@, frame) ELSE @]
\* the codes a route raises, and what connectCodeToJsonRpc makes of them
ConnectCodes == {"invalid_argument", "not_found", "internal"}
JsonRpcCode(code) ==
  CASE code = "invalid_argument" -> "invalid params"
    [] code = "not_found" -> "method not found"
    [] OTHER -> "server error"
\* toConnectError and back: streams of the server end with an error frame, the others
\* with a failure
Raised(x, code) == [Shown(x, <<IF ServerStreams(x) THEN "error" ELSE "failure", JsonRpcCode(code)>>)
                      EXCEPT !.step = "ended"]

\* methodForCall, then the route: input hydrated (of a client stream item by item), the
\* instance resolved, the first interceptor entered; each of them may throw
EnterRoute ==
  /\ exchange.step = "called"
  /\ \/ exchange' = [exchange EXCEPT !.step = "chain", !.index = 1]
     \/ exchange' = [Shown(exchange, <<"failure", JsonRpcCode("not_found")>>) EXCEPT !.step = "ended"]
     \/ exchange' = Raised(exchange, "internal")

\* Bug: an interceptor's second call of next is let through once its first has ended.
EnteredBefore(current, index) == current < index
\* composeServerInterceptors: an index that was dispatched is not dispatched again
Entered(current, index) == current <= index
\* interceptor i, which is entered, calls next: the next interceptor or the handler runs
NextCalled(i) ==
  /\ exchange.step = "chain" /\ i <= exchange.index /\ exchange.calls[i] < 2
  /\ LET next == i + 1
         called == [exchange EXCEPT !.calls[i] = @ + 1]
     IN exchange' = IF Entered(next, exchange.index) THEN called
                    ELSE IF next > Interceptors
                    THEN [called EXCEPT !.index = next, !.invoked = @ + 1]
                    ELSE [called EXCEPT !.index = next]
Closing(x, frame) == [Shown(x, frame) EXCEPT !.step = "ended"]
\* the handler's result, or an interceptor's own, is the answer
UnaryReturns ==
  /\ exchange.step = "chain" /\ exchange.kind = "unary" /\ exchange' = Closing(exchange, <<"result", "">>)
\* a client stream: the handler, once it runs, takes request after request, each hydrated
\* as it comes, and returns when it likes
Takes == exchange.step \in {"chain", "items"} /\ exchange.invoked > 0 /\ exchange.taken < MaxStreamed
ClientStreams ==
  /\ exchange.kind = "client"
  /\ \/ Takes /\ exchange' = [exchange EXCEPT !.taken = @ + 1]
     \/ exchange.step = "chain" /\ exchange' = Closing(exchange, <<"result", "">>)
\* a result that can be iterated: every item passes the interceptors and goes out. One that
\* cannot, or whose iteration ends, completes the stream.
Iterates ==
  \/ exchange.step = "chain" /\ exchange' = [exchange EXCEPT !.step = "items"]
  \/ /\ exchange.step = "items" /\ Len(exchange.frames) < MaxStreamed
     /\ exchange' = Shown(exchange, <<"next", "">>)
  \/ exchange.step = "items" /\ exchange' = Closing(exchange, <<"complete", "">>)
ServerStreamed == exchange.kind = "server" /\ Iterates
\* both ways at once
BidiStreams ==
  /\ exchange.kind = "bidi"
  /\ Iterates \/ (Takes /\ exchange' = [exchange EXCEPT !.taken = @ + 1])
RouteThrows ==
  /\ exchange.step \in {"chain", "items"}
  /\ \E code \in ConnectCodes : exchange' = Raised(exchange, code)
\* the handlers of the caller's transport refuse the complete, or the result of a client
\* stream: the catch that is there for the stream sends an error after it
EndRefused ==
  /\ exchange.step = "ended" /\ exchange.frames # << >>
  /\ exchange.frames[Len(exchange.frames)][1] = IF ServerStreams(exchange) THEN "complete" ELSE "result"
  /\ exchange.kind # "unary"
  /\ \E code \in ConnectCodes : exchange' = [Raised(exchange, code) EXCEPT !.step = "refused"]
\* grpcTransport.stop: nobody hears the rest
StopGrpc == exchange.listening /\ exchange' = [exchange EXCEPT !.listening = FALSE]

RouteNext ==
  EnterRoute \/ UnaryReturns \/ ClientStreams \/ ServerStreamed \/ BidiStreams \/ RouteThrows \/ EndRefused \/ StopGrpc
  \/ \E i \in 1 .. Interceptors : NextCalled(i)

---------------------------------------------------------------------------
\* PushStream: a queue, readers waiting for the next item in order, an end or an error.
\* Items are numbered as they are pushed; blank has the ones that are undefined, taken the ones that
\* readers took, swallowed those of them that were not yielded.
NewStream == [queue |-> << >>, waiting |-> << >>, over |-> "no", accepted |-> 0, taken |-> << >>,
              blank |-> {}, swallowed |-> {}, reader |-> [r \in StreamReaders |-> "reading"]]

\* the readers that wait are told the end or the error
Told(st) == [r \in StreamReaders |-> IF \E k \in DOMAIN st.waiting : st.waiting[k] = r THEN "told" ELSE st.reader[r]]
Over(st, how) ==
  IF st.over # "no" THEN st ELSE [st EXCEPT !.over = how, !.waiting = << >>, !.reader = Told(st)]

Push ==
  /\ pushStream.accepted < MaxStreamed /\ pushStream.over = "no"
  /\ LET n == pushStream.accepted + 1 IN
     \E undefined \in {{}, {n}} :
       pushStream' = IF pushStream.waiting # << >>
                     THEN [pushStream EXCEPT !.accepted = n, !.blank = @ \union undefined, !.taken = Append(@, n),
                                         !.waiting = Tail(@), !.reader[Head(pushStream.waiting)] = "reading"]
                     ELSE [pushStream EXCEPT !.accepted = n, !.blank = @ \union undefined, !.queue = Append(@, n)]
End == pushStream.over = "no" /\ \E how \in {"end", "error"} : pushStream' = Over(pushStream, how)

\* Bug: the end is seen before what is still queued.
EndSeenFirst(st) == st.over # "no"
\* the queue is read before the end or the error is looked at
EndSeen(st) == st.queue = << >> /\ st.over # "no"
\* an undefined item that was queued is taken and not yielded; one that is handed to a
\* reader that waits is (client.ts:89 and 103)
NotYielded(st) == IF Head(st.queue) \in st.blank THEN {Head(st.queue)} ELSE {}
\* a reader asks for the next item, and goes on reading where that was not yielded. One that
\* is told the end ends the stream, which changes nothing any more.
ReadNext(r) ==
  /\ pushStream.reader[r] = "reading"
  /\ pushStream' = IF EndSeen(pushStream) THEN [pushStream EXCEPT !.reader[r] = "told"]
               ELSE IF pushStream.queue # << >>
               THEN [pushStream EXCEPT !.queue = Tail(@), !.taken = Append(@, Head(pushStream.queue)),
                                   !.swallowed = @ \union NotYielded(pushStream)]
               ELSE [pushStream EXCEPT !.reader[r] = "waiting", !.waiting = Append(@, r)]
\* a reader breaks out of its loop: the stream ends for all
Leave(r) ==
  /\ pushStream.reader[r] = "reading"
  /\ pushStream' = [Over(pushStream, "end") EXCEPT !.reader[r] = "left"]
ReaderNext == Push \/ End \/ \E r \in StreamReaders : ReadNext(r) \/ Leave(r)

---------------------------------------------------------------------------
RpcEndpointsInit ==
  /\ endpoint \in {"batch", "wire", "servers", "route", "reader"}
  /\ round = NewRound
  /\ letter \in IF endpoint = "wire"
                THEN [original : Originals, by : {"binary", "json"}, reader : {"same", "older"}, carried : {<< >>},
                      arrived : {<< >>}, step : {"written"}]
                ELSE {NoLetter}
  /\ lineOf \in IF endpoint = "servers" THEN [RpcHosts -> Lines] ELSE {[s \in RpcHosts |-> 1]}
  /\ servers = << >> /\ starting = {} /\ fresh = {} /\ activeHandles = {} /\ stopping = {} /\ crossed = FALSE
  /\ handleOf = [s \in RpcHosts \union {"all"} |-> 0]
  /\ exchange \in IF endpoint = "route" THEN {NewExchange(k) : k \in {"unary", "server", "client", "bidi"}}
                  ELSE {NewExchange("unary")}
  /\ pushStream = NewStream

RpcEndpointsNext ==
  /\ UNCHANGED endpoint
  /\ \/ /\ endpoint = "batch" /\ BatchNext /\ UNCHANGED <<letter, serverVars, exchange, pushStream>>
     \/ /\ endpoint = "wire" /\ LetterNext /\ UNCHANGED <<round, serverVars, exchange, pushStream>>
     \/ /\ endpoint = "servers" /\ ServersNext /\ UNCHANGED <<round, letter, exchange, pushStream>>
     \/ /\ endpoint = "route" /\ RouteNext /\ UNCHANGED <<round, letter, serverVars, pushStream>>
     \/ /\ endpoint = "reader" /\ ReaderNext /\ UNCHANGED <<round, letter, serverVars, exchange>>

RpcEndpointsSpec == RpcEndpointsInit /\ [][RpcEndpointsNext]_endpointVars

---------------------------------------------------------------------------
\* $batch (client.ts:640-694): as long as no call ended before the batch went out, and none
\* was answered by an interceptor, it goes out exactly when every call is decided, with
\* every call whose interceptors let it pass.
BatchGoesOutWhole ==
  ~round.spoiled =>
    /\ round.sent <=> \A c \in BatchCalls : round.member[c] # "waiting"
    /\ round.sent => round.out = round.payload

\* encodeRpcMessage / decodeRpcMessage and rpcMessageToJson / hydrateRpcMessage
\* (schema/messages.ts:87-238): what a reader knows of a message arrives as it was, over
\* protobuf as over JSON, whichever fields the writer adds. Excepted: a negative int64 and
\* an empty list over protobuf, an int64 beyond the safe integers over JSON.
MessagesSurvive ==
  letter.step = "arrived" =>
    \A p \in DOMAIN letter.arrived :
      LET v == letter.original[p] IN
      \/ letter.arrived[p] = v
      \/ letter.by = "binary" /\ p = "total" /\ v.is = "number" /\ v.n < 0
      \/ letter.by = "binary" /\ v = ListOf(<< >>) /\ letter.arrived[p] = Unset
      \/ letter.by = "json" /\ v.is = "bigint"

\* Servers (decorators.ts:203-224, 301-332; server.ts): a server that listens is one that
\* stopRpcServices reaches, or will be once its start has returned; and as long as no server
\* is started over another one's transport, a call is handled by one server only.
ServersReached ==
  /\ \A h \in DOMAIN servers : servers[h].subscribed => h \in activeHandles \union fresh
  /\ ~crossed => \A line \in Lines : Cardinality({h \in OnLine(line) : servers[h].subscribed}) <= 1

\* gRPC routes (adapters/grpc.ts:61-75, 112-314, 393-523): whatever its interceptors do, a handler
\* is invoked at most once, and what the caller is told is items and then at most one end. Only an
\* end that a handler of the caller's own transport refused is followed by an error.
ExchangeWhole ==
  /\ exchange.invoked <= 1
  /\ \A k \in DOMAIN exchange.frames : exchange.frames[k][1] # "next" =>
       \/ k = Len(exchange.frames)
       \/ /\ exchange.step = "refused" /\ k = Len(exchange.frames) - 1
          /\ exchange.frames[k][1] \in {"complete", "result"} /\ exchange.frames[k + 1][1] \in {"error", "failure"}

\* PushStream (client.ts:41-108): readers take the items in order, each once, and are given
\* what they take unless it is undefined; nobody is told the end while an item that was
\* accepted is still queued.
NothingLost ==
  /\ pushStream.taken \o pushStream.queue = [n \in 1 .. pushStream.accepted |-> n]
  /\ pushStream.swallowed \subseteq pushStream.blank
  /\ (\E r \in StreamReaders : pushStream.reader[r] = "told") => pushStream.queue = << >>
====
