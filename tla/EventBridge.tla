---------------------------- MODULE EventBridge ----------------------------
(***************************************************************************)
(* Bridges between the events of a container and a broker: the handles     *)
(* that $startBridge creates for one bridge class over the transport of    *)
(* its instance, their starts and stops, the container's clear, and the    *)
(* handling of inbound messages.                                           *)
(*                                                                         *)
(* A start attaches the outbound routes in one turn and the inbound routes *)
(* one by one, each with an await; only then does the instance remember    *)
(* the handle and the handle call itself started.  A stop takes the list   *)
(* of what to detach in its first turn and works through it over several.  *)
(* Two starts can therefore create two handles, a stop can run between the *)
(* steps of a start, and a stop that is rejected half way leaves behind    *)
(* what it had still to detach.  A route is <<handle, start, number>>, number 0   *)
(* for the outbound routes, so that what two starts attach is told apart.  *)
(***************************************************************************)
EXTENDS Naturals, FiniteSets

CONSTANTS
  BridgeCalls,     \* the calls of $startBridge, $stopBridge and clear
  BridgeMessages,  \* what the broker delivers
  InboundRoutes,   \* how many inbound routes the class declares
  NoHandle         \* the instance has no handle

ASSUME BridgeAssumption == InboundRoutes \in Nat /\ IsFiniteSet(BridgeCalls)

VARIABLES
  transport,   \* [kind |-> which adapter, up |-> is it started]
  bcall,       \* per call: what it does, how far it is, what it has in hand, or had
               \* when it failed
  bridgeUp,    \* the handles whose flag started is set
  listed,      \* the routes in the list of what each handle has to detach
  onContainer, \* the routes that listen on the container, by their handle
  onBroker,    \* the routes subscribed at the broker
  onCleared,   \* the handles that listen for the clearing of the container
  hostHandle,  \* the handle the instance remembers
  delivery,    \* what became of each message
  teardown,    \* history: cleared with no start running and nothing failed before, no start since
  echoed       \* history: something an inbound handler emitted was published again

bridgeVars == <<transport, bcall, bridgeUp, listed, onContainer, onBroker, onCleared,
                hostHandle, delivery, teardown, echoed>>
bridgeParts == <<bridgeUp, listed, onContainer, onBroker, onCleared>>

\* A handle is named after the call that created it.
Routes == BridgeCalls \X (0..InboundRoutes)
Unused == [op |-> "none", at |-> "idle", handle |-> NoHandle, route |-> 0, hand |-> {}]
InBroker == [at |-> "broker", by |-> NoHandle]

BridgeInit ==
  /\ transport \in [kind : {"memory", "kafka", "nats"}, up : {FALSE}]
  /\ bcall = [c \in BridgeCalls |-> Unused]
  /\ bridgeUp = {} /\ onContainer = {} /\ onBroker = {} /\ onCleared = {}
  /\ listed = [h \in BridgeCalls |-> {}]
  /\ hostHandle = NoHandle
  /\ delivery = [m \in BridgeMessages |-> InBroker]
  /\ teardown = FALSE /\ echoed = FALSE

At(c, what, at) == bcall[c].op = what /\ bcall[c].at = at
Running(ops) == {c \in BridgeCalls : bcall[c].op \in ops /\ bcall[c].at \notin {"done", "failed"}}
Goto(c, at) == bcall' = [bcall EXCEPT ![c].at = at]

\* $startBridge: a handle that has started is returned, otherwise a new one begins.
StartBridge(c) ==
  /\ At(c, "none", "idle")
  /\ hostHandle = NoHandle \/ hostHandle \notin bridgeUp
  /\ bcall' = [bcall EXCEPT ![c] =
       [Unused EXCEPT !.op = "start", !.at = "transport", !.handle = c]]
  /\ teardown' = FALSE
  /\ UNCHANGED <<transport, bridgeParts, hostHandle, delivery, echoed>>

\* The transport has started; the outbound routes are attached in the same turn.
TransportStarts(c) ==
  /\ At(c, "start", "transport")
  /\ transport' = [transport EXCEPT !.up = TRUE]
  /\ onContainer' = onContainer \union {<<c, 0>>}
  /\ listed' = [listed EXCEPT ![c] = @ \union {<<c, 0>>}]
  /\ bcall' = [bcall EXCEPT ![c].at = "subscribe", ![c].route = 1]
  /\ UNCHANGED <<bridgeUp, onBroker, onCleared, hostHandle, delivery, teardown, echoed>>

\* transport.subscribe of the next inbound route is called; NATS refuses when it is down.
Subscribe(c) ==
  /\ At(c, "start", "subscribe") /\ bcall[c].route <= InboundRoutes
  /\ transport.kind = "nats" => transport.up
  /\ onBroker' = onBroker \union {<<c, bcall[c].route>>}
  /\ Goto(c, "subscribing")
  /\ UNCHANGED <<transport, bridgeUp, listed, onContainer, onCleared, hostHandle, delivery, teardown, echoed>>

\* The await is over: the route goes into the list of what to detach.
Subscribed(c) ==
  /\ At(c, "start", "subscribing")
  /\ listed' = [listed EXCEPT ![c] = @ \union {<<c, bcall[c].route>>}]
  /\ bcall' = [bcall EXCEPT ![c].at = "subscribe", ![c].route = @ + 1]
  /\ UNCHANGED <<transport, bridgeUp, onContainer, onBroker, onCleared, hostHandle, delivery, teardown, echoed>>

\* The transport does not start or a subscription fails: the rejection leaves behind what
\* has been attached, and the instance forgets the handle.
BridgeStartFails(c) ==
  /\ \/ At(c, "start", "transport") /\ transport.kind # "memory"
     \/ /\ At(c, "start", "subscribe") /\ transport.kind = "nats" /\ ~transport.up
        /\ bcall[c].route <= InboundRoutes
     \/ At(c, "start", "subscribing") /\ transport.kind = "kafka"
  /\ Goto(c, "failed")
  /\ UNCHANGED <<transport, bridgeParts, hostHandle, delivery, teardown, echoed>>

\* All routes are attached: the handle listens for the clearing, and is started.
BridgeStarted(c) ==
  /\ At(c, "start", "subscribe") /\ bcall[c].route > InboundRoutes
  /\ onCleared' = onCleared \union {c}
  /\ bridgeUp' = bridgeUp \union {c}
  /\ hostHandle' = c
  /\ Goto(c, "done")
  /\ UNCHANGED <<transport, listed, onContainer, onBroker, delivery, teardown, echoed>>

-----------------------------------------------------------------------------
\* The first turn of a stop: the handle no longer listens for the clearing, and its list
\* moves into the hands of the stop.
\* Bug: the list is emptied before it is copied.
TakenTooLate(h) == {}

TakenRoutes(h) == listed[h]

Stopping(what, h) ==
  [Unused EXCEPT !.op = what, !.handle = h, !.hand = TakenRoutes(h),
     !.at = IF h \notin bridgeUp /\ listed[h] = {} THEN "stopped" ELSE "detaching"]

StopBridge(c) ==
  /\ At(c, "none", "idle") /\ hostHandle # NoHandle
  /\ bcall' = [bcall EXCEPT ![c] = Stopping("stop", hostHandle)]
  /\ IF bcall'[c].at = "stopped"
     THEN UNCHANGED <<listed, onCleared>>
     ELSE /\ listed' = [listed EXCEPT ![hostHandle] = {}]
          /\ onCleared' = onCleared \ {hostHandle}
  /\ UNCHANGED <<transport, bridgeUp, onContainer, onBroker, hostHandle, delivery, teardown, echoed>>

Stops(c) == bcall[c].op \in {"stop", "teardown"}

Detach(c) ==
  /\ Stops(c) /\ bcall[c].at = "detaching"
  /\ \E r \in bcall[c].hand :
       /\ bcall' = [bcall EXCEPT ![c].hand = @ \ {r}]
       /\ onContainer' = onContainer \ {r}
       /\ onBroker' = onBroker \ {r}
  /\ UNCHANGED <<transport, bridgeUp, listed, onCleared, hostHandle, delivery, teardown, echoed>>

\* A subscription of NATS does not end: the stop is rejected.  What it had not detached is
\* in no list any more, the handle stays started, and the instance keeps it.
DetachFails(c) ==
  /\ Stops(c) /\ bcall[c].at = "detaching" /\ transport.kind = "nats"
  /\ \E r \in bcall[c].hand : r[2] > 0
  /\ Goto(c, "failed")
  /\ UNCHANGED <<transport, bridgeParts, hostHandle, delivery, teardown, echoed>>

\* The transport stops and drops every subscription it has, whichever handle made it.
TransportStops(c) ==
  /\ Stops(c) /\ bcall[c].at = "detaching" /\ bcall[c].hand = {}
  /\ transport' = [transport EXCEPT !.up = FALSE]
  /\ onBroker' = {}
  /\ Goto(c, "stopped")
  /\ UNCHANGED <<bridgeUp, listed, onContainer, onCleared, hostHandle, delivery, teardown, echoed>>

\* Kafka does not disconnect or NATS does not drain: the stop is rejected, the transport
\* stays up, and NATS may have ended some subscriptions before.
TransportStopFails(c) ==
  /\ Stops(c) /\ bcall[c].at = "detaching" /\ bcall[c].hand = {}
  /\ transport.kind # "memory" /\ transport.up
  /\ \E left \in SUBSET onBroker :
       onBroker' = IF transport.kind = "nats" THEN left ELSE onBroker
  /\ Goto(c, "failed")
  /\ UNCHANGED <<transport, bridgeUp, listed, onContainer, onCleared, hostHandle, delivery, teardown, echoed>>

\* After $stopBridge the instance has no handle, whichever it had meanwhile.
BridgeStopEnds(c) ==
  /\ Stops(c) /\ bcall[c].at = "stopped"
  /\ bridgeUp' = bridgeUp \ {bcall[c].handle}
  /\ hostHandle' = IF bcall[c].op = "stop" THEN NoHandle ELSE hostHandle
  /\ Goto(c, "done")
  /\ UNCHANGED <<transport, listed, onContainer, onBroker, onCleared, delivery, teardown, echoed>>

\* container.clear: every handle that listens begins its stop in the same turn, as a call
\* that nobody made yet; then all listeners of the container go.
ClearContainer(c) ==
  /\ At(c, "none", "idle")
  /\ \E stop \in [onCleared -> {d \in BridgeCalls \ {c} : At(d, "none", "idle")}] :
       /\ \A g, h \in onCleared : g # h => stop[g] # stop[h]
       /\ bcall' = [d \in BridgeCalls |->
            IF d = c THEN [Unused EXCEPT !.op = "clear", !.at = "done"]
            ELSE IF \E h \in onCleared : stop[h] = d
            THEN Stopping("teardown", CHOOSE h \in onCleared : stop[h] = d)
            ELSE bcall[d]]
  /\ listed' = [h \in BridgeCalls |-> IF h \in onCleared THEN {} ELSE listed[h]]
  /\ onContainer' = {} /\ onCleared' = {}
  /\ teardown' = (Running({"start"}) = {} /\ \A d \in BridgeCalls : bcall[d].at # "failed")
  /\ UNCHANGED <<transport, bridgeUp, onBroker, hostHandle, delivery, echoed>>

-----------------------------------------------------------------------------
\* A message reaches the handler that handle h has subscribed.
DeliverMessage(m, h) ==
  /\ delivery[m].at = "broker" /\ transport.up
  /\ \E r \in onBroker : r[1] = h
  /\ delivery' = [delivery EXCEPT ![m] = [at |-> "handling", by |-> h]]
  /\ UNCHANGED <<transport, bcall, bridgeParts, hostHandle, teardown, echoed>>

\* Bug: nothing keeps a handle from publishing what it emits.
PublishersUnguarded(h) == {r[1] : r \in onContainer}

\* The outbound routes that publish what an inbound handler of h emits: inboundDepth, which
\* is above zero during the emit, is a variable of the handle.
Publishers(h) == {r[1] : r \in onContainer} \ {h}

\* The message passes filter, map, validation and middleware, and is emitted in one turn.
Emit(m) ==
  /\ delivery[m].at = "handling"
  /\ delivery' = [delivery EXCEPT ![m].at = "emitted"]
  /\ echoed' = (echoed \/ Publishers(delivery[m].by) # {})
  /\ UNCHANGED <<transport, bcall, bridgeParts, hostHandle, teardown>>

\* The acknowledgement, of a message that was emitted or that the filter left out.
Ack(m) ==
  /\ delivery[m].at \in {"handling", "emitted"}
  /\ delivery' = [delivery EXCEPT ![m].at = "acked"]
  /\ UNCHANGED <<transport, bcall, bridgeParts, hostHandle, teardown, echoed>>

\* Something in the pipeline throws, or the acknowledgement does: the message is refused
\* without requeueing.  NATS delivers it again nevertheless, the others drop it.
Nack(m) ==
  /\ delivery[m].at \in {"handling", "emitted"}
  /\ delivery' = [delivery EXCEPT ![m] =
       IF transport.kind = "nats" THEN InBroker ELSE [at |-> "dropped", by |-> delivery[m].by]]
  /\ UNCHANGED <<transport, bcall, bridgeParts, hostHandle, teardown, echoed>>

BridgeStep(c) ==
  \/ TransportStarts(c) \/ Subscribe(c) \/ Subscribed(c) \/ BridgeStartFails(c) \/ BridgeStarted(c)
  \/ Detach(c) \/ DetachFails(c) \/ TransportStops(c) \/ TransportStopFails(c) \/ BridgeStopEnds(c)

BridgeNext ==
  \/ \E c \in BridgeCalls : StartBridge(c) \/ StopBridge(c) \/ ClearContainer(c) \/ BridgeStep(c)
  \/ \E m \in BridgeMessages :
       (\E h \in BridgeCalls : DeliverMessage(m, h)) \/ Emit(m) \/ Ack(m) \/ Nack(m)

BridgeSpec == BridgeInit /\ [][BridgeNext]_bridgeVars

-----------------------------------------------------------------------------
BridgeTypeOK ==
  /\ transport \in [kind : {"memory", "kafka", "nats"}, up : BOOLEAN]
  /\ bcall \in [BridgeCalls -> [op : {"none", "start", "stop", "teardown", "clear"},
       at : {"idle", "transport", "subscribe", "subscribing", "detaching", "stopped", "done",
             "failed"},
       handle : BridgeCalls \union {NoHandle}, route : 0..(InboundRoutes + 1),
       hand : SUBSET Routes]]
  /\ bridgeUp \subseteq BridgeCalls /\ onCleared \subseteq BridgeCalls
  /\ listed \in [BridgeCalls -> SUBSET Routes]
  /\ onContainer \subseteq Routes /\ onBroker \subseteq Routes
  /\ hostHandle \in BridgeCalls \union {NoHandle}
  /\ delivery \in [BridgeMessages -> [at : {"broker", "handling", "emitted", "acked", "dropped"},
       by : BridgeCalls \union {NoHandle}]]
  /\ teardown \in BOOLEAN /\ echoed \in BOOLEAN

\* What is attached can still be detached: it is in its handle's list, in the hands of a
\* stop, or just being subscribed.  Out of reach, until the transport stops, is only what a
\* stop that was rejected had still in its hands, and a subscription that Kafka refused
\* after its handler was recorded.
RoutesAccounted ==
  \A r \in onContainer \union onBroker :
    \/ r \in listed[r[1]]
    \/ \E c \in BridgeCalls : r \in bcall[c].hand
    \/ bcall[r[1]].at \in {"subscribing", "failed"} /\ bcall[r[1]].route = r[2]

\* Clearing the container tears every bridge down, whatever stops overlap it, unless a start
\* was running then, began since, or had failed half way: nothing listens on the container,
\* and once the stops are over, and none of them was rejected, nothing is subscribed and no
\* handle is started.
ClearTearsDown ==
  teardown =>
    /\ onContainer = {}
    /\ Running({"stop", "teardown"}) = {} /\ (\A c \in BridgeCalls : bcall[c].at # "failed") =>
         onBroker = {} /\ bridgeUp = {}

\* What a bridge takes from the broker it does not publish again, as long as the class has
\* one handle.
EchoStops ==
  Cardinality({c \in BridgeCalls : bcall[c].op = "start"}) <= 1 => ~echoed
=============================================================================
