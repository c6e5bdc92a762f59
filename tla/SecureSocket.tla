---- MODULE SecureSocket ----
(***************************************************************************)
(* The secure socket of di-framework-socket: the handshake of a provider   *)
(* and a consumer, the sealed channel after it and the hibernatable hub    *)
(* that rebuilds the provider's session from an attachment                 *)
(* (security/session.ts, security/handshake.ts, security/aead.ts,          *)
(* adapters/workers/hibernatable.ts, adapters/node-udp.ts).                *)
(*                                                                         *)
(* Every frame starts a handler of its own and nothing waits for the       *)
(* handler before: a handler reads the session when the frame arrives and  *)
(* changes it only after its cryptography has been awaited. Keys, nonces   *)
(* and transcripts are honest here, so a MAC verifies whenever both sides  *)
(* have derived their keys.                                                *)
(***************************************************************************)
EXTENDS Naturals, Sequences, FiniteSets

CONSTANTS MaxSends,   \* sealed frames a side seals
          MaxFaults,  \* datagrams lost, doubled or overtaken
          MaxSleeps   \* times the durable object hibernates

VARIABLES link,       \* "stream" (WebSocket, TCP), "hub" or "datagram" (UDP)
          made,       \* sides whose handshake object exists
          phase,      \* SecureSession.state
          hs,         \* what the handshake object of a side has reached
          chan,       \* the AEAD channel's counters
          wire,       \* frames on their way to a side
          deaf,       \* sides whose session has unsubscribed from its duplex
          tasks,      \* frame handlers of a side that wait for cryptography
          sealing,    \* counters of the frames that a side is encrypting
          awake,      \* the durable object holds the provider's session
          snapshot,   \* counters in the attachment
          faults, sleeps,
          disturbed   \* why a session may have failed or hung

socketVars == <<link, made, phase, hs, chan, wire, deaf, tasks, sealing, awake,
                snapshot, faults, sleeps, disturbed>>

Sides == {"provider", "consumer"}
Other(s) == IF s = "provider" THEN "consumer" ELSE "provider"
NoChannel == [send |-> 0, recv |-> 0]
Handshake(kind) == [kind |-> kind, counter |-> 0, copy |-> 0]
Sealed(c) == [kind |-> "sealed", counter |-> c, copy |-> 0]

SocketInit ==
  /\ link \in {"stream", "hub", "datagram"}
  /\ made = {}
  /\ phase = [s \in Sides |-> "handshaking"]
  /\ hs = [s \in Sides |-> "none"]
  /\ chan = [s \in Sides |-> NoChannel]
  /\ wire = [s \in Sides |-> << >>]
  /\ deaf = {}
  /\ tasks = [s \in Sides |-> {}]
  /\ sealing = [s \in Sides |-> {}]
  /\ awake = TRUE
  /\ snapshot = NoChannel
  /\ faults = 0 /\ sleeps = 0
  /\ disturbed = {}

\* duplex.send: nothing goes out once the session has closed its transport
Post(s, f) == IF phase[s] = "closed" THEN wire ELSE [wire EXCEPT ![Other(s)] = Append(@, f)]

\* begin: the listener is there at once, the handshake object only after its key
\* pair has been generated; the provider then speaks first
Create(s) ==
  /\ s \notin made /\ phase[s] = "handshaking"
  /\ made' = made \union {s}
  /\ wire' = IF s = "provider" THEN Post(s, Handshake("init")) ELSE wire
  /\ UNCHANGED <<deaf, link, phase, hs, chan, tasks, sealing, awake, snapshot, faults, sleeps, disturbed>>

\* fail: the first error ends the session; a session closed before stays closed
Failed(s) == [phase EXCEPT ![s] = IF @ \in {"closed", "failed"} THEN @ ELSE "failed"]

\* Bug: off by one, the counter expected next is refused as well.
AcceptsLater(s, f) == f.counter > chan[s].recv
\* AeadChannel.open: a counter below the next one expected is refused
Accepts(s, f) == f.counter >= chan[s].recv

\* the messages a side's handshake object answers in the state it is in
Expects(s, f) ==
  CASE s = "provider" /\ f.kind = "response" -> TRUE
    [] s = "provider" /\ f.kind = "confirm" -> TRUE
    [] s = "consumer" /\ f.kind = "init" -> TRUE
    [] s = "consumer" /\ f.kind = "request" -> TRUE
    [] OTHER -> FALSE

\* handleConfirmation and handleConfirmationRequest throw before the keys exist
Premature(s, f) == f.kind \in {"confirm", "request"} /\ hs[s] = "none"

\* onFrame, as far as it runs before its first await: what the frame starts, or
\* that it is dropped, or that it fails the session
Starts(s, f) ==
  /\ s \notin deaf
  /\ \/ phase[s] = "open" /\ f.kind = "sealed" /\ Accepts(s, f)
     \/ phase[s] = "handshaking" /\ s \in made /\ Expects(s, f) /\ ~Premature(s, f)
Breaks(s, f) ==
  /\ s \notin deaf
  /\ \/ phase[s] = "open" /\ (f.kind # "sealed" \/ ~Accepts(s, f))
     \/ phase[s] = "handshaking" /\ f.kind = "sealed"
     \/ phase[s] = "handshaking" /\ s \in made /\ Expects(s, f) /\ Premature(s, f)

OnFrame(s, f) ==
  /\ tasks' = IF Starts(s, f) THEN [tasks EXCEPT ![s] = @ \union {[frame |-> f, step |-> "crypto"]}] ELSE tasks
  /\ phase' = IF Breaks(s, f) THEN Failed(s) ELSE phase
  /\ deaf' = IF Breaks(s, f) THEN deaf \union {s} ELSE deaf
  /\ disturbed' = disturbed \union
       {d \in {"sealed before open", "init before ready"} :
          \/ d = "sealed before open" /\ phase[s] = "handshaking" /\ f.kind = "sealed"
          \/ d = "init before ready" /\ s \notin made /\ f.kind = "init"}

\* webSocketMessage writes the counters right after it has pushed the frame, before
\* the frame has been opened
Persisted(s) == IF link = "hub" /\ s = "provider" /\ phase[s] = "open" THEN chan[s] ELSE snapshot

RemoveAt(q, i) == SubSeq(q, 1, i - 1) \o SubSeq(q, i + 1, Len(q))

\* the next frame reaches a side that is awake
Deliver(s) ==
  /\ wire[s] # << >>
  /\ s = "consumer" \/ awake
  /\ OnFrame(s, Head(wire[s]))
  /\ wire' = [wire EXCEPT ![s] = Tail(@)]
  /\ snapshot' = Persisted(s)
  /\ UNCHANGED <<link, made, hs, chan, sealing, awake, faults, sleeps>>

\* a datagram is lost, delivered ahead of the ones before it, or delivered twice
Fault(s) ==
  /\ link = "datagram" /\ faults < MaxFaults
  /\ faults' = faults + 1
  /\ \E i \in 1..Len(wire[s]) :
       \/ wire' = [wire EXCEPT ![s] = RemoveAt(@, i)]
       \/ i > 1 /\ wire' = [wire EXCEPT ![s] = <<@[i]>> \o RemoveAt(@, i)]
       \/ wire' = [wire EXCEPT ![s] = Append(@, [@[i] EXCEPT !.copy = 1])]
  /\ disturbed' = disturbed \union {"datagram"}
  /\ UNCHANGED <<deaf, link, made, phase, hs, chan, tasks, sealing, awake, snapshot, sleeps>>

Finished(s, t) == [tasks EXCEPT ![s] = @ \ {t}]

\* handleInit of the consumer and handleResponse of the provider: the keys are
\* derived, the answer is sent. A session closed or failed meanwhile has destroyed its
\* handshake object; its answer still goes out.
KeysDerived(s, t) ==
  /\ t.step = "crypto" /\ t.frame.kind \in {"init", "response"}
  /\ hs' = [hs EXCEPT ![s] = IF @ = "none" THEN "keys" ELSE @]
  /\ wire' = Post(s, Handshake(IF t.frame.kind = "init" THEN "response" ELSE "request"))
  /\ tasks' = Finished(s, t)
  /\ UNCHANGED <<phase, chan>>

\* Bug: the consumer opens without answering the provider's confirmation request.
ConfirmedSilently(s, t) ==
  /\ t.step = "crypto" /\ t.frame.kind \in {"request", "confirm"}
  /\ hs' = [hs EXCEPT ![s] = "confirmed"]
  /\ tasks' = IF phase[s] \in {"closed", "failed"} THEN Finished(s, t)
              ELSE [tasks EXCEPT ![s] = (@ \ {t}) \union {[t EXCEPT !.step = "import"]}]
  /\ UNCHANGED <<phase, chan, wire>>
\* the confirmation of the peer has verified: the consumer answers it, and both go on
\* to import the channel's key. Of a session that failed meanwhile the keys are gone and
\* exportKeys throws.
Confirmed(s, t) ==
  /\ t.step = "crypto" /\ t.frame.kind \in {"request", "confirm"}
  /\ hs' = [hs EXCEPT ![s] = "confirmed"]
  /\ wire' = IF s = "consumer" THEN Post(s, Handshake("confirm")) ELSE wire
  /\ tasks' = IF phase[s] \in {"closed", "failed"} THEN Finished(s, t)
              ELSE [tasks EXCEPT ![s] = (@ \ {t}) \union {[t EXCEPT !.step = "import"]}]
  /\ UNCHANGED <<phase, chan>>

\* finishOpen: a fresh channel, whatever happened to the session meanwhile
FinishOpen(s, t) ==
  /\ t.step = "import"
  /\ chan' = [chan EXCEPT ![s] = NoChannel]
  /\ phase' = [phase EXCEPT ![s] = "open"]
  /\ tasks' = Finished(s, t)
  /\ UNCHANGED <<hs, wire>>

\* AeadChannel.open after decrypt: the counter follows the frame that was opened last
Opened(s, t) ==
  /\ t.step = "crypto" /\ t.frame.kind = "sealed"
  /\ chan' = [chan EXCEPT ![s].recv = t.frame.counter + 1]
  /\ tasks' = Finished(s, t)
  /\ UNCHANGED <<phase, hs, wire>>

HandlerStep(s) ==
  /\ \E t \in tasks[s] : KeysDerived(s, t) \/ Confirmed(s, t) \/ FinishOpen(s, t) \/ Opened(s, t)
  /\ snapshot' = IF link = "hub" /\ s = "provider" /\ phase[s] # "open" /\ phase'[s] = "open"
                 THEN NoChannel ELSE snapshot
  /\ UNCHANGED <<deaf, link, made, sealing, awake, faults, sleeps, disturbed>>

\* send as far as its first await: AeadChannel.seal takes the counter at once and
\* then encrypts
Send(s) ==
  /\ phase[s] = "open" /\ chan[s].send < MaxSends
  /\ s = "consumer" \/ awake
  /\ chan' = [chan EXCEPT ![s].send = @ + 1]
  /\ sealing' = [sealing EXCEPT ![s] = @ \union {chan[s].send}]
  /\ UNCHANGED <<deaf, link, made, phase, hs, wire, tasks, awake, snapshot, faults, sleeps, disturbed>>

\* an encryption has ended, before or after that of another send: the frame goes out
SealedOut(s) ==
  /\ \E c \in sealing[s] :
       /\ wire' = Post(s, Sealed(c))
       /\ sealing' = [sealing EXCEPT ![s] = @ \ {c}]
       /\ disturbed' = IF \E d \in sealing[s] : d < c THEN disturbed \union {"overtaken"} ELSE disturbed
  /\ UNCHANGED <<deaf, link, made, phase, hs, chan, tasks, awake, snapshot, faults, sleeps>>

CloseSession(s) ==
  /\ phase[s] \in {"handshaking", "open"}
  /\ s = "consumer" \/ awake
  /\ phase' = [phase EXCEPT ![s] = "closed"]
  /\ deaf' = deaf \union {s}
  /\ disturbed' = disturbed \union {"closed"}
  /\ UNCHANGED <<link, made, hs, chan, wire, tasks, sealing, awake, snapshot, faults, sleeps>>

\* the durable object leaves memory once nothing of it runs
Sleep ==
  /\ link = "hub" /\ awake /\ sleeps < MaxSleeps
  /\ phase["provider"] = "open" /\ tasks["provider"] = {} /\ sealing["provider"] = {}
  /\ awake' = FALSE /\ sleeps' = sleeps + 1
  /\ disturbed' = IF snapshot.send # chan["provider"].send
                  THEN disturbed \union {"stale snapshot"} ELSE disturbed
  /\ UNCHANGED <<deaf, link, made, phase, hs, chan, wire, tasks, sealing, snapshot, faults>>

\* restoreFromHibernation or restoreOne: the session as the attachment has it
Wake ==
  /\ ~awake
  /\ awake' = TRUE
  /\ chan' = [chan EXCEPT !["provider"] = snapshot]
  /\ deaf' = deaf \ {"provider"}
  /\ UNCHANGED <<link, made, phase, hs, wire, tasks, sealing, snapshot, faults, sleeps, disturbed>>

SocketStep == (\E s \in Sides : Create(s) \/ Deliver(s) \/ HandlerStep(s) \/ SealedOut(s)) \/ Wake

SocketNext ==
  \/ SocketStep
  \/ \E s \in Sides : Fault(s) \/ Send(s) \/ CloseSession(s)
  \/ Sleep

SocketSpec == SocketInit /\ [][SocketNext]_socketVars /\ WF_socketVars(SocketStep)

SocketTypeOK ==
  /\ link \in {"stream", "hub", "datagram"} /\ made \subseteq Sides
  /\ phase \in [Sides -> {"handshaking", "open", "closed", "failed"}]
  /\ hs \in [Sides -> {"none", "keys", "confirmed"}]
  /\ \A s \in Sides : chan[s].send \in 0..MaxSends /\ chan[s].recv \in 0..MaxSends
  /\ \A s \in Sides : sealing[s] \subseteq 0..MaxSends - 1
  /\ awake \in BOOLEAN /\ faults \in 0..MaxFaults /\ sleeps \in 0..MaxSleeps

\* Whoever uses a session as it should be used keeps it: with no fault of the network
\* and nobody closing it, a side fails only when the peer's first sealed frame overtook
\* its own key import, when the durable object woke with counters written before its
\* last sends, or when of two sends that overlapped the later one was encrypted first
\* (aead.ts:129-146 takes the counter before the encryption that session.ts:178 awaits;
\* the peer then refuses the earlier frame as a replay). Frames whose decryption ends
\* out of order, sends that overlap but end in their order, and a hibernation right
\* after a received frame do not break it.
FailsOnlyWhenDisturbed == disturbed = {} => \A s \in Sides : phase[s] # "failed"

\* The handshake ends: both sides open, unless something of the above disturbed it (an
\* init that arrives before the consumer's key pair is there is dropped and nobody
\* repeats it).
HandshakeEnds == <>(disturbed # {} \/ \A s \in Sides : phase[s] = "open")
====
