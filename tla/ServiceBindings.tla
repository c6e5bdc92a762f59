-------------------------- MODULE ServiceBindings --------------------------
(***************************************************************************)
(* Bindings between services of one process                                 *)
(* (core/service-bindings/runtime.ts, registry.ts, local-dev.ts, proxy.ts,  *)
(* and container.ts where it resolves binding tokens). Services export      *)
(* operations, callers reach them through named bindings that configuration *)
(* and grants may change at any time, and a report tells how every binding  *)
(* stands. A binding without a target of its own leads to the service of    *)
(* its name.                                                                *)
(***************************************************************************)
EXTENDS Naturals, FiniteSets

CONSTANTS BoundCallers,   \* services that call
          CurrentService, \* the one this process is
          Services,       \* names of exported services, names of bindings too
          Offered,        \* operations
          MaxReconfigurations,
          Anyone, NoTarget

ASSUME BindingsAssumption == Anyone \notin BoundCallers /\ NoTarget \notin Services

VARIABLES exported,   \* service -> what it exports, its version and whether it runs
          boundTo,    \* caller -> binding -> target, or NoTarget
          granted,    \* caller or Anyone -> target -> whether there is a grant, and its operations
          mocked,     \* caller or Anyone -> binding -> operations of its mock, {} without one
          tokens,     \* container: caller's or Anyone's token of a binding -> what it makes
          enforced,   \* whether grants count, and whether they count for mocks
          steps,      \* changes of configuration
          answer      \* what the last call came to

bindingVars == <<exported, boundTo, granted, mocked, tokens, enforced, steps, answer>>
NotExported == [ops |-> {}, version |-> 0, running |-> FALSE, needsGrant |-> TRUE]
NoGrant == [there |-> FALSE, ops |-> {}]
NoAnswer == [kind |-> "none", version |-> 0]
Answer(kind) == [NoAnswer EXCEPT !.kind = kind]

Reconfigure ==
  /\ steps < MaxReconfigurations /\ steps' = steps + 1 /\ answer' = NoAnswer
\* registerService, and reloadService, which is the same: the definition is replaced, and runs
Export(s, ops, needsGrant) ==
  /\ Reconfigure
  /\ exported' = [exported EXCEPT ![s] = [ops |-> ops, version |-> steps + 1, running |-> TRUE, needsGrant |-> needsGrant]]
  /\ UNCHANGED <<boundTo, granted, mocked, tokens, enforced>>
Unregister(s) ==
  /\ Reconfigure /\ exported[s].version # 0
  /\ exported' = [exported EXCEPT ![s] = NotExported]
  /\ UNCHANGED <<boundTo, granted, mocked, tokens, enforced>>
\* startService and stopService
SetServiceStatus(s) ==
  /\ Reconfigure /\ exported[s].version # 0
  /\ exported' = [exported EXCEPT ![s].running = ~@]
  /\ UNCHANGED <<boundTo, granted, mocked, tokens, enforced>>
\* bind of the local manager: a mapping, and a grant that replaces the one there was
BindService(c, b, target, ops, grantAccess) ==
  /\ Reconfigure
  /\ boundTo' = [boundTo EXCEPT ![c][b] = target]
  /\ granted' = IF grantAccess THEN [granted EXCEPT ![c][target] = [there |-> TRUE, ops |-> ops]] ELSE granted
  /\ UNCHANGED <<exported, mocked, tokens, enforced>>
\* configure with a grant, possibly for every caller
AddGrant(c, target, ops) ==
  /\ Reconfigure
  /\ granted' = [granted EXCEPT ![c][target] = [there |-> TRUE, ops |-> ops]]
  /\ UNCHANGED <<exported, boundTo, mocked, tokens, enforced>>
RevokeGrant(c, target) ==
  /\ Reconfigure /\ granted[c][target].there
  /\ granted' = [granted EXCEPT ![c][target] = NoGrant]
  /\ UNCHANGED <<exported, boundTo, mocked, tokens, enforced>>
\* substituteMock; with no operations it is removeMock
SubstituteMock(c, b, ops) ==
  /\ Reconfigure
  /\ mocked' = [mocked EXCEPT ![c][b] = ops]
  /\ UNCHANGED <<exported, boundTo, granted, tokens, enforced>>
ClearMocks ==
  /\ Reconfigure
  /\ mocked' = [c \in BoundCallers \union {Anyone} |-> [b \in Services |-> {}]]
  /\ UNCHANGED <<exported, boundTo, granted, tokens, enforced>>
SetEnforced(e) ==
  /\ Reconfigure /\ enforced' = e
  /\ UNCHANGED <<exported, boundTo, granted, mocked, tokens>>

\* getMock: the caller's before everyone's
MockOf(c, b) == IF mocked[c][b] # {} THEN mocked[c][b] ELSE mocked[Anyone][b]
\* isCallerAuthorized: a service that needs no grant, a grant to the caller or to everyone
IsCallerAuthorized(c, target) ==
  \/ exported[target].version # 0 /\ ~exported[target].needsGrant
  \/ granted[c][target].there \/ granted[Anyone][target].there
\* getAllowedOperations: the caller's grant hides everyone's; one without a list allows all
AllowedOperations(c, target) ==
  LET grant == IF granted[c][target].there THEN granted[c][target] ELSE granted[Anyone][target]
  IN IF grant.ops = {} THEN Offered ELSE grant.ops
Configured(c, b) == IF boundTo[c][b] # NoTarget THEN boundTo[c][b] ELSE b

\* Bug: a target is looked for before the caller is.
AvailableFirst(c, target, op) ==
  IF ~exported[target].running THEN "unavailable"
  ELSE IF enforced.calls /\ ~IsCallerAuthorized(c, target) THEN "unbound"
  ELSE IF op \notin exported[target].ops THEN "incompatible"
  ELSE IF op \notin AllowedOperations(c, target) THEN "not allowed"
  ELSE "served"
\* invoke from step 3 on: the caller, the target, the operation, the operations granted.
\* What a grant names is looked at whether or not grants count.
Refusal(c, target, op) ==
  IF enforced.calls /\ ~IsCallerAuthorized(c, target) THEN "unbound"
  ELSE IF ~exported[target].running THEN "unavailable"
  ELSE IF op \notin exported[target].ops THEN "incompatible"
  ELSE IF op \notin AllowedOperations(c, target) THEN "not allowed"
  ELSE "served"
Mocking(c, target, ops, op) ==
  IF enforced.calls /\ enforced.mocks /\ ~IsCallerAuthorized(c, target) THEN "unbound"
  ELSE IF op \in ops THEN "mock" ELSE "incompatible"
\* invoke: a mock answers first, then one that the container makes for the binding's token;
\* a target that is neither configured nor a service's name misses its binding
Invoke(c, b, op, explicit) ==
  LET target == IF explicit # NoTarget THEN explicit ELSE Configured(c, b)
      ops == IF MockOf(c, b) # {} THEN MockOf(c, b)
             ELSE IF tokens[c][b] = "mock" \/ tokens[Anyone][b] = "mock" THEN Offered ELSE {}
      kind == IF ops # {} THEN Mocking(c, target, ops, op)
              ELSE IF boundTo[c][b] = NoTarget /\ explicit = NoTarget /\ exported[target].version = 0 THEN "missing"
              ELSE Refusal(c, target, op)
  IN /\ answer' = [kind |-> kind, version |-> IF kind = "served" THEN exported[target].version ELSE 0]
     /\ UNCHANGED <<exported, boundTo, granted, mocked, tokens, enforced, steps>>

\* resolve of a token that nothing was registered for: the binding's global token if there
\* is one, else a client that speaks for the caller in the token
Client(c) == IF c = Anyone THEN CurrentService ELSE c
MakesGlobal(c, b) == c # Anyone /\ tokens[c][b] = "none" /\ tokens[Anyone][b] # "none"
\* Bug: a client made for a token speaks for this process's service.
OnceResolvedForProcess(c, b) ==
  IF tokens[c][b] # "none" THEN tokens[c][b]
  ELSE IF MakesGlobal(c, b) THEN tokens[Anyone][b] ELSE Client(Anyone)
OnceResolved(c, b) ==
  IF tokens[c][b] # "none" THEN tokens[c][b]
  ELSE IF MakesGlobal(c, b) THEN tokens[Anyone][b] ELSE Client(c)
ResolveToken(c, b) ==
  /\ answer' = [kind |-> "client", version |-> 0, client |-> OnceResolved(c, b)]
  /\ tokens' = IF MakesGlobal(c, b) THEN tokens ELSE [tokens EXCEPT ![c][b] = OnceResolved(c, b)]
  /\ UNCHANGED <<exported, boundTo, granted, mocked, enforced, steps>>
\* a test registers an object of its own for a token
RegisterToken(c, b) ==
  /\ Reconfigure
  /\ tokens' = [tokens EXCEPT ![c][b] = "mock"]
  /\ UNCHANGED <<exported, boundTo, granted, mocked, enforced>>

BindingsInit ==
  /\ exported = [s \in Services |-> NotExported]
  /\ boundTo = [c \in BoundCallers |-> [b \in Services |-> NoTarget]]
  /\ granted = [c \in BoundCallers \union {Anyone} |-> [s \in Services |-> NoGrant]]
  /\ mocked = [c \in BoundCallers \union {Anyone} |-> [b \in Services |-> {}]]
  /\ tokens = [c \in BoundCallers \union {Anyone} |-> [b \in Services |-> "none"]]
  /\ enforced = [calls |-> TRUE, mocks |-> FALSE]
  /\ steps = 0 /\ answer = NoAnswer

BindingsNext ==
  \/ \E s \in Services :
       \/ Unregister(s) \/ SetServiceStatus(s)
       \/ \E ops \in SUBSET Offered : \E needs \in BOOLEAN : Export(s, ops, needs)
       \/ \E c \in BoundCallers \union {Anyone} :
            \/ \E ops \in SUBSET Offered : AddGrant(c, s, ops) \/ SubstituteMock(c, s, ops)
            \/ RevokeGrant(c, s) \/ ResolveToken(c, s) \/ RegisterToken(c, s)
  \/ ClearMocks \/ \E calls, mocks \in BOOLEAN : SetEnforced([calls |-> calls, mocks |-> mocks])
  \/ \E c \in BoundCallers, b \in Services :
       \/ \E t \in Services, ops \in {{}, Offered}, g \in BOOLEAN : BindService(c, b, t, ops, g)
       \/ \E op \in Offered, t \in Services \union {NoTarget} : Invoke(c, b, op, t)

BindingsSpec == BindingsInit /\ [][BindingsNext]_bindingVars

BindingsTypeOK ==
  /\ \A s \in Services : exported[s].ops \subseteq Offered /\ exported[s].version \in 0..MaxReconfigurations
  /\ \A c \in BoundCallers, b \in Services : boundTo[c][b] \in Services \union {NoTarget}

\* getStatus, for a binding that is configured
Status(c, b) ==
  IF MockOf(c, b) # {} THEN "MOCKED"
  ELSE IF enforced.calls /\ ~IsCallerAuthorized(c, boundTo[c][b]) THEN "UNBOUND"
  ELSE IF ~exported[boundTo[c][b]].running THEN "UNAVAILABLE"
  ELSE "CONNECTED"

\* A call over a configured binding comes to what the report says of it at the time: a
\* connected one is served by the version that is exported now, or refuses the operation
\* alone. (The report does not see mocks that only the container has, and a client with a
\* target of its own goes elsewhere.)
ReportTells ==
  [][\A c \in BoundCallers, b \in Services, op \in Offered :
       boundTo[c][b] # NoTarget /\ tokens[c][b] # "mock" /\ tokens[Anyone][b] # "mock"
         /\ Invoke(c, b, op, NoTarget) =>
         CASE Status(c, b) = "MOCKED" -> answer'.kind \in {"mock", "incompatible"} \/ enforced.mocks
           [] Status(c, b) = "UNBOUND" -> answer'.kind = "unbound"
           [] Status(c, b) = "UNAVAILABLE" -> answer'.kind = "unavailable"
           [] OTHER -> \/ answer'.kind = "served" /\ answer'.version = exported[boundTo[c][b]].version
                       \/ answer'.kind \in {"incompatible", "not allowed"}]_bindingVars

\* A client that is resolved for a caller speaks for that caller, whichever tokens were
\* resolved before, as long as nothing is registered under the binding's global token.
SpeaksForItsCaller ==
  [][\A c \in BoundCallers, b \in Services :
       ResolveToken(c, b) /\ tokens[Anyone][b] = "none" /\ tokens[c][b] # "mock" =>
         answer'.client = c]_bindingVars
=============================================================================
