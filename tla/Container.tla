---- MODULE Container ----
(***************************************************************************)
(* The dependency injection container of di-framework-core (container.ts). *)
(* resolve is recursive: it instantiates a class, which resolves what the  *)
(* constructor takes, and then what its properties want. frames is that    *)
(* recursion, resolutionStack the set that resolve keeps beside it to find *)
(* circles, and outcome what the innermost call has just returned or       *)
(* thrown. Every class has two keys, itself and its name, and register     *)
(* gives each of them a definition of its own.                             *)
(***************************************************************************)
EXTENDS Naturals, Sequences, FiniteSets

CONSTANTS ClassCount, \* classes are numbered in the order their constructors list them
          MaxEdges,   \* injected parameters and properties of the whole program
          MaxOps      \* calls of the application

ASSUME ContainerAssumption == ClassCount \in Nat

VARIABLES params, props,   \* what a class injects: constructor parameters, properties
          oddity,          \* the one class that is not an ordinary singleton class
          services,        \* key -> its definition
          stackFrames,          \* instantiations going on, the innermost last
          resolutionStack,
          outcome,         \* what the innermost call has come to
          instances,       \* every object built: its class, key and what it misses
          subscribers,     \* instances the container's events are sent to
          operations,
          wanted,           \* the application's call going on or just over, {} for another operation
          built            \* instances each definition has been given since it was made

containerVars == <<params, props, oddity, services, stackFrames, resolutionStack, outcome, instances,
                   subscribers, operations, wanted, built>>

Classes == 1..ClassCount
ClassKey(c) == <<"class", c>>
NameKey(c) == <<"name", c>>
Keys == {"class", "name"} \X Classes
Nothing == [kind |-> "none", inst |-> 0]
Value(i) == [kind |-> "value", inst |-> i]
Error == [kind |-> "error", inst |-> 0]
NoDefinition == [kind |-> "none", single |-> FALSE, inst |-> 0]
Definition(kind, single) == [kind |-> kind, single |-> single, inst |-> 0]
Oddities == {<<"none", 1>>} \union ({"transient", "factory", "absent", "faulty"} \X Classes)
Is(what, c) == oddity = <<what, c>>

\* register: the class and its name get definitions of their own; registerFactory with a
\* string registers that one
OwnDefinition(key) ==
  LET single == ~Is("transient", key[2]) IN
    CASE Is("absent", key[2]) -> NoDefinition
      [] Is("factory", key[2]) -> IF key[1] = "name" THEN Definition("factory", single) ELSE NoDefinition
      [] OTHER -> Definition("class", single)

Pairs == {p \in Classes \X Classes : p[1] # p[2]}
ContainerInit ==
  /\ \E edges \in {e \in SUBSET (Pairs \X {"param", "prop"}) : Cardinality(e) <= MaxEdges} :
       /\ params = [c \in Classes |-> {d \in Classes : <<<<c, d>>, "param">> \in edges}]
       /\ props = [c \in Classes |-> {d \in Classes : <<<<c, d>>, "prop">> \in edges}]
  /\ oddity \in Oddities
  /\ services = [k \in Keys |-> OwnDefinition(k)]
  /\ stackFrames = << >> /\ resolutionStack = {} /\ outcome = Nothing
  /\ instances = << >> /\ subscribers = {} /\ operations = 0 /\ wanted = {}
  /\ built = [k \in Keys |-> {}]

Program == <<params, props, oddity>>
AtRest == stackFrames = << >>
Top == stackFrames[Len(stackFrames)]
Below == SubSeq(stackFrames, 1, Len(stackFrames) - 1)
Least(S) == CHOOSE d \in S : \A e \in S : d <= e
NewFrame(key, cached, overrides) ==
  [key |-> key, cached |-> cached, at |-> "params", todo |-> params[key[2]] \ overrides, inst |-> 0]

\* a singleton that has its instance
Found(key) == services[key].single /\ services[key].inst # 0
Circular(key) == key \in resolutionStack

\* Bug: nothing is kept, a singleton is built for every caller.
CachedNever(def, i) == def
\* what resolve keeps of the instance it has made
Cached(def, i) == IF def.single THEN [def EXCEPT !.inst = i] ELSE def

\* a factory is called at once and builds something of its own
FromFactory(key) ==
  LET i == Len(instances) + 1 IN
    /\ instances' = Append(instances, [class |-> key[2], key |-> key, missing |-> {}])
    /\ services' = [services EXCEPT ![key] = Cached(@, i)]
    /\ built' = [built EXCEPT ![key] = @ \union {i}]
    /\ outcome' = Value(i)
    /\ UNCHANGED <<stackFrames, resolutionStack>>

\* resolve, up to the recursion: the circle is looked for before the cache is
Enter(key) ==
  \/ /\ Circular(key) \/ services[key] = NoDefinition
     /\ outcome' = Error
     /\ UNCHANGED <<services, stackFrames, resolutionStack, instances, built>>
  \/ /\ ~Circular(key) /\ services[key] # NoDefinition /\ Found(key)
     /\ outcome' = Value(services[key].inst)
     /\ UNCHANGED <<services, stackFrames, resolutionStack, instances, built>>
  \/ /\ ~Circular(key) /\ ~Found(key) /\ services[key].kind = "factory"
     /\ FromFactory(key)
  \/ /\ ~Circular(key) /\ ~Found(key) /\ services[key].kind = "class"
     /\ stackFrames' = Append(stackFrames, NewFrame(key, TRUE, {}))
     /\ resolutionStack' = resolutionStack \union {key}
     /\ outcome' = Nothing
     /\ UNCHANGED <<services, instances, built>>

\* the application's calls, one after the other
Resolve(key) ==
  /\ AtRest /\ operations < MaxOps /\ operations' = operations + 1
  /\ Enter(key) /\ wanted' = {key}
  /\ UNCHANGED <<Program, subscribers>>

\* a parameter is resolved by its class if that is registered, else by its name
ParamKey(d) == IF services[ClassKey(d)] # NoDefinition THEN ClassKey(d) ELSE NameKey(d)

\* construct: an instance of its own, with some parameters given by hand
Construct(c, overrides) ==
  /\ AtRest /\ operations < MaxOps /\ operations' = operations + 1
  /\ overrides \subseteq params[c]
  /\ wanted' = {ParamKey(d) : d \in params[c] \ overrides} \union (IF Is("faulty", c) THEN {ClassKey(c)} ELSE {})
  /\ stackFrames' = Append(stackFrames, NewFrame(ClassKey(c), FALSE, overrides))
  /\ resolutionStack' = resolutionStack \union {ClassKey(c)}
  /\ outcome' = Nothing
  /\ UNCHANGED <<Program, services, instances, subscribers, built>>

\* registering again replaces both definitions, and with them the instances they held
Register(c) ==
  /\ AtRest /\ operations < MaxOps /\ operations' = operations + 1
  /\ \E k \in {ClassKey(c), NameKey(c)} : services[k] # OwnDefinition(k)
  /\ services' = [k \in Keys |-> IF k[2] = c /\ OwnDefinition(k) # NoDefinition THEN OwnDefinition(k) ELSE services[k]]
  /\ built' = [k \in Keys |-> IF k[2] = c THEN {} ELSE built[k]]
  /\ wanted' = {} /\ outcome' = Nothing
  /\ UNCHANGED <<Program, stackFrames, resolutionStack, instances, subscribers>>

\* clear forgets definitions and listeners
Clear ==
  /\ AtRest /\ operations < MaxOps /\ operations' = operations + 1
  /\ services' = [k \in Keys |-> NoDefinition]
  /\ subscribers' = {}
  /\ built' = [k \in Keys |-> {}]
  /\ wanted' = {} /\ outcome' = Nothing
  /\ UNCHANGED <<Program, stackFrames, resolutionStack, instances>>

\* fork: the program goes on with a copy of the definitions, with or without what they
\* hold; listeners stay with the original
Fork(carrySingletons) ==
  /\ AtRest /\ operations < MaxOps /\ operations' = operations + 1
  /\ services' = [k \in Keys |-> IF carrySingletons THEN services[k] ELSE [services[k] EXCEPT !.inst = 0]]
  /\ built' = [k \in Keys |-> IF carrySingletons THEN built[k] ELSE {}]
  /\ subscribers' = {}
  /\ wanted' = {} /\ outcome' = Nothing
  /\ UNCHANGED <<Program, stackFrames, resolutionStack, instances>>

\* Bug: an instantiation that throws leaves its key on the stack.
LeftOnStack(key) == resolutionStack
\* finally: the key leaves the stack however the instantiation ends
Popped(key) == resolutionStack \ {key}

\* the constructor's parameters are resolved in order
ResolveParam ==
  /\ Top.at = "params" /\ Top.todo # {} /\ outcome = Nothing
  /\ Enter(ParamKey(Least(Top.todo)))
  /\ UNCHANGED <<Program, subscribers, operations, wanted>>
ResolutionReturns ==
  /\ outcome.kind = "value" /\ Top.todo # {}
  /\ stackFrames' = Append(Below, [Top EXCEPT !.todo = @ \ {Least(@)}])
  /\ outcome' = Nothing
  /\ UNCHANGED <<Program, services, resolutionStack, instances, subscribers, operations, wanted, built>>
\* what a parameter's resolution throws, the instantiation throws
ParamFails ==
  /\ Top.at = "params" /\ outcome.kind = "error"
  /\ stackFrames' = Below /\ resolutionStack' = Popped(Top.key)
  /\ UNCHANGED <<Program, services, outcome, instances, subscribers, operations, wanted, built>>

\* new, and what is applied to the instance: its subscribers, then its cron schedules. A
\* schedule of other than five fields throws when the subscribers are there already.
New ==
  /\ Top.at = "params" /\ Top.todo = {} /\ outcome = Nothing
  /\ LET i == Len(instances) + 1
         c == Top.key[2] IN
       /\ instances' = Append(instances, [class |-> c, key |-> Top.key, missing |-> {}])
       /\ subscribers' = subscribers \union {i}
       /\ IF Is("faulty", c)
          THEN /\ stackFrames' = Below /\ resolutionStack' = Popped(Top.key)
               /\ outcome' = Error
          ELSE /\ stackFrames' = Append(Below, [Top EXCEPT !.at = "props", !.todo = props[c], !.inst = i])
               /\ UNCHANGED <<resolutionStack, outcome>>
  /\ UNCHANGED <<Program, services, operations, wanted, built>>

\* properties are resolved by their class, after the constructor has run; one that cannot
\* be resolved is warned about and stays undefined
ResolveProperty ==
  /\ Top.at = "props" /\ Top.todo # {} /\ outcome = Nothing
  /\ Enter(ClassKey(Least(Top.todo)))
  /\ UNCHANGED <<Program, subscribers, operations, wanted>>
PropertyFails ==
  /\ Top.at = "props" /\ outcome.kind = "error"
  /\ stackFrames' = Append(Below, [Top EXCEPT !.todo = @ \ {Least(@)}])
  /\ instances' = [instances EXCEPT ![Top.inst].missing = @ \union {Least(Top.todo)}]
  /\ outcome' = Nothing
  /\ UNCHANGED <<Program, services, resolutionStack, subscribers, operations, wanted, built>>

\* the instance is kept, if it is a singleton's, and returned
Return ==
  /\ Top.at = "props" /\ Top.todo = {} /\ outcome = Nothing
  /\ services' = IF Top.cached THEN [services EXCEPT ![Top.key] = Cached(@, Top.inst)] ELSE services
  /\ built' = IF Top.cached THEN [built EXCEPT ![Top.key] = @ \union {Top.inst}] ELSE built
  /\ stackFrames' = Below /\ resolutionStack' = Popped(Top.key)
  /\ outcome' = Value(Top.inst)
  /\ UNCHANGED <<Program, instances, subscribers, operations, wanted>>

Instantiate ==
  stackFrames # << >> /\ (ResolveParam \/ ResolutionReturns \/ ParamFails \/ New \/ ResolveProperty \/ PropertyFails \/ Return)

ContainerNext ==
  \/ Instantiate
  \/ \E k \in Keys : Resolve(k)
  \/ \E c \in Classes : Register(c) \/ \E overrides \in SUBSET params[c] : Construct(c, overrides)
  \/ Clear \/ \E carry \in BOOLEAN : Fork(carry)

ContainerSpec == ContainerInit /\ [][ContainerNext]_containerVars

ContainerTypeOK ==
  /\ resolutionStack \subseteq Keys
  /\ DOMAIN services = Keys
  /\ outcome.kind \in {"none", "value", "error"}
  /\ subscribers \subseteq 1..Len(instances)

\* what the constructor behind a key takes
ParamKeys(key) == IF services[key].kind = "class" THEN {ParamKey(d) : d \in params[key[2]]} ELSE {}
\* what building key resolves for constructors, key included, directly or not: the least set
\* of keys with it that has what its constructors take
Resolves(key) ==
  LET closed == {S \in SUBSET Keys : key \in S /\ \A k \in S : ParamKeys(k) \subseteq S}
  IN {k \in Keys : \A S \in closed : k \in S}
OnCircle(key) ==
  services[key].kind = "class" /\ \E d \in params[key[2]] : key \in Resolves(ParamKey(d))
Broken(key) ==
  \E k \in Resolves(key) : \/ services[k] = NoDefinition
                           \/ OnCircle(k)
                           \/ services[k].kind = "class" /\ Is("faulty", k[2])
\* the classes a class leads to, by parameters and properties, itself included
DependsOn(c) ==
  LET closed == {S \in SUBSET Classes : c \in S /\ \A d \in S : params[d] \union props[d] \subseteq S}
  IN {d \in Classes : \A S \in closed : d \in S}

\* A call of resolve or construct throws exactly when a constructor it needs cannot be
\* called: its definition is missing, it throws, or constructors need each other in a
\* circle. Circles through properties, earlier failures and what is in the cache make no
\* difference.
ThrowsForCause ==
  AtRest /\ wanted # {} => (outcome.kind = "error" <=> \E k \in wanted : Broken(k))

\* A singleton's definition makes one instance, however the calls for it are nested.
BuiltOnce == \A k \in Keys : services[k].single => Cardinality(built[k]) <= 1

\* A property stays undefined only if its class cannot be built, or leads back to the
\* class of the instance that wants it.
UndefinedForCause ==
  [][\A i \in 1..Len(instances) : \A d \in instances'[i].missing \ instances[i].missing :
       Broken(ClassKey(d)) \/ instances[i].class \in DependsOn(d)]_containerVars
====
