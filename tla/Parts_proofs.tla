---------------------------- MODULE Parts_proofs ----------------------------
(***************************************************************************)
(* Seven of the components that MCData puts together, each by itself, for   *)
(* every value of its constants: the container and its resolutions         *)
(* (Container), its events, published calls and cron timers                *)
(* (ContainerEvents), the bindings of services (ServiceBindings), blob     *)
(* stores (BlobStores), the databases of hosts (HostDatabases),            *)
(* repositories (Repositories) and policies (Policies).  Each has its      *)
(* inductive invariant and a theorem of its own specification; Data_proofs *)
(* puts them together.                                                     *)
(***************************************************************************)
EXTENDS Container, ContainerEvents, ServiceBindings, BlobStores, HostDatabases, Repositories,
        Policies, SequenceTheorems, FiniteSetTheorems, WellFoundedInduction, TLAPS
-----------------------------------------------------------------------------
\* A set of numbers has a least one, and one that is bounded a greatest one.
LEMMA LeastOf ==
  ASSUME NEW T \in SUBSET Nat, T # {}
  PROVE  \E x \in T : \A y \in T : x <= y
<1> DEFINE R == {ss \in Nat \X Nat : ss[1] < ss[2]}
<1>1. IsWellFoundedOn(R, Nat)
  BY NatLessThanWellFounded DEF OpToRel
<1>2. \A x, y \in Nat : y < x => <<y, x>> \in R
  OBVIOUS
<1>3. T \subseteq Nat
  OBVIOUS
<1> HIDE DEF R
<1>4. PICK x \in T : \A y \in T : ~(<<y, x>> \in R)
  BY <1>1, <1>3, WFMin
<1>5. ASSUME NEW y \in T PROVE x <= y
  <2>1. x \in Nat /\ y \in Nat
    BY <1>3
  <2>2. ~(y < x)
    BY <1>4, <1>2, <2>1
  <2> QED
    BY <2>1, <2>2
<1> QED
  BY <1>5

\* A set of positions that is not empty has a last one, too.
LEMMA GreatestOf ==
  ASSUME NEW n \in Nat, NEW T \in SUBSET (0..n), T # {}
  PROVE  \E x \in T : \A y \in T : y <= x
<1> DEFINE U == {n - x : x \in T}
<1>1. U \in SUBSET Nat /\ U # {}
  <2>1. \A x \in T : n - x \in Nat
    <3> TAKE x \in T
    <3>1. x \in 0..n
      OBVIOUS
    <3> QED
      BY <3>1
  <2> QED
    BY <2>1
<1> HIDE DEF U
<1>2. PICK u \in U : \A w \in U : u <= w
  BY <1>1, LeastOf
<1>3. PICK x \in T : u = n - x
  BY <1>2 DEF U
<1>4. ASSUME NEW y \in T PROVE y <= x
  <2>1. u <= n - y
    BY <1>2 DEF U
  <2>2. x \in 0..n /\ y \in 0..n
    OBVIOUS
  <2> QED
    BY <1>3, <2>1, <2>2
<1> QED
  BY <1>4

\* A function on 1..n is a sequence of that length.
LEMMA FunctionIsSeq ==
  ASSUME NEW S, NEW n \in Nat, NEW f \in [1..n -> S]
  PROVE  f \in Seq(S) /\ Len(f) = n
<1>1. f \in Seq(S)
  BY SeqDef
<1>2. DOMAIN f = 1..Len(f) /\ Len(f) \in Nat
  BY <1>1, LenProperties
<1> DEFINE k == Len(f)
<1>3. 1..n = 1..k /\ k \in Nat
  BY <1>2
<1> HIDE DEF k
<1>4. k = n
  BY <1>3
<1> QED
  BY <1>1, <1>4 DEF k

\* A sequence with one more element.
LEMMA OneMore ==
  ASSUME NEW S, NEW s \in Seq(S), NEW e \in S
  PROVE  /\ s \o <<e>> \in Seq(S) /\ Len(s \o <<e>>) = Len(s) + 1
         /\ (s \o <<e>>)[Len(s) + 1] = e
         /\ \A k \in 1..Len(s) : (s \o <<e>>)[k] = s[k]
<1>1. <<e>> \in Seq(S) /\ Len(<<e>>) = 1 /\ <<e>>[1] = e
  OBVIOUS
<1>2. Len(s) \in Nat
  BY LenProperties
<1> DEFINE t == <<e>>
<1> HIDE DEF t
<1>3. /\ s \o t \in Seq(S) /\ Len(s \o t) = Len(s) + Len(t)
      /\ \A i \in 1 .. Len(s) + Len(t) : (s \o t)[i] = IF i <= Len(s) THEN s[i] ELSE t[i - Len(s)]
  BY <1>1, ConcatProperties DEF t
<1>4. Len(t) = 1 /\ t[1] = e
  BY <1>1 DEF t
<1> QED
  BY <1>2, <1>3, <1>4 DEF t

\* The remainder of a multiple and a small number is that number.
LEMMA SmallModulus == ASSUME NEW M \in Nat \ {0}, NEW r \in 0 .. M - 1, NEW q \in Int PROVE r % M = r /\ (q * M + r) % M = r
OBVIOUS

\* A sequence without its last element, and with another in its place.
LEMMA LastDropped ==
  ASSUME NEW S, NEW s \in Seq(S), s # << >>
  PROVE  /\ SubSeq(s, 1, Len(s) - 1) \in Seq(S) /\ Len(SubSeq(s, 1, Len(s) - 1)) = Len(s) - 1
         /\ \A i \in 1 .. Len(s) - 1 : SubSeq(s, 1, Len(s) - 1)[i] = s[i]
         /\ Len(s) \in Nat \ {0} /\ DOMAIN s = 1 .. Len(s)
<1> DEFINE n == Len(s)
<1>1. n \in Nat \ {0} /\ DOMAIN s = 1 .. n
  BY EmptySeq, LenProperties
<1>2. \A i \in 1 .. n : s[i] \in S
  BY ElementOfSeq
<1> HIDE DEF n
<1>3. /\ SubSeq(s, 1, n - 1) \in Seq(S)
      /\ Len(SubSeq(s, 1, n - 1)) = IF 1 <= n - 1 THEN n - 1 - 1 + 1 ELSE 0
      /\ \A i \in 1 .. n - 1 - 1 + 1 : SubSeq(s, 1, n - 1)[i] = s[1 + i - 1]
  BY <1>1, <1>2, SubSeqProperties
<1>4. Len(SubSeq(s, 1, n - 1)) = n - 1
  BY <1>1, <1>3
<1>5. \A i \in 1 .. n - 1 : SubSeq(s, 1, n - 1)[i] = s[i]
  BY <1>1, <1>3
<1> QED
  BY <1>1, <1>3, <1>4, <1>5 DEF n

\* What replaces the last one leaves the others.
LEMMA LastReplaced ==
  ASSUME NEW S, NEW s \in Seq(S), s # << >>, NEW e \in S
  PROVE  LET t == Append(SubSeq(s, 1, Len(s) - 1), e)
         IN /\ t \in Seq(S) /\ Len(t) = Len(s) /\ t[Len(s)] = e
            /\ \A i \in 1 .. Len(s) - 1 : t[i] = s[i]
<1> DEFINE n == Len(s)
           b == SubSeq(s, 1, n - 1)
<1>1. /\ b \in Seq(S) /\ Len(b) = n - 1 /\ n \in Nat \ {0}
      /\ \A i \in 1 .. n - 1 : b[i] = s[i]
  BY LastDropped
<1> HIDE DEF b, n
<1>2. /\ Append(b, e) \in Seq(S) /\ Len(Append(b, e)) = Len(b) + 1 /\ Append(b, e)[Len(b) + 1] = e
      /\ \A i \in 1 .. Len(b) : Append(b, e)[i] = b[i]
  BY <1>1, AppendProperties
<1>3. Len(b) + 1 = n
  BY <1>1
<1>4. Len(Append(b, e)) = n /\ Append(b, e)[n] = e /\ \A i \in 1 .. n - 1 : Append(b, e)[i] = s[i]
  BY <1>1, <1>2, <1>3
<1> QED
  BY <1>2, <1>4 DEF b, n

(***************************************************************************)
(* Container.                                                              *)
(***************************************************************************)
\* What is reached from x in the graph E over N: the least set with x that has what its members lead to.
Reach(N, E, x) == {y \in N : \A S \in SUBSET N : x \in S /\ (\A z \in S : E[z] \subseteq S) => y \in S}
\* What cannot be built: something bad is reached, or something that is reached from what it leads to.
BrokenIn(E, B, k) == \E x \in Reach(Keys, E, k) : x \in B \/ \E p \in E[x] : x \in Reach(Keys, E, p)

\* What constructors take, and the keys that cannot be built themselves.
Edges == [k \in Keys |-> ParamKeys(k)]
Bad == {k \in Keys : services[k].kind = "none" \/ (services[k].kind = "class" /\ Is("faulty", k[2]))}
Fails(k) == BrokenIn(Edges, Bad, k)
Leads == [c \in Classes |-> params[c] \union props[c]]

\* A definition is its key's own or none; what has been built could be; a singleton has been built
\* once when it has its instance.
DefinitionRecords == [kind : {"none", "class", "factory"}, single : BOOLEAN, inst : Nat]
KeyHolds(k) ==
  /\ services[k].kind \in {"none", OwnDefinition(k).kind}
  /\ services[k].kind = "none" => services[k] = NoDefinition
  /\ services[k].inst # 0 => ~Fails(k)
  /\ services[k].single => built[k] = IF services[k].inst = 0 THEN {} ELSE {services[k].inst}
\* A name is not registered without its class, where that has a definition.
NameFollows(c) ==
  services[ClassKey(c)].kind = "none" /\ OwnDefinition(ClassKey(c)).kind # "none" => services[NameKey(c)].kind = "none"
ProgramTypes == /\ params \in [Classes -> SUBSET Classes] /\ props \in [Classes -> SUBSET Classes]
                /\ oddity \in Oddities
DefinitionsHold ==
  /\ services \in [Keys -> DefinitionRecords]
  /\ built \in [Keys -> SUBSET Nat]
  /\ \A k \in Keys : KeyHolds(k)
  /\ \A c \in Classes : NameFollows(c)

\* An instantiation going on: what it has resolved could be built, and its definition waits for it.
FrameRecords == [key : Keys, cached : BOOLEAN, at : {"params", "props"}, todo : SUBSET Classes, inst : Nat]
InstanceRecords == [class : Classes, key : Keys, missing : SUBSET Classes]
AskedOf(f) == IF f.at = "params" THEN ParamKey(Least(f.todo)) ELSE ClassKey(Least(f.todo))
CachedHolds(f) ==
  /\ services[f.key].kind = "class"
  /\ services[f.key].single => services[f.key].inst = 0
  /\ f.at = "params" => \A d \in params[f.key[2]] : d \in f.todo \/ ~Fails(ParamKey(d))
  /\ f.at = "props" => ~Fails(f.key)
FrameHolds(f) ==
  /\ f.at = "params" => f.todo \subseteq params[f.key[2]]
  /\ f.at = "props" => /\ f.todo \subseteq props[f.key[2]] /\ ~Is("faulty", f.key[2])
                       /\ f.inst \in 1..Len(instances) /\ instances[f.inst].class = f.key[2]
  /\ f.cached => CachedHolds(f)
\* The outermost one answers the application.
ConstructHolds(f) ==
  /\ f.key = ClassKey(f.key[2])
  /\ f.at = "params" =>
       /\ \A x \in wanted : \/ x = f.key /\ Is("faulty", f.key[2])
                            \/ \E d \in params[f.key[2]] : x = ParamKey(d) /\ (d \in f.todo \/ ~Fails(x))
       /\ \A d \in f.todo : ParamKey(d) \in wanted
       /\ Is("faulty", f.key[2]) => f.key \in wanted
  /\ f.at = "props" => \A x \in wanted : ~Fails(x)
OutermostHolds(f) == IF f.cached THEN wanted = {f.key} ELSE ConstructHolds(f)
\* Each but the outermost is what the one before it asks for.
Linked(f, g) == g.cached /\ f.todo # {} /\ g.key = AskedOf(f)
StackTypes ==
  /\ stackFrames \in Seq(FrameRecords) /\ instances \in Seq(InstanceRecords)
  /\ wanted \in SUBSET Keys
  /\ outcome \in [kind : {"none", "value", "error"}, inst : Nat]
  /\ outcome.kind = "value" => outcome.inst # 0
  /\ outcome.kind = "none" => outcome = Nothing
\* The outermost k instantiations.
FirstHold(k) ==
  /\ \A m, l \in 1..k : stackFrames[m].key = stackFrames[l].key => m = l
  /\ \A m \in 1..k : FrameHolds(stackFrames[m])
  /\ \A m \in 1..k - 1 : Linked(stackFrames[m], stackFrames[m + 1])
  /\ \A l \in 1..k : \A m \in 1..l : stackFrames[l].key[2] \in Reach(Classes, Leads, stackFrames[m].key[2])
  /\ k # 0 => OutermostHolds(stackFrames[1])
StackHolds ==
  /\ resolutionStack = {stackFrames[m].key : m \in 1..Len(stackFrames)}
  /\ FirstHold(Len(stackFrames))
\* What an error of the innermost call is owed to.
Reason(x, n) == Fails(x) \/ \E m \in 1..n : stackFrames[m].key \in Reach(Keys, Edges, x)
OutcomeHolds ==
  IF stackFrames = << >>
  THEN wanted # {} => (outcome.kind = "error" <=> \E x \in wanted : Fails(x))
  ELSE /\ outcome.kind # "none" => Top.todo # {}
       /\ outcome.kind = "value" => ~Fails(AskedOf(Top))
       /\ outcome.kind = "error" => Reason(AskedOf(Top), Len(stackFrames))
ContainerIInv == ProgramTypes /\ DefinitionsHold /\ StackTypes /\ StackHolds /\ OutcomeHolds

\* What is reached is in the graph.
LEMMA ReachIsIn == ASSUME NEW N, NEW E, NEW x PROVE Reach(N, E, x) \in SUBSET N
  BY DEF Reach

\* Everything reaches itself.
LEMMA ReachSelf == ASSUME NEW N, NEW E, NEW x \in N PROVE x \in Reach(N, E, x)
  BY DEF Reach

\* What reached keys lead to is reached.
LEMMA ReachClosed ==
  ASSUME NEW N, NEW E, \A z \in N : E[z] \subseteq N, NEW x, NEW z \in Reach(N, E, x)
  PROVE  E[z] \subseteq Reach(N, E, x)
<1> SUFFICES ASSUME NEW y \in E[z] PROVE y \in Reach(N, E, x)
  OBVIOUS
<1>1. z \in N
  BY DEF Reach
<1>2. y \in N
  BY <1>1
<1>3. ASSUME NEW S \in SUBSET N, x \in S, \A w \in S : E[w] \subseteq S PROVE y \in S
  BY <1>3 DEF Reach
<1> QED
  BY <1>2, <1>3 DEF Reach

\* Nothing is reached but what a closed set with the start has to have.
LEMMA ReachLeast ==
  ASSUME NEW N, NEW E, NEW x, NEW S \in SUBSET N, x \in S, \A z \in S : E[z] \subseteq S
  PROVE  Reach(N, E, x) \subseteq S
  BY DEF Reach

\* What is reached leads no further.
LEMMA ReachOn ==
  ASSUME NEW N, NEW E, \A z \in N : E[z] \subseteq N, NEW x, NEW y \in Reach(N, E, x)
  PROVE  Reach(N, E, y) \subseteq Reach(N, E, x)
<1> DEFINE S == Reach(N, E, x)
<1>1. S \in SUBSET N /\ y \in S
  BY ReachIsIn
<1>2. \A z \in S : E[z] \subseteq S
  BY ReachClosed
<1> HIDE DEF S
<1>3. Reach(N, E, y) \subseteq S
  BY <1>1, <1>2, ReachLeast
<1> QED
  BY <1>3 DEF S

\* What x leads to is reached from it.
LEMMA ReachNext ==
  ASSUME NEW N, NEW E, \A z \in N : E[z] \subseteq N, NEW x \in N, NEW p \in E[x]
  PROVE  p \in N /\ p \in Reach(N, E, x) /\ Reach(N, E, p) \subseteq Reach(N, E, x)
BY ReachSelf, ReachClosed, ReachOn

\* What is reached is x itself or reached from what x leads to.
LEMMA ReachFrom ==
  ASSUME NEW N, NEW E, \A z \in N : E[z] \subseteq N, NEW x \in N, NEW y \in Reach(N, E, x), y # x
  PROVE  \E p \in E[x] : y \in Reach(N, E, p)
<1> DEFINE S == {z \in N : z = x \/ \E p \in E[x] : z \in Reach(N, E, p)}
<1>1. S \in SUBSET N /\ x \in S
  OBVIOUS
<1>2. ASSUME NEW z \in S, NEW w \in E[z] PROVE w \in S
  <2>1. z \in N /\ w \in N
    OBVIOUS
  <2>2. CASE z = x
    BY <2>1, ReachSelf, <2>2
  <2>3. CASE z # x
    BY <2>3, ReachClosed, <2>1
  <2> QED
    BY <2>2, <2>3
<1>3. Reach(N, E, x) \subseteq S
  <2>1. \A z \in S : E[z] \subseteq S
    BY <1>2
  <2> HIDE DEF S
  <2> QED
    BY <1>1, <2>1, ReachLeast
<1> QED
  BY <1>3

\* A graph that is the same where x leads reaches no more from it.
LEMMA ReachSame ==
  ASSUME NEW N, NEW E, \A z \in N : E[z] \subseteq N, NEW x \in N,
         NEW F, \A z \in Reach(N, E, x) : F[z] = E[z]
  PROVE  Reach(N, F, x) \subseteq Reach(N, E, x)
<1> DEFINE S == Reach(N, E, x)
<1>1. S \in SUBSET N /\ x \in S
  BY ReachIsIn, ReachSelf
<1>2. \A z \in S : F[z] \subseteq S
  BY ReachClosed
<1> HIDE DEF S
<1>3. Reach(N, F, x) \subseteq S
  BY <1>1, <1>2, ReachLeast
<1> QED
  BY <1>3 DEF S

\* What cannot be built fails whatever leads to it.
LEMMA BrokenOn ==
  ASSUME NEW E, \A z \in Keys : E[z] \subseteq Keys, NEW B, NEW k, NEW y \in Reach(Keys, E, k), BrokenIn(E, B, y)
  PROVE  BrokenIn(E, B, k)
BY ReachOn DEF BrokenIn

\* What is bad, or is reached from what it leads to, cannot be built.
LEMMA BrokenHere ==
  ASSUME NEW E, NEW B, NEW k \in Keys, k \in B \/ \E p \in E[k] : k \in Reach(Keys, E, p)
  PROVE  BrokenIn(E, B, k)
  BY ReachSelf DEF BrokenIn

\* What is not bad and leads to nothing that fails can be built.
LEMMA BuildsIf ==
  ASSUME NEW E, \A z \in Keys : E[z] \subseteq Keys, NEW B, NEW k \in Keys, k \notin B,
         \A p \in E[k] : ~BrokenIn(E, B, p)
  PROVE  ~BrokenIn(E, B, k)
<1>1. ASSUME NEW p \in E[k], k \in Reach(Keys, E, p) PROVE FALSE
  BY <1>1 DEF BrokenIn
<1>2. ASSUME NEW x \in Reach(Keys, E, k), x \in B \/ \E p \in E[x] : x \in Reach(Keys, E, p) PROVE FALSE
  BY <1>1, <1>2, ReachFrom DEF BrokenIn
<1> QED
  BY <1>2 DEF BrokenIn

\* What can be built still can when nothing changes where it leads.
LEMMA StillBuilds ==
  ASSUME NEW E, \A z \in Keys : E[z] \subseteq Keys, NEW B, NEW k \in Keys, ~BrokenIn(E, B, k),
         NEW F, NEW C, \A x \in Reach(Keys, E, k) : x \notin B => x \notin C /\ F[x] = E[x]
  PROVE  ~BrokenIn(F, C, k)
<1>1. \A x \in Reach(Keys, E, k) : x \notin B /\ x \notin C /\ F[x] = E[x] /\ \A p \in E[x] : x \notin Reach(Keys, E, p)
  BY DEF BrokenIn
<1>2. Reach(Keys, F, k) \subseteq Reach(Keys, E, k)
  BY <1>1, ReachSame
<1>3. ASSUME NEW x \in Reach(Keys, F, k), NEW p \in F[x], x \in Reach(Keys, F, p) PROVE FALSE
  <2>1. x \in Reach(Keys, E, k) /\ x \in Keys /\ p \in E[x]
    BY <1>1, <1>2 DEF Reach
  <2>2. p \in Reach(Keys, E, k) /\ p \in Keys
    BY <2>1, ReachClosed
  <2>3. Reach(Keys, E, p) \subseteq Reach(Keys, E, k)
    BY <2>2, ReachOn
  <2>4. \A z \in Reach(Keys, E, p) : F[z] = E[z]
    BY <1>1, <2>3
  <2>5. x \in Reach(Keys, E, p)
    BY <1>3, <2>2, <2>4, ReachSame
  <2> QED
    BY <1>1, <2>1, <2>5
<1> QED
  BY <1>1, <1>2, <1>3 DEF BrokenIn

\* A key is of a class, and is that class or its name.
LEMMA KeysAre ==
  /\ \A c \in Classes : ClassKey(c) \in Keys /\ NameKey(c) \in Keys /\ ClassKey(c)[2] = c /\ NameKey(c)[2] = c
                        /\ ClassKey(c)[1] = "class" /\ NameKey(c)[1] = "name"
  /\ \A k \in Keys : k[2] \in Classes /\ (k = ClassKey(k[2]) \/ k = NameKey(k[2]))
                     /\ (k[1] = "class" \/ k[1] = "name")
  /\ \A k \in Keys : k[1] = "class" => k = ClassKey(k[2])
  /\ \A c \in Classes : ParamKey(c) \in Keys /\ ParamKey(c)[2] = c
  BY DEF Keys, ClassKey, NameKey, ParamKey

\* The two graphs lead from keys to keys and from classes to classes.
LEMMA EdgesAre ==
  ASSUME ProgramTypes
  PROVE  /\ \A k \in Keys : Edges[k] \subseteq Keys /\ Edges[k] = ParamKeys(k)
         /\ DOMAIN Edges = Keys
         /\ \A c \in Classes : Leads[c] \subseteq Classes /\ Leads[c] = params[c] \union props[c]
<1>1. \A k \in Keys : ParamKeys(k) \subseteq Keys
  <2> TAKE k \in Keys
  <2>1. params[k[2]] \subseteq Classes
    BY KeysAre DEF ProgramTypes
  <2> QED
    BY <2>1, KeysAre DEF ParamKeys
<1> QED
  BY <1>1 DEF Edges, Leads, ProgramTypes

\* What the constructor of a class takes is reached from it.
LEMMA TakesParams ==
  ASSUME ProgramTypes, NEW k \in Keys, services[k].kind = "class"
  PROVE  /\ \A d \in params[k[2]] : ParamKey(d) \in Edges[k]
         /\ \A p \in Edges[k] : \E d \in params[k[2]] : p = ParamKey(d)
  BY EdgesAre DEF ParamKeys

\* What the model calls resolved is what is reached through constructors.
LEMMA ResolvesIs == ASSUME ProgramTypes, NEW k PROVE Resolves(k) = Reach(Keys, Edges, k)
BY EdgesAre DEF Resolves, Reach

\* What the model calls a dependency is what is reached through constructors and properties.
LEMMA DependsOnIs == ASSUME ProgramTypes, NEW c PROVE DependsOn(c) = Reach(Classes, Leads, c)
BY EdgesAre DEF DependsOn, Reach

\* A key is broken, in the words of the model, if and only if it fails.
LEMMA BrokenIs ==
  ASSUME ProgramTypes, \A k \in Keys : services[k].kind = "none" <=> services[k] = NoDefinition, NEW key
  PROVE  Broken(key) <=> Fails(key)
<1>1. ASSUME NEW k \in Keys PROVE OnCircle(k) <=> \E p \in Edges[k] : k \in Reach(Keys, Edges, p)
  <2>1. CASE services[k].kind = "class"
    BY ResolvesIs, <2>1, TakesParams DEF OnCircle
  <2>2. CASE services[k].kind # "class"
    BY <2>2, EdgesAre DEF OnCircle, ParamKeys
  <2> QED
    BY <2>1, <2>2
<1>2. \A k \in Keys : services[k] = NoDefinition \/ (services[k].kind = "class" /\ Is("faulty", k[2])) <=> k \in Bad
  BY DEF Bad
<1>3. Resolves(key) = Reach(Keys, Edges, key) /\ Resolves(key) \subseteq Keys
  BY ResolvesIs DEF Resolves
<1> QED
  BY <1>1, <1>2, <1>3 DEF Broken, Fails, BrokenIn

\* Of the keys of a class only its name can be a factory's.
LEMMA OwnDefinitionIs ==
  ASSUME NEW k \in Keys
  PROVE  /\ OwnDefinition(k) \in DefinitionRecords /\ OwnDefinition(k).inst = 0
         /\ OwnDefinition(k).kind = "none" <=> OwnDefinition(k) = NoDefinition
         /\ k[1] = "class" => OwnDefinition(k).kind # "factory"
         /\ OwnDefinition(k).kind # "none" => OwnDefinition(k).kind \in {"class", "factory"}
         /\ NoDefinition \in DefinitionRecords /\ NoDefinition.kind = "none" /\ NoDefinition.inst = 0 /\ NoDefinition.single = FALSE
<1>1. \A single \in BOOLEAN : \A kind \in {"class", "factory"} :
        /\ Definition(kind, single) \in DefinitionRecords /\ Definition(kind, single).inst = 0
        /\ Definition(kind, single).kind = kind /\ Definition(kind, single) # NoDefinition
  BY DEF Definition, DefinitionRecords, NoDefinition
<1>2. NoDefinition \in DefinitionRecords /\ NoDefinition.kind = "none" /\ NoDefinition.inst = 0 /\ NoDefinition.single = FALSE
  BY DEF DefinitionRecords, NoDefinition
<1>3. \/ OwnDefinition(k) = NoDefinition
      \/ \E single \in BOOLEAN : OwnDefinition(k) = Definition("class", single)
      \/ \E single \in BOOLEAN : OwnDefinition(k) = Definition("factory", single) /\ k[1] = "name"
  <2> DEFINE one == ~Is("transient", k[2])
  <2>1. one \in BOOLEAN
    OBVIOUS
  <2>2. OwnDefinition(k) =
          CASE Is("absent", k[2]) -> NoDefinition
            [] Is("factory", k[2]) -> IF k[1] = "name" THEN Definition("factory", one) ELSE NoDefinition
            [] OTHER -> Definition("class", one)
    BY DEF OwnDefinition
  <2>3. ~(Is("absent", k[2]) /\ Is("factory", k[2]))
    BY DEF Is
  <2> HIDE DEF one
  <2> QED
    BY <2>1, <2>2, <2>3
<1> QED
  BY <1>1, <1>2, <1>3

\* What holds of the definitions at every point.
LEMMA DefinitionsAre ==
  ASSUME DefinitionsHold, NEW k \in Keys
  PROVE  /\ services[k] \in DefinitionRecords
         /\ services[k].kind = "none" <=> services[k] = NoDefinition
         /\ services[k].single \in BOOLEAN /\ services[k].inst \in Nat
         /\ k[1] = "class" => services[k].kind # "factory"
         /\ services[k].kind \in {"none", "class", "factory"}
         /\ services[k].kind = "factory" => k[1] = "name"
         /\ (services[k].kind = "none" => services[k].inst = 0)
BY OwnDefinitionIs, KeysAre DEF DefinitionsHold, DefinitionRecords, KeyHolds

\* What there is to build, and what it takes, does not change.
SameNeeds ==
  /\ params' = params /\ props' = props /\ oddity' = oddity /\ ProgramTypes'
  /\ Edges' = Edges /\ Bad' = Bad /\ Leads' = Leads
  /\ \A d \in Classes : ParamKey(d)' = ParamKey(d)
  /\ \A k : Fails(k)' <=> Fails(k)
  /\ \A k \in Keys : OwnDefinition(k)' = OwnDefinition(k)
  /\ \A k \in Keys : services'[k].kind = services[k].kind

\* Nothing changes what can be built while definitions keep their kind.
LEMMA NeedsKept ==
  ASSUME ProgramTypes, UNCHANGED Program,
         \A k \in Keys : services'[k].kind = services[k].kind /\ (services'[k] = NoDefinition <=> services[k] = NoDefinition)
  PROVE  SameNeeds
<1>1. params' = params /\ props' = props /\ oddity' = oddity
  BY DEF Program
<1>2. ProgramTypes'
  BY <1>1 DEF ProgramTypes
<1>3. ASSUME NEW d \in Classes PROVE ParamKey(d)' = ParamKey(d)
  BY KeysAre DEF ParamKey
<1>4. ASSUME NEW k \in Keys PROVE ParamKeys(k)' = ParamKeys(k)
  <2>1. \A d \in params[k[2]] : d \in Classes
    BY KeysAre DEF ProgramTypes
  <2> QED
    BY <1>1, <1>3, <2>1 DEF ParamKeys
<1>5. Edges' = Edges /\ Leads' = Leads
  BY <1>1, <1>4 DEF Edges, Leads
<1>6. Bad' = Bad
  BY <1>1 DEF Bad, Is
<1>7. \A k \in Keys : OwnDefinition(k)' = OwnDefinition(k)
  BY <1>1 DEF OwnDefinition, Is
<1>8. \A k : Fails(k)' <=> Fails(k)
  BY <1>5, <1>6 DEF Fails
<1> QED
  BY <1>1, <1>2, <1>3, <1>5, <1>6, <1>7, <1>8 DEF SameNeeds

\* Nothing is made and nothing is kept.
LEMMA DefinitionsStay ==
  ASSUME ProgramTypes, DefinitionsHold, UNCHANGED Program, services' = services, built' = built
  PROVE  SameNeeds /\ DefinitionsHold'
BY NeedsKept, KeysAre DEF DefinitionsHold, KeyHolds, SameNeeds, NameFollows

\* What is made for a definition is kept if it is a singleton's.
LEMMA CachedIs ==
  ASSUME NEW def \in DefinitionRecords, NEW i \in Nat
  PROVE  /\ Cached(def, i) \in DefinitionRecords /\ Cached(def, i).kind = def.kind /\ Cached(def, i).single = def.single
         /\ def.single => Cached(def, i).inst = i
         /\ ~def.single => Cached(def, i) = def
<1> DEFINE new == [def EXCEPT !.inst = i]
<1>1. new \in DefinitionRecords /\ new.kind = def.kind /\ new.single = def.single /\ new.inst = i
  BY DEF DefinitionRecords
<1> HIDE DEF new
<1>2. Cached(def, i) = IF def.single THEN new ELSE def
  BY DEF Cached, new
<1> QED
  BY <1>1, <1>2

\* A definition that is given an instance keeps the definitions as they have to be.
LEMMA DefinitionsFill ==
  ASSUME ProgramTypes, DefinitionsHold, UNCHANGED Program, NEW key \in Keys, NEW i \in Nat \ {0},
         services[key].kind # "none", ~Fails(key), services[key].single => services[key].inst = 0,
         services' = [services EXCEPT ![key] = Cached(services[key], i)],
         built' = [built EXCEPT ![key] = built[key] \union {i}]
  PROVE  SameNeeds /\ DefinitionsHold' /\ \A k \in Keys \ {key} : services'[k] = services[k]
<1> DEFINE def == services[key]
           new == Cached(def, i)
<1>1. def \in DefinitionRecords /\ services \in [Keys -> DefinitionRecords] /\ built \in [Keys -> SUBSET Nat]
  BY DEF DefinitionsHold
<1>2. /\ new \in DefinitionRecords /\ new.kind = def.kind /\ new.single = def.single
      /\ def.single => new.inst = i
      /\ ~def.single => new = def
  BY <1>1, CachedIs
<1> HIDE DEF new
<1>3. /\ services' \in [Keys -> DefinitionRecords] /\ services'[key] = new
      /\ \A k \in Keys \ {key} : services'[k] = services[k]
  BY <1>1, <1>2 DEF new
<1>4. /\ built' \in [Keys -> SUBSET Nat] /\ built'[key] = built[key] \union {i}
      /\ \A k \in Keys \ {key} : built'[k] = built[k]
  BY <1>1
<1>5. SameNeeds
  BY <1>2, OwnDefinitionIs, <1>3, NeedsKept
<1>6. ASSUME NEW k \in Keys PROVE KeyHolds(k)'
  <2>1. CASE k # key
    BY <1>3, <1>4, <1>5, <2>1 DEF DefinitionsHold, KeyHolds, SameNeeds
  <2>2. CASE k = key
    BY <1>2, <1>4, <1>5, <1>3, <2>2 DEF DefinitionsHold, KeyHolds, SameNeeds
  <2> QED
    BY <2>1, <2>2
<1>7. \A c \in Classes : NameFollows(c)'
  BY <1>5, KeysAre DEF DefinitionsHold, NameFollows, SameNeeds
<1> QED
  BY <1>3, <1>4, <1>5, <1>6, <1>7 DEF DefinitionsHold

\* A copy of the definitions needs what they need.
LEMMA ForkKeeps ==
  ASSUME ProgramTypes, DefinitionsHold, NEW carry \in BOOLEAN, Fork(carry) PROVE SameNeeds /\ DefinitionsHold'
<1>1. /\ services' = [k \in Keys |-> IF carry THEN services[k] ELSE [services[k] EXCEPT !.inst = 0]]
      /\ built' = [k \in Keys |-> IF carry THEN built[k] ELSE {}]
      /\ UNCHANGED Program
  BY DEF Fork
<1>2. ASSUME NEW k \in Keys
      PROVE  /\ services'[k] \in DefinitionRecords /\ services'[k].kind = services[k].kind
             /\ services'[k].single = services[k].single
             /\ services'[k].inst = IF carry THEN services[k].inst ELSE 0
             /\ services'[k] = NoDefinition <=> services[k] = NoDefinition
             /\ built'[k] = IF carry THEN built[k] ELSE {}
  <2> DEFINE def == services[k]
             new == [def EXCEPT !.inst = 0]
  <2>1. def \in DefinitionRecords /\ (def.kind = "none" <=> def = NoDefinition)
    BY DefinitionsAre
  <2>2. new \in DefinitionRecords /\ new.kind = def.kind /\ new.single = def.single /\ new.inst = 0
    BY <2>1 DEF DefinitionRecords
  <2>3. def = NoDefinition => new = NoDefinition
    BY DEF NoDefinition
  <2> HIDE DEF new
  <2>4. services'[k] = IF carry THEN def ELSE new
    BY <1>1 DEF new
  <2>5. NoDefinition.kind = "none"
    BY DEF NoDefinition
  <2>6. built'[k] = IF carry THEN built[k] ELSE {}
    BY <1>1
  <2> QED
    BY <2>1, <2>2, <2>3, <2>4, <2>5, <2>6
<1>3. SameNeeds
  BY <1>1, <1>2, NeedsKept
<1>4. ASSUME NEW k \in Keys PROVE KeyHolds(k)'
  <2>1. KeyHolds(k) /\ (services[k].kind = "none" <=> services[k] = NoDefinition) /\ NoDefinition.kind = "none"
    BY DefinitionsAre DEF DefinitionsHold, NoDefinition
  <2>2. OwnDefinition(k)' = OwnDefinition(k) /\ (Fails(k)' <=> Fails(k))
    BY <1>3 DEF SameNeeds
  <2> QED
    BY <1>2, <2>1, <2>2 DEF KeyHolds
<1>5. \A c \in Classes : NameFollows(c)'
  BY <1>3, KeysAre DEF DefinitionsHold, NameFollows, SameNeeds
<1>6. services' \in [Keys -> DefinitionRecords] /\ built' \in [Keys -> SUBSET Nat]
  BY <1>1, <1>2 DEF DefinitionsHold
<1> QED
  BY <1>3, <1>4, <1>5, <1>6 DEF DefinitionsHold

\* Nothing is left that could fail to have been built.
LEMMA ClearKeeps == ASSUME ProgramTypes, DefinitionsHold, Clear PROVE ProgramTypes' /\ DefinitionsHold'
<1>1. services' = [k \in Keys |-> NoDefinition] /\ built' = [k \in Keys |-> {}] /\ UNCHANGED Program
  BY DEF Clear
<1>2. ProgramTypes'
  BY <1>1 DEF ProgramTypes, Program
<1>3. ASSUME NEW k \in Keys PROVE services'[k] = NoDefinition /\ KeyHolds(k)'
  BY <1>1, OwnDefinitionIs DEF KeyHolds
<1>4. \A c \in Classes : NameFollows(c)'
  BY <1>3, KeysAre, OwnDefinitionIs DEF NameFollows
<1>5. NoDefinition \in DefinitionRecords
  BY DEF NoDefinition, DefinitionRecords
<1> QED
  BY <1>1, <1>2, <1>3, <1>4, <1>5 DEF DefinitionsHold

\* Definitions come, none goes: what could be built still can.
LEMMA RegisterKeeps ==
  ASSUME ProgramTypes, DefinitionsHold, NEW c \in Classes, Register(c) PROVE ProgramTypes' /\ DefinitionsHold'
<1>1. /\ services' = [k \in Keys |-> IF k[2] = c /\ OwnDefinition(k) # NoDefinition THEN OwnDefinition(k) ELSE services[k]]
      /\ built' = [k \in Keys |-> IF k[2] = c THEN {} ELSE built[k]]
      /\ UNCHANGED Program
  BY DEF Register
<1>2. ProgramTypes' /\ params' = params /\ oddity' = oddity
  BY <1>1 DEF ProgramTypes, Program
<1>3. \A k \in Keys : OwnDefinition(k)' = OwnDefinition(k)
  BY <1>2 DEF OwnDefinition, Is
<1>4. ASSUME NEW k \in Keys
      PROVE  /\ services'[k] = IF k[2] = c /\ OwnDefinition(k).kind # "none" THEN OwnDefinition(k) ELSE services[k]
             /\ built'[k] = IF k[2] = c THEN {} ELSE built[k]
             /\ services'[k] \in DefinitionRecords
             /\ services'[k] = NoDefinition <=> services'[k].kind = "none"
             /\ services[k].kind # "none" => services'[k].kind = services[k].kind
             /\ services[k].kind = "none" /\ OwnDefinition(k).kind = "none" => services'[k].kind = "none"
  BY <1>1, OwnDefinitionIs, DefinitionsAre DEF DefinitionsHold, KeyHolds
<1>5. ASSUME NEW k \in Keys, ~Fails(k) PROVE ~Fails(k)'
  <2>1. \A x \in Reach(Keys, Edges, k) : x \in Keys /\ x \notin Bad /\ services[x].kind # "none"
    BY <1>5 DEF Fails, BrokenIn, Reach, Bad
  <2>2. ASSUME NEW x \in Reach(Keys, Edges, k) PROVE x \notin Bad' /\ Edges'[x] = Edges[x]
    <3>1. x \in Keys /\ services'[x].kind = services[x].kind /\ x \notin Bad
      BY <1>4, <2>1
    <3>2. x \notin Bad'
      BY <1>2, <2>1, <3>1 DEF Bad, Is
    <3>3. ASSUME NEW d \in params[x[2]], services[x].kind = "class" PROVE ParamKey(d)' = ParamKey(d)
      <4>1. d \in Classes /\ ParamKey(d) \in Edges[x]
        BY <3>1, <3>3, TakesParams, KeysAre DEF ProgramTypes
      <4>2. ParamKey(d) \in Reach(Keys, Edges, k)
        BY <4>1, EdgesAre, ReachClosed
      <4>3. services[ParamKey(d)].kind # "none"
        BY <2>1, <4>2
      <4>4. ClassKey(d) \in Keys /\ NameKey(d) \in Keys
        BY <4>1, KeysAre
      <4>5. CASE services[ClassKey(d)].kind # "none"
        BY <1>4, <4>4, <4>5, DefinitionsAre DEF ParamKey
      <4>6. CASE services[ClassKey(d)].kind = "none"
        BY <4>4, <4>6, DefinitionsAre, <4>1, <4>3, <1>4 DEF ParamKey, DefinitionsHold, NameFollows
      <4> QED
        BY <4>5, <4>6
    <3>4. ParamKeys(x)' = ParamKeys(x)
      BY <1>2, <3>1, <3>3 DEF ParamKeys
    <3>5. Edges'[x] = ParamKeys(x)'
      BY <3>1 DEF Edges
    <3> QED
      BY <3>1, <3>2, <3>4, <3>5, EdgesAre
  <2>3. \A z \in Keys : Edges[z] \subseteq Keys
    BY EdgesAre
  <2>4. ~BrokenIn(Edges, Bad, k)
    BY <1>5 DEF Fails
  <2>5. ~BrokenIn(Edges', Bad', k)
    BY <2>2, <2>3, <2>4, StillBuilds
  <2> QED
    BY <2>5 DEF Fails
<1>6. ASSUME NEW k \in Keys PROVE KeyHolds(k)'
  <2>1. KeyHolds(k) /\ DefinitionsHold
    BY DEF DefinitionsHold
  <2>2. services'[k].kind \in {"none", OwnDefinition(k).kind}
    BY <1>4, <2>1 DEF KeyHolds
  <2>3. services'[k].inst # 0 => ~Fails(k)'
    BY <1>4, OwnDefinitionIs, <1>5, <2>1 DEF KeyHolds
  <2>4. services'[k].single => built'[k] = IF services'[k].inst = 0 THEN {} ELSE {services'[k].inst}
    <3>1. CASE k[2] = c /\ OwnDefinition(k).kind # "none"
      BY <1>4, <3>1, OwnDefinitionIs
    <3>2. CASE k[2] = c /\ OwnDefinition(k).kind = "none"
      BY <2>1, <3>2, <1>4, OwnDefinitionIs DEF KeyHolds
    <3>3. CASE k[2] # c
      BY <1>4, <2>1, <3>3 DEF KeyHolds
    <3> QED
      BY <3>1, <3>2, <3>3
  <2> QED
    BY <1>3, <1>4, <2>2, <2>3, <2>4 DEF KeyHolds
<1>7. ASSUME NEW d \in Classes PROVE NameFollows(d)'
  BY KeysAre, <1>3, <1>4 DEF DefinitionsHold, NameFollows, ClassKey, NameKey
<1>8. services' \in [Keys -> DefinitionRecords] /\ built' \in [Keys -> SUBSET Nat]
  BY <1>1, <1>4 DEF DefinitionsHold
<1> QED
  BY <1>2, <1>6, <1>7, <1>8 DEF DefinitionsHold

\* There is a first class in every set of them.
LEMMA LeastIn == ASSUME NEW T \in SUBSET Classes, T # {} PROVE Least(T) \in T
<1>1. T \in SUBSET Nat
  BY ContainerAssumption DEF Classes
<1>2. \E d \in T : \A e \in T : d <= e
  BY <1>1, LeastOf
<1> QED
  BY <1>2 DEF Least

\* The fields of an instantiation.
LEMMA FrameIs ==
  ASSUME NEW f \in FrameRecords
  PROVE  /\ f.key \in Keys /\ f.key[2] \in Classes /\ f.cached \in BOOLEAN /\ f.at \in {"params", "props"}
         /\ f.todo \in SUBSET Classes /\ f.inst \in Nat
         /\ f = [key |-> f.key, cached |-> f.cached, at |-> f.at, todo |-> f.todo, inst |-> f.inst]
BY KeysAre DEF FrameRecords

\* What an instantiation asks for is the key of a class that it still has to do.
LEMMA AskedIs ==
  ASSUME NEW f \in FrameRecords, f.todo # {}
  PROVE  /\ Least(f.todo) \in f.todo /\ Least(f.todo) \in Classes
         /\ AskedOf(f) \in Keys /\ AskedOf(f)[2] = Least(f.todo)
<1>1. f.todo \in SUBSET Classes
  BY FrameIs
<1>2. Least(f.todo) \in f.todo
  BY <1>1, LeastIn
<1> DEFINE d == Least(f.todo)
<1>3. d \in Classes /\ d \in f.todo
  BY <1>1, <1>2
<1> HIDE DEF d
<1>4. AskedOf(f) = IF f.at = "params" THEN ParamKey(d) ELSE ClassKey(d)
  BY DEF AskedOf, d
<1>5. AskedOf(f) \in Keys /\ AskedOf(f)[2] = d
  BY <1>3, <1>4, KeysAre
<1> QED
  BY <1>3, <1>5 DEF d

\* The same class is asked for, where the needs are the same.
LEMMA AskedStays == ASSUME SameNeeds, NEW f \in FrameRecords, f.todo # {} PROVE AskedOf(f)' = AskedOf(f)
<1> DEFINE d == Least(f.todo)
<1>1. d \in Classes
  BY AskedIs
<1>2. d' = d
  BY DEF Least
<1> HIDE DEF d
<1>3. ParamKey(d)' = ParamKey(d) /\ ClassKey(d)' = ClassKey(d)
  BY <1>1, <1>2 DEF SameNeeds, ClassKey
<1>4. AskedOf(f) = (IF f.at = "params" THEN ParamKey(d) ELSE ClassKey(d))
  BY DEF AskedOf, d
<1>5. AskedOf(f)' = (IF f.at = "params" THEN ParamKey(d)' ELSE ClassKey(d)')
  BY DEF AskedOf, d
<1> QED
  BY <1>3, <1>4, <1>5

\* An instantiation stays linked to the one inside it.
LEMMA LinkStays ==
  ASSUME SameNeeds, NEW f \in FrameRecords, NEW g, Linked(f, g) PROVE Linked(f, g)'
  BY AskedStays DEF Linked

\* Instances are added, and stay of their class.
InstancesStay == \A i \in 1..Len(instances) : i \in 1..Len(instances') /\ instances'[i].class = instances[i].class

\* An instantiation holds what it held while its definition waits for it.
LEMMA FrameStays ==
  ASSUME ProgramTypes, SameNeeds, InstancesStay, NEW f \in FrameRecords, FrameHolds(f),
         f.cached => services'[f.key] = services[f.key]
  PROVE  FrameHolds(f)'
BY FrameIs DEF ProgramTypes, FrameHolds, CachedHolds, SameNeeds, InstancesStay, Is

\* So does the outermost, while the application wants the same.
LEMMA OutermostStays ==
  ASSUME ProgramTypes, SameNeeds, wanted' = wanted, NEW f \in FrameRecords, OutermostHolds(f)
  PROVE  OutermostHolds(f)'
<1>1. params[f.key[2]] \subseteq Classes /\ f.todo \subseteq Classes
  BY FrameIs DEF ProgramTypes
<1>2. params' = params /\ oddity' = oddity /\ (\A d \in Classes : ParamKey(d)' = ParamKey(d)) /\ \A k : Fails(k)' <=> Fails(k)
  BY DEF SameNeeds
<1>3. ASSUME ConstructHolds(f) PROVE ConstructHolds(f)'
  BY <1>3, <1>2, <1>1 DEF ConstructHolds, ClassKey, Is
<1> QED
  BY <1>3 DEF OutermostHolds

\* The outermost instantiations that a step leaves alone.
LEMMA FirstStay ==
  ASSUME ProgramTypes, StackTypes, FirstHold(Len(stackFrames)), SameNeeds, InstancesStay, wanted' = wanted,
         NEW k \in Nat, k <= Len(stackFrames), \A m \in 1..k : stackFrames'[m] = stackFrames[m],
         \A m \in 1..k : stackFrames[m].cached => services'[stackFrames[m].key] = services[stackFrames[m].key]
  PROVE  FirstHold(k)'
<1> DEFINE n == Len(stackFrames)
<1>1. n \in Nat /\ \A m \in 1..n : stackFrames[m] \in FrameRecords
  BY ElementOfSeq, LenProperties DEF StackTypes
<1>2. \A m \in 1..k : m \in 1..n /\ stackFrames'[m] = stackFrames[m] /\ stackFrames[m] \in FrameRecords
  BY <1>1
<1>3. ASSUME NEW m \in 1..k PROVE FrameHolds(stackFrames[m])'
  BY <1>2, FrameStays DEF FirstHold
<1>4. ASSUME NEW m \in 1..k - 1 PROVE Linked(stackFrames[m], stackFrames[m + 1])'
  BY <1>1, <1>2, LinkStays DEF FirstHold
<1>5. k # 0 => OutermostHolds(stackFrames[1])'
  BY <1>1, <1>2, OutermostStays DEF FirstHold
<1>6. \A m, l \in 1..k : stackFrames'[m].key = stackFrames'[l].key => m = l
  BY <1>2 DEF FirstHold
<1>7. \A l \in 1..k : \A m \in 1..l : stackFrames'[l].key[2] \in Reach(Classes, Leads', stackFrames'[m].key[2])
  <2> TAKE l \in 1..k
  <2> TAKE m \in 1..l
  <2>1. m \in 1..k /\ l \in 1..n /\ Leads' = Leads
    BY <1>1 DEF SameNeeds
  <2> QED
    BY <1>2, <2>1 DEF FirstHold
<1>8. Classes' = Classes
  BY DEF Classes
<1> QED
  BY <1>3, <1>4, <1>5, <1>6, <1>7, <1>8 DEF FirstHold

\* One more instantiation, asked for by the one before it.
LEMMA FirstOneMore ==
  ASSUME NEW k \in Nat, FirstHold(k)', NEW g, stackFrames'[k + 1] = g, g.key[2] \in Classes, FrameHolds(g)',
         \A m \in 1..k : stackFrames'[m].key # g.key,
         k = 0 => OutermostHolds(g)', Leads' = Leads, \A c \in Classes : Leads[c] \subseteq Classes,
         k # 0 => Linked(stackFrames[k], g)' /\ g.key[2] \in Reach(Classes, Leads, stackFrames'[k].key[2])
  PROVE  FirstHold(k + 1)'
<1>1. \A m \in 1..k + 1 : m \in 1..k \/ m = k + 1
  OBVIOUS
<1>2. \A m, l \in 1..k + 1 : stackFrames'[m].key = stackFrames'[l].key => m = l
  BY <1>1 DEF FirstHold
<1>3. ASSUME NEW m \in 1..k + 1 PROVE FrameHolds(stackFrames[m])'
  <2>1. CASE m \in 1..k
    BY <2>1 DEF FirstHold
  <2>2. CASE m = k + 1
    BY <2>2
  <2> QED
    BY <1>1, <2>1, <2>2
<1>4. ASSUME NEW m \in 1..k PROVE Linked(stackFrames[m], stackFrames[m + 1])'
  <2>1. CASE m \in 1..k - 1
    BY <2>1 DEF FirstHold
  <2>2. CASE m = k
    BY <2>2
  <2> QED
    BY <2>1, <2>2
<1>5. OutermostHolds(stackFrames[1])'
  <2>1. CASE k # 0
    BY <2>1 DEF FirstHold
  <2>2. CASE k = 0
    BY <2>2
  <2> QED
    BY <2>1, <2>2
<1>6. ASSUME NEW l \in 1..k + 1, NEW m \in 1..l
      PROVE  stackFrames'[l].key[2] \in Reach(Classes, Leads, stackFrames'[m].key[2])
  <2>1. CASE l \in 1..k
    BY <2>1 DEF FirstHold, Classes
  <2>2. CASE l = k + 1 /\ m = k + 1
    BY <2>2, ReachSelf
  <2>3. CASE l = k + 1 /\ m \in 1..k
    <3>1. k # 0 /\ k \in 1..k /\ m \in 1..k
      BY <2>3
    <3>2. stackFrames'[k].key[2] \in Reach(Classes, Leads, stackFrames'[m].key[2])
      BY <3>1 DEF FirstHold, Classes
    <3>3. Reach(Classes, Leads, stackFrames'[k].key[2]) \subseteq Reach(Classes, Leads, stackFrames'[m].key[2])
      BY <3>2, ReachOn
    <3> QED
      BY <2>3, <3>1, <3>3
  <2> QED
    BY <1>1, <2>1, <2>2, <2>3
<1>7. (k + 1) - 1 = k /\ Classes' = Classes
  BY DEF Classes
<1> QED
  BY <1>2, <1>3, <1>4, <1>5, <1>6, <1>7 DEF FirstHold

\* What the innermost call has come to, seen from the instantiation that waits for it.
LEMMA OutcomeIs ==
  ASSUME SameNeeds, NEW f \in FrameRecords, NEW n \in Nat \ {0}, stackFrames' \in Seq(FrameRecords),
         Len(stackFrames') = n, stackFrames'[n] = f,
         \/ outcome'.kind = "none"
         \/ /\ f.todo # {} /\ outcome'.kind \in {"value", "error"}
            /\ outcome'.kind = "value" => ~Fails(AskedOf(f))
            /\ outcome'.kind = "error" =>
                 Fails(AskedOf(f)) \/ \E m \in 1..n : stackFrames'[m].key \in Reach(Keys, Edges, AskedOf(f))
  PROVE  OutcomeHolds'
<1>1. stackFrames' # << >> /\ Top' = f
  BY EmptySeq DEF Top
<1>2. CASE outcome'.kind = "none"
  BY <1>1, <1>2 DEF OutcomeHolds
<1>3. CASE outcome'.kind # "none"
  <2>1. f.todo # {} /\ AskedOf(f)' = AskedOf(f)
    BY <1>3, AskedStays
  <2>2. AskedOf(Top)' = AskedOf(f)
    BY <2>1, <1>1
  <2> DEFINE x == AskedOf(f)
  <2>3. /\ outcome'.kind = "value" => ~Fails(x)
        /\ outcome'.kind = "error" => Fails(x) \/ \E m \in 1..n : stackFrames'[m].key \in Reach(Keys, Edges, x)
    BY <1>3
  <2>4. Fails(AskedOf(Top))' <=> Fails(x)
    BY <2>2 DEF SameNeeds, Fails
  <2>5. Edges' = Edges /\ Keys' = Keys
    BY DEF SameNeeds, Keys, Classes
  <2> HIDE DEF x
  <2>6. Reason(AskedOf(Top), Len(stackFrames))' <=> (Fails(x) \/ \E m \in 1..n : stackFrames'[m].key \in Reach(Keys, Edges, x))
    BY <2>2, <2>4, <2>5 DEF Reason, x
  <2> QED
    BY <1>1, <2>1, <2>3, <2>4, <2>6 DEF OutcomeHolds
<1> QED
  BY <1>2, <1>3

\* What is looked for at rest.
LEMMA FactoryBuilds ==
  ASSUME ProgramTypes, NEW key \in Keys, services[key].kind = "factory"
  PROVE  ~Fails(key)
BY EdgesAre, BuildsIf DEF Bad, ParamKeys, Fails

\* What has no definition cannot be built.
LEMMA MissingFails == ASSUME NEW key \in Keys, services[key].kind = "none" PROVE Fails(key)
BY BrokenHere DEF Bad, Fails

\* An instance is added after the others.
LEMMA InstanceAdded ==
  ASSUME StackTypes, NEW r \in InstanceRecords, instances' = Append(instances, r)
  PROVE  /\ instances' \in Seq(InstanceRecords) /\ InstancesStay
         /\ Len(instances') = Len(instances) + 1 /\ Len(instances) \in Nat
         /\ instances'[Len(instances) + 1] = r
         /\ \A i \in 1..Len(instances) : instances'[i] = instances[i]
BY LenProperties, AppendProperties DEF StackTypes, InstancesStay

\* Instances that do not change stay.
LEMMA InstancesAsTheyAre == ASSUME instances' = instances PROVE InstancesStay
  BY DEF InstancesStay

\* resolve comes back with what there is, or with what a factory makes, or goes into an
\* instantiation.
LEMMA EnterDoes ==
  ASSUME ProgramTypes, DefinitionsHold, StackTypes, NEW key \in Keys, Enter(key), UNCHANGED Program
  PROVE  /\ SameNeeds /\ DefinitionsHold' /\ InstancesStay
         /\ instances' \in Seq(InstanceRecords)
         /\ \A k \in Keys : services[k].kind = "class" => services'[k] = services[k]
         /\ outcome' \in [kind : {"none", "value", "error"}, inst : Nat]
         /\ outcome'.kind = "value" => outcome'.inst # 0
         /\ outcome'.kind = "none" => outcome' = Nothing
         /\ \/ /\ stackFrames' = stackFrames /\ resolutionStack' = resolutionStack
               /\ outcome'.kind \in {"value", "error"}
               /\ outcome'.kind = "value" => ~Fails(key)
               /\ outcome'.kind = "error" => key \in resolutionStack \/ Fails(key)
            \/ /\ stackFrames' = Append(stackFrames, NewFrame(key, TRUE, {}))
               /\ resolutionStack' = resolutionStack \union {key}
               /\ outcome' = Nothing /\ key \notin resolutionStack
               /\ services[key].kind = "class" /\ (services[key].single => services[key].inst = 0)
               /\ instances' = instances
<1>0. /\ services[key].kind \in {"none", "class", "factory"} /\ services[key].inst \in Nat
      /\ services[key].kind = "none" <=> services[key] = NoDefinition
  BY DefinitionsAre
<1>1. CASE (Circular(key) \/ services[key] = NoDefinition) /\ outcome' = Error
           /\ UNCHANGED <<services, stackFrames, resolutionStack, instances, built>>
  BY <1>1, DefinitionsStay, InstancesAsTheyAre, <1>0, MissingFails DEF Error, Circular, StackTypes
<1>2. CASE /\ ~Circular(key) /\ services[key] # NoDefinition /\ Found(key)
           /\ outcome' = Value(services[key].inst)
           /\ UNCHANGED <<services, stackFrames, resolutionStack, instances, built>>
  <2>1. SameNeeds /\ DefinitionsHold' /\ InstancesStay
    BY <1>2, DefinitionsStay, InstancesAsTheyAre
  <2>2. outcome' = [kind |-> "value", inst |-> services[key].inst] /\ services[key].inst # 0
    BY <1>2 DEF Value, Found
  <2>3. ~Fails(key)
    BY <2>2 DEF DefinitionsHold, KeyHolds
  <2> DEFINE i == services[key].inst
  <2>4. i \in Nat /\ i # 0 /\ outcome' = [kind |-> "value", inst |-> i]
    BY <1>0, <2>2
  <2> HIDE DEF i
  <2>5. outcome' \in [kind : {"none", "value", "error"}, inst : Nat] /\ outcome'.kind = "value" /\ outcome'.inst # 0
    BY <2>4
  <2> QED
    BY <1>2, <2>1, <2>3, <2>5 DEF StackTypes
<1>3. CASE ~Circular(key) /\ ~Found(key) /\ services[key].kind = "factory" /\ FromFactory(key)
  <2> DEFINE i == Len(instances) + 1
             r == [class |-> key[2], key |-> key, missing |-> {}]
  <2>1. /\ instances' = Append(instances, r) /\ outcome' = Value(i)
        /\ stackFrames' = stackFrames /\ resolutionStack' = resolutionStack
        /\ services' = [services EXCEPT ![key] = Cached(services[key], i)]
        /\ built' = [built EXCEPT ![key] = built[key] \union {i}]
    BY <1>3 DEF FromFactory
  <2>2. r \in InstanceRecords
    BY KeysAre DEF InstanceRecords
  <2> HIDE DEF r
  <2>3. instances' \in Seq(InstanceRecords) /\ InstancesStay /\ i \in Nat \ {0}
    BY <2>1, <2>2, InstanceAdded
  <2> HIDE DEF i
  <2>4. ~Fails(key)
    BY <1>3, FactoryBuilds
  <2>5. services[key].single => services[key].inst = 0
    BY <1>3 DEF Found
  <2>6. SameNeeds /\ DefinitionsHold' /\ \A k \in Keys \ {key} : services'[k] = services[k]
    BY <1>3, <2>1, <2>3, <2>4, <2>5, DefinitionsFill
  <2>7. \A k \in Keys : services[k].kind = "class" => services'[k] = services[k]
    BY <1>3, <2>6
  <2>8. outcome' = [kind |-> "value", inst |-> i]
    BY <2>1 DEF Value
  <2>9. outcome' \in [kind : {"none", "value", "error"}, inst : Nat] /\ outcome'.kind = "value" /\ outcome'.inst # 0
    BY <2>3, <2>8
  <2> QED
    BY <2>1, <2>3, <2>4, <2>6, <2>7, <2>9
<1>4. CASE /\ ~Circular(key) /\ ~Found(key) /\ services[key].kind = "class"
           /\ stackFrames' = Append(stackFrames, NewFrame(key, TRUE, {}))
           /\ resolutionStack' = resolutionStack \union {key}
           /\ outcome' = Nothing
           /\ UNCHANGED <<services, instances, built>>
  BY <1>4, DefinitionsStay, InstancesAsTheyAre DEF Nothing, StackTypes, Found, Circular
<1> QED
  BY <1>1, <1>2, <1>3, <1>4 DEF Enter

\* A new instantiation has all of its constructor to do but what it is given.
LEMMA NewFrameIs ==
  ASSUME ProgramTypes, NEW key \in Keys, NEW cached \in BOOLEAN, NEW overrides
  PROVE  LET g == NewFrame(key, cached, overrides)
         IN /\ g \in FrameRecords /\ g.key = key /\ g.cached = cached /\ g.at = "params"
            /\ g.todo = params[key[2]] \ overrides /\ g.inst = 0
BY KeysAre DEF ProgramTypes, NewFrame, FrameRecords

\* The innermost instantiation and those around it.
LEMMA StackIs ==
  ASSUME StackTypes, stackFrames # << >>
  PROVE  /\ Len(stackFrames) \in Nat \ {0} /\ DOMAIN stackFrames = 1..Len(stackFrames)
         /\ Top \in FrameRecords /\ Top = stackFrames[Len(stackFrames)]
         /\ \A m \in 1..Len(stackFrames) : stackFrames[m] \in FrameRecords
BY EmptySeq, LenProperties, ElementOfSeq DEF StackTypes, Top

\* The definitions of the instantiations going on are classes'.
LEMMA CachedAreClasses ==
  ASSUME StackTypes, FirstHold(Len(stackFrames)), NEW m \in 1..Len(stackFrames), stackFrames[m].cached
  PROVE  stackFrames[m].key \in Keys /\ services[stackFrames[m].key].kind = "class"
BY ElementOfSeq, FrameIs DEF StackTypes, FirstHold, FrameHolds, CachedHolds

\* What is pushed is last, and leaves the others.
LEMMA StackPushed ==
  ASSUME NEW S, NEW s \in Seq(S), NEW g \in S
  PROVE  /\ Append(s, g) \in Seq(S) /\ Len(Append(s, g)) = Len(s) + 1 /\ Append(s, g)[Len(s) + 1] = g
         /\ \A m \in 1..Len(s) : Append(s, g)[m] = s[m]
         /\ Append(s, g) # << >> /\ Len(s) \in Nat
BY AppendProperties, LenProperties, EmptySeq

\* A class that is gone into.
LEMMA GoesInto ==
  ASSUME ProgramTypes, StackTypes, StackHolds, SameNeeds, InstancesStay, UNCHANGED <<services, wanted>>,
         NEW g \in FrameRecords, stackFrames' = Append(stackFrames, g), g.key \notin resolutionStack,
         resolutionStack' = resolutionStack \union {g.key}, FrameHolds(g)', outcome' = Nothing,
         instances' \in Seq(InstanceRecords), stackFrames # << >>,
         Linked(Top, g), g.key[2] \in Reach(Classes, Leads, Top.key[2])
  PROVE  StackTypes' /\ StackHolds' /\ OutcomeHolds'
<1>0. PICK n \in Nat \ {0} : n = Len(stackFrames)
  BY StackIs
<1>1. /\ stackFrames' \in Seq(FrameRecords) /\ Len(stackFrames') = n + 1 /\ stackFrames'[n + 1] = g
      /\ \A m \in 1..n : stackFrames'[m] = stackFrames[m]
      /\ n \in Nat
  BY <1>0, StackPushed DEF StackTypes
<1>2. StackTypes' /\ outcome'.kind = "none"
  BY <1>1 DEF Nothing, StackTypes, Keys, Classes, FrameRecords, InstanceRecords
<1>3. FirstHold(n)'
  BY <1>0, <1>1, FirstStay DEF StackHolds
<1>4. FirstHold(n + 1)'
  <2>1. \A m \in 1..n : stackFrames'[m].key # g.key
    BY <1>0, <1>1 DEF StackHolds
  <2>2. Linked(stackFrames[n], g)'
    BY <1>0, <1>1, StackIs, LinkStays
  <2>3. g.key[2] \in Reach(Classes, Leads, stackFrames'[n].key[2]) /\ g.key[2] \in Classes
    BY <1>0, <1>1, StackIs, FrameIs
  <2>4. Leads' = Leads /\ \A c \in Classes : Leads[c] \subseteq Classes
    BY EdgesAre DEF SameNeeds
  <2> QED
    BY <1>1, <1>3, <2>1, <2>2, <2>3, <2>4, FirstOneMore
<1>5. resolutionStack' = {stackFrames'[m].key : m \in 1..n + 1}
  BY <1>0, <1>1 DEF StackHolds
<1>6. StackHolds'
  BY <1>1, <1>4, <1>5 DEF StackHolds
<1>7. OutcomeHolds'
  BY <1>1, <1>2, OutcomeIs
<1> QED
  BY <1>2, <1>6, <1>7

\* What an instantiation asks for is reached from its class.
LEMMA AskedIsLedTo ==
  ASSUME ProgramTypes, NEW f \in FrameRecords, FrameHolds(f), f.todo # {}
  PROVE  AskedOf(f) \in Keys /\ AskedOf(f)[2] \in Reach(Classes, Leads, f.key[2]) /\ AskedOf(f)[2] \in Leads[f.key[2]]
BY FrameIs, AskedIs, EdgesAre, ReachNext DEF FrameHolds

\* resolve from within an instantiation.
LEMMA NestedKeeps ==
  ASSUME ContainerIInv, stackFrames # << >>, Top.todo # {}, NEW key, key = AskedOf(Top), Enter(key),
         UNCHANGED Program, wanted' = wanted
  PROVE  ContainerIInv'
<1>0. ProgramTypes /\ DefinitionsHold /\ StackTypes /\ StackHolds
  BY DEF ContainerIInv
<1>1. PICK n \in Nat \ {0} : n = Len(stackFrames)
  BY <1>0, StackIs
<1>2. PICK f \in FrameRecords : f = Top
  BY <1>0, StackIs
<1>3. /\ f = stackFrames[n] /\ n \in 1..n /\ FrameHolds(f) /\ f.todo # {} /\ key = AskedOf(f)
      /\ key \in Keys /\ key[2] \in Reach(Classes, Leads, f.key[2])
  BY <1>0, <1>1, <1>2, StackIs, AskedIsLedTo DEF StackHolds, FirstHold
<1>4. /\ SameNeeds /\ DefinitionsHold' /\ InstancesStay
      /\ instances' \in Seq(InstanceRecords)
      /\ \A k \in Keys : services[k].kind = "class" => services'[k] = services[k]
      /\ outcome' \in [kind : {"none", "value", "error"}, inst : Nat]
      /\ outcome'.kind = "value" => outcome'.inst # 0
      /\ outcome'.kind = "none" => outcome' = Nothing
  BY <1>0, <1>3, EnterDoes
<1>5. ProgramTypes'
  BY <1>4 DEF SameNeeds
<1>6. CASE /\ stackFrames' = stackFrames /\ resolutionStack' = resolutionStack
           /\ outcome'.kind \in {"value", "error"}
           /\ outcome'.kind = "value" => ~Fails(key)
           /\ outcome'.kind = "error" => key \in resolutionStack \/ Fails(key)
  <2>1. StackTypes'
    BY <1>0, <1>4, <1>6 DEF StackTypes, Keys, Classes, FrameRecords, InstanceRecords, Nothing
  <2>2. FirstHold(n)'
    BY <1>0, <1>1, <1>4, CachedAreClasses, <1>6, FirstStay DEF StackHolds
  <2>3. StackHolds'
    BY <1>0, <1>1, <1>6, <2>2 DEF StackHolds
  <2>4. outcome'.kind = "error" => Fails(key) \/ \E m \in 1..n : stackFrames'[m].key \in Reach(Keys, Edges, key)
    BY <1>3, ReachSelf, <1>0, <1>1, <1>6 DEF StackHolds
  <2>5. OutcomeHolds'
    <3>1. stackFrames' \in Seq(FrameRecords) /\ Len(stackFrames') = n /\ stackFrames'[n] = f
      BY <1>0, <1>1, <1>3, <1>6 DEF StackTypes
    <3>2. /\ outcome'.kind = "value" => ~Fails(AskedOf(f))
          /\ outcome'.kind = "error" =>
               Fails(AskedOf(f)) \/ \E m \in 1..n : stackFrames'[m].key \in Reach(Keys, Edges, AskedOf(f))
      BY <1>3, <1>6, <2>4
    <3> QED
      BY <1>3, <1>4, <1>6, <3>1, <3>2, OutcomeIs
  <2> QED
    BY <1>4, <1>5, <2>1, <2>3, <2>5 DEF ContainerIInv
<1>7. CASE /\ stackFrames' = Append(stackFrames, NewFrame(key, TRUE, {}))
           /\ resolutionStack' = resolutionStack \union {key}
           /\ outcome' = Nothing /\ key \notin resolutionStack
           /\ services[key].kind = "class" /\ (services[key].single => services[key].inst = 0)
           /\ instances' = instances
  <2>0. services'[key] = services[key]
    BY <1>3, <1>4, <1>7
  <2> DEFINE h == NewFrame(key, TRUE, {})
  <2>1. /\ h \in FrameRecords /\ h.key = key /\ h.cached = TRUE /\ h.at = "params" /\ h.todo = params[key[2]] \ {}
    BY <1>0, <1>3, KeysAre DEF ProgramTypes, NewFrame, FrameRecords
  <2> HIDE DEF h
  <2>2. PICK g \in FrameRecords : g = h
    BY <2>1
  <2>3. /\ g.key = key /\ g.cached = TRUE /\ g.at = "params" /\ g.todo = params[key[2]]
        /\ stackFrames' = Append(stackFrames, g)
    BY <1>7, <2>1, <2>2 DEF h
  <2>4. FrameHolds(g)'
    BY <1>3, <1>4, <1>7, <2>0, <2>3 DEF CachedHolds, SameNeeds, FrameHolds
  <2>5. Linked(Top, g) /\ g.key[2] \in Reach(Classes, Leads, Top.key[2])
    BY <1>2, <1>3, <2>3 DEF Linked
  <2>6. UNCHANGED <<services, wanted>>
    BY <1>0, <1>3, <1>7 DEF Enter, FromFactory
  <2>7. StackTypes' /\ StackHolds' /\ OutcomeHolds'
    BY <1>0, <1>4, <1>7, <2>3, <2>4, <2>5, <2>6, GoesInto
  <2> QED
    BY <1>4, <1>5, <2>7 DEF ContainerIInv
<1> QED
  BY <1>0, <1>3, <1>6, <1>7, EnterDoes

\* What holds of the innermost instantiation.
LEMMA TopIs ==
  ASSUME ContainerIInv, stackFrames # << >>
  PROVE  /\ ProgramTypes /\ DefinitionsHold /\ StackTypes /\ StackHolds /\ OutcomeHolds
         /\ \E n \in Nat \ {0} : \E f \in FrameRecords :
              /\ n = Len(stackFrames) /\ f = Top /\ f = stackFrames[n] /\ FrameHolds(f)
              /\ f.key \in resolutionStack
              /\ (n = 1 => OutermostHolds(f)) /\ (~f.cached => n = 1)
              /\ \A m \in 1..n - 1 : stackFrames[m].key # f.key
              /\ n > 1 => Linked(stackFrames[n - 1], f) /\ stackFrames[n - 1] \in FrameRecords
<1>1. ProgramTypes /\ DefinitionsHold /\ StackTypes /\ StackHolds /\ OutcomeHolds
  BY DEF ContainerIInv
<1>2. PICK n \in Nat \ {0} : n = Len(stackFrames)
  BY <1>1, StackIs
<1>3. PICK f \in FrameRecords : f = Top /\ f = stackFrames[n]
  BY <1>1, <1>2, StackIs
<1>4. n \in 1..n /\ FirstHold(n) /\ resolutionStack = {stackFrames[m].key : m \in 1..n}
  BY <1>1, <1>2 DEF StackHolds
<1>5. FrameHolds(f) /\ f.key \in resolutionStack /\ (n = 1 => OutermostHolds(f))
  BY <1>3, <1>4 DEF FirstHold
<1>6. \A m \in 1..n - 1 : stackFrames[m].key # f.key
  BY <1>4, <1>3 DEF FirstHold
<1>7. n > 1 => Linked(stackFrames[n - 1], f) /\ stackFrames[n - 1] \in FrameRecords
  BY <1>4, <1>1, <1>2, <1>3, StackIs DEF FirstHold
<1>8. ~f.cached => n = 1
  BY <1>7 DEF Linked
<1> QED
  BY <1>1, <1>2, <1>3, <1>5, <1>6, <1>7, <1>8

\* The innermost instantiation ends.
LEMMA StackPopped ==
  ASSUME ContainerIInv, stackFrames # << >>, SameNeeds, InstancesStay, wanted' = wanted,
         instances' \in Seq(InstanceRecords), stackFrames' = Below, resolutionStack' = Popped(Top.key),
         \A k \in Keys \ {Top.key} : services'[k] = services[k],
         outcome' \in [kind : {"none", "value", "error"}, inst : Nat],
         outcome'.kind = "value" => outcome'.inst # 0, outcome'.kind # "none"
  PROVE  /\ StackTypes' /\ StackHolds' /\ Len(stackFrames') = Len(stackFrames) - 1
         /\ \A m \in 1 .. Len(stackFrames) - 1 : stackFrames'[m] = stackFrames[m]
<1>0. ProgramTypes /\ StackTypes /\ StackHolds
  BY DEF ContainerIInv
<1>1. PICK n \in Nat \ {0} : \E f \in FrameRecords :
        /\ n = Len(stackFrames) /\ f = Top /\ f = stackFrames[n]
        /\ \A m \in 1..n - 1 : stackFrames[m].key # f.key
  BY TopIs
<1>2. PICK f \in FrameRecords :
        /\ n = Len(stackFrames) /\ f = Top /\ f = stackFrames[n]
        /\ \A m \in 1..n - 1 : stackFrames[m].key # f.key
  BY <1>1
<1>3. /\ stackFrames' \in Seq(FrameRecords) /\ Len(stackFrames') = n - 1
      /\ \A m \in 1 .. n - 1 : stackFrames'[m] = stackFrames[m]
  BY <1>0, <1>2, LastDropped DEF StackTypes, Below
<1>4. StackTypes'
  BY <1>0, <1>3 DEF StackTypes, Keys, Classes, FrameRecords, InstanceRecords
<1>5. FirstHold(n - 1)'
  <2>1. \A m \in 1..n - 1 : stackFrames[m].cached => services'[stackFrames[m].key] = services[stackFrames[m].key]
    BY <1>2, <1>0, CachedAreClasses DEF StackHolds
  <2>2. n - 1 \in Nat /\ n - 1 <= Len(stackFrames)
    BY <1>2
  <2> QED
    BY <1>0, <1>3, <2>1, <2>2, FirstStay DEF StackHolds
<1>6. resolutionStack' = {stackFrames'[m].key : m \in 1..n - 1}
  <2>1. resolutionStack = {stackFrames[m].key : m \in 1..n} /\ resolutionStack' = resolutionStack \ {f.key}
    BY <1>0, <1>2 DEF StackHolds, Popped
  <2>2. \A m \in 1..n : m \in 1..n - 1 \/ m = n
    OBVIOUS
  <2>3. \A m \in 1..n - 1 : m \in 1..n
    OBVIOUS
  <2> DEFINE KeyAt(m) == stackFrames[m].key
  <2>4. /\ \A m \in 1..n - 1 : stackFrames'[m].key = KeyAt(m) /\ KeyAt(m) # f.key
        /\ KeyAt(n) = f.key
        /\ resolutionStack = {KeyAt(m) : m \in 1..n}
    BY <1>2, <1>3, <2>1
  <2> HIDE DEF KeyAt
  <2>5. {stackFrames'[m].key : m \in 1..n - 1} = {KeyAt(m) : m \in 1..n - 1}
    BY <2>4
  <2>6. {KeyAt(m) : m \in 1..n} \ {f.key} = {KeyAt(m) : m \in 1..n - 1}
    BY <2>2, <2>3, <2>4
  <2> QED
    BY <2>1, <2>4, <2>5, <2>6
<1> QED
  BY <1>2, <1>3, <1>4, <1>5, <1>6 DEF StackHolds

\* The innermost instantiation goes on.
LEMMA StackReplaced ==
  ASSUME ContainerIInv, stackFrames # << >>, SameNeeds, InstancesStay, UNCHANGED <<services, wanted>>,
         instances' \in Seq(InstanceRecords), NEW g \in FrameRecords, stackFrames' = Append(Below, g),
         g.key = Top.key, g.cached = Top.cached, resolutionStack' = resolutionStack, FrameHolds(g)',
         Len(stackFrames) = 1 => OutermostHolds(g), outcome' = Nothing
  PROVE  StackTypes' /\ StackHolds' /\ OutcomeHolds'
<1>0. ProgramTypes /\ StackTypes /\ StackHolds
  BY DEF ContainerIInv
<1>1. PICK n \in Nat \ {0} : \E f \in FrameRecords :
        /\ n = Len(stackFrames) /\ f = Top /\ f = stackFrames[n]
        /\ \A m \in 1..n - 1 : stackFrames[m].key # f.key
        /\ n > 1 => Linked(stackFrames[n - 1], f) /\ stackFrames[n - 1] \in FrameRecords
  BY TopIs
<1>2. PICK f \in FrameRecords :
        /\ n = Len(stackFrames) /\ f = Top /\ f = stackFrames[n]
        /\ \A m \in 1..n - 1 : stackFrames[m].key # f.key
        /\ n > 1 => Linked(stackFrames[n - 1], f) /\ stackFrames[n - 1] \in FrameRecords
  BY <1>1
<1>3. /\ stackFrames' \in Seq(FrameRecords) /\ Len(stackFrames') = n /\ stackFrames'[n] = g
      /\ \A m \in 1 .. n - 1 : stackFrames'[m] = stackFrames[m]
  BY <1>0, <1>2, LastReplaced DEF StackTypes, Below
<1>4. StackTypes' /\ outcome'.kind = "none"
  BY <1>0, <1>3 DEF Nothing, StackTypes, Keys, Classes, FrameRecords, InstanceRecords
<1>5. FirstHold(n - 1)'
  BY <1>2, <1>0, <1>3, FirstStay DEF StackHolds
<1>6. FirstHold(n)'
  <2>1. \A m \in 1..n - 1 : stackFrames'[m].key # g.key
    BY <1>2, <1>3
  <2>2. n - 1 # 0 => Linked(stackFrames[n - 1], g)'
    BY <1>2, LinkStays, <1>3 DEF Linked
  <2>3. n - 1 # 0 => g.key[2] \in Reach(Classes, Leads, stackFrames'[n - 1].key[2])
    BY <1>0, <1>2, <1>3 DEF StackHolds, FirstHold
  <2>4. Leads' = Leads /\ \A c \in Classes : Leads[c] \subseteq Classes
    BY <1>0, EdgesAre DEF SameNeeds
  <2>5. n - 1 = 0 => OutermostHolds(g)'
    BY <1>0, <1>2, OutermostStays
  <2>6. g.key[2] \in Classes /\ n - 1 \in Nat /\ (n - 1) + 1 = n
    BY FrameIs
  <2>7. FirstHold((n - 1) + 1)'
    BY <1>3, <1>5, <2>1, <2>2, <2>3, <2>4, <2>5, <2>6, FirstOneMore
  <2> QED
    BY <2>6, <2>7
<1>7. resolutionStack' = {stackFrames'[m].key : m \in 1..n}
  <2>1. resolutionStack = {stackFrames[m].key : m \in 1..n}
    BY <1>0, <1>2 DEF StackHolds
  <2>2. \A m \in 1..n : m \in 1..n - 1 \/ m = n
    OBVIOUS
  <2>3. \A m \in 1..n : stackFrames'[m].key = stackFrames[m].key
    BY <1>2, <1>3, <2>2
  <2> QED
    BY <2>1, <2>3
<1>8. StackHolds'
  BY <1>3, <1>6, <1>7 DEF StackHolds
<1> QED
  BY <1>3, <1>4, <1>8, OutcomeIs

\* What a key leads to, its class leads to.
LEMMA KeysLead ==
  ASSUME ProgramTypes, NEW x \in Keys, NEW y \in Reach(Keys, Edges, x)
  PROVE  y[2] \in Reach(Classes, Leads, x[2])
<1> DEFINE R == Reach(Classes, Leads, x[2])
           S == {k \in Keys : k[2] \in R}
<1>1. x[2] \in Classes /\ x[2] \in R
  BY KeysAre, ReachSelf
<1>2. ASSUME NEW z \in S, NEW p \in Edges[z] PROVE p \in S
  <2>1. z \in Keys /\ p \in Keys /\ p \in ParamKeys(z) /\ z[2] \in R /\ z[2] \in Classes
    BY EdgesAre, KeysAre
  <2>2. PICK d \in params[z[2]] : p = ParamKey(d)
    BY <2>1 DEF ParamKeys
  <2>3. d \in Classes /\ d \in Leads[z[2]] /\ p[2] = d
    BY <2>1, <2>2, EdgesAre, KeysAre DEF ProgramTypes
  <2>4. d \in R
    BY <2>1, <2>3, EdgesAre, ReachClosed
  <2> QED
    BY <2>1, <2>3, <2>4
<1>3. S \in SUBSET Keys /\ x \in S /\ \A z \in S : Edges[z] \subseteq S
  BY <1>1, <1>2
<1> HIDE DEF S
<1>4. y \in S
  BY <1>3, ReachLeast
<1> QED
  BY <1>4 DEF S

\* The next parameter is asked for.
LEMMA ResolveParamKeeps == ASSUME ContainerIInv, stackFrames # << >>, ResolveParam PROVE ContainerIInv'
BY NestedKeeps DEF ResolveParam, AskedOf

\* The next property is asked for.
LEMMA ResolvePropertyKeeps == ASSUME ContainerIInv, stackFrames # << >>, ResolveProperty PROVE ContainerIInv'
BY NestedKeeps DEF ResolveProperty, AskedOf

\* An instantiation without what it has just asked for.
LEMMA AskedLess ==
  ASSUME NEW f \in FrameRecords, f.todo # {}
  PROVE  LET g == [f EXCEPT !.todo = f.todo \ {Least(f.todo)}]
         IN /\ g \in FrameRecords /\ g.key = f.key /\ g.cached = f.cached /\ g.at = f.at /\ g.inst = f.inst
            /\ g.todo = f.todo \ {Least(f.todo)}
<1> DEFINE left == f.todo \ {Least(f.todo)}
<1>1. left \in SUBSET Classes
  BY FrameIs
<1> HIDE DEF left
<1>2. [f EXCEPT !.todo = left] \in FrameRecords
  BY <1>1 DEF FrameRecords
<1>3. f = [key |-> f.key, cached |-> f.cached, at |-> f.at, todo |-> f.todo, inst |-> f.inst]
  BY FrameIs
<1>4. /\ [f EXCEPT !.todo = left].key = f.key /\ [f EXCEPT !.todo = left].cached = f.cached
      /\ [f EXCEPT !.todo = left].at = f.at /\ [f EXCEPT !.todo = left].inst = f.inst
      /\ [f EXCEPT !.todo = left].todo = left
  BY <1>3
<1> QED
  BY <1>2, <1>4 DEF left

\* What was asked for has come, and is done.
LEMMA ResolutionReturnsKeeps == ASSUME ContainerIInv, stackFrames # << >>, ResolutionReturns PROVE ContainerIInv'
<1>0. ProgramTypes /\ DefinitionsHold /\ StackTypes /\ OutcomeHolds
  BY DEF ContainerIInv
<1>1. PICK n \in Nat \ {0} : \E f \in FrameRecords :
        n = Len(stackFrames) /\ f = Top /\ FrameHolds(f) /\ (n = 1 => OutermostHolds(f))
  BY TopIs
<1>2. PICK f \in FrameRecords : n = Len(stackFrames) /\ f = Top /\ FrameHolds(f) /\ (n = 1 => OutermostHolds(f))
  BY <1>1
<1> DEFINE h == [f EXCEPT !.todo = f.todo \ {Least(f.todo)}]
<1>3. /\ outcome.kind = "value" /\ f.todo # {} /\ stackFrames' = Append(Below, h) /\ outcome' = Nothing
      /\ UNCHANGED Program /\ services' = services /\ resolutionStack' = resolutionStack /\ instances' = instances
      /\ wanted' = wanted /\ built' = built
  BY <1>2 DEF ResolutionReturns
<1>4. /\ h \in FrameRecords /\ h.key = f.key /\ h.cached = f.cached /\ h.at = f.at /\ h.inst = f.inst
      /\ h.todo = f.todo \ {Least(f.todo)}
  BY <1>3, AskedLess
<1> HIDE DEF h
<1>5. PICK g \in FrameRecords : g = h
  BY <1>4
<1>6. /\ g.key = f.key /\ g.cached = f.cached /\ g.at = f.at /\ g.inst = f.inst
      /\ g.todo = f.todo \ {Least(f.todo)} /\ stackFrames' = Append(Below, g)
  BY <1>3, <1>4, <1>5
<1>7. SameNeeds /\ DefinitionsHold' /\ ProgramTypes' /\ InstancesStay
  BY <1>0, <1>3, DefinitionsStay, InstancesAsTheyAre DEF SameNeeds
<1>8. ~Fails(AskedOf(f))
  BY <1>0, <1>2, <1>3 DEF OutcomeHolds
<1>9. f.at = "params" => ~Fails(ParamKey(Least(f.todo)))
  BY <1>8 DEF AskedOf
<1>10. FrameHolds(g)
  BY <1>2, <1>6, <1>9 DEF FrameHolds, CachedHolds
<1>11. n = 1 => OutermostHolds(g)
  BY <1>2, <1>6, <1>9 DEF ConstructHolds, OutermostHolds
<1>12. FrameHolds(g)'
  BY <1>0, <1>3, <1>7, <1>10, FrameStays
<1>13. StackTypes' /\ StackHolds' /\ OutcomeHolds'
  BY <1>0, <1>2, <1>3, <1>6, <1>7, <1>11, <1>12, StackReplaced DEF StackTypes
<1> QED
  BY <1>7, <1>13 DEF ContainerIInv

\* A property that cannot be had is left undefined, for the cause the property names.
LEMMA PropertyFailsKeeps ==
  ASSUME ContainerIInv, stackFrames # << >>, PropertyFails
  PROVE  /\ ContainerIInv'
         /\ \A i \in 1..Len(instances) : \A d \in instances'[i].missing \ instances[i].missing :
              Broken(ClassKey(d)) \/ instances[i].class \in DependsOn(d)
<1>0. ProgramTypes /\ DefinitionsHold /\ StackTypes /\ StackHolds /\ OutcomeHolds
  BY DEF ContainerIInv
<1>1. PICK n \in Nat \ {0} : \E f \in FrameRecords :
        n = Len(stackFrames) /\ f = Top /\ f = stackFrames[n] /\ FrameHolds(f) /\ (n = 1 => OutermostHolds(f))
  BY TopIs
<1>2. PICK f \in FrameRecords :
        n = Len(stackFrames) /\ f = Top /\ f = stackFrames[n] /\ FrameHolds(f) /\ (n = 1 => OutermostHolds(f))
  BY <1>1
<1>3. f.at = "props" /\ outcome.kind = "error" /\ f.todo # {} /\ f.inst \in 1..Len(instances) /\ instances[f.inst].class = f.key[2]
  BY <1>0, <1>2 DEF PropertyFails, OutcomeHolds, FrameHolds
<1> DEFINE h == [f EXCEPT !.todo = f.todo \ {Least(f.todo)}]
           d == Least(f.todo)
           j == f.inst
<1>4. /\ stackFrames' = Append(Below, h) /\ outcome' = Nothing
      /\ instances' = [instances EXCEPT ![j].missing = instances[j].missing \union {d}]
      /\ UNCHANGED Program /\ services' = services /\ resolutionStack' = resolutionStack
      /\ wanted' = wanted /\ built' = built
  BY <1>2, <1>3 DEF PropertyFails
<1>5. /\ h \in FrameRecords /\ h.key = f.key /\ h.cached = f.cached /\ h.at = f.at /\ h.inst = f.inst
      /\ h.todo = f.todo \ {Least(f.todo)}
  BY <1>3, AskedLess
<1> HIDE DEF h
<1>6. PICK g \in FrameRecords : g = h
  BY <1>5
<1>7. /\ g.key = f.key /\ g.cached = f.cached /\ g.at = f.at /\ g.inst = f.inst
      /\ g.todo = f.todo \ {Least(f.todo)} /\ stackFrames' = Append(Below, g)
  BY <1>4, <1>5, <1>6
<1>8. d \in Classes /\ d \in f.todo /\ AskedOf(f) = ClassKey(d)
  BY <1>3, AskedIs DEF AskedOf
<1> HIDE DEF d, j
<1>9. /\ instances' \in Seq(InstanceRecords) /\ InstancesStay
      /\ Len(instances') = Len(instances) /\ Len(instances) \in Nat
      /\ \A i \in 1..Len(instances) : i # j => instances'[i] = instances[i]
      /\ instances'[j].missing = instances[j].missing \union {d}
  <2>1. instances \in Seq(InstanceRecords) /\ Len(instances) \in Nat /\ DOMAIN instances = 1..Len(instances)
        /\ j \in 1..Len(instances)
    BY <1>0, <1>3, LenProperties DEF StackTypes, j
  <2>2. PICK r \in InstanceRecords : r = instances[j]
    BY <2>1, ElementOfSeq
  <2> DEFINE new == [r EXCEPT !.missing = r.missing \union {d}]
  <2>3. new \in InstanceRecords /\ new.class = r.class /\ new.missing = r.missing \union {d}
    BY <1>8 DEF InstanceRecords
  <2>4. instances' = [instances EXCEPT ![j] = new]
    BY <1>4, <2>2
  <2> HIDE DEF new
  <2>5. instances' \in Seq(InstanceRecords) /\ Len(instances') = Len(instances)
    BY <2>1, <2>3, <2>4, ExceptSeq
  <2>6. instances'[j] = new /\ \A i \in 1..Len(instances) : i # j => instances'[i] = instances[i]
    BY <2>1, <2>4
  <2> QED
    BY <2>1, <2>2, <2>3, <2>5, <2>6 DEF InstancesStay
<1>10. SameNeeds /\ DefinitionsHold' /\ ProgramTypes'
  BY <1>0, <1>4, DefinitionsStay DEF SameNeeds
<1>11. FrameHolds(g)
  BY <1>2, <1>3, <1>7 DEF FrameHolds, CachedHolds
<1>12. n = 1 => OutermostHolds(g)
  BY <1>2, <1>3, <1>7 DEF ConstructHolds, OutermostHolds
<1>13. FrameHolds(g)'
  BY <1>0, <1>4, <1>9, <1>10, <1>11, FrameStays
<1>14. StackTypes' /\ StackHolds' /\ OutcomeHolds'
  BY <1>0, <1>2, <1>4, <1>7, <1>9, <1>10, <1>12, <1>13, StackReplaced
<1>15. Broken(ClassKey(d)) \/ instances[j].class \in DependsOn(d)
  <2> DEFINE x == ClassKey(d)
  <2>1. x \in Keys /\ x[2] = d
    BY <1>8, KeysAre
  <2>2. Reason(x, n)
    BY <1>0, <1>2, <1>3, <1>8 DEF OutcomeHolds
  <2>3. Broken(x) <=> Fails(x)
    BY <1>0, BrokenIs, DefinitionsAre
  <2> HIDE DEF x
  <2>4. CASE Fails(x)
    BY <2>3, <2>4 DEF x
  <2>5. ASSUME NEW m \in 1..n, stackFrames[m].key \in Reach(Keys, Edges, x) PROVE instances[j].class \in DependsOn(d)
    <3>1. f.key[2] \in Reach(Classes, Leads, stackFrames[m].key[2])
      BY <1>0, <1>2 DEF StackHolds, FirstHold
    <3>2. stackFrames[m].key[2] \in Reach(Classes, Leads, d)
      BY <1>0, <2>1, <2>5, KeysLead
    <3>3. f.key[2] \in Reach(Classes, Leads, d)
      BY <1>0, <3>1, <3>2, EdgesAre, ReachOn
    <3> QED
      BY <1>0, <1>3, <3>3, DependsOnIs DEF j
  <2> QED
    BY <2>2, <2>4, <2>5 DEF Reason, x
<1>16. ASSUME NEW i \in 1..Len(instances), NEW e \in instances'[i].missing \ instances[i].missing
       PROVE  Broken(ClassKey(e)) \/ instances[i].class \in DependsOn(e)
  BY <1>9, <1>16, <1>15
<1>17. ContainerIInv'
  BY <1>10, <1>14 DEF ContainerIInv
<1> QED
  BY <1>16, <1>17

\* An instantiation that ends is what the one before it asked for.
LEMMA EndsBelow ==
  ASSUME ContainerIInv, stackFrames # << >>, SameNeeds, StackTypes', wanted' = wanted,
         NEW n \in Nat \ {0}, n = Len(stackFrames), NEW f \in FrameRecords, f = Top,
         Len(stackFrames') = n - 1, \A m \in 1..n - 1 : stackFrames'[m] = stackFrames[m],
         outcome'.kind \in {"value", "error"},
         f.cached => /\ outcome'.kind = "value" => ~Fails(f.key)
                     /\ outcome'.kind = "error" =>
                          Fails(f.key) \/ \E m \in 1..n - 1 : stackFrames[m].key \in Reach(Keys, Edges, f.key),
         ~f.cached => (outcome'.kind = "error" <=> \E x \in wanted : Fails(x))
  PROVE  OutcomeHolds'
<1>1. \E l \in Nat \ {0} : \E e \in FrameRecords :
        /\ l = Len(stackFrames) /\ e = Top
        /\ (l = 1 => OutermostHolds(e)) /\ (~e.cached => l = 1)
        /\ l > 1 => Linked(stackFrames[l - 1], e) /\ stackFrames[l - 1] \in FrameRecords
  BY TopIs
<1>2. /\ (n = 1 => OutermostHolds(f)) /\ (~f.cached => n = 1)
      /\ n > 1 => Linked(stackFrames[n - 1], f) /\ stackFrames[n - 1] \in FrameRecords
  BY <1>1
<1>3. f.cached \in BOOLEAN /\ stackFrames' \in Seq(FrameRecords)
  BY FrameIs DEF StackTypes
<1>4. CASE n = 1
  BY <1>3, <1>4, EmptySeq, <1>2 DEF OutermostHolds, SameNeeds, OutcomeHolds
<1>5. CASE n > 1
  BY <1>5, <1>2, <1>3, OutcomeIs DEF Linked
<1> QED
  BY <1>4, <1>5

\* The class of a constructor that is called by hand.
LEMMA ConstructsClass ==
  ASSUME DefinitionsHold, NEW f \in FrameRecords, f.key = ClassKey(f.key[2])
  PROVE  services[f.key].kind \in {"none", "class"}
BY FrameIs, KeysAre, DefinitionsAre

\* A parameter that cannot be had ends the instantiation, and what asked for it hears of it.
LEMMA ParamFailsKeeps == ASSUME ContainerIInv, stackFrames # << >>, ParamFails PROVE ContainerIInv'
<1>0. ProgramTypes /\ DefinitionsHold /\ StackTypes /\ StackHolds /\ OutcomeHolds
  BY DEF ContainerIInv
<1>1. PICK n \in Nat \ {0} : \E f \in FrameRecords :
        n = Len(stackFrames) /\ f = Top /\ f = stackFrames[n] /\ FrameHolds(f) /\ (n = 1 => OutermostHolds(f)) /\ (~f.cached => n = 1)
  BY TopIs
<1>2. PICK f \in FrameRecords :
        n = Len(stackFrames) /\ f = Top /\ f = stackFrames[n] /\ FrameHolds(f) /\ (n = 1 => OutermostHolds(f)) /\ (~f.cached => n = 1)
  BY <1>1
<1> DEFINE d == Least(f.todo)
           x == ParamKey(d)
           y == f.key
<1>3. /\ f.at = "params" /\ outcome.kind = "error" /\ outcome' = outcome
      /\ stackFrames' = Below /\ resolutionStack' = Popped(Top.key)
      /\ UNCHANGED Program /\ services' = services /\ built' = built /\ instances' = instances /\ wanted' = wanted
  BY <1>2 DEF ParamFails
<1>4. SameNeeds /\ DefinitionsHold' /\ ProgramTypes' /\ InstancesStay
  BY <1>0, <1>3, DefinitionsStay, InstancesAsTheyAre DEF SameNeeds
<1>5. /\ StackTypes' /\ StackHolds' /\ Len(stackFrames') = n - 1
      /\ \A m \in 1 .. n - 1 : stackFrames'[m] = stackFrames[m]
  BY <1>0, <1>2, <1>3, <1>4, StackPopped DEF StackTypes
<1>6. /\ f.todo # {} /\ d \in f.todo /\ AskedOf(f) = x /\ Reason(x, n)
      /\ d \in params[y[2]] /\ d \in Classes /\ x \in Keys /\ y \in Keys
  BY <1>0, <1>2, <1>3, AskedIs, FrameIs, KeysAre DEF OutcomeHolds, AskedOf, FrameHolds
<1> HIDE DEF d, x, y
<1>7. Reason(x, n) <=> (Fails(x) \/ \E m \in 1..n : stackFrames[m].key \in Reach(Keys, Edges, x))
  BY DEF Reason
<1>8. \A z \in Keys : Edges[z] \subseteq Keys
  BY <1>0, EdgesAre
<1>9. ASSUME services[y].kind = "class"
      PROVE  /\ x \in Edges[y] /\ x \in Reach(Keys, Edges, y) /\ Reach(Keys, Edges, x) \subseteq Reach(Keys, Edges, y)
             /\ Fails(x) => Fails(y)
             /\ y \in Reach(Keys, Edges, x) => Fails(y)
  <2>1. x \in Edges[y]
    BY <1>0, <1>6, <1>9, TakesParams DEF x
  <2>2. x \in Reach(Keys, Edges, y) /\ Reach(Keys, Edges, x) \subseteq Reach(Keys, Edges, y)
    BY <1>6, <1>8, <2>1, ReachNext
  <2>3. Fails(x) => Fails(y)
    BY <1>8, <2>2, BrokenOn DEF Fails
  <2>4. y \in Reach(Keys, Edges, x) => Fails(y)
    BY <1>6, <2>1, BrokenHere DEF Fails
  <2> QED
    BY <2>1, <2>2, <2>3, <2>4
<1>10. ASSUME f.cached PROVE Fails(y) \/ \E m \in 1..n - 1 : stackFrames[m].key \in Reach(Keys, Edges, y)
  <2>1. services[y].kind = "class"
    BY <1>2, <1>10 DEF FrameHolds, CachedHolds, y
  <2>2. CASE Fails(x)
    BY <1>9, <2>1, <2>2
  <2>3. ASSUME NEW m \in 1..n, stackFrames[m].key \in Reach(Keys, Edges, x)
        PROVE  Fails(y) \/ \E l \in 1..n - 1 : stackFrames[l].key \in Reach(Keys, Edges, y)
    <3>1. CASE m = n
      BY <1>2, <1>9, <2>1, <2>3, <3>1 DEF y
    <3>2. CASE m # n
      BY <3>2, <1>9, <2>1, <2>3
    <3> QED
      BY <3>1, <3>2
  <2> QED
    BY <1>6, <1>7, <2>2, <2>3
<1>11. ASSUME ~f.cached PROVE \E z \in wanted : Fails(z)
  <2>1. n = 1 /\ ConstructHolds(f)
    BY <1>2, <1>11 DEF OutermostHolds
  <2>2. x \in wanted
    BY <1>3, <1>6, <2>1 DEF ConstructHolds, x
  <2>3. Fails(x)
    <3>1. SUFFICES ASSUME y \in Reach(Keys, Edges, x) PROVE Fails(x)
      BY <1>2, <2>1, <1>6, <1>7 DEF y
    <3>2. services[y].kind \in {"none", "class"}
      BY <1>0, <2>1, ConstructsClass DEF ConstructHolds, y
    <3>3. Fails(y)
      BY <1>6, <1>9, <3>1, <3>2, MissingFails
    <3> QED
      BY <1>8, <3>1, <3>3, BrokenOn DEF Fails
  <2> QED
    BY <2>2, <2>3
<1>12. OutcomeHolds'
  <2>1. outcome'.kind = "error"
    BY <1>3
  <2>2. f.cached => Fails(f.key) \/ \E m \in 1..n - 1 : stackFrames[m].key \in Reach(Keys, Edges, f.key)
    BY <1>10 DEF y
  <2> QED
    BY <1>2, <1>3, <1>4, <1>5, <1>11, <2>1, <2>2, EndsBelow
<1> QED
  BY <1>4, <1>5, <1>12 DEF ContainerIInv

\* The constructor runs, or throws.
LEMMA NewKeeps == ASSUME ContainerIInv, stackFrames # << >>, New PROVE ContainerIInv'
<1>0. ProgramTypes /\ DefinitionsHold /\ StackTypes /\ StackHolds /\ OutcomeHolds
  BY DEF ContainerIInv
<1>1. PICK n \in Nat \ {0} : \E f \in FrameRecords :
        n = Len(stackFrames) /\ f = Top /\ f = stackFrames[n] /\ FrameHolds(f) /\ (n = 1 => OutermostHolds(f)) /\ (~f.cached => n = 1)
  BY TopIs
<1>2. PICK f \in FrameRecords :
        n = Len(stackFrames) /\ f = Top /\ f = stackFrames[n] /\ FrameHolds(f) /\ (n = 1 => OutermostHolds(f)) /\ (~f.cached => n = 1)
  BY <1>1
<1> DEFINE i == Len(instances) + 1
           c == f.key[2]
           y == f.key
           r == [class |-> c, key |-> y, missing |-> {}]
           h == [f EXCEPT !.at = "props", !.todo = props[c], !.inst = i]
<1>3. /\ f.at = "params" /\ f.todo = {} /\ outcome = Nothing
      /\ instances' = Append(instances, r)
      /\ \/ /\ Is("faulty", c) /\ stackFrames' = Below /\ resolutionStack' = Popped(Top.key) /\ outcome' = Error
         \/ /\ ~Is("faulty", c) /\ stackFrames' = Append(Below, h)
            /\ resolutionStack' = resolutionStack /\ outcome' = outcome
      /\ UNCHANGED Program /\ services' = services /\ built' = built /\ wanted' = wanted
  BY <1>2 DEF New
<1>4. c \in Classes /\ y \in Keys /\ props[c] \in SUBSET Classes
  BY <1>0, FrameIs DEF ProgramTypes
<1>5. r \in InstanceRecords /\ r.class = c
  BY <1>4 DEF InstanceRecords
<1>6. Len(instances) \in Nat /\ i \in Nat
  BY <1>0, LenProperties DEF StackTypes
<1>7. /\ h \in FrameRecords /\ h.key = f.key /\ h.cached = f.cached /\ h.at = "props" /\ h.inst = i /\ h.todo = props[c]
  BY <1>4, <1>6 DEF FrameRecords
<1> HIDE DEF r, h
<1>8. /\ instances' \in Seq(InstanceRecords) /\ InstancesStay /\ i \in 1..Len(instances') /\ instances'[i] = r
  BY <1>0, <1>3, <1>5, InstanceAdded
<1> HIDE DEF i
<1>9. SameNeeds /\ DefinitionsHold' /\ ProgramTypes'
  BY <1>0, <1>3, DefinitionsStay DEF SameNeeds
<1>10. CASE /\ Is("faulty", c) /\ stackFrames' = Below /\ resolutionStack' = Popped(Top.key) /\ outcome' = Error
  <2>1. outcome' \in [kind : {"none", "value", "error"}, inst : Nat] /\ outcome'.kind = "error"
    BY <1>10 DEF Error
  <2>2. /\ StackTypes' /\ StackHolds' /\ Len(stackFrames') = n - 1
        /\ \A m \in 1 .. n - 1 : stackFrames'[m] = stackFrames[m]
    BY <1>0, <1>2, <1>3, <1>8, <1>9, <1>10, <2>1, StackPopped
  <2>3. services[y].kind \in {"none", "class"} => Fails(y)
    BY <1>4, <1>10, BrokenHere DEF Bad, Fails
  <2>4. f.cached => Fails(y)
    BY <1>2, <2>3 DEF FrameHolds, CachedHolds
  <2>5. ~f.cached => \E z \in wanted : Fails(z)
    BY <1>2, <1>3, <1>10, <1>0, ConstructsClass, <2>3 DEF OutermostHolds, ConstructHolds
  <2>6. OutcomeHolds'
    BY <1>2, <1>3, <1>9, <2>1, <2>2, <2>4, <2>5, EndsBelow
  <2> QED
    BY <1>9, <2>2, <2>6 DEF ContainerIInv
<1>11. CASE /\ ~Is("faulty", c) /\ stackFrames' = Append(Below, h)
            /\ resolutionStack' = resolutionStack /\ outcome' = outcome
  <2>1. PICK g \in FrameRecords : g = h
    BY <1>7
  <2>2. /\ g.key = f.key /\ g.cached = f.cached /\ g.at = "props" /\ g.inst = i /\ g.todo = props[c]
        /\ stackFrames' = Append(Below, g) /\ outcome' = Nothing
    BY <1>3, <1>7, <1>11, <2>1
  <2>3. f.cached => ~Fails(y)
    <3>1. SUFFICES ASSUME f.cached PROVE ~Fails(y)
      OBVIOUS
    <3>2. services[y].kind = "class" /\ \A d \in params[c] : ~Fails(ParamKey(d))
      BY <1>2, <1>3, <3>1 DEF FrameHolds, CachedHolds
    <3>3. y \notin Bad
      BY <1>11, <3>2 DEF Bad
    <3>4. \A p \in Edges[y] : ~BrokenIn(Edges, Bad, p)
      BY <1>0, <1>4, <3>2, TakesParams DEF Fails
    <3>5. \A z \in Keys : Edges[z] \subseteq Keys
      BY <1>0, EdgesAre
    <3> QED
      BY <1>4, <3>3, <3>4, <3>5, BuildsIf DEF Fails
  <2>4. FrameHolds(g)'
    <3>1. props' = props /\ oddity' = oddity /\ (~Fails(y) => ~Fails(y)')
      BY <1>9 DEF SameNeeds
    <3>2. f.cached => services[y].kind = "class" /\ (services[y].single => services[y].inst = 0)
      BY <1>2 DEF FrameHolds, CachedHolds
    <3>3. f.cached => CachedHolds(g)'
      BY <1>3, <2>2, <2>3, <3>1, <3>2 DEF CachedHolds
    <3>4. ~Is("faulty", c)'
      BY <1>11, <3>1 DEF Is
    <3> QED
      BY <1>5, <1>8, <2>2, <3>1, <3>3, <3>4 DEF FrameHolds
  <2>5. n = 1 => OutermostHolds(g)
    BY <1>2, <1>3, <1>11, <2>2 DEF ConstructHolds, OutermostHolds
  <2>6. StackTypes' /\ StackHolds' /\ OutcomeHolds'
    BY <1>2, <1>3, <1>8, <1>9, <1>11, <2>2, <2>4, <2>5, StackReplaced
  <2> QED
    BY <1>9, <2>6 DEF ContainerIInv
<1> QED
  BY <1>3, <1>10, <1>11

\* An instantiation that has all it wants is cached and returned.
LEMMA ReturnKeeps == ASSUME ContainerIInv, stackFrames # << >>, Return PROVE ContainerIInv'
<1>0. ProgramTypes /\ DefinitionsHold /\ StackTypes /\ StackHolds /\ OutcomeHolds
  BY DEF ContainerIInv
<1>1. PICK n \in Nat \ {0} : \E f \in FrameRecords :
        n = Len(stackFrames) /\ f = Top /\ f = stackFrames[n] /\ FrameHolds(f) /\ (n = 1 => OutermostHolds(f)) /\ (~f.cached => n = 1)
  BY TopIs
<1>2. PICK f \in FrameRecords :
        n = Len(stackFrames) /\ f = Top /\ f = stackFrames[n] /\ FrameHolds(f) /\ (n = 1 => OutermostHolds(f)) /\ (~f.cached => n = 1)
  BY <1>1
<1> DEFINE y == f.key
           j == f.inst
<1>3. /\ f.at = "props" /\ f.todo = {} /\ outcome = Nothing
      /\ services' = IF f.cached THEN [services EXCEPT ![y] = Cached(services[y], j)] ELSE services
      /\ built' = IF f.cached THEN [built EXCEPT ![y] = built[y] \union {j}] ELSE built
      /\ stackFrames' = Below /\ resolutionStack' = Popped(Top.key)
      /\ outcome' = Value(j)
      /\ UNCHANGED Program /\ instances' = instances /\ wanted' = wanted
  BY <1>2 DEF Return
<1>4. y \in Keys /\ j \in Nat \ {0} /\ f.cached \in BOOLEAN
  BY <1>0, <1>2, <1>3, LenProperties, FrameIs DEF FrameHolds, StackTypes
<1>5. InstancesStay
  BY <1>3, InstancesAsTheyAre
<1>6. SameNeeds /\ DefinitionsHold' /\ \A k \in Keys \ {y} : services'[k] = services[k]
  <2>1. CASE f.cached
    <3>1. services[y].kind = "class" /\ ~Fails(y) /\ (services[y].single => services[y].inst = 0)
      BY <1>2, <1>3, <2>1 DEF FrameHolds, CachedHolds
    <3>2. /\ services' = [services EXCEPT ![y] = Cached(services[y], j)]
          /\ built' = [built EXCEPT ![y] = built[y] \union {j}] /\ UNCHANGED Program
      BY <1>3, <2>1
    <3> HIDE DEF y, j
    <3> QED
      BY <1>0, <1>4, <3>1, <3>2, DefinitionsFill
  <2>2. CASE ~f.cached
    BY <1>0, <1>3, <2>2, DefinitionsStay
  <2> QED
    BY <1>4, <2>1, <2>2
<1>7. outcome' \in [kind : {"none", "value", "error"}, inst : Nat] /\ outcome'.kind = "value" /\ outcome'.inst # 0
  <2>1. outcome' = [kind |-> "value", inst |-> j]
    BY <1>3 DEF Value
  <2> HIDE DEF j
  <2> QED
    BY <1>4, <2>1
<1>8. /\ StackTypes' /\ StackHolds' /\ Len(stackFrames') = n - 1
      /\ \A m \in 1 .. n - 1 : stackFrames'[m] = stackFrames[m]
  BY <1>0, <1>2, <1>3, <1>5, <1>6, <1>7, StackPopped DEF StackTypes
<1>9. f.cached => ~Fails(f.key)
  BY <1>2, <1>3 DEF FrameHolds, CachedHolds
<1>10. ~f.cached => \A x \in wanted : ~Fails(x)
  BY <1>2, <1>3 DEF OutermostHolds, ConstructHolds
<1>11. OutcomeHolds'
  BY <1>2, <1>3, <1>6, <1>7, <1>8, <1>9, <1>10, EndsBelow
<1>12. ProgramTypes'
  BY <1>6 DEF SameNeeds
<1> QED
  BY <1>6, <1>8, <1>11, <1>12 DEF ContainerIInv

\* Without instantiations nothing is under way.
LEMMA EmptyStackHolds == ASSUME stackFrames' = << >>, resolutionStack' = {} PROVE StackHolds'
BY EmptySeq DEF FirstHold, StackHolds

\* Between two calls of the application nothing is being resolved.
LEMMA NothingAtRest == ASSUME StackHolds, stackFrames = << >> PROVE resolutionStack = {}
BY EmptySeq DEF StackHolds

\* The definitions change between two calls of the application.
LEMMA RestKeeps ==
  ASSUME ContainerIInv, stackFrames = << >>, ProgramTypes', DefinitionsHold', wanted' = {}, outcome' = Nothing,
         UNCHANGED <<stackFrames, resolutionStack, instances>>
  PROVE  ContainerIInv'
<1>1. StackTypes /\ StackHolds
  BY DEF ContainerIInv
<1>2. StackHolds'
  BY <1>1, NothingAtRest, EmptyStackHolds
<1>3. outcome' \in [kind : {"none", "value", "error"}, inst : Nat] /\ outcome'.kind = "none"
  BY DEF Nothing
<1>4. StackTypes'
  BY <1>1, <1>3 DEF StackTypes, Keys, Classes, FrameRecords, InstanceRecords, Nothing
<1>5. OutcomeHolds'
  BY DEF OutcomeHolds
<1> QED
  BY <1>2, <1>4, <1>5 DEF ContainerIInv

\* The outermost instantiation.
LEMMA FirstPushed ==
  ASSUME ContainerIInv, stackFrames = << >>, SameNeeds, NEW g \in FrameRecords, stackFrames' = Append(stackFrames, g),
         resolutionStack' = resolutionStack \union {g.key}, FrameHolds(g)', OutermostHolds(g)', outcome' = Nothing,
         instances' = instances, wanted' \in SUBSET Keys
  PROVE  StackTypes' /\ StackHolds' /\ OutcomeHolds'
<1>0. ProgramTypes /\ StackTypes /\ StackHolds
  BY DEF ContainerIInv
<1>1. stackFrames' \in Seq(FrameRecords) /\ Len(stackFrames') = 1 /\ stackFrames'[1] = g
  BY <1>0, EmptySeq, StackPushed DEF StackTypes
<1>2. StackTypes' /\ outcome'.kind = "none"
  BY <1>0, <1>1 DEF Nothing, StackTypes, Keys, Classes, FrameRecords, InstanceRecords
<1>3. FirstHold(1)'
  <2>1. FirstHold(0)'
    BY DEF FirstHold
  <2>2. Leads' = Leads /\ (\A c \in Classes : Leads[c] \subseteq Classes) /\ g.key[2] \in Classes
    BY <1>0, EdgesAre, FrameIs DEF SameNeeds
  <2>3. (\A m \in 1..0 : FALSE) /\ 0 + 1 = 1 /\ 0 \in Nat
    OBVIOUS
  <2>4. FirstHold(0 + 1)'
    BY <1>1, <2>1, <2>2, <2>3, FirstOneMore
  <2> QED
    BY <2>3, <2>4
<1>4. resolutionStack' = {stackFrames'[m].key : m \in 1..1}
  BY <1>0, NothingAtRest, <1>1
<1>5. StackHolds'
  BY <1>1, <1>3, <1>4 DEF StackHolds
<1>6. OutcomeHolds'
  BY <1>1, <1>2, OutcomeIs
<1> QED
  BY <1>2, <1>5, <1>6

\* The application resolves a key.
LEMMA ResolveKeeps == ASSUME ContainerIInv, NEW key \in Keys, Resolve(key) PROVE ContainerIInv'
<1>0. /\ ProgramTypes /\ DefinitionsHold /\ StackTypes /\ StackHolds
      /\ stackFrames = << >> /\ Enter(key) /\ wanted' = {key} /\ UNCHANGED Program
  BY DEF ContainerIInv, Resolve, AtRest
<1>1. /\ SameNeeds /\ DefinitionsHold' /\ InstancesStay
      /\ instances' \in Seq(InstanceRecords)
      /\ \A k \in Keys : services[k].kind = "class" => services'[k] = services[k]
      /\ outcome' \in [kind : {"none", "value", "error"}, inst : Nat]
      /\ outcome'.kind = "value" => outcome'.inst # 0
      /\ outcome'.kind = "none" => outcome' = Nothing
  BY <1>0, EnterDoes
<1>2. ProgramTypes' /\ resolutionStack = {}
  BY <1>0, <1>1, NothingAtRest DEF SameNeeds
<1>3. CASE /\ stackFrames' = stackFrames /\ resolutionStack' = resolutionStack
           /\ outcome'.kind \in {"value", "error"}
           /\ outcome'.kind = "value" => ~Fails(key)
           /\ outcome'.kind = "error" => key \in resolutionStack \/ Fails(key)
  <2>1. StackTypes'
    BY <1>0, <1>1, <1>3 DEF StackTypes, Keys, Classes, FrameRecords, InstanceRecords, Nothing
  <2>2. StackHolds'
    BY <1>0, <1>2, <1>3, EmptyStackHolds
  <2>3. Fails(key)' <=> Fails(key)
    BY <1>1 DEF SameNeeds
  <2>4. \A x \in wanted' : x = key
    BY <1>0
  <2>5. (\E x \in wanted' : Fails(x)') <=> Fails(key)
    BY <2>3, <1>0, <2>4
  <2>6. OutcomeHolds'
    BY <1>0, <1>2, <1>3, <2>5 DEF OutcomeHolds
  <2> QED
    BY <1>1, <1>2, <2>1, <2>2, <2>6 DEF ContainerIInv
<1>4. CASE /\ stackFrames' = Append(stackFrames, NewFrame(key, TRUE, {}))
           /\ resolutionStack' = resolutionStack \union {key}
           /\ outcome' = Nothing /\ key \notin resolutionStack
           /\ services[key].kind = "class" /\ (services[key].single => services[key].inst = 0)
           /\ instances' = instances
  <2> DEFINE h == NewFrame(key, TRUE, {})
  <2>1. /\ h \in FrameRecords /\ h.key = key /\ h.cached = TRUE /\ h.at = "params" /\ h.todo = params[key[2]] \ {}
    BY <1>0, KeysAre DEF ProgramTypes, NewFrame, FrameRecords
  <2> HIDE DEF h
  <2>2. PICK g \in FrameRecords : g = h
    BY <2>1
  <2>3. /\ g.key = key /\ g.cached = TRUE /\ g.at = "params" /\ g.todo = params[key[2]]
        /\ stackFrames' = Append(stackFrames, g)
    BY <1>4, <2>1, <2>2 DEF h
  <2>4. services'[key] = services[key] /\ params' = params
    BY <1>1, <1>4 DEF SameNeeds
  <2>5. FrameHolds(g)'
    BY <1>4, <2>3, <2>4 DEF CachedHolds, FrameHolds
  <2>6. OutermostHolds(g)' /\ wanted' \in SUBSET Keys
    BY <1>0, <2>3 DEF OutermostHolds
  <2>7. StackTypes' /\ StackHolds' /\ OutcomeHolds'
    BY <1>1, <1>0, <1>4, <2>3, <2>5, <2>6, FirstPushed
  <2> QED
    BY <1>1, <1>2, <2>7 DEF ContainerIInv
<1> QED
  BY <1>0, <1>3, <1>4, EnterDoes

\* The application constructs a class with some of its parameters.
LEMMA ConstructKeeps ==
  ASSUME ContainerIInv, NEW c \in Classes, NEW overrides \in SUBSET params[c], Construct(c, overrides) PROVE ContainerIInv'
<1> DEFINE key == ClassKey(c)
           h == NewFrame(key, FALSE, overrides)
           w == {ParamKey(d) : d \in params[c] \ overrides} \union (IF Is("faulty", c) THEN {key} ELSE {})
<1>0. /\ ProgramTypes /\ DefinitionsHold /\ StackTypes /\ StackHolds
      /\ stackFrames = << >> /\ wanted' = w /\ UNCHANGED Program
      /\ stackFrames' = Append(stackFrames, h)
      /\ resolutionStack' = resolutionStack \union {key}
      /\ outcome' = Nothing /\ services' = services /\ instances' = instances /\ built' = built
  BY DEF ContainerIInv, Construct, AtRest
<1>1. SameNeeds /\ DefinitionsHold' /\ ProgramTypes'
  BY <1>0, DefinitionsStay DEF SameNeeds
<1>2. key \in Keys /\ key[2] = c /\ params[c] \in SUBSET Classes
  BY <1>0, KeysAre DEF ProgramTypes
<1>3. /\ h \in FrameRecords /\ h.key = key /\ h.cached = FALSE /\ h.at = "params" /\ h.todo = params[c] \ overrides
  BY <1>2 DEF NewFrame, FrameRecords
<1>4. w \in SUBSET Keys
  BY <1>2, KeysAre
<1> HIDE DEF h
<1>5. PICK g \in FrameRecords : g = h
  BY <1>3
<1>6. /\ g.key = key /\ g.cached = FALSE /\ g.at = "params" /\ g.todo = params[c] \ overrides
      /\ stackFrames' = Append(stackFrames, g)
  BY <1>0, <1>3, <1>5
<1>7. /\ params' = params /\ oddity' = oddity /\ \A d \in Classes : ParamKey(d)' = ParamKey(d)
  BY <1>1 DEF SameNeeds
<1>8. FrameHolds(g)'
  BY <1>2, <1>6, <1>7 DEF FrameHolds
<1>9. OutermostHolds(g)'
  <2>1. Is("faulty", c)' <=> Is("faulty", c)
    BY <1>7 DEF Is
  <2>2. \A x \in wanted' : \/ x = key /\ Is("faulty", c)'
                           \/ \E d \in params'[c] : x = ParamKey(d)' /\ d \in g.todo
    BY <1>0, <1>2, <1>6, <1>7, <2>1
  <2>3. \A d \in g.todo : ParamKey(d)' \in wanted'
    BY <1>0, <1>2, <1>6, <1>7
  <2>4. Is("faulty", c)' => key \in wanted'
    BY <1>0, <2>1
  <2>5. g.key = ClassKey(c)' /\ g.key[2] = c
    BY <1>2, <1>6 DEF ClassKey
  <2> HIDE DEF key, w
  <2>6. ConstructHolds(g)'
    BY <1>6, <2>2, <2>3, <2>4, <2>5 DEF ConstructHolds
  <2> QED
    BY <1>6, <2>6 DEF OutermostHolds
<1>10. StackTypes' /\ StackHolds' /\ OutcomeHolds'
  <2>1. wanted' \in SUBSET Keys /\ resolutionStack' = resolutionStack \union {g.key}
    BY <1>0, <1>4, <1>6
  <2> HIDE DEF key, w
  <2> QED
    BY <1>0, <1>1, <1>6, <1>8, <1>9, <2>1, FirstPushed
<1> QED
  BY <1>1, <1>10 DEF ContainerIInv

\* A class is registered, again perhaps: its definitions are new.
LEMMA RegisterKeepsAll == ASSUME ContainerIInv, NEW c \in Classes, Register(c) PROVE ContainerIInv'
BY RegisterKeeps, RestKeeps DEF ContainerIInv, Register, AtRest

\* All definitions are cleared.
LEMMA ClearKeepsAll == ASSUME ContainerIInv, Clear PROVE ContainerIInv'
BY ClearKeeps, RestKeeps DEF ContainerIInv, Clear, AtRest

\* A container is forked, with its singletons or without.
LEMMA ForkKeepsAll == ASSUME ContainerIInv, NEW carry \in BOOLEAN, Fork(carry) PROVE ContainerIInv'
BY ForkKeeps, RestKeeps DEF ContainerIInv, Fork, AtRest, SameNeeds

\* Nothing else disturbs it.
LEMMA ContainerStays == ASSUME ContainerIInv, UNCHANGED containerVars PROVE ContainerIInv'
<1>0. /\ ProgramTypes /\ DefinitionsHold /\ StackTypes /\ StackHolds /\ OutcomeHolds
      /\ UNCHANGED Program /\ services' = services /\ built' = built /\ stackFrames' = stackFrames
      /\ resolutionStack' = resolutionStack /\ outcome' = outcome /\ instances' = instances /\ wanted' = wanted
  BY DEF containerVars, ContainerIInv, Program
<1>1. SameNeeds /\ DefinitionsHold' /\ ProgramTypes' /\ InstancesStay
  BY <1>0, DefinitionsStay, InstancesAsTheyAre DEF SameNeeds
<1>2. StackTypes'
  BY <1>0 DEF StackTypes, Keys, Classes, FrameRecords, InstanceRecords, Nothing
<1>3. CASE stackFrames = << >>
  BY <1>0, <1>3, NothingAtRest, EmptyStackHolds, <1>1, <1>2 DEF SameNeeds, OutcomeHolds, ContainerIInv
<1>4. CASE stackFrames # << >>
  <2>1. PICK n \in Nat \ {0} : n = Len(stackFrames)
    BY <1>0, <1>4, StackIs
  <2>2. PICK f \in FrameRecords : f = Top /\ f = stackFrames[n]
    BY <1>0, <1>4, <2>1, StackIs
  <2>3. FirstHold(n)'
    BY <1>0, <1>1, <2>1, FirstStay DEF StackHolds
  <2>4. StackHolds'
    BY <1>0, <2>1, <2>3 DEF StackHolds
  <2>5. /\ outcome.kind \in {"none", "value", "error"}
        /\ outcome.kind # "none" => f.todo # {}
        /\ outcome.kind = "value" => ~Fails(AskedOf(f))
        /\ outcome.kind = "error" => Reason(AskedOf(f), n)
    BY <1>0, <1>4, <2>1, <2>2 DEF OutcomeHolds, StackTypes
  <2>6. stackFrames' \in Seq(FrameRecords) /\ Len(stackFrames') = n /\ stackFrames'[n] = f
    BY <1>0, <2>1, <2>2 DEF StackTypes
  <2>7. OutcomeHolds'
    BY <1>0, <1>1, <2>5, <2>6, OutcomeIs DEF Reason
  <2> QED
    BY <1>1, <1>2, <2>4, <2>7 DEF ContainerIInv
<1> QED
  BY <1>3, <1>4

\* Every step of the container keeps the invariant.
LEMMA ContainerKept == ASSUME ContainerIInv, [ContainerNext]_containerVars PROVE ContainerIInv'
<1>1. CASE Instantiate
  BY <1>1, ResolveParamKeeps, ResolutionReturnsKeeps, ParamFailsKeeps, NewKeeps, ResolvePropertyKeeps,
     PropertyFailsKeeps, ReturnKeeps DEF Instantiate
<1>2. ASSUME NEW k \in Keys, Resolve(k) PROVE ContainerIInv'
  BY <1>2, ResolveKeeps
<1>3. ASSUME NEW c \in Classes, Register(c) \/ \E overrides \in SUBSET params[c] : Construct(c, overrides) PROVE ContainerIInv'
  BY <1>3, RegisterKeepsAll, ConstructKeeps
<1>4. CASE Clear
  BY <1>4, ClearKeepsAll
<1>5. ASSUME NEW carry \in BOOLEAN, Fork(carry) PROVE ContainerIInv'
  BY <1>5, ForkKeepsAll
<1> QED
  BY <1>1, <1>2, <1>3, <1>4, <1>5, ContainerStays DEF ContainerNext

\* A new container satisfies it.
LEMMA ContainerStarts == ASSUME ContainerInit PROVE ContainerIInv
<1>0. /\ services = [k \in Keys |-> OwnDefinition(k)] /\ built = [k \in Keys |-> {}]
      /\ stackFrames = << >> /\ resolutionStack = {} /\ outcome = Nothing /\ instances = << >> /\ wanted = {}
  BY DEF ContainerInit
<1>1. ProgramTypes
  BY DEF ContainerInit, ProgramTypes
<1>2. DefinitionsHold
  BY <1>0, OwnDefinitionIs, KeysAre DEF KeyHolds, NameFollows, DefinitionsHold
<1>3. StackTypes
  BY <1>0, EmptySeq DEF Nothing, StackTypes
<1>4. StackHolds
  BY <1>0, EmptySeq DEF FirstHold, StackHolds
<1>5. OutcomeHolds
  BY <1>0 DEF OutcomeHolds
<1> QED
  BY <1>1, <1>2, <1>3, <1>4, <1>5 DEF ContainerIInv

\* Errors have their causes, and no singleton is built twice.
LEMMA ContainerSays == ASSUME ContainerIInv PROVE ThrowsForCause /\ BuiltOnce
<1>1. \A x : Broken(x) <=> Fails(x)
  BY BrokenIs, DefinitionsAre DEF ContainerIInv
<1>2. ThrowsForCause
  BY <1>1 DEF ThrowsForCause, AtRest, ContainerIInv, OutcomeHolds
<1>3. ASSUME NEW k \in Keys, services[k].single PROVE Cardinality(built[k]) <= 1
  <2>1. built[k] = {} \/ built[k] = {services[k].inst}
    BY <1>3 DEF ContainerIInv, DefinitionsHold, KeyHolds
  <2>2. Cardinality({}) = 0
    BY FS_EmptySet
  <2>3. Cardinality({services[k].inst}) = 1
    BY FS_Singleton
  <2> QED
    BY <2>1, <2>2, <2>3
<1> QED
  BY <1>2, <1>3 DEF BuiltOnce

\* What a step leaves undefined.
UndefinedStep ==
  \A i \in 1..Len(instances) : \A d \in instances'[i].missing \ instances[i].missing :
    Broken(ClassKey(d)) \/ instances[i].class \in DependsOn(d)

\* Instances are added one at a time; only a property that fails changes one.
LEMMA InstancesOfStep ==
  ASSUME ContainerIInv, [ContainerNext]_containerVars, ~(stackFrames # << >> /\ PropertyFails)
  PROVE  instances' = instances \/ \E r \in InstanceRecords : instances' = Append(instances, r)
<1>1. ASSUME NEW key \in Keys, Enter(key)
      PROVE  instances' = instances \/ \E r \in InstanceRecords : instances' = Append(instances, r)
  BY KeysAre, <1>1 DEF InstanceRecords, Enter, FromFactory
<1>2. ASSUME stackFrames # << >>, Instantiate
      PROVE  instances' = instances \/ \E r \in InstanceRecords : instances' = Append(instances, r)
  <2>1. Top \in FrameRecords /\ StackTypes
    BY <1>2, StackIs DEF ContainerIInv
  <2>2. CASE ResolveParam
    BY <2>2, <2>1, AskedIs, <1>1 DEF ResolveParam, AskedOf
  <2>3. CASE ResolveProperty
    BY <2>3, <2>1, AskedIs, <1>1 DEF ResolveProperty, AskedOf
  <2>4. CASE New
    BY <2>1, FrameIs, <2>4 DEF InstanceRecords, New
  <2>5. CASE ResolutionReturns \/ ParamFails \/ Return
    BY <2>5 DEF ResolutionReturns, ParamFails, Return
  <2> QED
    BY <1>2, <2>2, <2>3, <2>4, <2>5 DEF Instantiate
<1>3. ASSUME NEW k \in Keys, Resolve(k)
      PROVE  instances' = instances \/ \E r \in InstanceRecords : instances' = Append(instances, r)
  BY <1>1, <1>3 DEF Resolve
<1>4. ASSUME NEW c \in Classes, Register(c) \/ \E overrides \in SUBSET params[c] : Construct(c, overrides)
      PROVE  instances' = instances
  BY <1>4 DEF Register, Construct
<1>5. ASSUME Clear \/ \E carry \in BOOLEAN : Fork(carry) PROVE instances' = instances
  BY <1>5 DEF Clear, Fork
<1>6. Instantiate => stackFrames # << >>
  BY DEF Instantiate
<1> QED
  BY <1>2, <1>3, <1>4, <1>5, <1>6 DEF ContainerNext, containerVars

\* A step leaves a property undefined only where that property fails.
LEMMA UndefinedSteps == ASSUME ContainerIInv, [ContainerNext]_containerVars PROVE UndefinedStep
<1>1. CASE stackFrames # << >> /\ PropertyFails
  BY <1>1, PropertyFailsKeeps DEF UndefinedStep
<1>2. CASE ~(stackFrames # << >> /\ PropertyFails)
  <2>1. \A i \in 1..Len(instances) : instances'[i] = instances[i]
    BY <1>2, InstancesOfStep, InstanceAdded DEF ContainerIInv
  <2> QED
    BY <2>1 DEF UndefinedStep
<1> QED
  BY <1>1, <1>2

\* Whatever classes inject, however often and in whatever order the application resolves, constructs,
\* registers, clears and forks: an error has its cause, a singleton is built once, and a property is
\* left undefined for a cause (container.ts).
THEOREM ContainerHolds == ContainerSpec => [](ThrowsForCause /\ BuiltOnce) /\ UndefinedForCause
<1>1. ContainerInit => ContainerIInv
  BY ContainerStarts
<1>2. ContainerIInv /\ [ContainerNext]_containerVars => ContainerIInv'
  BY ContainerKept
<1>3. ContainerIInv => ThrowsForCause /\ BuiltOnce
  BY ContainerSays
<1>4. ContainerIInv /\ [ContainerNext]_containerVars => UndefinedStep
  BY UndefinedSteps
<1>5. UndefinedForCause <=> [][UndefinedStep]_containerVars
  BY DEF UndefinedForCause, UndefinedStep
<1> QED
  BY <1>1, <1>2, <1>3, <1>4, <1>5, PTL DEF ContainerSpec

(***************************************************************************)
(* ContainerEvents: an event and its listeners.                            *)
(***************************************************************************)
EntryRecords == [listener : Listeners, stands : BOOLEAN]
EmissionRecords ==
  [at : Nat, runs : BOOLEAN, throughout : SUBSET Listeners, left : SUBSET Listeners, called : Seq(Listeners)]

\* What an emission has reached: of those there throughout, each up to where it is; of those
\* called, each is up to there or has left.
Heard(e, l) == \E k \in 1..Len(e.called) : e.called[k] = l
Reaches(e, l) == \E i \in Standing : entries[i].listener = l /\ (i <= e.at => Heard(e, l))
Accounted(e, l) == l \in e.left \/ \E i \in Standing : entries[i].listener = l /\ i <= e.at
EmissionHolds(e) ==
  /\ \A l \in e.throughout : Reaches(e, l)
  /\ \A k \in 1..Len(e.called) : Accounted(e, e.called[k])
  /\ \A j, k \in 1..Len(e.called) : j # k /\ e.called[j] = e.called[k] => e.called[j] \in e.left

ListenersHold ==
  /\ entries \in Seq(EntryRecords) /\ emitting \in Seq(EmissionRecords)
  /\ \A i, j \in Standing : entries[i].listener = entries[j].listener => i = j
  /\ \A n \in 1..Len(emitting) : EmissionHolds(emitting[n])

\* What stands still stands.
LEMMA EmissionKept ==
  ASSUME \A i \in Standing : i \in Standing' /\ entries'[i].listener = entries[i].listener
  PROVE  \A e : EmissionHolds(e) => EmissionHolds(e)'
BY DEF Reaches, Heard, Accounted, EmissionHolds

\* Emissions that hold now hold where listeners stay.
LEMMA EmissionsAre ==
  ASSUME ListenersHold, \A i \in Standing : i \in Standing' /\ entries'[i].listener = entries[i].listener,
         entries' \in Seq(EntryRecords), \A i, j \in Standing' : entries'[i].listener = entries'[j].listener => i = j,
         NEW s \in Seq(EmissionRecords), emitting' = s, \A n \in 1..Len(s) : EmissionHolds(s[n])
  PROVE  ListenersHold'
BY EmissionKept DEF ListenersHold

\* A listener subscribes, while the event is handed out or not.
LEMMA OnKeeps == ASSUME ListenersHold, NEW l \in Listeners, On(l) PROVE ListenersHold' /\ Len(emitting) <= Len(emitting')
<1>0. Len(emitting) \in Nat
  BY LenProperties DEF ListenersHold
<1>1. emitting' = emitting
  BY DEF On
<1>2. CASE Subscribed(l)
  BY <1>2, <1>1, EmissionsAre, <1>0 DEF On, Standing, ListenersHold
<1>3. CASE ~Subscribed(l)
  <2> DEFINE e == [listener |-> l, stands |-> TRUE]
             n == Len(entries)
  <2>1. e \in EntryRecords /\ e.listener = l /\ e.stands
    BY DEF EntryRecords
  <2>2. entries' = Append(entries, e)
    BY <1>3 DEF On
  <2> HIDE DEF e
  <2>3. /\ entries' \in Seq(EntryRecords) /\ n \in Nat /\ Len(entries') = n + 1
        /\ \A i \in 1..n : entries'[i] = entries[i]
        /\ entries'[n + 1] = e
    BY <2>1, <2>2, AppendProperties, LenProperties DEF ListenersHold
  <2>4. Standing \subseteq 1..n
    BY DEF Standing
  <2> HIDE DEF n
  <2>5. Standing' = Standing \union {n + 1}
    BY <2>1, <2>3 DEF Standing, n
  <2>6. \A i \in Standing : i \in Standing' /\ entries'[i].listener = entries[i].listener
    BY <2>3, <2>4, <2>5
  <2>7. \A i \in Standing : entries[i].listener # l
    BY <1>3 DEF Subscribed
  <2>8. ASSUME NEW i \in Standing', NEW j \in Standing', entries'[i].listener = entries'[j].listener PROVE i = j
    <3>1. entries'[n + 1].listener = l /\ \A k \in Standing : entries'[k].listener # l
      BY <2>1, <2>3, <2>6, <2>7
    <3>2. CASE i = n + 1 \/ j = n + 1
      BY <2>5, <2>8, <3>1, <3>2
    <3>3. CASE i \in Standing /\ j \in Standing
      <4>1. entries[i].listener = entries[j].listener
        BY <2>6, <2>8, <3>3
      <4> QED
        BY <3>3, <4>1 DEF ListenersHold
    <3> QED
      BY <2>5, <3>2, <3>3
  <2>9. ListenersHold'
    BY <2>3, <2>6, <2>8, <1>1, EmissionsAre DEF ListenersHold
  <2> QED
    BY <1>0, <1>1, <2>9
<1> QED
  BY <1>2, <1>3

\* A listener leaves, while the event is handed out or not.
LEMMA OffKeeps == ASSUME ListenersHold, NEW l \in Listeners, Off(l) PROVE ListenersHold' /\ Len(emitting) <= Len(emitting')
<1> DEFINE n == Len(entries)
           m == Len(emitting)
           Out(i) == IF entries[i].listener = l THEN [entries[i] EXCEPT !.stands = FALSE] ELSE entries[i]
           Left(k) == [emitting[k] EXCEPT !.throughout = @ \ {l}, !.left = @ \union {l}]
<1>1. entries' = [i \in 1..n |-> Out(i)] /\ emitting' = [k \in 1..m |-> Left(k)]
  BY DEF Off
<1>2. /\ n \in Nat /\ m \in Nat /\ DOMAIN entries = 1..n /\ DOMAIN emitting = 1..m
      /\ \A i \in 1..n : entries[i] \in EntryRecords
      /\ \A k \in 1..m : emitting[k] \in EmissionRecords
  BY LenProperties DEF ListenersHold
<1>3. \A i \in 1..n : /\ Out(i) \in EntryRecords /\ Out(i).listener = entries[i].listener
                      /\ Out(i).stands = (entries[i].stands /\ entries[i].listener # l)
  BY <1>2 DEF EntryRecords
<1>4. ASSUME NEW k \in 1..m
      PROVE  /\ Left(k) \in EmissionRecords
             /\ Left(k).throughout = emitting[k].throughout \ {l} /\ Left(k).left = emitting[k].left \union {l}
             /\ Left(k).at = emitting[k].at /\ Left(k).called = emitting[k].called
  <2>1. PICK r \in EmissionRecords : r = emitting[k]
    BY <1>2
  <2>2. r.throughout \ {l} \in SUBSET Listeners /\ r.left \union {l} \in SUBSET Listeners
    BY DEF EmissionRecords
  <2> DEFINE x == r.throughout \ {l}
             y == r.left \union {l}
  <2>3. Left(k) = [r EXCEPT !.throughout = x, !.left = y]
    BY <2>1
  <2> HIDE DEF x, y, Left
  <2>4. [r EXCEPT !.throughout = x, !.left = y] \in EmissionRecords
    BY <2>2 DEF EmissionRecords, x, y
  <2>5. /\ [r EXCEPT !.throughout = x, !.left = y].throughout = x /\ [r EXCEPT !.throughout = x, !.left = y].left = y
        /\ [r EXCEPT !.throughout = x, !.left = y].at = r.at /\ [r EXCEPT !.throughout = x, !.left = y].called = r.called
    BY DEF EmissionRecords
  <2> QED
    BY <2>1, <2>3, <2>4, <2>5 DEF x, y
<1> HIDE DEF n, m, Out, Left
<1>5. /\ entries' \in Seq(EntryRecords) /\ Len(entries') = n
      /\ \A i \in 1..n : entries'[i] = Out(i)
  BY <1>1, <1>2, <1>3, FunctionIsSeq
<1>6. /\ emitting' \in Seq(EmissionRecords) /\ Len(emitting') = m
      /\ \A k \in 1..m : emitting'[k] = Left(k)
  BY <1>1, <1>2, <1>4, FunctionIsSeq
<1>7. Standing \subseteq 1..n /\ Standing' = {i \in Standing : entries[i].listener # l}
  BY <1>3, <1>5 DEF Standing, n
<1>8. \A i, j \in Standing' : entries'[i].listener = entries'[j].listener => i = j
  <2>1. \A i \in Standing' : i \in Standing /\ i \in 1..n
    BY <1>7
  <2>2. \A i \in Standing' : entries'[i].listener = entries[i].listener
    BY <2>1, <1>3, <1>5
  <2>3. \A i, j \in Standing : entries[i].listener = entries[j].listener => i = j
    BY DEF ListenersHold
  <2> QED
    BY <2>1, <2>2, <2>3
\* without l, and with l among those that left
<1>9. ASSUME NEW f, NEW e, EmissionHolds(e),
             f.throughout = e.throughout \ {l}, f.left = e.left \union {l}, f.at = e.at, f.called = e.called
      PROVE  EmissionHolds(f)'
  <2>1. ASSUME NEW x \in f.throughout PROVE Reaches(f, x)'
    <3>1. x # l /\ Reaches(e, x)
      BY <1>9 DEF EmissionHolds
    <3> QED
      BY <1>3, <1>5, <1>7, <1>9, <3>1 DEF Reaches, Heard
  <2>2. ASSUME NEW x, Accounted(e, x) PROVE Accounted(f, x)'
    BY <1>3, <1>5, <1>7, <1>9, <2>2 DEF Accounted
  <2>3. /\ \A j \in 1..Len(e.called) : Accounted(e, e.called[j])
        /\ \A i, j \in 1..Len(e.called) : i # j /\ e.called[i] = e.called[j] => e.called[i] \in e.left
    BY <1>9 DEF EmissionHolds
  <2>4. \A j \in 1..Len(f.called) : Accounted(f, f.called[j])'
    BY <1>9, <2>2, <2>3
  <2>5. \A i, j \in 1..Len(f.called) : i # j /\ f.called[i] = f.called[j] => f.called[i] \in f.left
    BY <1>9, <2>3
  <2> QED
    BY <2>1, <2>4, <2>5 DEF EmissionHolds
<1>10. ASSUME NEW k \in 1..Len(emitting') PROVE EmissionHolds(emitting[k])'
  <2>1. k \in 1..m
    BY <1>6
  <2>2. PICK f : f = emitting'[k]
    OBVIOUS
  <2>3. PICK e : e = emitting[k]
    OBVIOUS
  <2>4. EmissionHolds(e)
    BY <2>1, <2>3 DEF ListenersHold, m
  <2>5. f.throughout = e.throughout \ {l} /\ f.left = e.left \union {l} /\ f.at = e.at /\ f.called = e.called
    BY <2>1, <2>2, <2>3, <1>4, <1>6
  <2>6. EmissionHolds(f)'
    BY <1>9, <2>4, <2>5
  <2> QED
    BY <2>2, <2>6
<1>11. Len(emitting) <= Len(emitting')
  BY <1>2, <1>6 DEF m
<1> QED
  BY <1>5, <1>6, <1>8, <1>10, <1>11 DEF ListenersHold

\* The event is emitted, by a listener perhaps.
LEMMA EmitKeeps == ASSUME ListenersHold, Emit PROVE ListenersHold' /\ Len(emitting) <= Len(emitting')
<1>0. Len(emitting) \in Nat
  BY LenProperties DEF ListenersHold
<1>1. entries' = entries
  BY DEF Emit
<1>2. Standing' = Standing
  BY <1>1 DEF Standing
<1>4. CASE Standing = {}
  BY <1>4, <1>0, <1>1, <1>2, EmissionsAre DEF Emit, ListenersHold
<1>5. CASE Standing # {}
  <2> DEFINE there == {entries[i].listener : i \in Standing}
             e == [at |-> 0, runs |-> FALSE, throughout |-> there, left |-> {}, called |-> << >>]
             m == Len(emitting)
  <2>1. emitting' = Append(emitting, e)
    BY <1>5 DEF Emit
  <2>2. there \subseteq Listeners
    <3>1. \A i \in Standing : entries[i] \in EntryRecords
      BY ElementOfSeq DEF ListenersHold, Standing
    <3> QED
      BY <3>1 DEF EntryRecords
  <2>3. e \in EmissionRecords
    BY EmptySeq, <2>2 DEF EmissionRecords
  <2>4. e.at = 0 /\ e.throughout = there /\ e.called = << >> /\ Len(e.called) = 0
    BY EmptySeq
  <2>5. EmissionHolds(e)
    <3>1. ASSUME NEW l \in e.throughout PROVE Reaches(e, l)
      BY <2>4 DEF Standing, Reaches
    <3>2. 1..Len(e.called) = {}
      BY <2>4
    <3> QED
      BY <3>1, <3>2 DEF EmissionHolds
  <2> HIDE DEF e
  <2>6. /\ emitting' \in Seq(EmissionRecords) /\ m \in Nat /\ Len(emitting') = m + 1
        /\ \A n \in 1..m : emitting'[n] = emitting[n]
        /\ emitting'[m + 1] = e
    BY <2>1, <2>3, AppendProperties, LenProperties DEF ListenersHold
  <2>7. \A n \in 1..Len(emitting') : n \in 1..m \/ n = m + 1
    BY <2>6
  <2> HIDE DEF m
  <2>8. \A n \in 1..Len(emitting') : EmissionHolds(emitting'[n])
    BY <2>5, <2>6, <2>7 DEF m, ListenersHold
  <2>9. Len(emitting) <= Len(emitting')
    BY <2>6 DEF m
  <2> QED
    BY <1>1, <1>2, <2>6, <2>8, <2>9, EmissionsAre DEF ListenersHold
<1> QED
  BY <1>4, <1>5

\* The last emission is replaced by another.
LEMMA InnermostReplaced ==
  ASSUME ListenersHold, emitting # << >>, NEW e \in EmissionRecords, EmissionHolds(e),
         emitting' = [emitting EXCEPT ![Len(emitting)] = e], entries' = entries
  PROVE  ListenersHold' /\ Len(emitting) <= Len(emitting')
<1> DEFINE m == Len(emitting)
<1>1. m \in Nat /\ m >= 1 /\ DOMAIN emitting = 1..m
  BY LenProperties, EmptySeq DEF ListenersHold
<1>2. /\ emitting' \in Seq(EmissionRecords) /\ Len(emitting') = m
      /\ \A n \in 1..m : emitting'[n] = IF n = m THEN e ELSE emitting[n]
  BY <1>1, ExceptSeq DEF ListenersHold
<1>3. Standing' = Standing
  BY DEF Standing
<1> HIDE DEF m
<1>4. \A n \in 1..Len(emitting') : EmissionHolds(emitting'[n])
  BY <1>2 DEF ListenersHold, m
<1>5. Len(emitting) <= Len(emitting')
  BY <1>1, <1>2 DEF m
<1> QED
  BY <1>2, <1>3, <1>4, <1>5, EmissionsAre DEF ListenersHold

\* The next listener is called.
LEMMA CallKeeps == ASSUME ListenersHold, CallMethod PROVE ListenersHold' /\ Len(emitting) <= Len(emitting')
<1> DEFINE m == Len(emitting)
           next == CHOOSE i \in Ahead : \A j \in Ahead : i <= j
           e == Innermost
           l == entries[next].listener
           f == [at |-> next, runs |-> TRUE, throughout |-> e.throughout, left |-> e.left, called |-> Append(e.called, l)]
<1>0. emitting # << >> /\ Ahead # {} /\ entries' = entries
  BY DEF CallMethod
<1>1. m \in Nat /\ m >= 1 /\ DOMAIN emitting = 1..m /\ e \in EmissionRecords /\ EmissionHolds(e)
  BY <1>0, LenProperties, EmptySeq, ElementOfSeq DEF ListenersHold, Innermost
<1>2. /\ e.at \in Nat /\ e.throughout \in SUBSET Listeners /\ e.left \in SUBSET Listeners /\ e.called \in Seq(Listeners)
      /\ e = [at |-> e.at, runs |-> e.runs, throughout |-> e.throughout, left |-> e.left, called |-> e.called]
  BY <1>1 DEF EmissionRecords
<1>3. next \in Ahead /\ \A j \in Ahead : next <= j
  <2>1. Ahead \in SUBSET Nat /\ Ahead # {}
    BY <1>0 DEF Ahead, Standing
  <2>2. \E i \in Ahead : \A j \in Ahead : i <= j
    BY <2>1, LeastOf
  <2> QED
    BY <2>2
<1>4. next \in Standing /\ next \in Nat /\ next > e.at /\ l \in Listeners
  <2>1. next \in Standing /\ next > e.at
    BY <1>3 DEF Ahead
  <2>2. entries[next] \in EntryRecords
    BY <2>1, ElementOfSeq DEF Standing, ListenersHold
  <2> QED
    BY <2>1, <2>2 DEF EntryRecords, Standing
<1>5. emitting' = [emitting EXCEPT ![m] = f] /\ entries' = entries /\ emitting # << >>
  <2> HIDE DEF next
  <2>1. emitting' = [emitting EXCEPT ![m].at = next, ![m].runs = TRUE, ![m].called = Append(@, l)]
    BY DEF CallMethod, next
  <2>2. emitting[m] = e /\ m \in DOMAIN emitting
    BY <1>1 DEF Innermost
  <2> QED
    BY <1>2, <2>1, <2>2 DEF CallMethod
<1> HIDE DEF next, l
<1> DEFINE n == Len(e.called)
<1>6. /\ f.called \in Seq(Listeners) /\ n \in Nat /\ Len(f.called) = n + 1
      /\ \A k \in 1..n : f.called[k] = e.called[k]
      /\ f.called[n + 1] = l
  BY <1>2, <1>4, AppendProperties, LenProperties
<1>7. /\ f.at = next /\ f.throughout = e.throughout /\ f.left = e.left /\ f \in EmissionRecords
  BY <1>2, <1>4, <1>6 DEF EmissionRecords
<1> HIDE DEF f, n, e
<1>8. \A x : Heard(e, x) => Heard(f, x)
  BY <1>6 DEF Heard, n
<1>9. Heard(f, l)
  BY <1>6 DEF Heard
<1>10. ASSUME NEW x \in f.throughout PROVE Reaches(f, x)
  <2>1. PICK i \in Standing : entries[i].listener = x /\ (i <= e.at => Heard(e, x))
    BY <1>1, <1>7 DEF EmissionHolds, Reaches
  <2>2. i \in Nat
    BY DEF Standing
  <2>3. ASSUME i <= f.at PROVE Heard(f, x)
    <3>1. CASE i <= e.at
      BY <2>1, <3>1, <1>8
    <3>2. CASE ~(i <= e.at)
      <4>1. i \in Ahead
        BY <2>2, <3>2, <1>2 DEF Ahead, e
      <4>2. i = next
        BY <4>1, <1>3, <1>4, <1>7, <2>2, <2>3
      <4> QED
        BY <4>2, <2>1, <1>9 DEF l
    <3> QED
      BY <3>1, <3>2
  <2> QED
    BY <2>1, <2>3 DEF Reaches
<1>11. ASSUME NEW x, Accounted(e, x) PROVE Accounted(f, x)
  <2>1. CASE x \in e.left
    BY <2>1, <1>7 DEF Accounted
  <2>2. ASSUME NEW i \in Standing, entries[i].listener = x, i <= e.at PROVE Accounted(f, x)
    BY <2>2, <1>2, <1>4, <1>7 DEF Standing, Accounted
  <2> QED
    BY <1>11, <2>1, <2>2 DEF Accounted
<1>12. Accounted(f, l)
  BY <1>4, <1>7 DEF Accounted, l
<1>13. \A k \in 1..Len(f.called) : k \in 1..n \/ k = n + 1
  BY <1>6
<1>14. ASSUME NEW k \in 1..n, e.called[k] = l PROVE l \in e.left
  <2>1. Accounted(e, l)
    BY <1>1, <1>14 DEF EmissionHolds, n
  <2>2. ASSUME NEW i \in Standing, entries[i].listener = l, i <= e.at PROVE FALSE
    BY <2>2, <1>4, <1>2 DEF ListenersHold, l
  <2> QED
    BY <2>1, <2>2 DEF Accounted
<1>15. \A k \in 1..Len(f.called) : Accounted(f, f.called[k])
  BY <1>1, <1>6, <1>11, <1>12, <1>13 DEF EmissionHolds, n
<1>16. ASSUME NEW j \in 1..Len(f.called), NEW k \in 1..Len(f.called), j # k, f.called[j] = f.called[k]
       PROVE  f.called[j] \in f.left
  <2>1. \A a, b \in 1..n : a # b /\ e.called[a] = e.called[b] => e.called[a] \in e.left
    BY <1>1 DEF EmissionHolds, n
  <2>2. CASE j \in 1..n /\ k \in 1..n
    BY <2>1, <2>2, <1>6, <1>7, <1>16
  <2>3. CASE j = n + 1
    BY <2>3, <1>6, <1>13, <1>16, <1>14, <1>7
  <2>4. CASE k = n + 1
    BY <2>4, <1>6, <1>13, <1>16, <1>14, <1>7
  <2> QED
    BY <2>2, <2>3, <2>4, <1>13
<1>17. EmissionHolds(f)
  BY <1>10, <1>15, <1>16 DEF EmissionHolds
<1> HIDE DEF m
<1> QED
  BY <1>5, <1>7, <1>17, InnermostReplaced DEF m

\* A listener returns or throws.
LEMMA ThrowKeeps == ASSUME ListenersHold, Throw PROVE ListenersHold' /\ Len(emitting) <= Len(emitting')
<1> DEFINE m == Len(emitting)
           e == Innermost
           f == [at |-> e.at, runs |-> FALSE, throughout |-> e.throughout, left |-> e.left, called |-> e.called]
<1>1. m \in Nat /\ m >= 1 /\ DOMAIN emitting = 1..m /\ e \in EmissionRecords /\ EmissionHolds(e)
  BY LenProperties, EmptySeq, ElementOfSeq DEF ListenersHold, Throw, Innermost
<1>2. /\ e.at \in Nat /\ e.throughout \in SUBSET Listeners /\ e.left \in SUBSET Listeners /\ e.called \in Seq(Listeners)
      /\ e = [at |-> e.at, runs |-> e.runs, throughout |-> e.throughout, left |-> e.left, called |-> e.called]
  BY <1>1 DEF EmissionRecords
<1>3. emitting' = [emitting EXCEPT ![m] = f] /\ entries' = entries /\ emitting # << >>
  <2>1. emitting' = [emitting EXCEPT ![m].runs = FALSE]
    BY DEF Throw, AfterAThrow
  <2>2. emitting[m] = e /\ m \in DOMAIN emitting
    BY <1>1 DEF Innermost
  <2> QED
    BY <1>2, <2>1, <2>2 DEF Throw
<1>4. f \in EmissionRecords /\ f.at = e.at /\ f.throughout = e.throughout /\ f.left = e.left /\ f.called = e.called
  BY <1>2 DEF EmissionRecords
<1> HIDE DEF e, f
<1>5. EmissionHolds(f)
  BY <1>1, <1>4 DEF EmissionHolds, Reaches, Accounted, Heard
<1> QED
  BY <1>3, <1>4, <1>5, InnermostReplaced

\* An emission ends when nobody is ahead of it.
LEMMA EndKeeps == ASSUME ListenersHold, EndEmission PROVE ListenersHold'
<1> DEFINE m == Len(emitting)
<1>1. entries' = entries /\ emitting' = SubSeq(emitting, 1, m - 1) /\ emitting # << >>
  BY DEF EndEmission
<1>2. /\ emitting' \in Seq(EmissionRecords) /\ Len(emitting') = m - 1 /\ m \in Nat \ {0}
      /\ \A n \in 1 .. m - 1 : emitting'[n] = emitting[n]
  BY <1>1, LastDropped DEF ListenersHold
<1>3. Standing' = Standing
  BY <1>1 DEF Standing
<1> HIDE DEF m
<1>4. \A n \in 1..Len(emitting') : EmissionHolds(emitting'[n])
  BY <1>2 DEF ListenersHold, m
<1> QED
  BY <1>1, <1>2, <1>3, <1>4, EmissionsAre DEF ListenersHold

\* Every step of the event and its listeners keeps what they hold.
LEMMA ListenersKept == ASSUME ListenersHold, ListenersNext \/ UNCHANGED listenerVars PROVE ListenersHold'
<1>1. CASE UNCHANGED listenerVars
  BY <1>1, EmissionsAre DEF listenerVars, Standing, ListenersHold
<1> QED
  BY <1>1, OnKeeps, OffKeeps, EmitKeeps, CallKeeps, ThrowKeeps, EndKeeps DEF ListenersNext

\* Of those called twice, all have left in between.
LEMMA ListenersCalledOnce == ASSUME ListenersHold PROVE CalledOnce
  BY DEF ListenersHold, EmissionHolds, CalledOnce

\* An emission ends when nobody is ahead.
LEMMA EmissionIsComplete ==
  ASSUME ListenersHold, ListenersNext \/ UNCHANGED listenerVars, NEW n \in 1..Len(emitting), Len(emitting') < n
  PROVE  emitting[n].throughout \subseteq {emitting[n].called[i] : i \in 1..Len(emitting[n].called)}
<1> DEFINE m == Len(emitting)
           e == emitting[n]
<1>1. m \in Nat /\ n \in 1..m
  BY LenProperties DEF ListenersHold
<1>2. ~(m <= Len(emitting'))
  <2> DEFINE k == Len(emitting')
  <2>1. k \in Nat
    BY ListenersKept, LenProperties DEF ListenersHold
  <2>2. k < n
    OBVIOUS
  <2> HIDE DEF k, m
  <2>3. ~(m <= k)
    BY <1>1, <2>1, <2>2
  <2> QED
    BY <2>3 DEF k
<1>3. EndEmission
  <2>1. UNCHANGED listenerVars => Len(emitting') = m
    BY DEF listenerVars
  <2> QED
    BY <1>1, <1>2, <2>1, OnKeeps, OffKeeps, EmitKeeps, CallKeeps, ThrowKeeps DEF ListenersNext
<1>4. emitting' = SubSeq(emitting, 1, m - 1) /\ emitting # << >> /\ Ahead = {}
  BY <1>3 DEF EndEmission
<1>5. Len(emitting') = m - 1
  BY <1>4, LastDropped DEF ListenersHold
<1>6. n = m
  <2> HIDE DEF m
  <2> QED
    BY <1>1, <1>5
<1>7. e = Innermost /\ EmissionHolds(e) /\ e \in EmissionRecords
  BY <1>6, ElementOfSeq DEF Innermost, ListenersHold
<1>8. ASSUME NEW l \in e.throughout PROVE Heard(e, l)
  BY <1>7, <1>4 DEF EmissionHolds, Reaches, Ahead, Standing, EmissionRecords
<1> QED
  BY <1>8 DEF Heard

(***************************************************************************)
(* ContainerEvents: a call that is published and reported.                 *)
(***************************************************************************)
CallKinds == {"before", "after", "error", "telemetry"}
\* what has been published when the method is called
Begun(made) == IF made.phase \in {"before", "both"} THEN <<"before">> ELSE << >>
ReportHolds ==
  /\ report.call \in CallSituations
  /\ report.at \in {"idle", "pending", "settled"}
  /\ report = [call |-> report.call, at |-> report.at, events |-> report.events, outcome |-> report.outcome]
  /\ report.at \in {"idle", "pending"} => report.outcome = "none"
  /\ report.at = "idle" => report.events = << >>
  /\ report.at = "pending" => report.events = Begun(report.call)
  /\ report.at = "settled" => report = Settled(report.call, Begun(report.call))

\* A call that is still to be made has told nothing.
LEMMA ReportStarts == ASSUME NEW made \in CallSituations, report = NoReport(made) PROVE ReportHolds
  BY DEF ReportHolds, NoReport

\* A call is made and settles, once.
LEMMA ReportKept == ASSUME ReportHolds, CallsNext \/ UNCHANGED report PROVE ReportHolds'
<1> DEFINE made == report.call
<1>1. CASE UNCHANGED report
  BY <1>1 DEF ReportHolds, NoReport, Settled, Begun
<1>2. ASSUME report' = Settled(made, Begun(made)) PROVE ReportHolds'
  BY <1>2 DEF Settled, ReportHolds, Begun, After, NoReport
<1>3. CASE InvokeMethod
  <2>1. report.at = "idle" /\ report.events = << >> /\ made \in CallSituations
    BY <1>3 DEF InvokeMethod, ReportHolds
  <2>2. report = [call |-> made, at |-> "idle", events |-> << >>, outcome |-> "none"]
    BY <2>1 DEF ReportHolds, NoReport
  <2> DEFINE begun == [call |-> made, at |-> "idle", events |-> Begun(made), outcome |-> "none"]
  <2>3. Append(<< >>, "before") = <<"before">>
    OBVIOUS
  <2>4. \A throws \in BOOLEAN : Reported("before", throws) = [report EXCEPT !.events = Append(report.events, "before")]
    BY DEF Reported, Escapes
  <2>5. \A throws \in BOOLEAN : (IF made.phase \in {"before", "both"} THEN Reported("before", throws) ELSE report) = begun
    BY <2>2, <2>3, <2>4 DEF Begun
  <2>6. begun.at = "idle" /\ begun.events = Begun(made)
    OBVIOUS
  <2>7. \/ made.result = "promise" /\ report' = [begun EXCEPT !.at = "pending"]
        \/ report' = Settled(made, Begun(made))
    <3> HIDE DEF begun
    <3> QED
      BY <1>3, <2>5, <2>6 DEF InvokeMethod
  <2>8. CASE report' = [begun EXCEPT !.at = "pending"]
    BY <2>8, <2>1 DEF Begun, ReportHolds, NoReport
  <2> QED
    BY <2>7, <2>8, <1>2
<1>4. CASE Settle
  BY <1>4, <1>2 DEF Settle, ReportHolds
<1> QED
  BY <1>1, <1>3, <1>4 DEF CallsNext

\* How often a kind is among events.
TimesOf(events, kind) == Cardinality({i \in 1..Len(events) : events[i] = kind})

\* Nothing was published before the first event.
LEMMA NoneOfNothing == ASSUME NEW kind PROVE TimesOf(<< >>, kind) = 0
BY FS_EmptySet DEF TimesOf

\* One more event is one more of its kind.
LEMMA OneMoreTime ==
  ASSUME NEW s \in Seq(CallKinds), NEW e \in CallKinds, NEW kind
  PROVE  TimesOf(s \o <<e>>, kind) = TimesOf(s, kind) + (IF e = kind THEN 1 ELSE 0)
<1> DEFINE n == Len(s)
           t == s \o <<e>>
           Of(x, m) == {i \in 1..m : x[i] = kind}
<1>1. n \in Nat /\ Len(t) = n + 1 /\ t[n + 1] = e /\ \A k \in 1..n : t[k] = s[k]
  BY OneMore, LenProperties
<1> HIDE DEF n, t
<1>2. Of(t, n + 1) = Of(s, n) \union (IF e = kind THEN {n + 1} ELSE {})
  BY <1>1
<1>3. IsFiniteSet(Of(s, n)) /\ n + 1 \notin Of(s, n)
  BY <1>1, FS_Interval, FS_Subset
<1>4. Cardinality(Of(s, n)) \in Nat
  BY <1>3, FS_CardinalityType
<1>5. TimesOf(t, kind) = Cardinality(Of(t, n + 1)) /\ TimesOf(s, kind) = Cardinality(Of(s, n))
  BY <1>1 DEF TimesOf, n
<1> HIDE DEF Of
<1>6. CASE e = kind
  BY <1>3, FS_AddElement, <1>2, <1>5, <1>6 DEF t
<1>7. CASE e # kind
  BY <1>2, <1>4, <1>5, <1>7 DEF t
<1> QED
  BY <1>6, <1>7

\* How often a kind is among events is a number.
LEMMA TimesAreCounted ==
  ASSUME NEW s \in Seq(CallKinds), NEW kind
  PROVE  TimesOf(s, kind) \in Nat
<1>1. Len(s) \in Nat
  BY LenProperties
<1>2. IsFiniteSet(1..Len(s)) /\ {i \in 1..Len(s) : s[i] = kind} \subseteq 1..Len(s)
  BY <1>1, FS_Interval
<1> QED
  BY <1>2, FS_Subset, FS_CardinalityType DEF TimesOf

\* What a call that is over has published.
LEMMA CallIsPublished == ASSUME ReportHolds PROVE CallsPublished
<1> SUFFICES ASSUME report.at = "settled" PROVE CallsPublished
  BY DEF CallsPublished
<1> DEFINE made == report.call
           failed == made.fails /\ made.result # "thenable"
           early == made.phase \in {"before", "both"}
           late == made.phase \in {"after", "both"}
           b == IF early THEN <<"before">> ELSE << >>
           t == IF made.telemetry THEN <<"telemetry">> ELSE << >>
           p == IF made.phase = "unpublished" THEN << >> ELSE IF failed THEN <<"error">> ELSE IF late THEN <<"after">> ELSE << >>
<1>1. /\ made.phase \in {"before", "after", "both", "unpublished"} /\ made.telemetry \in BOOLEAN /\ made.fails \in BOOLEAN
  BY DEF ReportHolds, CallSituations, Publisher, Telemetry
<1>2. report.events = (b \o t) \o p /\ report.outcome = IF failed THEN "error" ELSE "value"
  <2>1. report = Settled(made, b)
    BY DEF ReportHolds, Begun
  <2>2. Settled(made, b).events = (b \o t) \o p /\ Settled(made, b).outcome = IF failed THEN "error" ELSE "value"
    BY DEF Settled, After
  <2> HIDE DEF b, t, p, failed, made
  <2> QED
    BY <2>1, <2>2
<1>3. << >> \in Seq(CallKinds) /\ {"before", "telemetry", "error", "after"} \subseteq CallKinds
  BY EmptySeq DEF CallKinds
<1>4. << >> \o b = b
  BY <1>3, ConcatEmptySeq
<1>5. early \in BOOLEAN /\ late \in BOOLEAN /\ failed \in BOOLEAN
  BY <1>1
<1> HIDE DEF early, late, failed, made
<1>6. ASSUME NEW kind \in CallKinds
      PROVE  /\ b \in Seq(CallKinds)
             /\ TimesOf(b, kind) = (IF early /\ kind = "before" THEN 1 ELSE 0)
  <2>1. CASE early
    <3>1. TimesOf(<< >> \o <<"before">>, kind) = TimesOf(<< >>, kind) + (IF "before" = kind THEN 1 ELSE 0)
      BY <1>3, OneMoreTime
    <3>2. << >> \o <<"before">> = b /\ b = <<"before">>
      BY <2>1, <1>4
    <3>3. b \in Seq(CallKinds)
      BY <3>2, <1>3
    <3> HIDE DEF b
    <3>4. TimesOf(b, kind) = 0 + (IF "before" = kind THEN 1 ELSE 0)
      BY <3>1, <3>2, NoneOfNothing
    <3> QED
      BY <2>1, <3>3, <3>4
  <2>2. CASE ~early
    BY <2>2, <1>3, NoneOfNothing
  <2> QED
    BY <2>1, <2>2
<1>7. ASSUME NEW kind \in CallKinds
      PROVE  /\ b \o t \in Seq(CallKinds)
             /\ TimesOf(b \o t, kind) = (IF early /\ kind = "before" THEN 1 ELSE 0) + (IF made.telemetry /\ kind = "telemetry" THEN 1 ELSE 0)
  <2>0. b \in Seq(CallKinds)
    BY <1>6
  <2> HIDE DEF b
  <2>1. CASE made.telemetry
    <3>1. TimesOf(b \o <<"telemetry">>, kind) = TimesOf(b, kind) + (IF "telemetry" = kind THEN 1 ELSE 0)
      BY <2>0, <1>3, OneMoreTime
    <3>2. t = <<"telemetry">>
      BY <2>1
    <3>3. b \o <<"telemetry">> \in Seq(CallKinds)
      BY <2>0, <1>3, OneMore
    <3> HIDE DEF t
    <3> QED
      BY <1>6, <2>1, <3>1, <3>2, <3>3
  <2>2. CASE ~made.telemetry
    BY <2>0, <2>2, ConcatEmptySeq, <1>6
  <2> QED
    BY <1>1, <2>1, <2>2
<1> DEFINE c == b \o t
<1> HIDE DEF b, t
<1>8. ASSUME NEW kind \in CallKinds
      PROVE  TimesOf(c \o p, kind) = TimesOf(c, kind)
               + (IF made.phase # "unpublished" /\ failed /\ kind = "error" THEN 1 ELSE 0)
               + (IF made.phase # "unpublished" /\ ~failed /\ late /\ kind = "after" THEN 1 ELSE 0)
  <2>0. c \in Seq(CallKinds) /\ TimesOf(c, kind) \in Nat
    BY <1>7
  <2> HIDE DEF c
  <2>1. ASSUME NEW e \in CallKinds, p = <<e>>
        PROVE  TimesOf(c \o p, kind) = TimesOf(c, kind) + (IF e = kind THEN 1 ELSE 0)
    <3>1. TimesOf(c \o <<e>>, kind) = TimesOf(c, kind) + (IF e = kind THEN 1 ELSE 0)
      BY <2>0, <2>1, OneMoreTime
    <3> HIDE DEF p
    <3> QED
      BY <2>1, <3>1
  <2>2. CASE made.phase = "unpublished"
    BY <2>0, <2>2, ConcatEmptySeq
  <2>3. CASE made.phase # "unpublished" /\ failed
    <3>1. p = <<"error">> /\ "error" \in CallKinds
      BY <1>3, <2>3
    <3> HIDE DEF p
    <3>2. TimesOf(c \o p, kind) = TimesOf(c, kind) + (IF "error" = kind THEN 1 ELSE 0)
      BY <2>1, <3>1
    <3> QED
      BY <2>0, <2>3, <3>2
  <2>4. CASE made.phase # "unpublished" /\ ~failed /\ late
    <3>1. p = <<"after">> /\ "after" \in CallKinds
      BY <1>3, <2>4
    <3> HIDE DEF p
    <3>2. TimesOf(c \o p, kind) = TimesOf(c, kind) + (IF "after" = kind THEN 1 ELSE 0)
      BY <2>1, <3>1
    <3> QED
      BY <2>0, <2>4, <3>2
  <2>5. CASE made.phase # "unpublished" /\ ~failed /\ ~late
    BY <2>0, <2>5, ConcatEmptySeq
  <2> QED
    BY <2>2, <2>3, <2>4, <2>5
<1>9. c \o p = report.events
  BY <1>2 DEF c
<1> HIDE DEF c, p
<1>10. ASSUME NEW kind \in CallKinds
       PROVE  TimesOf(report.events, kind) =
                (IF early /\ kind = "before" THEN 1 ELSE 0) + (IF made.telemetry /\ kind = "telemetry" THEN 1 ELSE 0)
                + (IF made.phase # "unpublished" /\ failed /\ kind = "error" THEN 1 ELSE 0)
                + (IF made.phase # "unpublished" /\ ~failed /\ late /\ kind = "after" THEN 1 ELSE 0)
  BY <1>7, <1>8, <1>9 DEF c
<1>11. /\ TimesOf(report.events, "error") = (IF failed /\ made.phase # "unpublished" THEN 1 ELSE 0)
       /\ TimesOf(report.events, "telemetry") = (IF made.telemetry THEN 1 ELSE 0)
       /\ TimesOf(report.events, "before") = (IF early THEN 1 ELSE 0)
       /\ TimesOf(report.events, "after") = (IF ~failed /\ late THEN 1 ELSE 0)
  BY <1>1, <1>3, <1>10 DEF late
<1> QED
  BY <1>2, <1>11 DEF CallsPublished, TimesOf, early, late, failed, made

(***************************************************************************)
(* ContainerEvents: the timer of a cron method.                            *)
(***************************************************************************)

CronHolds ==
  /\ clock \in Nat /\ runs \in Seq([at : Nat, since : Nat])
  /\ armed \in [due : Nat, since : Nat, set : BOOLEAN] /\ stopped \in BOOLEAN
  /\ stopped => ~armed.set
  /\ armed.set => /\ Upcoming(armed.since) # {} /\ armed.since <= clock
                  /\ armed.due = (IF TooFar(armed.since) THEN armed.since ELSE NextCronTime(armed.since))
                  /\ runs # << >> => armed.since = runs[Len(runs)].at
  /\ runs # << >> /\ ~stopped /\ Upcoming(runs[Len(runs)].at) # {} => armed.set
  /\ \A i \in 1..Len(runs) : RanWell(runs[i]) /\ (i > 1 => runs[i].since = runs[i - 1].at)

\* The time found is the first moment of the first local minute that matches: later than the
\* search, unless that was made in the second pass of an hour, and no other match lies between.
LEMMA NextIs ==
  ASSUME NEW now \in Nat, Upcoming(now) # {}
  PROVE  /\ NextCronTime(now) \in Nat
         /\ ~Repeated(now) => NextCronTime(now) > now /\ MinuteMatches(Local(NextCronTime(now)))
         /\ \A t \in (now + 1)..(NextCronTime(now) - 1) : MinuteMatches(Local(t)) => Repeated(t)
<1> DEFINE A == TurnedBackAt
           B == TurnedBackBy
           here == Local(now)
           m == CHOOSE k \in Upcoming(now) : \A n \in Upcoming(now) : k <= n
<1>1. A \in Nat /\ B \in Nat /\ B <= A /\ SearchMinutes \in Nat
  BY CalendarAssumption
<1>2. here = (IF now < A THEN now ELSE now - B) /\ here \in Nat
  BY <1>1 DEF Local
<1>3. Upcoming(now) = {k \in here + 1 .. here + SearchMinutes : MinuteMatches(k)}
  BY DEF Upcoming, FirstLooked
<1> HIDE DEF here
<1>4. Upcoming(now) \in SUBSET Nat
  BY <1>1, <1>2, <1>3
<1>5. m \in Upcoming(now) /\ \A n \in Upcoming(now) : m <= n
  <2>1. \E k \in Upcoming(now) : \A n \in Upcoming(now) : k <= n
    BY <1>4, LeastOf
  <2> QED
    BY <2>1
<1>6. NextCronTime(now) = (IF m < A THEN m ELSE m + B)
  BY DEF NextCronTime, Instant
<1> HIDE DEF m
<1>7. m \in Nat /\ m > here /\ m <= here + SearchMinutes /\ MinuteMatches(m)
  BY <1>1, <1>2, <1>3, <1>5
<1> DEFINE next == NextCronTime(now)
<1>8. next \in Nat /\ next = (IF m < A THEN m ELSE m + B)
  BY <1>1, <1>6, <1>7
<1> HIDE DEF next
<1>9. Local(next) = m
  <2>1. Local(next) = (IF next < A THEN next ELSE next - B)
    BY DEF Local
  <2> QED
    BY <1>1, <1>7, <1>8, <2>1
<1>10. ASSUME ~Repeated(now) PROVE next > now
  <2>1. ~(now >= A /\ now < A + B)
    BY <1>10 DEF Repeated
  <2> QED
    BY <1>1, <1>2, <1>7, <1>8, <2>1
<1>11. ASSUME NEW t \in (now + 1)..(next - 1), MinuteMatches(Local(t)), ~Repeated(t) PROVE FALSE
  <2> DEFINE l == Local(t)
  <2>1. ~(t >= A /\ t < A + B)
    BY <1>11 DEF Repeated
  <2>2. l = (IF t < A THEN t ELSE t - B)
    BY DEF Local
  <2> HIDE DEF l
  <2>3. t \in Nat /\ t > now /\ t < next
    BY <1>8
  <2>4. l \in Nat /\ l > here /\ l < m
    BY <1>1, <1>2, <1>7, <1>8, <2>1, <2>2, <2>3
  <2>5. l \in here + 1 .. here + SearchMinutes
    BY <1>1, <1>2, <1>7, <2>4
  <2>6. l \in Upcoming(now)
    BY <1>3, <1>11, <2>5 DEF l
  <2> QED
    BY <1>5, <1>7, <2>4, <2>6
<1> QED
  BY <1>7, <1>8, <1>9, <1>10, <1>11 DEF next

\* A timer is set from now, for the time found or for at once, or there is none.
LEMMA TimerIs ==
  ASSUME NEW now \in Nat
  PROVE  /\ TimerFor(now) \in [due : Nat, since : Nat, set : BOOLEAN]
         /\ TimerFor(now).set <=> Upcoming(now) # {}
         /\ TimerFor(now).set =>
              TimerFor(now).since = now /\ TimerFor(now).due = (IF TooFar(now) THEN now ELSE NextCronTime(now))
<1>1. CASE Upcoming(now) = {}
  BY <1>1 DEF TimerFor, NoTimer
<1>2. CASE Upcoming(now) # {}
  <2> DEFINE d == IF TooFar(now) THEN now ELSE NextCronTime(now)
  <2>1. d \in Nat
    BY <1>2, NextIs
  <2>2. TimerFor(now) = [due |-> d, since |-> now, set |-> TRUE]
    BY <1>2 DEF TimerFor
  <2> HIDE DEF d
  <2>3. /\ TimerFor(now) \in [due : Nat, since : Nat, set : BOOLEAN]
        /\ TimerFor(now).set /\ TimerFor(now).since = now /\ TimerFor(now).due = d
    BY <2>1, <2>2
  <2> QED
    BY <1>2, <2>3 DEF d
<1> QED
  BY <1>1, <1>2

\* Every step of a cron timer keeps its runs and its next time as the expression says.
LEMMA CronKept ==
  ASSUME CronHolds, CronNext \/ UNCHANGED cronTimerVars PROVE CronHolds'
<1>1. UNCHANGED expression
  BY DEF CronNext, cronTimerVars, Schedule, Minute, Fire, StopCronJobs
<1>2. \A m : MinuteMatches(m)' <=> MinuteMatches(m)
  BY <1>1 DEF MinuteMatches
<1>3. \A n : Upcoming(n)' = Upcoming(n)
  BY <1>2 DEF Upcoming
<1>4. \A n : NextCronTime(n)' = NextCronTime(n)
  BY <1>3 DEF NextCronTime
<1>5. \A n : TooFar(n)' <=> TooFar(n)
  BY <1>4 DEF TooFar
<1>6. ASSUME NEW r PROVE RanWell(r)' <=> RanWell(r)
  BY <1>2, <1>5 DEF RanWell
<1>7. ASSUME UNCHANGED <<armed, stopped, runs>>, clock' \in Nat, clock <= clock' PROVE CronHolds'
  <2>1. armed' = armed /\ stopped' = stopped /\ runs' = runs
    BY <1>7
  <2>2. armed.set => armed.since <= clock'
    BY <1>7 DEF CronHolds
  <2>3. (\A i \in 1..Len(runs) : RanWell(runs[i]))'
    BY <1>6, <1>7 DEF CronHolds
  <2> QED
    BY <1>3, <1>4, <1>5, <1>7, <2>1, <2>2, <2>3 DEF CronHolds
<1>8. CASE UNCHANGED cronTimerVars
  BY <1>7, <1>8 DEF cronTimerVars, CronHolds
<1>9. CASE Schedule
  <2>1. runs = << >> /\ runs' = runs /\ clock' = clock /\ stopped' = stopped /\ ~stopped /\ armed' = TimerFor(clock)
    BY <1>9 DEF Schedule
  <2>2. clock \in Nat
    BY DEF CronHolds
  <2>3. /\ armed' \in [due : Nat, since : Nat, set : BOOLEAN]
        /\ armed'.set <=> Upcoming(clock) # {}
        /\ armed'.set => armed'.since = clock /\ armed'.due = (IF TooFar(clock) THEN clock ELSE NextCronTime(clock))
    BY <2>1, <2>2, TimerIs
  <2>4. Len(runs) = 0
    BY <2>1, EmptySeq
  <2> QED
    BY <1>3, <1>4, <1>5, <2>1, <2>2, <2>3, <2>4 DEF CronHolds
<1>10. CASE Minute
  BY <1>7, <1>10 DEF Minute, CronHolds
<1>11. CASE StopCronJobs
  <2>1. stopped' = TRUE /\ armed' = [due |-> 0, since |-> 0, set |-> FALSE] /\ clock' = clock /\ runs' = runs
    BY <1>11 DEF StopCronJobs, NoTimer
  <2>2. armed' \in [due : Nat, since : Nat, set : BOOLEAN] /\ ~armed'.set
    BY <2>1
  <2>3. (\A i \in 1..Len(runs) : RanWell(runs[i]))'
    BY <1>6, <2>1 DEF CronHolds
  <2> QED
    BY <1>3, <2>1, <2>2, <2>3 DEF CronHolds
<1>12. CASE Fire
  <2> DEFINE n == Len(runs)
             run == [at |-> clock, since |-> armed.since]
  <2>1. /\ armed.set /\ clock >= armed.due /\ runs' = Append(runs, run) /\ clock' = clock
        /\ \E stops \in BOOLEAN : stopped' = stops /\ armed' = Rearmed(stops)
    BY <1>12 DEF Fire
  <2>2. /\ clock \in Nat /\ armed.since \in Nat /\ armed.due \in Nat /\ armed.since <= clock /\ Upcoming(armed.since) # {}
        /\ armed.due = (IF TooFar(armed.since) THEN armed.since ELSE NextCronTime(armed.since))
    BY <2>1 DEF CronHolds
  <2>3. RanWell(run)
    <3>1. CASE TooFar(armed.since) \/ Repeated(armed.since)
      BY <3>1 DEF RanWell
    <3>2. CASE ~TooFar(armed.since) /\ ~Repeated(armed.since)
      <4>1. armed.due > armed.since /\ MinuteMatches(Local(armed.due))
        BY <2>2, <3>2, NextIs
      <4>2. armed.due \in (run.since + 1)..run.at
        BY <2>1, <2>2, <4>1
      <4> QED
        BY <4>1, <4>2 DEF RanWell
    <3> QED
      BY <3>1, <3>2
  <2>4. run \in [at : Nat, since : Nat] /\ run.at = clock /\ run.since = armed.since
    BY <2>2
  <2>5. runs # << >> => run.since = runs[n].at
    BY <2>1, <2>4 DEF CronHolds
  <2> HIDE DEF run
  <2>6. /\ runs' \in Seq([at : Nat, since : Nat]) /\ n \in Nat /\ Len(runs') = n + 1 /\ runs' # << >>
        /\ \A i \in 1..n : runs'[i] = runs[i]
        /\ runs'[n + 1] = run
    BY <2>1, <2>4, AppendProperties, LenProperties DEF CronHolds
  <2>7. /\ stopped' \in BOOLEAN /\ armed' \in [due : Nat, since : Nat, set : BOOLEAN] /\ (stopped' => ~armed'.set)
        /\ ~stopped' => (armed'.set <=> Upcoming(clock) # {})
        /\ armed'.set => armed'.since = clock /\ armed'.due = (IF TooFar(clock) THEN clock ELSE NextCronTime(clock))
    <3>1. CASE stopped' = TRUE /\ armed' = [due |-> 0, since |-> 0, set |-> FALSE]
      BY <3>1
    <3>2. CASE stopped' = FALSE /\ armed' = TimerFor(clock)
      BY <2>2, <3>2, TimerIs
    <3> QED
      BY <2>1, <3>1, <3>2 DEF Rearmed, NoTimer
  <2>8. armed'.set => Upcoming(clock) # {}
    BY <2>7
  <2>9. ASSUME NEW i \in 1..Len(runs') PROVE RanWell(runs'[i]) /\ (i > 1 => runs'[i].since = runs'[i - 1].at)
    <3>1. CASE i = n + 1
      <4>1. i > 1 => n \in 1..n /\ runs # << >> /\ i - 1 = n
        BY <2>6, <3>1, EmptySeq
      <4> QED
        BY <2>3, <2>5, <2>6, <3>1, <4>1
    <3>2. CASE i # n + 1
      <4>1. i \in 1..n /\ (i > 1 => i - 1 \in 1..n)
        BY <2>6, <3>2
      <4>2. RanWell(runs[i]) /\ (i > 1 => runs[i].since = runs[i - 1].at)
        BY <4>1 DEF CronHolds
      <4> QED
        BY <2>6, <4>1, <4>2
    <3> QED
      BY <3>1, <3>2
  <2>10. runs'[Len(runs')] = run /\ run.at = clock
    BY <2>4, <2>6
  <2>11. (\A i \in 1..Len(runs) : RanWell(runs[i]) /\ (i > 1 => runs[i].since = runs[i - 1].at))'
    BY <1>6, <2>9
  <2> HIDE DEF n
  <2>12. clock' \in Nat /\ (armed'.set => armed'.since <= clock')
    BY <2>1, <2>2, <2>7
  <2> QED
    BY <1>3, <1>4, <1>5, <2>6, <2>7, <2>8, <2>10, <2>11, <2>12 DEF CronHolds
<1> QED
  BY <1>8, <1>9, <1>10, <1>11, <1>12 DEF CronNext

(***************************************************************************)
(* The theorem.                                                            *)
(***************************************************************************)
Facets == {"listeners", "calls", "cron"}
EventsIInv == facet \in Facets /\ ListenersHold /\ ReportHolds

\* The first states satisfy the three invariants.
LEMMA EventsStart == ASSUME ContainerEventsInit PROVE EventsIInv /\ CronHolds
<1>1. ListenersHold
  BY EmptySeq DEF ContainerEventsInit, Standing, ListenersHold
<1>2. ReportHolds
  BY ReportStarts DEF SomeCall, CallSituations, Publisher, Telemetry, ContainerEventsInit
<1>3. CronHolds
  <2>1. clock = 0 /\ runs = << >> /\ stopped = FALSE /\ armed = [due |-> 0, since |-> 0, set |-> FALSE]
    BY DEF ContainerEventsInit, CronInit, NoTimer
  <2>2. << >> \in Seq([at : Nat, since : Nat]) /\ Len(<< >>) = 0
    BY EmptySeq
  <2>3. 1..Len(runs) = {}
    BY <2>1, <2>2
  <2>4. armed \in [due : Nat, since : Nat, set : BOOLEAN] /\ ~armed.set
    BY <2>1
  <2> QED
    BY <2>1, <2>2, <2>3, <2>4 DEF CronHolds
<1> QED
  BY <1>1, <1>2, <1>3 DEF EventsIInv, ContainerEventsInit, Facets

\* One part of the three moves.
LEMMA OnePartMoves ==
  ASSUME facet \in Facets, [ContainerEventsNext]_eventVars
  PROVE  /\ facet' = facet
         /\ ListenersNext \/ UNCHANGED listenerVars
         /\ CallsNext \/ UNCHANGED report
         /\ CronNext \/ UNCHANGED cronTimerVars
<1>1. CASE UNCHANGED eventVars
  BY <1>1 DEF eventVars
<1>2. CASE ContainerEventsNext
  BY <1>2 DEF ContainerEventsNext, Facets
<1> QED
  BY <1>1, <1>2

\* Every step of the events and calls keeps theirs.
LEMMA EventsKept == ASSUME EventsIInv, [ContainerEventsNext]_eventVars PROVE EventsIInv'
BY OnePartMoves, ListenersKept, ReportKept DEF EventsIInv

\* Every step keeps that of the timer.
LEMMA TimersKept ==
  ASSUME EventsIInv, CronHolds, [ContainerEventsNext]_eventVars PROVE CronHolds'
BY OnePartMoves, CronKept DEF EventsIInv

\* The invariant says of each run what the property does, and a timer passes over no match.
LEMMA RunsAreOnSchedule == ASSUME CronHolds PROVE RunsOnSchedule
<1>1. ASSUME armed.set, NEW t \in (armed.since + 1)..(armed.due - 1), MinuteMatches(Local(t)) PROVE Repeated(t)
  <2>1. /\ armed.since \in Nat /\ Upcoming(armed.since) # {}
        /\ armed.due = armed.since \/ armed.due = NextCronTime(armed.since)
    BY <1>1 DEF CronHolds
  <2>2. CASE armed.due = armed.since
    BY <1>1, <2>1, <2>2
  <2>3. CASE armed.due = NextCronTime(armed.since)
    BY <1>1, <2>1, <2>3, NextIs
  <2> QED
    BY <2>1, <2>2, <2>3
<1> QED
  BY <1>1 DEF CronHolds, RunsOnSchedule

\* What an emission that ends owes to those it went out to.
CompleteStep ==
  \A n \in 1..Len(emitting) : Len(emitting') < n =>
    emitting[n].throughout \subseteq {emitting[n].called[i] : i \in 1..Len(emitting[n].called)}

\* No step ends an emission that owes a call.
LEMMA EmissionSteps == ASSUME EventsIInv, [ContainerEventsNext]_eventVars PROVE CompleteStep
BY OnePartMoves, EmissionIsComplete DEF EventsIInv, CompleteStep

\* However listeners come and go, each that stays is called before emit returns and none twice
\* unless it left; a method's calls are published and reported as its decorators say
\* (container.ts:468-604, 803-855).
THEOREM EventsAreDelivered == ContainerEventsSpec => [](CalledOnce /\ CallsPublished) /\ EmissionsComplete
<1>1. ContainerEventsInit => EventsIInv
  BY EventsStart
<1>2. EventsIInv /\ [ContainerEventsNext]_eventVars => EventsIInv'
  BY EventsKept
<1>3. EventsIInv => CalledOnce /\ CallsPublished
  BY ListenersCalledOnce, CallIsPublished DEF EventsIInv
<1>4. EventsIInv /\ [ContainerEventsNext]_eventVars => CompleteStep
  BY EmissionSteps
<1>5. EmissionsComplete <=> [][CompleteStep]_eventVars
  BY DEF EmissionsComplete, CompleteStep
<1> QED
  BY <1>1, <1>2, <1>3, <1>4, <1>5, PTL DEF ContainerEventsSpec

\* Whatever the calendar and however late timers fire, a cron method runs once at most for each
\* minute its expression names, passes over none, waits for the next one found, and waits no more
\* once it is stopped. A search that follows no timer can wait for, or that is made in the second
\* pass of an hour, lets the method run at once (container.ts:139-178, 650-687).
THEOREM TimersKeepTheSchedule == ContainerEventsSpec => []RunsOnSchedule
<1>1. ContainerEventsInit => EventsIInv /\ CronHolds
  BY EventsStart
<1>2. EventsIInv /\ CronHolds /\ [ContainerEventsNext]_eventVars => EventsIInv' /\ CronHolds'
  BY EventsKept, TimersKept
<1>3. CronHolds => RunsOnSchedule
  BY RunsAreOnSchedule
<1> QED
  BY <1>1, <1>2, <1>3, PTL DEF ContainerEventsSpec

(***************************************************************************)
(* ServiceBindings: reports and clients.                                   *)
(***************************************************************************)

\* What a token makes: nothing, what a test registered, or a client of its own caller.
TokenOwners == BoundCallers \union {Anyone}
BindingsIInv ==
  /\ tokens \in [TokenOwners -> [Services -> TokenOwners \union {"none", "mock", CurrentService}]]
  /\ \A c \in BoundCallers, b \in Services : tokens[c][b] \in {"none", "mock", c}

\* Changing one token of one caller changes that token only.
LEMMA TokenChanged ==
  ASSUME BindingsIInv, NEW c \in TokenOwners, NEW b \in Services, NEW v \in {"none", "mock", Client(c)},
         tokens' = [tokens EXCEPT ![c][b] = v]
  PROVE  BindingsIInv'
<1>1. v \in TokenOwners \union {"none", "mock", CurrentService}
  BY DEF Client, TokenOwners
<1>2. tokens' \in [TokenOwners -> [Services -> TokenOwners \union {"none", "mock", CurrentService}]]
  BY <1>1 DEF BindingsIInv
<1>3. ASSUME NEW d \in BoundCallers, NEW a \in Services PROVE tokens'[d][a] \in {"none", "mock", d}
  <2>1. CASE d = c /\ a = b
    BY <2>1, BindingsAssumption DEF BindingsIInv, Client
  <2>2. CASE ~(d = c /\ a = b)
    BY <2>2 DEF TokenOwners, BindingsIInv
  <2> QED
    BY <2>1, <2>2
<1> QED
  BY <1>2, <1>3 DEF BindingsIInv

\* A token is only changed by resolving it and by a test that registers it.
LEMMA BindingsKept == ASSUME BindingsIInv, [BindingsNext]_bindingVars PROVE BindingsIInv'
<1>1. CASE UNCHANGED tokens
  BY <1>1 DEF BindingsIInv
<1>2. ASSUME NEW c \in TokenOwners, NEW b \in Services, ResolveToken(c, b) PROVE BindingsIInv'
  <2>1. CASE MakesGlobal(c, b)
    BY <1>1, <1>2, <2>1 DEF ResolveToken
  <2>2. CASE ~MakesGlobal(c, b)
    <3>1. tokens' = [tokens EXCEPT ![c][b] = OnceResolved(c, b)]
      BY <1>2, <2>2 DEF ResolveToken
    <3>2. CASE tokens[c][b] = "none"
      BY <2>2, <3>2, <3>1, TokenChanged DEF OnceResolved
    <3>3. CASE tokens[c][b] # "none"
      BY <3>3, <3>1, <1>1 DEF OnceResolved, BindingsIInv
    <3> QED
      BY <3>2, <3>3
  <2> QED
    BY <2>1, <2>2
<1>3. ASSUME NEW c \in TokenOwners, NEW b \in Services, RegisterToken(c, b) PROVE BindingsIInv'
  BY <1>3, TokenChanged DEF RegisterToken
<1>4. CASE UNCHANGED bindingVars
  BY <1>1, <1>4 DEF bindingVars
<1>5. ASSUME NEW s \in Services, Unregister(s) \/ SetServiceStatus(s) PROVE BindingsIInv'
  BY <1>1, <1>5 DEF Unregister, SetServiceStatus
<1>6. ASSUME NEW s \in Services, NEW ops \in SUBSET Offered, NEW needs \in BOOLEAN, Export(s, ops, needs) PROVE BindingsIInv'
  BY <1>1, <1>6 DEF Export
<1>7. ASSUME NEW s \in Services, NEW c \in BoundCallers \union {Anyone}, NEW ops \in SUBSET Offered,
             AddGrant(c, s, ops) \/ SubstituteMock(c, s, ops)
      PROVE BindingsIInv'
  BY <1>1, <1>7 DEF AddGrant, SubstituteMock
<1>8. ASSUME NEW s \in Services, NEW c \in BoundCallers \union {Anyone}, RevokeGrant(c, s) \/ ResolveToken(c, s) \/ RegisterToken(c, s)
      PROVE BindingsIInv'
  BY <1>1, <1>2, <1>3, <1>8 DEF TokenOwners, RevokeGrant
<1>9. ASSUME ClearMocks \/ \E switches : SetEnforced(switches) PROVE BindingsIInv'
  BY <1>1, <1>9 DEF ClearMocks, SetEnforced
<1>10. ASSUME NEW c \in BoundCallers, NEW b \in Services, NEW t \in Services, NEW ops \in {{}, Offered}, NEW g \in BOOLEAN,
              BindService(c, b, t, ops, g)
       PROVE BindingsIInv'
  BY <1>1, <1>10 DEF BindService
<1>11. ASSUME NEW c \in BoundCallers, NEW b \in Services, NEW op \in Offered, NEW t \in Services \union {NoTarget}, Invoke(c, b, op, t)
       PROVE BindingsIInv'
  BY <1>1, <1>11 DEF Invoke
<1>12. CASE BindingsNext
  BY <1>5, <1>6, <1>7, <1>8, <1>9, <1>10, <1>11, <1>12 DEF BindingsNext
<1> QED
  BY <1>4, <1>12

\* Before bindings are configured the only tokens are of their owners.
LEMMA BindingsStart == ASSUME BindingsInit PROVE BindingsIInv
  BY DEF BindingsInit, BindingsIInv, TokenOwners

\* What an invocation without a target of its own comes to, by the mock or by the service.
LEMMA Invoked ==
  ASSUME NEW c \in BoundCallers, NEW b \in Services, NEW op \in Offered, boundTo[c][b] # NoTarget,
         tokens[c][b] # "mock", tokens[Anyone][b] # "mock", Invoke(c, b, op, NoTarget)
  PROVE  /\ answer'.kind = (IF MockOf(c, b) # {} THEN Mocking(c, boundTo[c][b], MockOf(c, b), op)
                            ELSE Refusal(c, boundTo[c][b], op))
         /\ answer'.kind = "served" => answer'.version = exported[boundTo[c][b]].version
BY DEF Configured, Invoke

\* A call comes to what the report says (service-bindings/runtime.ts).
LEMMA ReportIsTold ==
  ASSUME NEW c \in BoundCallers, NEW b \in Services, NEW op \in Offered, boundTo[c][b] # NoTarget,
         tokens[c][b] # "mock", tokens[Anyone][b] # "mock", Invoke(c, b, op, NoTarget)
  PROVE  CASE Status(c, b) = "MOCKED" -> answer'.kind \in {"mock", "incompatible"} \/ enforced.mocks
           [] Status(c, b) = "UNBOUND" -> answer'.kind = "unbound"
           [] Status(c, b) = "UNAVAILABLE" -> answer'.kind = "unavailable"
           [] OTHER -> \/ answer'.kind = "served" /\ answer'.version = exported[boundTo[c][b]].version
                       \/ answer'.kind \in {"incompatible", "not allowed"}
<1> DEFINE target == boundTo[c][b]
           free == ~(enforced.calls /\ ~IsCallerAuthorized(c, target))
<1>1. CASE MockOf(c, b) # {}
  BY <1>1, Invoked DEF Status, Mocking
<1>2. CASE MockOf(c, b) = {}
  <2>1. answer'.kind = Refusal(c, target, op)
    BY <1>2, Invoked
  <2>2. CASE ~free
    BY <1>2, <2>1, <2>2 DEF Status, Refusal
  <2>3. CASE free /\ ~exported[target].running
    BY <1>2, <2>1, <2>3 DEF Status, Refusal
  <2>4. CASE free /\ exported[target].running
    BY <1>2, <2>4, <2>1, Invoked DEF Status, Refusal
  <2> QED
    BY <2>2, <2>3, <2>4
<1> QED
  BY <1>1, <1>2

\* A client is the one its token was made for.
LEMMA ClientIsTheCallers ==
  ASSUME BindingsIInv, NEW c \in BoundCallers, NEW b \in Services,
         ResolveToken(c, b), tokens[Anyone][b] = "none", tokens[c][b] # "mock"
  PROVE  answer'.client = c
BY BindingsAssumption DEF OnceResolved, MakesGlobal, Client, BindingsIInv, ResolveToken

\* However bindings, grants, mocks and services change: a call over a configured binding comes to
\* what the report says of it, and a client speaks for its caller (service-bindings/runtime.ts).
THEOREM BindingsHold == BindingsSpec => ReportTells /\ SpeaksForItsCaller
<1>1. BindingsInit => BindingsIInv
  BY BindingsStart
<1>2. BindingsIInv /\ [BindingsNext]_bindingVars => BindingsIInv'
  BY BindingsKept
<1> DEFINE Says ==
      \A c \in BoundCallers, b \in Services, op \in Offered :
        boundTo[c][b] # NoTarget /\ tokens[c][b] # "mock" /\ tokens[Anyone][b] # "mock"
          /\ Invoke(c, b, op, NoTarget) =>
          CASE Status(c, b) = "MOCKED" -> answer'.kind \in {"mock", "incompatible"} \/ enforced.mocks
            [] Status(c, b) = "UNBOUND" -> answer'.kind = "unbound"
            [] Status(c, b) = "UNAVAILABLE" -> answer'.kind = "unavailable"
            [] OTHER -> \/ answer'.kind = "served" /\ answer'.version = exported[boundTo[c][b]].version
                        \/ answer'.kind \in {"incompatible", "not allowed"}
    Spoken ==
      \A c \in BoundCallers, b \in Services :
        ResolveToken(c, b) /\ tokens[Anyone][b] = "none" /\ tokens[c][b] # "mock" => answer'.client = c
<1>3. Says
  BY ReportIsTold
<1>4. BindingsIInv => Spoken
  BY ClientIsTheCallers
<1>5. (ReportTells <=> [][Says]_bindingVars) /\ (SpeaksForItsCaller <=> [][Spoken]_bindingVars)
  BY DEF ReportTells, SpeaksForItsCaller
<1> HIDE DEF Says, Spoken
<1> QED
  BY <1>1, <1>2, <1>3, <1>4, <1>5, PTL DEF BindingsSpec

-----------------------------------------------------------------------------
\* The elements of a finite set that are told apart by what is below each of them have the
\* ranks 0, 1, 2... , one each, and a lower rank is to be below: what CHOOSE finds at a rank
\* in the sorts of the model is there, and the elements come in the order of "below".
LEMMA RanksFill ==
  ASSUME NEW S, IsFiniteSet(S), NEW below \in [S -> SUBSET S],
         \A i \in S : i \notin below[i],
         \A i, j \in S : i \in below[j] => below[i] \subseteq below[j],
         \A i, j \in S : i = j \/ i \in below[j] \/ j \in below[i]
  PROVE  /\ Cardinality(S) \in Nat
         /\ \A i \in S : Cardinality(below[i]) \in 0..(Cardinality(S) - 1)
         /\ \A i, j \in S : i \in below[j] <=> Cardinality(below[i]) < Cardinality(below[j])
         /\ \A n \in 0..(Cardinality(S) - 1) : \E i \in S : Cardinality(below[i]) = n
<1> DEFINE N == Cardinality(S)
           rank == [i \in S |-> Cardinality(below[i])]
<1>1. N \in Nat
  BY FS_CardinalityType
<1>2. \A i \in S : IsFiniteSet(below[i]) /\ Cardinality(below[i]) \in Nat /\ Cardinality(below[i]) < N
  <2> TAKE i \in S
  <2>1. below[i] \in SUBSET S /\ below[i] # S
    OBVIOUS
  <2>2. IsFiniteSet(below[i]) /\ Cardinality(below[i]) <= N /\ Cardinality(below[i]) # N
    BY <2>1, FS_Subset
  <2>3. Cardinality(below[i]) \in Nat
    BY <2>2, FS_CardinalityType
  <2> QED
    BY <1>1, <2>2, <2>3
<1>3. \A i, j \in S : i \in below[j] => Cardinality(below[i]) < Cardinality(below[j])
  BY <1>2, FS_Subset
<1>4. \A i, j \in S : i \in below[j] <=> Cardinality(below[i]) < Cardinality(below[j])
  BY <1>3, <1>2
<1>5. \A i \in S : Cardinality(below[i]) \in 0..(N - 1)
  BY <1>1, <1>2
<1>6. rank \in [S -> 0..(N - 1)] /\ \A i, j \in S : rank[i] = rank[j] => i = j
  <2>1. rank \in [S -> 0..(N - 1)]
    BY <1>5
  <2>2. \A i, j \in S : rank[i] = rank[j] => i = j
    <3> SUFFICES ASSUME NEW i \in S, NEW j \in S, rank[i] = rank[j], i # j PROVE FALSE
      OBVIOUS
    <3>1. Cardinality(below[i]) = Cardinality(below[j]) /\ Cardinality(below[i]) \in Nat
      BY <1>2
    <3> HIDE DEF rank
    <3>2. ~(i \in below[j]) /\ ~(j \in below[i])
      BY <1>3, <3>1
    <3> QED
      BY <3>2
  <2> QED
    BY <2>1, <2>2
<1>7. IsFiniteSet(0..(N - 1)) /\ Cardinality(0..(N - 1)) = N
  BY <1>1, FS_Interval
<1>8. \A n \in 0..(N - 1) : \E i \in S : rank[i] = n
  <2> HIDE DEF rank
  <2>1. rank \in Injection(S, 0..(N - 1))
    BY <1>6 DEF Injection, IsInjective
  <2>2. rank \in Surjection(S, 0..(N - 1))
    BY <1>7, <2>1, FS_Injection
  <2> QED
    BY <2>2 DEF Surjection
<1> QED
  BY <1>1, <1>4, <1>5, <1>8
(***************************************************************************)
(* BlobStores.                                                             *)
(***************************************************************************)
BlobObjects == [by : Puts \union {"nobody", "before"}, units : SUBSET Nat]
BlobPuts == [pc : {"idle", "uploading", "aborting", "done", "failed"}, key : BlobKeys, size : Nat, stated : Nat,
             next : Nat \ {0}, etags : Seq(Nat), lost : BOOLEAN]
BlobUploads == [state : {"none", "open", "completed", "aborted"}, parts : Seq(SUBSET Nat)]
BlobTypes ==
  /\ adapter \in {"memory", "s3"} /\ objects \in [BlobKeys -> BlobObjects]
  /\ uploads \in [Puts -> BlobUploads] /\ puts \in [Puts -> BlobPuts]

\* An upload has the parts and the tags of the first data, in order, while its put goes on.
PutHolds(w) ==
  LET p == puts[w]  u == uploads[w] IN
    /\ p.pc = "idle" => u = NoUpload /\ p.next = 1 /\ p.etags = << >>
    /\ p.pc = "uploading" =>
         /\ u.state = "open" /\ p.next <= PartCount(w) + 1
         /\ Len(u.parts) = p.next - 1 /\ Len(p.etags) = p.next - 1
         /\ \A i \in 1 .. p.next - 1 : p.etags[i] = i /\ u.parts[i] = Part(w, i)
    /\ p.pc \in {"done", "failed"} /\ u.state = "open" => p.lost

\* What the caller has listed is what it should have met up to its cursor.
ListHolds ==
  /\ listing \in [cursor : 0..KeyCount, more : BOOLEAN, listed : Seq(BlobKeys)]
  /\ \A i, j \in 1..Len(listing.listed) : listing.listed[i] = listing.listed[j] => i = j
  /\ \A i \in 1..Len(listing.listed) : listing.more => listing.listed[i] <= listing.cursor
  /\ stayed \subseteq Present \ Nested
  /\ \A k \in stayed : listing.more => k > listing.cursor \/ \E i \in 1..Len(listing.listed) : listing.listed[i] = k
  /\ ~listing.more => \A k \in stayed : \E i \in 1..Len(listing.listed) : listing.listed[i] = k

\* The body is locked as long as one, and only one, reads it.
BodyHolds ==
  /\ body \in {"fresh", "locked", "cached"}
  /\ reads \in [Readers -> {"idle", "reading", "served", "overlapped"}]
  /\ \A q, r \in Readers : reads[q] = "reading" /\ reads[r] = "reading" => q = r
  /\ (\E q \in Readers : reads[q] = "reading") <=> body = "locked"

BlobIInv == BlobTypes /\ WholeObjects /\ (\A w \in Puts : PutHolds(w)) /\ ListHolds /\ BodyHolds

\* Storing an object, or none, changes one key, and a listing stays what it should be.
LEMMA StoreKeeps ==
  ASSUME BlobIInv, NEW k \in BlobKeys, NEW object \in BlobObjects, Store(k, object), listing' = listing,
         object.by \in Puts => object.units = Units(object.by)'
  PROVE  ListHolds' /\ objects' \in [BlobKeys -> BlobObjects]
         /\ \A j \in BlobKeys : objects'[j] = IF j = k THEN object ELSE objects[j]
BY DEF BlobIInv, BlobTypes, Store, ListHolds, Present

\* A put leaves listings and bodies alone, and its step leaves the data of every put.
LEMMA PutsKeep ==
  ASSUME BlobIInv, NEW w \in Puts, NEW p \in BlobPuts, puts' = [puts EXCEPT ![w] = p],
         p.size = puts[w].size, NEW u \in BlobUploads, uploads' = [uploads EXCEPT ![w] = u],
         adapter' = adapter
  PROVE  /\ puts' \in [Puts -> BlobPuts] /\ uploads' \in [Puts -> BlobUploads]
         /\ \A v \in Puts : Units(v)' = Units(v) /\ PartCount(v)' = PartCount(v) /\ \A i : Part(v, i)' = Part(v, i)
         /\ puts'[w] = p /\ uploads'[w] = u
         /\ \A v \in Puts \ {w} : PutHolds(v)'
<1>1. puts \in [Puts -> BlobPuts] /\ uploads \in [Puts -> BlobUploads] /\ \A v \in Puts : PutHolds(v)
  BY DEF BlobIInv, BlobTypes
<1>2. puts' \in [Puts -> BlobPuts] /\ uploads' \in [Puts -> BlobUploads]
  BY <1>1
<1>3. \A v \in Puts : puts'[v].size = puts[v].size
  BY <1>1
<1>4. \A v \in Puts : Units(v)' = Units(v) /\ PartCount(v)' = PartCount(v)
  BY <1>3 DEF Units, PartCount
<1>5. \A v \in Puts : \A i : Part(v, i)' = Part(v, i)
  BY <1>4 DEF Part
<1>6. puts'[w] = p /\ uploads'[w] = u
  BY <1>1
<1>7. ASSUME NEW v \in Puts \ {w} PROVE PutHolds(v)'
  BY <1>1, <1>4, <1>5 DEF PutHolds
<1> QED
  BY <1>2, <1>4, <1>5, <1>6, <1>7

\* Where nothing is stored the objects stay whole, and what is stored whole keeps them so.
LEMMA ObjectsKeep ==
  ASSUME BlobIInv, \A v \in Puts : Units(v)' = Units(v),
         \/ UNCHANGED <<objects, stayed>>
         \/ \E k \in BlobKeys, w \in Puts : Store(k, [by |-> w, units |-> Units(w)]),
         listing' = listing, puts \in [Puts -> BlobPuts]
  PROVE  ListHolds' /\ objects' \in [BlobKeys -> BlobObjects] /\ WholeObjects'
<1>1. objects \in [BlobKeys -> BlobObjects] /\ ListHolds /\ WholeObjects
  BY DEF BlobIInv, BlobTypes
<1>2. CASE UNCHANGED <<objects, stayed>>
  BY <1>2, <1>1 DEF Present, ListHolds, WholeObjects
<1>3. CASE \E k \in BlobKeys, w \in Puts : Store(k, [by |-> w, units |-> Units(w)])
  <2>1. PICK k \in BlobKeys, w \in Puts : Store(k, [by |-> w, units |-> Units(w)])
    BY <1>3
  <2> DEFINE object == [by |-> w, units |-> Units(w)]
  <2>2. object \in BlobObjects /\ object.by = w /\ object.units = Units(w)
    BY DEF BlobObjects, Units, BlobPuts
  <2>3. Units(w)' = Units(w)
    OBVIOUS
  <2> HIDE DEF object
  <2>4. Store(k, object)
    BY <2>1 DEF object
  <2>5. /\ ListHolds' /\ objects' \in [BlobKeys -> BlobObjects]
        /\ \A j \in BlobKeys : objects'[j] = IF j = k THEN object ELSE objects[j]
    BY <2>2, <2>3, <2>4, StoreKeeps
  <2>6. WholeObjects'
    BY <1>1, <2>2, <2>3, <2>5 DEF WholeObjects
  <2> QED
    BY <2>5, <2>6
<1> QED
  BY <1>2, <1>3

\* Whole division of what is not negative.
LEMMA QuotientIs ==
  ASSUME NEW m \in Nat, NEW P \in Nat \ {0}
  PROVE  m \div P \in Nat /\ (m \div P) * P <= m /\ m < (m \div P + 1) * P
<1> DEFINE d == m \div P
           r == m % P
<1>1. d \in Int /\ r \in 0 .. P - 1 /\ m = P * d + r
  OBVIOUS
<1> HIDE DEF d, r
<1>2. d >= 0
  <2>1. ASSUME d <= -1 PROVE FALSE
    BY <1>1, <2>1
  <2> QED
    BY <1>1, <2>1
<1>3. (d + 1) * P = P * d + P /\ d * P = P * d
  BY <1>1
<1> QED
  BY <1>1, <1>2, <1>3 DEF d

\* The parts of an upload are all of its data.
LEMMA PartsAreWhole ==
  ASSUME NEW w \in Puts, puts[w].size \in Nat
  PROVE  PartCount(w) \in Nat /\ UNION {Part(w, i) : i \in 1..PartCount(w)} = Units(w)
<1> DEFINE n == puts[w].size
           P == PartSize
           c == (n + P - 1) \div P
<1>1. n \in Nat /\ P \in Nat \ {0}
  BY BlobAssumption
<1>2. PartCount(w) = c
  BY DEF PartCount
<1> HIDE DEF n, P
<1>3. c \in Nat /\ c * P >= n
  <2> DEFINE m == n + P - 1
  <2>1. m \in Nat
    BY <1>1
  <2> HIDE DEF m
  <2>2. m \div P \in Nat /\ m < (m \div P + 1) * P
    BY <1>1, <2>1, QuotientIs
  <2>3. (m \div P + 1) * P = (m \div P) * P + P
    BY <1>1, <2>2
  <2> QED
    BY <1>1, <2>2, <2>3 DEF m
<1>4. ASSUME NEW u \in 1..n PROVE \E i \in 1..c : (i - 1) * P < u /\ u <= i * P
  <2> DEFINE q == (u - 1) \div P
  <2>1. q \in Nat /\ q * P <= u - 1 /\ u - 1 < (q + 1) * P
    BY <1>1, QuotientIs
  <2> HIDE DEF q
  <2> HIDE DEF c
  <2>2. q < c
    <3>1. q * P < c * P
      BY <1>1, <1>3, <2>1
    <3>2. ASSUME q >= c PROVE FALSE
      BY <1>1, <1>3, <2>1, <3>2, <3>1
    <3> QED
      BY <1>3, <2>1, <3>2
  <2>3. q + 1 \in 1..c /\ ((q + 1) - 1) * P < u /\ u <= (q + 1) * P
    BY <1>1, <1>3, <2>1, <2>2
  <2> QED
    BY <2>3
<1>5. Units(w) = 1..n
  BY DEF Units, n
<1>6. \A i : Part(w, i) = {u \in 1..n : (i - 1) * P < u /\ u <= i * P}
  BY <1>5 DEF Part, P
<1> HIDE DEF c
<1>7. UNION {Part(w, i) : i \in 1..c} = 1..n
  BY <1>4, <1>6
<1> QED
  BY <1>2, <1>3, <1>5, <1>7

\* What a put does to itself and its upload keeps everything else, where the objects keep.
LEMMA PutStepKeeps ==
  ASSUME BlobIInv, NEW w \in Puts, NEW p \in BlobPuts, puts' = [puts EXCEPT ![w] = p],
         p.size = puts[w].size, NEW u \in BlobUploads, uploads' = [uploads EXCEPT ![w] = u],
         UNCHANGED <<adapter, listing, body, reads>>,
         \/ UNCHANGED <<objects, stayed>>
         \/ \E k \in BlobKeys, v \in Puts : Store(k, [by |-> v, units |-> Units(v)]),
         /\ p.pc # "idle"
         /\ p.pc = "uploading" =>
              /\ u.state = "open" /\ p.next <= PartCount(w) + 1
              /\ Len(u.parts) = p.next - 1 /\ Len(p.etags) = p.next - 1
              /\ \A i \in 1 .. p.next - 1 : p.etags[i] = i /\ u.parts[i] = Part(w, i)
         /\ p.pc \in {"done", "failed"} /\ u.state = "open" => p.lost
  PROVE  BlobIInv'
<1>1. /\ puts' \in [Puts -> BlobPuts] /\ uploads' \in [Puts -> BlobUploads]
      /\ \A v \in Puts : Units(v)' = Units(v) /\ PartCount(v)' = PartCount(v) /\ \A i : Part(v, i)' = Part(v, i)
      /\ puts'[w] = p /\ uploads'[w] = u
      /\ \A v \in Puts \ {w} : PutHolds(v)'
  BY PutsKeep
<1>2. PutHolds(w)'
  BY <1>1 DEF PutHolds
<1>3. ListHolds' /\ objects' \in [BlobKeys -> BlobObjects] /\ WholeObjects'
  BY <1>1, ObjectsKeep DEF BlobIInv, BlobTypes
<1>4. BodyHolds'
  BY DEF BlobIInv, BodyHolds
<1>5. BlobTypes'
  BY <1>1, <1>3 DEF BlobIInv, BlobTypes
<1> QED
  BY <1>1, <1>2, <1>3, <1>4, <1>5 DEF BlobIInv

LEMMA PutWholeKeeps == ASSUME BlobIInv, NEW w \in Puts, PutWhole(w) PROVE BlobIInv'
<1>1. puts \in [Puts -> BlobPuts] /\ uploads \in [Puts -> BlobUploads] /\ PutHolds(w)
  BY DEF BlobIInv, BlobTypes
<1>2. PICK pc \in {"done", "failed"} : puts' = [puts EXCEPT ![w].pc = pc]
  BY DEF PutWhole, PutStep
<1> DEFINE p == [puts[w] EXCEPT !.pc = pc]
           u == uploads[w]
<1>3. puts[w] \in BlobPuts /\ puts[w].pc = "idle" /\ u = NoUpload /\ u \in BlobUploads
  BY <1>1 DEF PutWhole, PutHolds
<1>4. p \in BlobPuts /\ p.size = puts[w].size /\ p.pc = pc
  BY <1>2, <1>3 DEF BlobPuts
<1>5. puts' = [puts EXCEPT ![w] = p] /\ uploads' = [uploads EXCEPT ![w] = u]
  BY <1>1, <1>2, <1>3 DEF PutWhole
<1>6. \/ UNCHANGED <<objects, stayed>>
      \/ \E k \in BlobKeys, v \in Puts : Store(k, [by |-> v, units |-> Units(v)])
  BY <1>3 DEF BlobPuts, PutWhole
<1>7. UNCHANGED <<adapter, listing, body, reads>> /\ u.state # "open"
  BY <1>3 DEF PutWhole, NoUpload
<1> HIDE DEF p, u
<1> QED
  BY <1>2, <1>3, <1>4, <1>5, <1>6, <1>7, PutStepKeeps

LEMMA InitiateKeeps == ASSUME BlobIInv, NEW w \in Puts, Initiate(w) PROVE BlobIInv'
<1>1. /\ puts \in [Puts -> BlobPuts] /\ uploads \in [Puts -> BlobUploads] /\ PutHolds(w)
      /\ puts[w] \in BlobPuts /\ puts[w].pc = "idle" /\ uploads[w] = NoUpload /\ puts[w].next = 1 /\ puts[w].etags = << >>
      /\ uploads[w] \in BlobUploads
  BY DEF BlobIInv, BlobTypes, Initiate, PutHolds
<1>2. UNCHANGED <<adapter, listing, body, reads>> /\ UNCHANGED <<objects, stayed>>
  BY DEF Initiate
<1> DEFINE open == [uploads[w] EXCEPT !.state = "open"]
<1>3. open \in BlobUploads /\ open.state = "open" /\ open.parts = << >>
  BY <1>1 DEF BlobUploads, NoUpload
<1>4. PartCount(w) \in Nat
  BY <1>1, PartsAreWhole DEF BlobPuts
<1>5. \/ uploads' = [uploads EXCEPT ![w].state = "open"] /\ puts' = [puts EXCEPT ![w].pc = "uploading"]
      \/ uploads' = [uploads EXCEPT ![w].state = "open"]
         /\ puts' = [puts EXCEPT ![w].pc = "failed", ![w].lost = TRUE]
      \/ puts' = [puts EXCEPT ![w].pc = "failed"] /\ UNCHANGED uploads
  BY DEF Initiate, PutStep
<1>6. CASE uploads' = [uploads EXCEPT ![w].state = "open"] /\ puts' = [puts EXCEPT ![w].pc = "uploading"]
  <2> DEFINE p == [puts[w] EXCEPT !.pc = "uploading"]
  <2>1. p \in BlobPuts /\ p.size = puts[w].size /\ p.pc = "uploading" /\ p.next = 1 /\ p.etags = << >>
    BY <1>1 DEF BlobPuts
  <2>2. puts' = [puts EXCEPT ![w] = p] /\ uploads' = [uploads EXCEPT ![w] = open]
    BY <1>1, <1>6
  <2>3. p.next <= PartCount(w) + 1 /\ Len(open.parts) = p.next - 1 /\ Len(p.etags) = p.next - 1
        /\ \A i \in 1 .. p.next - 1 : p.etags[i] = i /\ open.parts[i] = Part(w, i)
    BY <1>3, <1>4, <2>1
  <2> HIDE DEF p, open
  <2> QED
    BY <1>2, <1>3, <2>1, <2>2, <2>3, PutStepKeeps
<1>7. CASE uploads' = [uploads EXCEPT ![w].state = "open"]
           /\ puts' = [puts EXCEPT ![w].pc = "failed", ![w].lost = TRUE]
  <2> DEFINE p == [puts[w] EXCEPT !.pc = "failed", !.lost = TRUE]
  <2>1. p \in BlobPuts /\ p.size = puts[w].size /\ p.pc = "failed" /\ p.lost
    BY <1>1 DEF BlobPuts
  <2>2. puts' = [puts EXCEPT ![w] = p] /\ uploads' = [uploads EXCEPT ![w] = open]
    BY <1>1, <1>7
  <2> HIDE DEF p, open
  <2> QED
    BY <1>2, <1>3, <2>1, <2>2, PutStepKeeps
<1>8. CASE puts' = [puts EXCEPT ![w].pc = "failed"] /\ UNCHANGED uploads
  <2> DEFINE p == [puts[w] EXCEPT !.pc = "failed"]
             u == uploads[w]
  <2>0. u \in BlobUploads /\ u.state = "none"
    BY <1>1 DEF NoUpload
  <2>1. p \in BlobPuts /\ p.size = puts[w].size /\ p.pc = "failed"
    BY <1>1 DEF BlobPuts
  <2>2. puts' = [puts EXCEPT ![w] = p] /\ uploads' = [uploads EXCEPT ![w] = u]
    BY <1>1, <1>8
  <2> HIDE DEF p, u
  <2> QED
    BY <1>2, <2>0, <2>1, <2>2, PutStepKeeps
<1> QED
  BY <1>5, <1>6, <1>7, <1>8

LEMMA UploadPartKeeps == ASSUME BlobIInv, NEW w \in Puts, UploadPart(w) PROVE BlobIInv'
<1> DEFINE i == puts[w].next
           q == puts[w]
           u == uploads[w]
           kept == [u EXCEPT !.parts = Append(u.parts, Part(w, i))]
<1>1. /\ puts \in [Puts -> BlobPuts] /\ uploads \in [Puts -> BlobUploads] /\ PutHolds(w)
      /\ q \in BlobPuts /\ q.pc = "uploading" /\ u \in BlobUploads /\ i <= PartCount(w) /\ i \in Nat \ {0}
      /\ q.size \in Nat
  BY DEF BlobIInv, BlobTypes, UploadPart, BlobPuts
<1>2. /\ u.state = "open" /\ Len(u.parts) = i - 1 /\ Len(q.etags) = i - 1
      /\ \A j \in 1 .. i - 1 : q.etags[j] = j /\ u.parts[j] = Part(w, j)
  BY <1>1 DEF PutHolds
<1>3. PartCount(w) \in Nat /\ Part(w, i) \in SUBSET Nat
  BY <1>1, PartsAreWhole DEF Part, Units
<1>4. u.parts \in Seq(SUBSET Nat) /\ q.etags \in Seq(Nat)
  BY <1>1 DEF BlobUploads, BlobPuts
<1>5. /\ Append(u.parts, Part(w, i)) \in Seq(SUBSET Nat) /\ Len(Append(u.parts, Part(w, i))) = i
      /\ \A j \in 1..i : Append(u.parts, Part(w, i))[j] = Part(w, j)
  BY <1>1, <1>2, <1>3, <1>4, AppendProperties
<1>6. /\ Append(q.etags, i) \in Seq(Nat) /\ Len(Append(q.etags, i)) = i
      /\ \A j \in 1..i : Append(q.etags, i)[j] = j
  BY <1>1, <1>2, <1>4, AppendProperties
<1>7. kept \in BlobUploads /\ kept.state = "open" /\ kept.parts = Append(u.parts, Part(w, i))
  BY <1>1, <1>2, <1>5 DEF BlobUploads
<1>8. UNCHANGED <<adapter, listing, body, reads>> /\ UNCHANGED <<objects, stayed>>
  BY DEF UploadPart
<1>9. \/ /\ uploads' = [uploads EXCEPT ![w] = kept]
         /\ puts' = [puts EXCEPT ![w].next = i + 1, ![w].etags = Append(@, i)]
      \/ puts' = [puts EXCEPT ![w].pc = "aborting"] /\ (uploads' = [uploads EXCEPT ![w] = kept] \/ uploads' = [uploads EXCEPT ![w] = u])
  BY <1>1 DEF UploadPart, PutStep, Abandoned
<1>10. CASE /\ uploads' = [uploads EXCEPT ![w] = kept]
            /\ puts' = [puts EXCEPT ![w].next = i + 1, ![w].etags = Append(@, i)]
  <2> DEFINE tags == Append(q.etags, i)
             n == i + 1
             p == [q EXCEPT !.next = n, !.etags = tags]
  <2>0. tags \in Seq(Nat) /\ n \in Nat \ {0} /\ Len(tags) = n - 1 /\ \A j \in 1 .. n - 1 : tags[j] = j
    BY <1>1, <1>6
  <2>2. puts' = [puts EXCEPT ![w] = p]
    BY <1>1, <1>10
  <2>4. n <= PartCount(w) + 1 /\ Len(kept.parts) = n - 1 /\ \A j \in 1 .. n - 1 : kept.parts[j] = Part(w, j)
    <3>1. kept.parts = Append(u.parts, Part(w, i)) /\ n - 1 = i
      BY <1>1, <1>7
    <3> HIDE DEF kept, n
    <3>2. Len(kept.parts) = n - 1 /\ \A j \in 1 .. n - 1 : kept.parts[j] = Part(w, j)
      BY <1>5, <3>1
    <3>3. n <= PartCount(w) + 1
      BY <1>1, <1>3 DEF n
    <3> QED
      BY <3>2, <3>3
  <2> HIDE DEF tags, n
  <2>1. p \in BlobPuts /\ p.size = puts[w].size /\ p.pc = "uploading" /\ p.next = n /\ p.etags = tags
    BY <1>1, <2>0 DEF BlobPuts
  <2>3. p.next <= PartCount(w) + 1 /\ Len(kept.parts) = p.next - 1 /\ Len(p.etags) = p.next - 1
        /\ \A j \in 1 .. p.next - 1 : p.etags[j] = j /\ kept.parts[j] = Part(w, j)
    BY <2>0, <2>1, <2>4
  <2> HIDE DEF p, kept, q, u
  <2> QED
    BY <1>7, <1>8, <1>10, <2>1, <2>2, <2>3, PutStepKeeps
<1>11. CASE puts' = [puts EXCEPT ![w].pc = "aborting"] /\ (uploads' = [uploads EXCEPT ![w] = kept] \/ uploads' = [uploads EXCEPT ![w] = u])
  <2> DEFINE p == [q EXCEPT !.pc = "aborting"]
  <2>1. p \in BlobPuts /\ p.size = puts[w].size /\ p.pc = "aborting"
    BY <1>1 DEF BlobPuts
  <2>2. puts' = [puts EXCEPT ![w] = p]
    BY <1>1, <1>11
  <2>3. PICK x \in BlobUploads : uploads' = [uploads EXCEPT ![w] = x]
    BY <1>1, <1>7, <1>11
  <2> HIDE DEF p, kept, q, u
  <2> QED
    BY <1>8, <2>1, <2>2, <2>3, PutStepKeeps
<1> QED
  BY <1>9, <1>10, <1>11

LEMMA CompleteKeeps == ASSUME BlobIInv, NEW w \in Puts, Complete(w) PROVE BlobIInv'
<1> DEFINE q == puts[w]
           u == uploads[w]
           done == [u EXCEPT !.state = "completed"]
           all == UNION {u.parts[i] : i \in Range(q.etags)}
<1>1. /\ puts \in [Puts -> BlobPuts] /\ uploads \in [Puts -> BlobUploads] /\ PutHolds(w)
      /\ q \in BlobPuts /\ q.pc = "uploading" /\ u \in BlobUploads /\ q.next > PartCount(w) /\ q.next \in Nat \ {0}
      /\ q.size \in Nat /\ q.etags \in Seq(Nat) /\ q.key \in BlobKeys
  BY DEF BlobIInv, BlobTypes, Complete, BlobPuts
<1>2. PartCount(w) \in Nat /\ UNION {Part(w, i) : i \in 1..PartCount(w)} = Units(w)
  BY <1>1, PartsAreWhole
<1>3. /\ u.state = "open" /\ q.next - 1 = PartCount(w) /\ Len(q.etags) = PartCount(w)
      /\ \A j \in 1..PartCount(w) : q.etags[j] = j /\ u.parts[j] = Part(w, j)
  BY <1>1, <1>2 DEF PutHolds
<1>4. Range(q.etags) = 1..PartCount(w)
  BY <1>1, <1>3 DEF Range
<1>5. all = Units(w)
  BY <1>3, <1>2, <1>4
<1>6. UNCHANGED <<adapter, listing, body, reads>>
  BY DEF Complete
<1>7. \/ UNCHANGED <<objects, stayed>>
      \/ \E k \in BlobKeys, v \in Puts : Store(k, [by |-> v, units |-> Units(v)])
  BY <1>1, <1>5 DEF Complete
<1>8. done \in BlobUploads /\ done.state = "completed"
  BY <1>1 DEF BlobUploads
<1>9. /\ \/ uploads' = [uploads EXCEPT ![w] = done]
         \/ uploads' = [uploads EXCEPT ![w] = u]
      /\ \/ puts' = [puts EXCEPT ![w].pc = "aborting"]
         \/ uploads' = [uploads EXCEPT ![w] = done] /\ puts' = [puts EXCEPT ![w].pc = "done"]
         \/ puts' = [puts EXCEPT ![w].pc = "done", ![w].lost = TRUE]
  BY <1>1 DEF Complete, PutStep, Abandoned
<1>10. PICK x \in {done, u}, y \in {"aborting", "done"}, lost \in {q.lost, TRUE} :
         /\ uploads' = [uploads EXCEPT ![w] = x] /\ puts' = [puts EXCEPT ![w] = [q EXCEPT !.pc = y, !.lost = lost]]
         /\ y = "done" => x = done \/ lost
  <2>1. \A y \in {"aborting", "done"} : [puts EXCEPT ![w].pc = y] = [puts EXCEPT ![w] = [q EXCEPT !.pc = y, !.lost = q.lost]]
    BY <1>1 DEF BlobPuts
  <2>2. [puts EXCEPT ![w].pc = "done", ![w].lost = TRUE] = [puts EXCEPT ![w] = [q EXCEPT !.pc = "done", !.lost = TRUE]]
    BY <1>1
  <2> HIDE DEF done, u, q
  <2> QED
    BY <1>9, <2>1, <2>2
<1> DEFINE p == [q EXCEPT !.pc = y, !.lost = lost]
<1>11. p \in BlobPuts /\ p.size = puts[w].size /\ p.pc = y /\ p.lost = lost
  BY <1>1, <1>10 DEF BlobPuts
<1>12. x \in BlobUploads /\ (x = done => x.state = "completed")
  BY <1>1, <1>8, <1>10
<1>13. uploads' = [uploads EXCEPT ![w] = x] /\ puts' = [puts EXCEPT ![w] = p] /\ (y = "done" => x = done \/ lost)
  BY <1>10
<1> HIDE DEF p, done, q, u
<1>14. /\ p.pc # "idle" /\ p.pc # "uploading"
       /\ p.pc = "done" /\ x.state = "open" => lost
  BY <1>10, <1>11, <1>12
<1>15. p.pc \in {"done", "failed"} /\ x.state = "open" => p.lost
  BY <1>10, <1>11, <1>14
<1> QED
  BY <1>6, <1>7, <1>11, <1>12, <1>13, <1>14, <1>15, PutStepKeeps

LEMMA AbortKeeps == ASSUME BlobIInv, NEW w \in Puts, Abort(w) PROVE BlobIInv'
<1> DEFINE q == puts[w]
           u == uploads[w]
           gone == IF u.state = "open" THEN "aborted" ELSE u.state
           after == [u EXCEPT !.state = gone]
<1>1. /\ puts \in [Puts -> BlobPuts] /\ uploads \in [Puts -> BlobUploads]
      /\ q \in BlobPuts /\ u \in BlobUploads
  BY DEF BlobIInv, BlobTypes
<1>2. UNCHANGED <<adapter, listing, body, reads>> /\ UNCHANGED <<objects, stayed>>
  BY DEF Abort
<1>3. after \in BlobUploads /\ after.state # "open"
  BY <1>1 DEF BlobUploads
<1>4. \/ uploads' = [uploads EXCEPT ![w] = after] /\ puts' = [puts EXCEPT ![w] = [q EXCEPT !.pc = "failed"]]
      \/ uploads' = [uploads EXCEPT ![w] = u] /\ puts' = [puts EXCEPT ![w] = [q EXCEPT !.pc = "failed", !.lost = TRUE]]
  BY <1>1 DEF Abort, PutStep
<1>5. CASE uploads' = [uploads EXCEPT ![w] = after] /\ puts' = [puts EXCEPT ![w] = [q EXCEPT !.pc = "failed"]]
  <2> DEFINE p == [q EXCEPT !.pc = "failed"]
  <2>1. p \in BlobPuts /\ p.size = puts[w].size /\ p.pc = "failed" /\ puts' = [puts EXCEPT ![w] = p]
    BY <1>1, <1>5 DEF BlobPuts
  <2> HIDE DEF p, after
  <2> QED
    BY <1>2, <1>3, <1>5, <2>1, PutStepKeeps
<1>6. CASE uploads' = [uploads EXCEPT ![w] = u] /\ puts' = [puts EXCEPT ![w] = [q EXCEPT !.pc = "failed", !.lost = TRUE]]
  <2> DEFINE p == [q EXCEPT !.pc = "failed", !.lost = TRUE]
  <2>1. p \in BlobPuts /\ p.size = puts[w].size /\ p.pc = "failed" /\ p.lost /\ puts' = [puts EXCEPT ![w] = p]
    BY <1>1, <1>6 DEF BlobPuts
  <2> HIDE DEF p, after, u
  <2> QED
    BY <1>1, <1>2, <1>6, <2>1, PutStepKeeps
<1> QED
  BY <1>4, <1>5, <1>6

\* A delete takes keys away, from the objects and from those that stayed.
LEMMA DeleteKeysKeeps == ASSUME BlobIInv, NEW K \in SUBSET BlobKeys, DeleteKeys(K) PROVE BlobIInv'
<1>1. /\ UNCHANGED <<adapter, uploads, puts, listing, body, reads>>
      /\ objects \in [BlobKeys -> BlobObjects] /\ ListHolds /\ WholeObjects
  BY DEF BlobIInv, BlobTypes, DeleteKeys
<1>2. /\ objects' = [k \in BlobKeys |-> IF k \in K THEN Missing ELSE objects[k]] /\ stayed' = stayed \ K
      /\ Missing \in BlobObjects /\ Missing.by \notin Puts
  BY BlobAssumption DEF DeleteKeys, Missing, BlobObjects
<1>3. objects' \in [BlobKeys -> BlobObjects] /\ \A k \in BlobKeys \ K : objects'[k] = objects[k]
  BY <1>1, <1>2
<1>4. stayed' \subseteq Present' \ Nested
  BY <1>1, <1>2, <1>3 DEF ListHolds, Present
<1>5. ListHolds'
  BY <1>1, <1>2, <1>4 DEF ListHolds
<1>6. WholeObjects'
  BY <1>1, <1>2, <1>3 DEF WholeObjects, Units
<1>7. \A w \in Puts : PutHolds(w)'
  BY <1>1 DEF BlobIInv, PutHolds, PartCount, Part, Units
<1>8. BodyHolds'
  BY <1>1 DEF BlobIInv, BodyHolds
<1> QED
  BY <1>1, <1>3, <1>5, <1>6, <1>7, <1>8 DEF BlobIInv, BlobTypes

\* The readers of a body.
LEMMA ReaderKeeps ==
  ASSUME BlobIInv, NEW r \in Readers, FinishRead(r) \/ \E how \in {"stream", "bytes"} : StartRead(r, how)
  PROVE  BlobIInv'
<1>1. UNCHANGED <<adapter, objects, uploads, puts, changes, listing, stayed>>
  BY DEF FinishRead, StartRead
<1>2. /\ body \in {"fresh", "locked", "cached"} /\ reads \in [Readers -> {"idle", "reading", "served", "overlapped"}]
      /\ \A q, p \in Readers : reads[q] = "reading" /\ reads[p] = "reading" => q = p
      /\ (\E q \in Readers : reads[q] = "reading") <=> body = "locked"
  BY DEF BlobIInv, BodyHolds
<1>3. ASSUME FinishRead(r) PROVE BodyHolds'
  BY <1>3, <1>2 DEF FinishRead, BodyHolds
<1>4. ASSUME \E how \in {"stream", "bytes"} : StartRead(r, how) PROVE BodyHolds'
  <2>1. \/ body = "cached" /\ reads' = [reads EXCEPT ![r] = "served"] /\ body' = body
        \/ body = "locked" /\ body' = body /\ reads' = [reads EXCEPT ![r] = "overlapped"]
        \/ body = "fresh" /\ reads' = [reads EXCEPT ![r] = "served"] /\ body' = "fresh"
        \/ body = "fresh" /\ reads' = [reads EXCEPT ![r] = "reading"] /\ body' = "locked"
    BY <1>4, <1>2 DEF StartRead, BranchKept
  <2>2. reads[r] = "idle"
    BY <1>4 DEF StartRead
  <2>3. /\ reads' \in [Readers -> {"idle", "reading", "served", "overlapped"}] /\ body' \in {"fresh", "locked", "cached"}
        /\ \A q \in Readers \ {r} : reads'[q] = reads[q]
    BY <1>2, <2>1
  <2>4. CASE body' = body /\ reads'[r] # "reading"
    BY <2>2, <2>3, <2>4, <1>2 DEF BodyHolds
  <2>5. CASE body = "fresh" /\ body' = "locked" /\ reads'[r] = "reading"
    BY <1>2, <2>3, <2>5 DEF BodyHolds
  <2> QED
    BY <1>2, <2>1, <2>4, <2>5
<1>5. ListHolds'
  BY <1>1 DEF BlobIInv, ListHolds, Present
<1>6. \A w \in Puts : PutHolds(w)'
  BY <1>1 DEF BlobIInv, PutHolds, PartCount, Part, Units
<1>7. WholeObjects'
  BY <1>1 DEF BlobIInv, WholeObjects, Units
<1> QED
  BY <1>1, <1>3, <1>4, <1>5, <1>6, <1>7 DEF BlobIInv, BlobTypes

\* A finite set of keys as a sequence has each of them once.
LEMMA SetToSeqIs ==
  ASSUME NEW S, IsFiniteSet(S)
  PROVE  LET s == SetToSeq(S) IN
           /\ s \in Seq(S) /\ Len(s) = Cardinality(S) /\ Cardinality(S) \in Nat
           /\ \A i, j \in 1..Len(s) : s[i] = s[j] => i = j
           /\ \A k \in S : \E i \in 1..Len(s) : s[i] = k
<1> DEFINE n == Cardinality(S)
           s == SetToSeq(S)
<1>1. n \in Nat /\ ExistsBijection(1..n, S)
  BY FS_CardinalityType
<1>2. PICK b \in [1..n -> S] : (\A i, j \in 1..n : b[i] = b[j] => i = j) /\ \A k \in S : \E i \in 1..n : b[i] = k
  BY <1>1 DEF ExistsBijection, Bijection, Injection, Surjection, IsInjective
<1>3. \E f \in [1..n -> S] : IsInjective(f)
  BY <1>2 DEF IsInjective
<1>4. s \in [1..n -> S] /\ IsInjective(s)
  BY <1>3 DEF SetToSeq
<1> HIDE DEF s, n
<1>5. s \in Seq(S) /\ Len(s) = n
  BY <1>1, <1>4, LenProperties
<1>6. \A i, j \in 1..n : s[i] = s[j] => i = j
  BY <1>4 DEF IsInjective
<1>7. \A k \in S : \E i \in 1..n : s[i] = k
  <2>1. s \in Injection(1..n, S)
    BY <1>4, <1>6 DEF Injection, IsInjective
  <2>2. IsFiniteSet(1..n) /\ Cardinality(1..n) = n
    BY <1>1, FS_Interval
  <2>3. s \in Surjection(1..n, S)
    BY <2>1, <2>2, FS_Injection DEF n
  <2> QED
    BY <2>3 DEF Surjection
<1> QED
  BY <1>1, <1>5, <1>6, <1>7 DEF s, n

\* A page is not empty while there is more, and has what is up to its last key.
LastOf(page) == CHOOSE k \in page : \A j \in page : j <= k
PageOf(items) == {k \in items : Cardinality({j \in items : j < k}) < PageSize}
LEMMA PageIs ==
  ASSUME NEW items \in SUBSET BlobKeys, NEW page, page = PageOf(items)
  PROVE  /\ IsFiniteSet(page) /\ page \subseteq items
         /\ items # page =>
              /\ LastOf(page) \in page /\ \A j \in page : j <= LastOf(page)
              /\ \A k \in items : k <= LastOf(page) => k \in page
<1>1. KeyCount \in Nat /\ PageSize \in Nat \ {0} /\ BlobKeys = 1..KeyCount
  BY BlobAssumption DEF BlobKeys
<1>0. page = {k \in items : Cardinality({j \in items : j < k}) < PageSize}
  BY DEF PageOf
<1>2. IsFiniteSet(items) /\ IsFiniteSet(page) /\ page \subseteq items
  <2>1. IsFiniteSet(BlobKeys)
    BY <1>1, FS_Interval
  <2>2. IsFiniteSet(items)
    BY <2>1, FS_Subset
  <2>3. page \subseteq items
    BY <1>0
  <2> QED
    BY <2>2, <2>3, FS_Subset
<1>3. ASSUME items # page
      PROVE  /\ LastOf(page) \in page /\ \A j \in page : j <= LastOf(page)
             /\ \A k \in items : k <= LastOf(page) => k \in page
  <2>1. items # {} /\ items \in SUBSET Nat /\ \A k \in items : k \in 1..KeyCount
    BY <1>1, <1>2, <1>3
  <2>2. PICK first \in items : \A y \in items : first <= y
    BY <2>1, LeastOf
  <2>3. {j \in items : j < first} = {}
    <3>1. \A j \in items : ~(j < first)
      <4> TAKE j \in items
      <4>1. j \in Nat /\ first \in Nat /\ first <= j
        BY <2>1, <2>2
      <4> QED
        BY <4>1
    <3> QED
      BY <3>1
  <2>4. first \in page
    BY <1>0, <1>1, <2>2, <2>3, FS_EmptySet
  <2>5. page \in SUBSET (0..KeyCount) /\ page # {}
    <3>1. \A k \in page : k \in 0..KeyCount
      BY <1>1, <1>2, <2>1
    <3> QED
      BY <2>4, <3>1
  <2>6. \E x \in page : \A y \in page : y <= x
    BY <1>1, <2>5, GreatestOf
  <2> DEFINE last == LastOf(page)
  <2>7. last \in page /\ \A j \in page : j <= last
    BY <2>6 DEF LastOf
  <2> HIDE DEF last
  <2>8. ASSUME NEW k \in items, k <= last PROVE k \in page
    <3>1. last \in items /\ Cardinality({j \in items : j < last}) < PageSize
      BY <1>0, <2>7
    <3>2. {j \in items : j < k} \subseteq {j \in items : j < last} /\ {j \in items : j < last} \subseteq items
      <4>1. ASSUME NEW j \in items, j < k PROVE j < last
        BY <2>1, <3>1, <2>8, <4>1
      <4> QED
        BY <4>1
    <3> DEFINE A == {j \in items : j < k}
               B == {j \in items : j < last}
    <3> HIDE DEF A, B
    <3>3. IsFiniteSet(B)
      BY <1>2, <3>2, FS_Subset DEF B
    <3>4. Cardinality(A) <= Cardinality(B) /\ IsFiniteSet(A)
      BY <3>2, <3>3, FS_Subset DEF A, B
    <3>5. Cardinality(A) \in Nat /\ Cardinality(B) \in Nat
      BY <3>3, <3>4, FS_CardinalityType
    <3>6. Cardinality(A) < PageSize
      BY <1>1, <3>1, <3>4, <3>5 DEF B
    <3> QED
      BY <1>0, <2>8, <3>6 DEF A
  <2> QED
    BY <2>7, <2>8 DEF last
<1> QED
  BY <1>2, <1>3

LEMMA ListPageKeeps == ASSUME BlobIInv, ListPage PROVE BlobIInv'
<1> DEFINE items == {k \in Present \ Nested : PastTheCursor(k, listing.cursor)}
           page == {k \in items : Cardinality({j \in items : j < k}) < PageSize}
           more == items # page
           last == CHOOSE k \in page : \A j \in page : j <= k
           cursor == IF more THEN last ELSE listing.cursor
           s == SetToSeq(page)
           old == listing.listed
           new == old \o s
<1>1. /\ UNCHANGED <<adapter, objects, uploads, puts, body, reads>> /\ listing.more
      /\ listing' = [cursor |-> cursor, more |-> more, listed |-> new]
      /\ stayed' = IF listing.cursor = 0 THEN Present \ Nested ELSE stayed
  BY DEF ListPage
<1>2. /\ listing \in [cursor : 0..KeyCount, more : BOOLEAN, listed : Seq(BlobKeys)] /\ old \in Seq(BlobKeys)
      /\ \A i, j \in 1..Len(old) : old[i] = old[j] => i = j
      /\ \A i \in 1..Len(old) : old[i] <= listing.cursor
      /\ stayed \subseteq Present \ Nested
      /\ \A k \in stayed : k > listing.cursor \/ \E i \in 1..Len(old) : old[i] = k
      /\ KeyCount \in Nat /\ BlobKeys = 1..KeyCount /\ listing.cursor \in 0..KeyCount
  BY <1>1, BlobAssumption DEF BlobIInv, ListHolds, BlobKeys
<1>3. items = {k \in Present \ Nested : k > listing.cursor} /\ items \in SUBSET BlobKeys
  BY DEF PastTheCursor, Present
<1>4. /\ IsFiniteSet(page) /\ page \subseteq items
      /\ more => last \in page /\ (\A j \in page : j <= last) /\ \A k \in items : k <= last => k \in page
  <2>1. page = PageOf(items) /\ last = LastOf(page) /\ more = (items # page)
    BY DEF PageOf, LastOf
  <2>2. items \in SUBSET BlobKeys
    BY <1>3
  <2> HIDE DEF items, page, last, more
  <2> QED
    BY <2>1, <2>2, PageIs
<1> HIDE DEF items, page, last
<1>5. /\ s \in Seq(page) /\ Len(s) \in Nat
      /\ \A i, j \in 1..Len(s) : s[i] = s[j] => i = j
      /\ \A k \in page : \E i \in 1..Len(s) : s[i] = k
  BY <1>4, SetToSeqIs
<1>6. s \in Seq(BlobKeys) /\ \A i \in 1..Len(s) : s[i] \in page
  BY <1>3, <1>4, <1>5, ElementOfSeq
<1> HIDE DEF s
<1>7. /\ new \in Seq(BlobKeys) /\ Len(new) = Len(old) + Len(s) /\ Len(old) \in Nat
      /\ \A i \in 1 .. Len(old) + Len(s) : new[i] = IF i <= Len(old) THEN old[i] ELSE s[i - Len(old)]
  BY <1>2, <1>6, ConcatProperties, LenProperties
<1>8. cursor \in 0..KeyCount /\ cursor >= listing.cursor /\ (more => \A k \in items : k <= cursor => k \in page)
      /\ (more => \A k \in page : k <= cursor)
  <2>1. \A k \in items : k \in 1..KeyCount /\ k > listing.cursor
    BY <1>2, <1>3
  <2>2. more => last \in 1..KeyCount /\ last > listing.cursor
    BY <1>4, <2>1
  <2> QED
    BY <1>2, <1>4, <2>2
<1> HIDE DEF cursor, more, old
<1>9. \A i \in 1..Len(new) : \/ i \in 1..Len(old) /\ new[i] = old[i] /\ new[i] <= listing.cursor
                             \/ i - Len(old) \in 1..Len(s) /\ new[i] = s[i - Len(old)] /\ new[i] \in page /\ new[i] > listing.cursor
  BY <1>2, <1>3, <1>4, <1>5, <1>6, <1>7
<1>10. ASSUME NEW i \in 1..Len(new), NEW j \in 1..Len(new), new[i] = new[j] PROVE i = j
  <2>0. new[i] \in 1..KeyCount /\ new[j] \in 1..KeyCount
    BY <1>2, <1>7, ElementOfSeq
  <2>1. new[i] \in Nat /\ new[j] \in Nat /\ listing.cursor \in Nat
    <3>1. KeyCount \in Nat /\ listing.cursor \in 0..KeyCount
      BY <1>2
    <3> QED
      BY <2>0, <3>1
  <2>2. CASE i \in 1..Len(old) /\ new[i] = old[i] /\ new[i] <= listing.cursor
    <3>0. \/ j \in 1..Len(old) /\ new[j] = old[j]
          \/ new[j] > listing.cursor
      BY <1>9
    <3>1. j \in 1..Len(old) /\ new[j] = old[j]
      BY <1>10, <2>1, <2>2, <3>0
    <3> QED
      BY <1>2, <1>10, <2>2, <3>1
  <2>3. CASE i - Len(old) \in 1..Len(s) /\ new[i] = s[i - Len(old)] /\ new[i] \in page /\ new[i] > listing.cursor
    <3>0. \/ new[j] <= listing.cursor
          \/ j - Len(old) \in 1..Len(s) /\ new[j] = s[j - Len(old)]
      BY <1>9
    <3>1. j - Len(old) \in 1..Len(s) /\ new[j] = s[j - Len(old)]
      BY <1>10, <2>1, <2>3, <3>0
    <3>2. i - Len(old) = j - Len(old)
      BY <1>5, <1>10, <2>3, <3>1
    <3> QED
      BY <1>7, <3>2
  <2> QED
    BY <1>9, <2>2, <2>3
<1>11. \A i \in 1..Len(new) : more => new[i] <= cursor
  <2> TAKE i \in 1..Len(new)
  <2>0. new[i] \in 1..KeyCount
    BY <1>2, <1>7, ElementOfSeq
  <2>1. new[i] \in Nat /\ listing.cursor \in Nat /\ cursor \in Nat
    BY <1>2, <1>8, <2>0
  <2> QED
    BY <1>8, <1>9, <2>1
<1>12. ASSUME NEW k, (\E i \in 1..Len(old) : old[i] = k) \/ k \in page PROVE \E i \in 1..Len(new) : new[i] = k
  <2>1. CASE \E i \in 1..Len(old) : old[i] = k
    BY <2>1, <1>5, <1>7
  <2>2. CASE k \in page
    <3>1. PICK i \in 1..Len(s) : s[i] = k
      BY <1>5, <2>2
    <3>2. Len(old) + i \in 1..Len(new) /\ new[Len(old) + i] = k
      BY <1>5, <1>7, <3>1
    <3> QED
      BY <3>2
  <2> QED
    BY <1>12, <2>1, <2>2
<1>13. stayed' \subseteq Present \ Nested
  BY <1>1, <1>2
<1>14. ASSUME NEW k \in stayed' PROVE (k \in items) \/ \E i \in 1..Len(old) : old[i] = k
  BY <1>2, <1>13, <1>3, <1>1, <1>14 DEF Present
<1>15. \A k \in stayed' : more => k > cursor \/ \E i \in 1..Len(new) : new[i] = k
  <2> TAKE k \in stayed'
  <2>1. k \in Nat /\ cursor \in Nat
    BY <1>2, <1>8, <1>13 DEF Present
  <2> QED
    BY <1>8, <1>12, <1>14, <2>1
<1>16. ~more => \A k \in stayed' : \E i \in 1..Len(new) : new[i] = k
  BY <1>12, <1>14 DEF more
<1>17. Present' = Present /\ more \in BOOLEAN
  BY <1>1 DEF Present, more
<1>18. ListHolds'
  <2>1. listing'.cursor = cursor /\ listing'.more = more /\ listing'.listed = new
    BY <1>1
  <2>2. listing' \in [cursor : 0..KeyCount, more : BOOLEAN, listed : Seq(BlobKeys)]
    BY <1>1, <1>7, <1>8, <1>17
  <2> HIDE DEF new
  <2> QED
    BY <1>10, <1>11, <1>13, <1>15, <1>16, <1>17, <2>1, <2>2 DEF ListHolds
<1>19. \A w \in Puts : PutHolds(w)'
  BY <1>1 DEF BlobIInv, PutHolds, PartCount, Part, Units
<1>20. WholeObjects'
  BY <1>1 DEF BlobIInv, WholeObjects, Units
<1>21. BodyHolds'
  BY <1>1 DEF BlobIInv, BodyHolds
<1> QED
  BY <1>1, <1>18, <1>19, <1>20, <1>21 DEF BlobIInv, BlobTypes

\* The start.
LEMMA BlobStarts == BlobInit => BlobIInv
<1> SUFFICES ASSUME BlobInit PROVE BlobIInv
  OBVIOUS
<1>1. /\ KeyCount \in Nat \ {0} /\ BlobKeys = 1..KeyCount /\ Sizes \subseteq Nat /\ "before" \notin Puts
      /\ "nobody" \notin Puts
  BY BlobAssumption DEF BlobKeys
<1>2. objects \in [BlobKeys -> BlobObjects] /\ \A k \in BlobKeys : objects[k].by \notin Puts
  BY <1>1 DEF BlobInit, BlobObjects, Missing
<1>3. uploads \in [Puts -> BlobUploads] /\ \A w \in Puts : uploads[w] = NoUpload
  BY DEF BlobInit, BlobUploads, NoUpload
<1>4. \A k \in {1, KeyCount}, s \in Sizes, t \in Sizes :
        PutFree(k, s, t) \in {p \in BlobPuts : p.pc = "idle" /\ p.next = 1 /\ p.etags = << >>}
  BY <1>1 DEF PutFree, BlobPuts
<1>5. puts \in [Puts -> BlobPuts] /\ \A w \in Puts : puts[w].pc = "idle" /\ puts[w].next = 1 /\ puts[w].etags = << >>
  <2>1. puts \in [Puts -> {PutFree(k, s, t) : k \in {1, KeyCount}, s \in Sizes, t \in Sizes}]
    BY DEF BlobInit
  <2>2. \A p \in {PutFree(k, s, t) : k \in {1, KeyCount}, s \in Sizes, t \in Sizes} :
          p \in BlobPuts /\ p.pc = "idle" /\ p.next = 1 /\ p.etags = << >>
    BY <1>4
  <2> HIDE DEF BlobPuts
  <2> QED
    BY <2>1, <2>2
<1>6. \A w \in Puts : PutHolds(w)
  BY <1>3, <1>5 DEF PutHolds
<1>7. ListHolds
  BY <1>1 DEF BlobInit, ListHolds
<1>8. BodyHolds
  BY DEF BlobInit, BodyHolds
<1>9. WholeObjects
  BY <1>2 DEF WholeObjects
<1>10. adapter \in {"memory", "s3"}
  BY DEF BlobInit
<1> QED
  BY <1>2, <1>3, <1>5, <1>6, <1>7, <1>8, <1>9, <1>10 DEF BlobIInv, BlobTypes

\* Every step, and none.
LEMMA BlobKept == BlobIInv /\ [BlobNext]_blobVars => BlobIInv'
<1> SUFFICES ASSUME BlobIInv, [BlobNext]_blobVars PROVE BlobIInv'
  OBVIOUS
<1>1. CASE \E w \in Puts : PutWhole(w) \/ Initiate(w) \/ UploadPart(w) \/ Complete(w) \/ Abort(w)
  BY <1>1, PutWholeKeeps, InitiateKeeps, UploadPartKeeps, CompleteKeeps, AbortKeeps
<1>2. CASE \E K \in SUBSET BlobKeys : DeleteKeys(K)
  BY <1>2, DeleteKeysKeeps
<1>3. CASE ListPage
  BY <1>3, ListPageKeeps
<1>4. CASE \E r \in Readers : FinishRead(r) \/ \E how \in {"stream", "bytes"} : StartRead(r, how)
  BY <1>4, ReaderKeeps
<1>5. CASE UNCHANGED blobVars
  <2>1. UNCHANGED <<adapter, objects, uploads, puts, changes, listing, stayed, body, reads>>
    BY <1>5 DEF blobVars
  <2>2. Present' = Present
    BY <2>1 DEF Present
  <2> QED
    BY <2>1, <2>2 DEF BlobIInv, BlobTypes, WholeObjects, Units, PutHolds, PartCount, Part, ListHolds, BodyHolds
<1> QED
  BY <1>1, <1>2, <1>3, <1>4, <1>5 DEF BlobNext

\* What the invariant says of the four properties of the blob stores.
LEMMA BlobsAreRight == BlobIInv => BlobTypeOK /\ WholeObjects /\ UploadsAccounted /\ ListedOnce /\ ReadsServed
<1> SUFFICES ASSUME BlobIInv PROVE BlobTypeOK /\ WholeObjects /\ UploadsAccounted /\ ListedOnce /\ ReadsServed
  OBVIOUS
<1>1. BlobTypes /\ WholeObjects /\ (\A w \in Puts : PutHolds(w)) /\ ListHolds /\ BodyHolds
  BY DEF BlobIInv
<1>2. UploadsAccounted
  BY <1>1 DEF UploadsAccounted, PutHolds
<1>3. ReadsServed
  BY <1>1 DEF ReadsServed, BodyHolds
<1>4. ListedOnce
  BY <1>1 DEF ListHolds, Range, ListedOnce
<1>5. BlobTypeOK
  BY <1>1 DEF BlobTypeOK, BlobTypes, BlobPuts, BlobUploads, ListHolds, BodyHolds, Present
<1> QED
  BY <1>1, <1>2, <1>3, <1>4, <1>5

(***************************************************************************)
(* HostDatabases.                                                          *)
(***************************************************************************)

\* Values: what kinds there are, and what forms they are stored and read in.
ValueKinds == {"bigint", "number", "boolean", "date", "nothing", "fraction", "notFinite", "text", "uuidText", "jsonText",
               "invalidDate", "bytes", "buffer", "object", "function"}
CellForms == {"none", "integer", "micros", "noInstant", "text", "uuidText", "jsonText", "boolean", "decimal", "bytes",
              "emptyJson", "json", "nothing", "double", "digits", "jsonNumber", "jsonBoolean", "instant"}
ReadForms == CellForms \union {"number", "bigint"}
SentValues == [value : JsValues, tag : PgTags, database : Databases]
StoredFor(s) == IF s.database = "postgres" THEN PgValue(s.value, s.tag) ELSE SqliteValue(s.value)
ScalarOf(s, exact) == IF sent.database = "postgres" THEN PgScalar(Lifted(s, exact), exact) ELSE SqliteScalar(Lifted(s, exact), exact)
Survives(v, tag, form, of, exact) ==
  form \notin {"json", "emptyJson"} =>
    CASE Integral(v)         -> /\ form \in {"number", "digits", "bigint"}
                                /\ of = v.of \/ (~Safe(v.of) /\ ~exact /\ of = Rounded(v.of))
                                /\ form \in {"digits", "bigint"} => ~Safe(v.of) \/ tag = "numeric"
      [] v.kind = "boolean"  -> form \in {"boolean", "number"} /\ of = v.of
      [] v.kind = "date"     -> form = "instant" /\ of = v.of
      [] v.kind = "bytes"    -> form = "bytes"
      [] v.kind = "nothing"  -> form = "nothing"
      [] v.kind \in Textual  -> form = v.kind /\ of = 0
      [] OTHER               -> TRUE

LEMMA ValuesAre ==
  ASSUME NEW v \in JsValues
  PROVE  /\ v.kind \in ValueKinds /\ v.of \in Int
         /\ v.kind = "boolean" => v.of \in {0, 1}
         /\ v.kind = "date" => v.of \in {0, 1}
         /\ v.kind \notin {"bigint", "number", "boolean", "date"} => v.of = 0
<1>1. Whole \subseteq Int
  BY HostAssumption DEF Whole
<1>2. \/ v \in [kind : {"bigint"}, of : Whole]
      \/ v \in [kind : {"number"}, of : {n \in Whole : Safe(n) \/ n % 2 = 0}]
      \/ v \in [kind : {"boolean"}, of : {0, 1}]
      \/ v \in [kind : {"nothing", "fraction", "notFinite", "text", "uuidText", "jsonText", "invalidDate", "bytes", "buffer",
                         "object", "function"}, of : {0}]
      \/ v \in [kind : {"date"}, of : {0, 1}]
  BY DEF JsValues
<1>3. CASE v \in [kind : {"bigint"}, of : Whole]
  BY <1>1, <1>3 DEF ValueKinds
<1>4. CASE v \in [kind : {"number"}, of : {n \in Whole : Safe(n) \/ n % 2 = 0}]
  BY <1>4, <1>1 DEF ValueKinds
<1>5. CASE v \in [kind : {"boolean"}, of : {0, 1}]
  BY <1>5 DEF ValueKinds
<1>6. CASE v \in [kind : {"nothing", "fraction", "notFinite", "text", "uuidText", "jsonText", "invalidDate", "bytes", "buffer",
                          "object", "function"}, of : {0}]
  BY <1>6 DEF ValueKinds
<1>7. CASE v \in [kind : {"date"}, of : {0, 1}]
  BY <1>7 DEF ValueKinds
<1> QED
  BY <1>2, <1>3, <1>4, <1>5, <1>6, <1>7

LEMMA BoundsAre == Int4Max \in Nat /\ SafeMax \in Nat /\ Int8Max \in Nat /\ Int4Max < SafeMax /\ SafeMax < Int8Max
  BY HostAssumption

\* Whole numbers keep their value in the column, and its type can hold them.
LEMMA IntegersStored ==
  ASSUME NEW s \in SentValues, Integral(s.value), HostTakes(StoredFor(s))
  PROVE  LET c == StoredFor(s) IN
         /\ c = Cell(c.tag, c.form, c.of) /\ c.of = s.value.of /\ c.form \in {"integer", "double", "digits", "jsonNumber"}
         /\ c.tag \in (IF s.database = "postgres" THEN {"int4", "int8", "float8", "numeric", "jsonb"} ELSE {"integer", "real"})
         /\ c.tag \in {"int8", "integer"} => InInt8(s.value.of)
         /\ c.tag = "int4" => c.form = "integer"
         /\ c.tag = "numeric" => c.form = "digits" /\ s.tag = "numeric"
         /\ c.tag = "jsonb" => c.form = "jsonNumber"
         /\ c.tag = "real" => c.form = "double"
<1> DEFINE v == s.value
           c == StoredFor(s)
<1>1. v \in JsValues /\ s.tag \in PgTags /\ s.database \in Databases
  BY DEF SentValues
<1>2. v.of \in Int /\ (v.kind = "bigint" \/ v.kind = "number")
  BY <1>1, ValuesAre DEF Integral
<1>3. v.kind \notin Textual /\ v.kind \notin {"nothing", "boolean", "fraction", "date", "bytes", "function", "buffer"}
  BY <1>2 DEF Textual
<1>4. Safe(v.of) => InInt8(v.of)
  BY <1>2, BoundsAre DEF Safe, InInt8
<1>5. ASSUME NEW d, d = Int8Cell(v), d.tag # "refused"
      PROVE  d.tag = "int8" /\ d.form = "integer" /\ d.of = v.of /\ InInt8(v.of) /\ d = Cell(d.tag, d.form, d.of)
  BY <1>4, <1>5 DEF Int8Cell, Cell, Refused
<1>6. c.tag # "refused"
  BY DEF HostTakes
<1>7. CASE s.database = "postgres" /\ s.tag = "none"
  <2>1. c = Inferred(v)
    BY <1>3, <1>7 DEF StoredFor, PgValue
  <2>2. c = Int8Cell(v) \/ c = Cell("int4", "integer", v.of)
    BY <1>2, <2>1 DEF Inferred
  <2> HIDE DEF c
  <2>3. \/ c.tag = "int8" /\ c.form = "integer" /\ c.of = v.of /\ InInt8(v.of)
        \/ c.tag = "int4" /\ c.form = "integer" /\ c.of = v.of
    BY <1>5, <1>6, <2>2 DEF Cell
  <2>4. c = Cell(c.tag, c.form, c.of)
    BY <1>5, <1>6, <2>2 DEF Cell
  <2> QED
    BY <1>7, <2>3, <2>4 DEF c
<1>8. CASE s.database = "postgres" /\ s.tag # "none"
  <2>1. c = Coerced(v, s.tag)
    BY <1>3, <1>8 DEF StoredFor, PgValue
  <2>2. \/ c = Cell("int4", "integer", v.of)
        \/ c = Int8Cell(v)
        \/ c = Cell("float8", "double", v.of)
        \/ c = Cell("numeric", "digits", v.of) /\ s.tag = "numeric"
        \/ c = Cell("jsonb", "jsonNumber", v.of)
        \/ c = Refused
    BY <1>1, <1>8, <1>3, <2>1 DEF PgTags, Coerced
  <2> HIDE DEF c
  <2>3. \/ c.tag = "int4" /\ c.form = "integer" /\ c.of = v.of
        \/ c.tag = "int8" /\ c.form = "integer" /\ c.of = v.of /\ InInt8(v.of)
        \/ c.tag = "float8" /\ c.form = "double" /\ c.of = v.of
        \/ c.tag = "numeric" /\ c.form = "digits" /\ c.of = v.of /\ s.tag = "numeric"
        \/ c.tag = "jsonb" /\ c.form = "jsonNumber" /\ c.of = v.of
    BY <1>5, <1>6, <2>2 DEF Cell, Refused
  <2>4. c = Cell(c.tag, c.form, c.of)
    BY <1>5, <1>6, <2>2 DEF Cell, Refused
  <2> QED
    BY <1>8, <2>3, <2>4 DEF c
<1>9. CASE s.database # "postgres"
  <2>1. c = SqliteValue(v)
    BY <1>9 DEF StoredFor
  <2>2. \/ c = Cell("integer", "integer", v.of) /\ InInt8(v.of)
        \/ c = Cell("real", "double", v.of)
        \/ c = Refused
    BY <2>1, <1>4, <1>2 DEF SqliteValue, Textual
  <2> HIDE DEF c
  <2>3. \/ c.tag = "integer" /\ c.form = "integer" /\ c.of = v.of /\ InInt8(v.of)
        \/ c.tag = "real" /\ c.form = "double" /\ c.of = v.of
    BY <1>6, <2>2 DEF Cell, Refused
  <2>4. c = Cell(c.tag, c.form, c.of)
    BY <1>6, <2>2 DEF Cell, Refused
  <2> QED
    BY <1>9, <2>3, <2>4 DEF c
<1> QED
  BY <1>7, <1>8, <1>9

\* A number that is exact is read as it is, and one that is not is read rounded.
LEMMA IntegersRead ==
  ASSUME NEW s \in SentValues, Integral(s.value), HostTakes(StoredFor(s)), NEW exact \in BOOLEAN, sent = s
  PROVE  LET r == ScalarOf(StoredFor(s), exact) IN
         /\ r.form \in {"number", "digits", "bigint"}
         /\ r.of = s.value.of \/ (~Safe(s.value.of) /\ ~exact /\ r.of = Rounded(s.value.of))
         /\ r.form \in {"digits", "bigint"} => ~Safe(s.value.of) \/ s.tag = "numeric"
<1> DEFINE v == s.value
           c == StoredFor(s)
           l == Lifted(c, exact)
           n == v.of
           r == ScalarOf(c, exact)
           Right == /\ r.form \in {"number", "digits", "bigint"}
                    /\ r.of = n \/ (~Safe(n) /\ ~exact /\ r.of = Rounded(n))
                    /\ r.form \in {"digits", "bigint"} => ~Safe(n) \/ s.tag = "numeric"
<1>1. /\ c = Cell(c.tag, c.form, c.of) /\ c.of = n /\ c.form \in {"integer", "double", "digits", "jsonNumber"}
      /\ c.tag \in (IF s.database = "postgres" THEN {"int4", "int8", "float8", "numeric", "jsonb"} ELSE {"integer", "real"})
      /\ c.tag \in {"int8", "integer"} => InInt8(n)
      /\ c.tag = "int4" => c.form = "integer"
      /\ c.tag = "numeric" => c.form = "digits" /\ s.tag = "numeric"
      /\ c.tag = "jsonb" => c.form = "jsonNumber"
      /\ c.tag = "real" => c.form = "double"
  BY IntegersStored
<1>2. n \in Int
  BY ValuesAre DEF SentValues
<1>3. InInt8(n) => Wrapped(n) = n
  BY <1>2, BoundsAre DEF InInt8, Wrapped
<1>4. Safe(n) => Rounded(n) = n
  BY DEF Rounded
<1> HIDE DEF c
<1>5. c.tag \notin {"int8", "integer"} => l = c
  BY <1>1 DEF Lifted
<1>6. c.tag \in {"int8", "integer"} =>
        l.tag = c.tag /\ l.form = c.form /\ l.of = IF exact THEN n ELSE Rounded(n)
  BY <1>1, <1>3 DEF Lifted, Cell
<1> HIDE DEF l
<1>7. ASSUME s.database = "postgres" PROVE Right
  <2>1. ScalarOf(c, exact) = PgScalar(l, exact)
    BY <1>7 DEF ScalarOf, l
  <2>2. CASE c.tag = "int8"
    BY <1>6, <2>2, <1>4, <2>1 DEF PgScalar, JsonInt
  <2>3. CASE c.tag \in {"int4", "float8"}
    BY <1>5, <2>3, <1>1, <2>1 DEF PgScalar
  <2>4. CASE c.tag = "numeric"
    BY <1>5, <2>4, <1>1, <2>1 DEF PgScalar
  <2>5. CASE c.tag = "jsonb"
    <3>1. PgScalar(l, exact) = [form |-> "number", of |-> l.of]
      BY <1>5, <2>5, <1>1 DEF PgScalar
    <3> QED
      BY <1>1, <1>5, <2>1, <2>5, <3>1
  <2> QED
    BY <1>1, <1>7, <2>2, <2>3, <2>4, <2>5
<1>8. ASSUME s.database # "postgres" PROVE Right
  <2>1. ScalarOf(c, exact) = SqliteScalar(l, exact)
    BY <1>8 DEF ScalarOf, l
  <2>2. CASE c.tag = "integer"
    BY <1>6, <2>2, <1>4, <2>1 DEF SqliteScalar
  <2>3. CASE c.tag = "real"
    BY <1>5, <2>3, <1>1, <2>1 DEF SqliteScalar
  <2> QED
    BY <1>1, <1>8, <2>2, <2>3
<1> QED
  BY <1>7, <1>8 DEF c

\* Every value that is no number, as the column has it; then as it is read.
LEMMA OthersStored ==
  ASSUME NEW s \in SentValues, ~Integral(s.value)
  PROVE  LET c == StoredFor(s)  v == s.value IN
         /\ c = Cell(c.tag, c.form, c.of)
         /\ v.kind = "boolean" /\ HostTakes(c) => c.of = v.of /\ c.tag \in {"bool", "jsonb", "integer"}
                                                  /\ (c.tag = "jsonb" => c.form = "jsonBoolean")
         /\ v.kind = "date" /\ HostTakes(c) =>
              \/ c.tag = "timestamp-tz" /\ c.form = "micros" /\ c.of = 1000 * v.of /\ s.database = "postgres"
              \/ c.tag = "jsonb" /\ c.form = "json"
              \/ c.tag = "text" /\ c.form = "instant" /\ c.of = v.of /\ s.database # "postgres"
         /\ v.kind = "bytes" /\ HostTakes(c) =>
              \/ c.tag \in {"bytea", "blob"} /\ c.form = "bytes"
              \/ c.tag = "jsonb" /\ c.form = "json"
         /\ v.kind = "nothing" => c.tag = "null"
         /\ v.kind \in Textual /\ HostTakes(c) =>
              \/ c.tag \in {"text", "uuid"} /\ c.form = v.kind /\ c.of = 0
              \/ c.tag = "jsonb" /\ c.form = "jsonText"
         /\ c.form \in CellForms
         /\ c.tag \in (IF s.database = "postgres" THEN PgTags \union {"null", "refused"}
                       ELSE {"null", "integer", "real", "text", "blob", "refused"})
<1> DEFINE v == s.value
           c == StoredFor(s)
           Right ==
             /\ c = Cell(c.tag, c.form, c.of)
             /\ v.kind = "boolean" /\ HostTakes(c) => c.of = v.of /\ c.tag \in {"bool", "jsonb", "integer"}
                                                      /\ (c.tag = "jsonb" => c.form = "jsonBoolean")
             /\ v.kind = "date" /\ HostTakes(c) =>
                  \/ c.tag = "timestamp-tz" /\ c.form = "micros" /\ c.of = 1000 * v.of /\ s.database = "postgres"
                  \/ c.tag = "jsonb" /\ c.form = "json"
                  \/ c.tag = "text" /\ c.form = "instant" /\ c.of = v.of /\ s.database # "postgres"
             /\ v.kind = "bytes" /\ HostTakes(c) =>
                  \/ c.tag \in {"bytea", "blob"} /\ c.form = "bytes"
                  \/ c.tag = "jsonb" /\ c.form = "json"
             /\ v.kind = "nothing" => c.tag = "null"
             /\ v.kind \in Textual /\ HostTakes(c) =>
                  \/ c.tag \in {"text", "uuid"} /\ c.form = v.kind /\ c.of = 0
                  \/ c.tag = "jsonb" /\ c.form = "jsonText"
             /\ c.form \in CellForms
             /\ c.tag \in (IF s.database = "postgres" THEN PgTags \union {"null", "refused"}
                           ELSE {"null", "integer", "real", "text", "blob", "refused"})
<1>1. /\ v \in JsValues /\ s.tag \in PgTags /\ s.database \in Databases /\ v.kind \in ValueKinds
      /\ v.kind # "bigint" /\ v.kind # "number"
      /\ v.kind = "boolean" => v.of \in {0, 1}
      /\ v.kind = "date" => v.of \in {0, 1}
  BY ValuesAre DEF SentValues, Integral
<1> DEFINE K == v.kind
<1>2. K \in {"boolean", "date", "nothing", "fraction", "notFinite", "text", "uuidText", "jsonText", "invalidDate", "bytes",
             "buffer", "object", "function"}
  BY <1>1 DEF ValueKinds
<1>3. ASSUME s.database = "postgres" /\ K = "nothing" PROVE Right
  BY <1>3 DEF StoredFor, PgValue, Cell, CellForms, Textual
<1>4. ASSUME s.database = "postgres" /\ s.tag = "none" /\ K # "nothing" PROVE Right
  <2>1. c = Inferred(v)
    BY <1>4 DEF StoredFor, PgValue
  <2>2. \/ K = "uuidText" /\ c = Cell("uuid", "uuidText", 0)
        \/ K \in {"text", "jsonText"} /\ c = Cell("text", K, 0)
        \/ K = "boolean" /\ c = Cell("bool", "boolean", v.of)
        \/ K = "fraction" /\ c = Cell("numeric", "decimal", 0)
        \/ K = "notFinite" /\ c = Refused
        \/ K = "date" /\ c = Cell("timestamp-tz", "micros", 1000 * v.of)
        \/ K = "invalidDate" /\ c = Cell("timestamp-tz", "noInstant", 0)
        \/ K = "bytes" /\ c = Cell("bytea", "bytes", 0)
        \/ K = "buffer" /\ c = Cell("jsonb", "emptyJson", 0)
        \/ K = "object" /\ c = Cell("jsonb", "json", 0)
        \/ K = "function" /\ c = Cell("jsonb", "nothing", 0)
    BY <1>2, <1>4, <2>1 DEF Inferred, TimestampTz
  <2> QED
    <3> HIDE DEF c
    <3>1. /\ c = Cell(c.tag, c.form, c.of) /\ c.form \in CellForms /\ c.tag \in PgTags \union {"refused"}
      BY <2>2 DEF Cell, Refused, CellForms, PgTags
    <3>2. /\ K = "boolean" => c.of = v.of /\ c.tag = "bool"
          /\ K = "date" => c.tag = "timestamp-tz" /\ c.form = "micros" /\ c.of = 1000 * v.of
          /\ K = "bytes" => c.tag = "bytea" /\ c.form = "bytes"
          /\ K \in Textual => c.tag \in {"text", "uuid"} /\ c.form = K /\ c.of = 0
      BY <2>2 DEF Cell, Textual
    <3>3. K \in Textual => K # "boolean" /\ K # "date" /\ K # "bytes"
      BY DEF Textual
    <3> QED
      BY <1>4, <3>1, <3>2, <3>3
<1>5. ASSUME s.database = "postgres" /\ s.tag # "none" /\ K # "nothing" PROVE Right
  <2>1. c = Coerced(v, s.tag)
    BY <1>5 DEF StoredFor, PgValue
  <2>2. s.tag \in {"text", "uuid", "bool", "int4", "int8", "float8", "numeric", "timestamp-tz", "bytea", "jsonb"}
    BY <1>1, <1>5 DEF PgTags
  <2>3. \/ c = Refused
        \/ K \in Textual /\ s.tag \in {"text", "uuid"} /\ c = Cell(s.tag, K, 0)
        \/ K = "boolean" /\ c = Cell("bool", "boolean", v.of)
        \/ K = "fraction" /\ c = Cell("float8", "double", Int8Max + 3)
        \/ K = "fraction" /\ c = Cell("numeric", "decimal", 0)
        \/ K \in Textual /\ c = Cell("numeric", K, 0)
        \/ K = "date" /\ c = Cell("timestamp-tz", "micros", 1000 * v.of)
        \/ K = "bytes" /\ c = Cell("bytea", "bytes", 0)
        \/ K \in Textual /\ c = Cell("jsonb", K, 0)
        \/ K = "boolean" /\ c = Cell("jsonb", "jsonBoolean", v.of)
        \/ K = "function" /\ c = Cell("jsonb", "nothing", 0)
        \/ K = "buffer" /\ c = Cell("jsonb", "emptyJson", 0)
        \/ K \notin Textual \union {"boolean"} /\ c = Cell("jsonb", "json", 0)
    BY <2>1, <1>1, <2>2 DEF Coerced, Int8Cell, Integral, TimestampTz
  <2> QED
    <3> HIDE DEF c
    <3>1. /\ c = Cell(c.tag, c.form, c.of) /\ c.form \in CellForms /\ c.tag \in PgTags \union {"refused"}
      BY <1>1, <2>3 DEF Cell, Refused, CellForms, PgTags, Textual
    <3>2. c.tag # "refused" /\ K = "boolean" =>
            c.of = v.of /\ (c.tag = "bool" \/ (c.tag = "jsonb" /\ c.form = "jsonBoolean"))
      BY <2>3 DEF Cell, Textual, Refused
    <3>4. c.tag # "refused" /\ K = "date" =>
            \/ c.tag = "timestamp-tz" /\ c.form = "micros" /\ c.of = 1000 * v.of
            \/ c.tag = "jsonb" /\ c.form = "json"
      BY <2>3 DEF Cell, Textual, Refused
    <3>5. c.tag # "refused" /\ K = "bytes" =>
            \/ c.tag = "bytea" /\ c.form = "bytes"
            \/ c.tag = "jsonb" /\ c.form = "json"
      BY <2>3 DEF Cell, Textual, Refused
    <3>6. c.tag # "refused" /\ K \in Textual => c.tag \in {"text", "uuid", "numeric", "jsonb"} /\ c.form = K /\ c.of = 0
      BY <2>3 DEF Cell, Textual, Refused
    <3>3. K \in Textual => K \in {"text", "uuidText", "jsonText"}
      BY DEF Textual
    <3> QED
      BY <1>5, <3>1, <3>2, <3>3, <3>4, <3>5, <3>6 DEF HostTakes, Textual
<1>6. ASSUME s.database # "postgres" PROVE Right
  <2>1. c = SqliteValue(v)
    BY <1>6 DEF StoredFor
  <2>2. \/ K = "nothing" /\ c = Cell("null", "none", 0)
        \/ K = "boolean" /\ c = Cell("integer", "integer", v.of)
        \/ K \in {"fraction", "notFinite"} /\ c = Cell("real", "decimal", 0)
        \/ K \in Textual /\ c = Cell("text", K, 0)
        \/ K = "date" /\ c = Cell("text", "instant", v.of)
        \/ K \in {"bytes", "buffer"} /\ c = Cell("blob", "bytes", 0)
        \/ K \in {"invalidDate", "object", "function"} /\ c = Refused
    BY <1>2, <2>1 DEF SqliteValue, Textual
  <2> QED
    <3> HIDE DEF c
    <3>1. /\ c = Cell(c.tag, c.form, c.of) /\ c.form \in CellForms
          /\ c.tag \in {"null", "integer", "real", "text", "blob", "refused"}
      BY <2>2 DEF Cell, Refused, CellForms, Textual
    <3>2. /\ K = "boolean" => c.of = v.of /\ c.tag = "integer"
          /\ K = "date" => c.tag = "text" /\ c.form = "instant" /\ c.of = v.of
          /\ K = "bytes" => c.tag = "blob" /\ c.form = "bytes"
          /\ K = "nothing" => c.tag = "null"
          /\ K \in Textual => c.tag = "text" /\ c.form = K /\ c.of = 0
      BY <2>2 DEF Cell, Textual
    <3> QED
      BY <1>6, <3>1, <3>2
<1> QED
  BY <1>3, <1>4, <1>5, <1>6

\* What is read comes in one of the forms that JSON or a database's own types have.
LEMMA FormsRead ==
  ASSUME NEW c, c = Cell(c.tag, c.form, c.of), c.form \in CellForms, NEW exact
  PROVE  ScalarOf(c, exact).form \in ReadForms
<1> DEFINE l == Lifted(c, exact)
<1>1. l.form = c.form
  BY DEF Lifted, Cell
<1> HIDE DEF l
<1>2. PgScalar(l, exact).form \in ReadForms
  BY <1>1 DEF PgScalar, TimestampIso, Characters, JsonInt, ReadForms, CellForms
<1>3. SqliteScalar(l, exact).form \in ReadForms
  BY <1>1 DEF SqliteScalar, ReadForms, CellForms
<1> QED
  BY <1>2, <1>3 DEF ScalarOf, l

\* Every value is read as what it was.
LEMMA ValuesRead ==
  ASSUME NEW s \in SentValues, HostTakes(StoredFor(s)), NEW exact \in BOOLEAN, sent = s
  PROVE  LET r == ScalarOf(StoredFor(s), exact) IN
           /\ Survives(s.value, s.tag, r.form, r.of, exact) /\ r.form \in ReadForms
<1> DEFINE v == s.value
           c == StoredFor(s)
           r == ScalarOf(c, exact)
           l == Lifted(c, exact)
<1>1. CASE Integral(v)
  <2>1. /\ r.form \in {"number", "digits", "bigint"}
        /\ r.of = v.of \/ (~Safe(v.of) /\ ~exact /\ r.of = Rounded(v.of))
        /\ r.form \in {"digits", "bigint"} => ~Safe(v.of) \/ s.tag = "numeric"
    BY <1>1, IntegersRead
  <2>2. v.kind \in {"bigint", "number"}
    BY <1>1 DEF Integral
  <2> HIDE DEF r
  <2>3. v.kind # "boolean" /\ v.kind # "date" /\ v.kind # "bytes" /\ v.kind # "nothing" /\ v.kind \notin Textual
    BY <2>2 DEF Textual
  <2> HIDE DEF v
  <2>4. Survives(v, s.tag, r.form, r.of, exact)
    BY <1>1, <2>1, <2>3 DEF Survives
  <2> QED
    BY <2>1, <2>4 DEF r, v, ReadForms, CellForms
<1>2. CASE ~Integral(v)
  <2>1. /\ c = Cell(c.tag, c.form, c.of)
        /\ v.kind = "boolean" /\ HostTakes(c) => c.of = v.of /\ c.tag \in {"bool", "jsonb", "integer"}
                                                 /\ (c.tag = "jsonb" => c.form = "jsonBoolean")
        /\ v.kind = "date" /\ HostTakes(c) =>
             \/ c.tag = "timestamp-tz" /\ c.form = "micros" /\ c.of = 1000 * v.of /\ s.database = "postgres"
             \/ c.tag = "jsonb" /\ c.form = "json"
             \/ c.tag = "text" /\ c.form = "instant" /\ c.of = v.of /\ s.database # "postgres"
        /\ v.kind = "bytes" /\ HostTakes(c) =>
             \/ c.tag \in {"bytea", "blob"} /\ c.form = "bytes"
             \/ c.tag = "jsonb" /\ c.form = "json"
        /\ v.kind = "nothing" => c.tag = "null"
        /\ v.kind \in Textual /\ HostTakes(c) =>
             \/ c.tag \in {"text", "uuid"} /\ c.form = v.kind /\ c.of = 0
             \/ c.tag = "jsonb" /\ c.form = "jsonText"
        /\ c.form \in CellForms
        /\ c.tag \in (IF s.database = "postgres" THEN PgTags \union {"null", "refused"}
                      ELSE {"null", "integer", "real", "text", "blob", "refused"})
    BY <1>2, OthersStored
  <2>2. HostTakes(c)
    OBVIOUS
  <2>3. v.kind = "boolean" => v.of \in {0, 1}
    BY ValuesAre DEF SentValues
  <2>4. v.kind = "date" => v.of \in {0, 1}
    BY ValuesAre DEF SentValues
  <2> HIDE DEF c, v
  <2>5. r.form \in ReadForms
    BY <2>1, FormsRead
  <2>6. r = IF s.database = "postgres" THEN PgScalar(l, exact) ELSE SqliteScalar(l, exact)
    BY DEF ScalarOf
  <2>7. c.tag \notin {"text", "int8", "integer"} => l = c
    BY DEF Lifted
  <2>8. l.form = c.form /\ l.tag = c.tag
    BY <2>1 DEF Lifted, Cell
  <2>9. s.database # "postgres" /\ c.tag = "text" => l = c
    BY DEF Lifted
  <2>10. c.tag = "integer" /\ c.of \in {0, 1} => l.of = c.of
    BY BoundsAre, <2>1 DEF Wrapped, Rounded, Safe, Lifted, Cell
  <2> HIDE DEF l
  <2>11. c.tag = "jsonb" /\ s.database = "postgres" =>
           r = [form |-> IF l.form = "jsonText" THEN "json" ELSE IF l.form = "jsonNumber" THEN "number"
                         ELSE IF l.form = "jsonBoolean" THEN "boolean" ELSE l.form, of |-> l.of]
    BY <2>6, <2>8 DEF PgScalar
  <2>12. c.tag = "jsonb" => s.database = "postgres"
    BY <2>1
  <2>13. c.tag = "bool" => s.database = "postgres" /\ r = [form |-> "boolean", of |-> l.of]
    BY <2>1, <2>6, <2>8 DEF PgScalar
  <2>14. c.tag = "integer" => r = [form |-> IF ~exact \/ Safe(l.of) THEN "number" ELSE "bigint", of |-> l.of]
    BY <2>1, <2>6, <2>8 DEF PgTags, SqliteScalar
  <2>15. c.tag = "timestamp-tz" /\ s.database = "postgres" => r = TimestampIso(l)
    BY <2>6, <2>8 DEF PgScalar
  <2>16. c.tag = "text" /\ s.database # "postgres" => r = [form |-> l.form, of |-> l.of]
    BY <2>6, <2>8 DEF SqliteScalar
  <2>17. c.tag = "text" /\ s.database = "postgres" => r = Characters(l)
    BY <2>6, <2>8 DEF PgScalar
  <2>18. c.tag \in {"bytea", "blob", "uuid"} => r = [form |-> l.form, of |-> l.of]
    BY <2>6, <2>8 DEF PgScalar, SqliteScalar
  <2>19. c.tag = "null" => r = [form |-> "nothing", of |-> 0]
    BY <2>6, <2>8 DEF PgScalar, SqliteScalar
  <2> HIDE DEF r
  <2>20. v.kind = "boolean" /\ r.form \notin {"json", "emptyJson"} => r.form \in {"boolean", "number"} /\ r.of = v.of
    <3>0. SUFFICES ASSUME v.kind = "boolean" PROVE r.form \in {"boolean", "number"} /\ r.of = v.of
      OBVIOUS
    <3>1. v.of \in {0, 1} /\ c.of = v.of /\ c.tag \in {"bool", "jsonb", "integer"} /\ (c.tag = "jsonb" => c.form = "jsonBoolean")
      BY <2>1, <2>2, <2>3, <3>0
    <3>2. CASE c.tag = "bool"
      BY <2>7, <2>13, <3>1, <3>2
    <3>3. CASE c.tag = "jsonb"
      BY <2>7, <2>11, <2>12, <3>1, <3>3
    <3>4. CASE c.tag = "integer"
      BY BoundsAre, <2>10, <2>14, <3>1, <3>4 DEF Safe
    <3> QED
      BY <3>1, <3>2, <3>3, <3>4
  <2>21. v.kind = "date" /\ r.form \notin {"json", "emptyJson"} => r.form = "instant" /\ r.of = v.of
    <3>0. SUFFICES ASSUME v.kind = "date", r.form \notin {"json", "emptyJson"} PROVE r.form = "instant" /\ r.of = v.of
      OBVIOUS
    <3>1. CASE c.tag = "timestamp-tz" /\ c.of = 1000 * v.of /\ s.database = "postgres"
      BY <2>4, <2>7, <2>15, <3>0, <3>1 DEF TimestampIso
    <3>2. CASE c.tag = "jsonb" /\ c.form = "json"
      BY <2>8, <2>11, <2>12, <3>0, <3>2
    <3>3. CASE c.tag = "text" /\ c.form = "instant" /\ c.of = v.of /\ s.database # "postgres"
      BY <2>9, <2>16, <3>3
    <3> QED
      BY <2>1, <2>2, <3>0, <3>1, <3>2, <3>3
  <2>22. v.kind = "bytes" /\ r.form \notin {"json", "emptyJson"} => r.form = "bytes"
    BY <2>8, <2>11, <2>12, <2>18, <2>1, <2>2
  <2>23. v.kind = "nothing" => r.form = "nothing"
    BY <2>1, <2>19
  <2>24. v.kind \in Textual /\ r.form \notin {"json", "emptyJson"} => r.form = v.kind /\ r.of = 0
    <3>0. SUFFICES ASSUME v.kind \in Textual, r.form \notin {"json", "emptyJson"} PROVE r.form = v.kind /\ r.of = 0
      OBVIOUS
    <3>1. CASE c.tag = "text" /\ c.form = v.kind /\ c.of = 0 /\ s.database = "postgres"
      BY <2>8, <2>17, <3>1 DEF Characters
    <3>2. CASE c.tag = "text" /\ c.form = v.kind /\ c.of = 0 /\ s.database # "postgres"
      BY <2>9, <2>16, <3>2
    <3>3. CASE c.tag = "uuid" /\ c.form = v.kind /\ c.of = 0
      BY <2>7, <2>18, <3>3
    <3>4. CASE c.tag = "jsonb" /\ c.form = "jsonText"
      BY <2>8, <2>11, <2>12, <3>0, <3>4
    <3> QED
      BY <2>1, <2>2, <3>0, <3>1, <3>2, <3>3, <3>4
  <2>25. Survives(v, s.tag, r.form, r.of, exact)
    BY <1>2, <2>20, <2>21, <2>22, <2>23, <2>24 DEF Survives, v, Textual
  <2> QED
    BY <2>5, <2>25 DEF r, c, v
<1> QED
  BY <1>1, <1>2

\* A float of any of the two layouts.
LEMMA FloatsRead ==
  ASSUME NEW f \in Floats, Exists(f)
  PROVE  LET x == HashableF64Number(HashableF64(f))
             wide == Formats["wide"]
             own == Formats[f.layout]
         IN /\ x.negative = f.negative
            /\ x.class = (IF f.exponent < own.top THEN "finite" ELSE IF f.fraction = 0 THEN "Infinity" ELSE "NaN")
            /\ f.exponent < own.top =>
                 x.units = IF f.exponent = 0 THEN f.fraction * 2 ^ (1 + wide.bias - own.bias)
                           ELSE (f.fraction + own.hidden) * 2 ^ (f.exponent + wide.bias - own.bias)
<1> DEFINE h == HashableF64(f)
           x == HashableF64Number(h)
           e == f.exponent
           m == f.fraction
<1>1. /\ Formats["wide"] = [hidden |-> 4, top |-> 7, bias |-> 5] /\ Formats["narrow"] = [hidden |-> 2, top |-> 3, bias |-> 2]
      /\ Special("wide") = 2 /\ Special("narrow") = 1
  BY DEF Formats, Special
<1>2. f.layout \in {"wide", "narrow"} /\ f.negative \in BOOLEAN /\ e \in 0..7 /\ m \in 0..3
  BY DEF Floats
<1>3. /\ f.layout = "wide" => e <= 7 /\ m <= 3
      /\ f.layout = "narrow" => e <= 3 /\ m <= 1
  BY <1>1, <1>2 DEF Exists
<1>4. h = [mantissa |-> IF e = 0 THEN 2 * m ELSE m + Formats[f.layout].hidden,
           exponent |-> e - Formats[f.layout].bias, negative |-> f.negative]
  BY DEF HashableF64
<1>5. 2 ^ 0 = 1 /\ 2 ^ 1 = 2 /\ 2 ^ 3 = 8 /\ 2 ^ 4 = 16
  OBVIOUS
<1> HIDE DEF h, e, m
<1>6. SpecialIn("wide", h) <=> h.exponent = 2 /\ h.mantissa >= 4
  BY <1>1 DEF SpecialIn
<1>7. SpecialIn("narrow", h) <=> h.exponent = 1 /\ h.mantissa >= 2 /\ h.mantissa < 4
  BY <1>1 DEF SpecialIn
<1>8. /\ SpecialIn("wide", h) => x = [class |-> IF h.mantissa # 4 THEN "NaN" ELSE "Infinity", negative |-> h.negative, units |-> 0]
      /\ ~SpecialIn("wide", h) /\ SpecialIn("narrow", h) =>
           x = [class |-> IF h.mantissa # 2 THEN "NaN" ELSE "Infinity", negative |-> h.negative, units |-> 0]
      /\ ~SpecialIn("wide", h) /\ ~SpecialIn("narrow", h) =>
           x = [class |-> "finite", negative |-> h.negative, units |-> h.mantissa * 2 ^ (h.exponent + 5)]
  BY <1>1 DEF HashableF64Number
<1> HIDE DEF x
<1> DEFINE Right(wide, own) ==
             /\ x.negative = f.negative
             /\ x.class = (IF e < own.top THEN "finite" ELSE IF m = 0 THEN "Infinity" ELSE "NaN")
             /\ e < own.top =>
                  x.units = IF e = 0 THEN m * 2 ^ (1 + wide.bias - own.bias)
                            ELSE (m + own.hidden) * 2 ^ (e + wide.bias - own.bias)
<1>9. ASSUME f.layout = "wide" PROVE Right(Formats["wide"], Formats["wide"])
  <2>1. h.exponent = e - 5 /\ h.negative = f.negative /\ h.mantissa = IF e = 0 THEN 2 * m ELSE m + 4
    BY <1>1, <1>4, <1>9
  <2>2. CASE e = 7
    BY <1>1, <1>2, <1>6, <1>8, <2>1, <2>2 DEF e, m
  <2>3. CASE e < 7
    <3>1. ~SpecialIn("wide", h) /\ ~SpecialIn("narrow", h)
      BY <1>2, <1>6, <1>7, <2>1, <2>3 DEF e, m
    <3>2. x.class = "finite" /\ x.negative = f.negative /\ x.units = h.mantissa * 2 ^ (h.exponent + 5)
      BY <1>8, <2>1, <3>1
    <3>3. h.exponent + 5 = e + 5 - 5
      BY <1>2, <2>1 DEF e
    <3>4. x.units = IF e = 0 THEN m * 2 ^ (1 + 5 - 5) ELSE (m + 4) * 2 ^ (e + 5 - 5)
      <4>1. CASE e = 0
        BY <3>3, <4>1, <1>5, <2>1, <3>2, <1>2 DEF m
      <4>2. CASE e # 0
        BY <2>1, <3>2, <3>3, <4>2
      <4> QED
        BY <4>1, <4>2
    <3> QED
      BY <1>1, <2>3, <3>2, <3>4
  <2> QED
    BY <1>2, <2>2, <2>3 DEF e
<1>10. ASSUME f.layout = "narrow" PROVE Right(Formats["wide"], Formats["narrow"])
  <2>1. h.exponent = e - 2 /\ h.negative = f.negative /\ h.mantissa = IF e = 0 THEN 2 * m ELSE m + 2
    BY <1>1, <1>4, <1>10
  <2>2. CASE e = 3
    BY <1>1, <1>2, <1>3, <1>6, <1>7, <1>8, <1>10, <2>1, <2>2 DEF e, m
  <2>3. CASE e < 3
    <3>1. ~SpecialIn("wide", h) /\ ~SpecialIn("narrow", h)
      BY <1>2, <1>6, <1>7, <2>1, <2>3 DEF e, m
    <3>2. x.class = "finite" /\ x.negative = f.negative /\ x.units = h.mantissa * 2 ^ (h.exponent + 5)
      BY <1>8, <2>1, <3>1
    <3>3. h.exponent + 5 = e + 5 - 2
      BY <1>2, <2>1 DEF e
    <3>4. x.units = IF e = 0 THEN m * 2 ^ (1 + 5 - 2) ELSE (m + 2) * 2 ^ (e + 5 - 2)
      <4>1. CASE e = 0
        BY <3>3, <4>1, <1>5, <2>1, <3>2, <1>2 DEF m
      <4>2. CASE e # 0
        BY <2>1, <3>2, <3>3, <4>2
      <4> QED
        BY <4>1, <4>2
    <3> QED
      BY <1>1, <2>3, <3>2, <3>4
  <2> QED
    BY <1>2, <1>3, <1>10, <2>2, <2>3 DEF e
<1> QED
  BY <1>2, <1>9, <1>10 DEF x, h, e, m

-----------------------------------------------------------------------------
\* Migrations in files. Versions are compared as their places among all versions are.
LEMMA PlaceOrders ==
  ASSUME NEW a \in Version, NEW b \in Version
  PROVE  Place(a) \in Nat /\ (Before(a, b) <=> Place(a) < Place(b))
<1> DEFINE M == MaxPart + 1
<1>1. MaxPart \in Nat /\ M \in Nat /\ M >= 1
  BY HostAssumption
<1>2. \A v \in Version : /\ Len(v) \in {1, 2} /\ v[1] \in 1..MaxPart /\ (Len(v) = 2 => v[2] \in 1..MaxPart)
  BY DEF Version
<1> DEFINE rest(v) == IF Len(v) = 2 THEN v[2] ELSE 0
<1>3. /\ a[1] \in Nat /\ b[1] \in Nat /\ rest(a) \in 0..MaxPart /\ rest(b) \in 0..MaxPart
      /\ Place(a) = a[1] * M + rest(a) /\ Place(b) = b[1] * M + rest(b)
  BY <1>1, <1>2 DEF Place
<1>4. Before(a, b) <=> a[1] < b[1] \/ (a[1] = b[1] /\ rest(a) < rest(b))
  <2>1. Len(a) \in {1, 2} /\ Len(b) \in {1, 2} /\ a[1] \in Nat /\ b[1] \in Nat
        /\ (Len(a) = 2 => a[2] \in 1..MaxPart) /\ (Len(b) = 2 => b[2] \in 1..MaxPart)
    BY <1>1, <1>2
  <2>2. (\E i \in 1..2 : i <= Len(a) /\ i <= Len(b) /\ a[i] < b[i] /\ \A j \in 1..(i - 1) : a[j] = b[j])
        <=> a[1] < b[1] \/ (Len(a) = 2 /\ Len(b) = 2 /\ a[1] = b[1] /\ a[2] < b[2])
    <3>1. ASSUME NEW i \in 1..2, i <= Len(a), i <= Len(b), a[i] < b[i], \A j \in 1..(i - 1) : a[j] = b[j]
          PROVE  a[1] < b[1] \/ (Len(a) = 2 /\ Len(b) = 2 /\ a[1] = b[1] /\ a[2] < b[2])
      BY <2>1, <3>1
    <3>2. ASSUME a[1] < b[1]
          PROVE  \E i \in 1..2 : i <= Len(a) /\ i <= Len(b) /\ a[i] < b[i] /\ \A j \in 1..(i - 1) : a[j] = b[j]
      BY <2>1, <3>2
    <3>3. ASSUME Len(a) = 2, Len(b) = 2, a[1] = b[1], a[2] < b[2]
          PROVE  \E i \in 1..2 : i <= Len(a) /\ i <= Len(b) /\ a[i] < b[i] /\ \A j \in 1..(i - 1) : a[j] = b[j]
      BY <3>3
    <3> QED
      BY <3>1, <3>2, <3>3
  <2>3. (\A i \in 1..2 : i <= Len(a) /\ i <= Len(b) => a[i] = b[i])
        <=> a[1] = b[1] /\ (Len(a) = 2 /\ Len(b) = 2 => a[2] = b[2])
    BY <2>1
  <2>4. Before(a, b) <=>
          \/ a[1] < b[1] \/ (Len(a) = 2 /\ Len(b) = 2 /\ a[1] = b[1] /\ a[2] < b[2])
          \/ (a[1] = b[1] /\ (Len(a) = 2 /\ Len(b) = 2 => a[2] = b[2]) /\ Len(a) < Len(b))
    BY <2>2, <2>3 DEF Before, ShorterFirst
  <2> HIDE DEF M
  <2>5. CASE Len(a) = 2 /\ Len(b) = 2
    BY <2>1, <2>4, <2>5
  <2>6. CASE Len(a) = 1 /\ Len(b) = 2
    BY <1>1, <2>1, <2>4, <2>6
  <2>7. CASE Len(b) = 1
    BY <1>1, <2>1, <2>4, <2>7
  <2> QED
    BY <2>1, <2>5, <2>6, <2>7
<1> HIDE DEF rest, M
<1>5. Place(a) \in Nat /\ Place(b) \in Nat
  BY <1>1, <1>3
<1>6. \A m, n \in Nat, x, y \in 0..MaxPart : m < n => m * M + x < n * M + y
  <2> SUFFICES ASSUME NEW m \in Nat, NEW n \in Nat, NEW x \in 0..MaxPart, NEW y \in 0..MaxPart, m < n
               PROVE  m * M + x < n * M + y
    OBVIOUS
  <2>1. PICK d \in Nat : n = m + 1 + d
    OBVIOUS
  <2>2. n * M = m * M + M + d * M
    BY <1>1, <2>1
  <2>3. d * M \in Nat /\ m * M \in Nat /\ x < M
    BY <1>1 DEF M
  <2> QED
    BY <1>1, <2>2, <2>3
<1>7. a[1] < b[1] => Place(a) < Place(b)
  BY <1>3, <1>6
<1>8. b[1] < a[1] => Place(b) < Place(a)
  BY <1>3, <1>6
<1>9. a[1] = b[1] => (Place(a) < Place(b) <=> rest(a) < rest(b))
  BY <1>1, <1>3
<1> QED
  BY <1>3, <1>4, <1>5, <1>7, <1>8, <1>9

\* Some of the entries, sorted: each of them once, by place, and equals as they were.
LEMMA SortedIs ==
  ASSUME NEW defs, NEW some \in SUBSET Nat, IsFiniteSet(some), \A i \in some : defs[i].version \in Version
  PROVE  LET N == Cardinality(some) IN
         /\ N \in Nat
         /\ \E at \in [1..N -> some] :
              /\ Sorted(defs, some) = [n \in 1..N |-> defs[at[n]]]
              /\ \A m, n \in 1..N : m < n => /\ Place(defs[at[m]].version) <= Place(defs[at[n]].version)
                                             /\ at[m] # at[n]
<1> DEFINE N == Cardinality(some)
           place(i) == Place(defs[i].version)
           under(i) == {j \in some : SortsBefore(defs, j, i)}
           below == [i \in some |-> under(i)]
           at == [n \in 1..N |-> CHOOSE i \in some : Cardinality(under(i)) = n - 1]
<1>1. \A i \in some : i \in Nat /\ place(i) \in Nat
  BY PlaceOrders
<1>2. \A i, j \in some : SortsBefore(defs, j, i) <=> place(j) < place(i) \/ (place(j) = place(i) /\ j < i)
  <2> SUFFICES ASSUME NEW i \in some, NEW j \in some
               PROVE  SortsBefore(defs, j, i) <=> place(j) < place(i) \/ (place(j) = place(i) /\ j < i)
    OBVIOUS
  <2>1. (Before(defs[j].version, defs[i].version) <=> place(j) < place(i))
        /\ (Before(defs[i].version, defs[j].version) <=> place(i) < place(j))
    BY PlaceOrders
  <2>2. SortsBefore(defs, j, i) <=> place(j) < place(i) \/ (~(place(i) < place(j)) /\ j < i)
    BY <2>1 DEF SortsBefore
  <2> HIDE DEF place
  <2> QED
    BY <1>1, <2>2
<1> HIDE DEF place
<1>3. \A i, j \in some : j \in under(i) <=> place(j) < place(i) \/ (place(j) = place(i) /\ j < i)
  BY <1>2
<1>4. below \in [some -> SUBSET some] /\ \A i \in some : below[i] = under(i)
  OBVIOUS
<1> HIDE DEF under, below
<1>5. \A i \in some : i \notin below[i]
  BY <1>1, <1>3, <1>4
<1>6. \A i, j \in some : i \in below[j] => below[i] \subseteq below[j]
  <2> SUFFICES ASSUME NEW i \in some, NEW j \in some, i \in under(j), NEW k \in under(i) PROVE k \in under(j)
    BY <1>4
  <2>1. k \in some
    BY <1>4
  <2>2. i \in Nat /\ j \in Nat /\ k \in Nat /\ place(i) \in Nat /\ place(j) \in Nat /\ place(k) \in Nat
    BY <1>1, <2>1
  <2>3. /\ place(i) < place(j) \/ (place(i) = place(j) /\ i < j)
        /\ place(k) < place(i) \/ (place(k) = place(i) /\ k < i)
        /\ k \in under(j) <=> place(k) < place(j) \/ (place(k) = place(j) /\ k < j)
    BY <1>3, <2>1
  <2> QED
    BY <2>2, <2>3
<1>7. \A i, j \in some : i = j \/ i \in below[j] \/ j \in below[i]
  BY <1>1, <1>3, <1>4
<1>8. /\ N \in Nat
      /\ \A i, j \in some : i \in under(j) <=> Cardinality(under(i)) < Cardinality(under(j))
      /\ \A n \in 0..(N - 1) : \E i \in some : Cardinality(under(i)) = n
  <2>1. /\ N \in Nat
        /\ \A i, j \in some : i \in below[j] <=> Cardinality(below[i]) < Cardinality(below[j])
        /\ \A n \in 0..(N - 1) : \E i \in some : Cardinality(below[i]) = n
    BY <1>4, <1>5, <1>6, <1>7, RanksFill
  <2> HIDE DEF N
  <2> QED
    BY <1>4, <2>1
<1> HIDE DEF N
<1>9. \A n \in 1..N : at[n] \in some /\ Cardinality(under(at[n])) = n - 1
  <2> TAKE n \in 1..N
  <2>1. n - 1 \in 0..(N - 1)
    BY <1>8
  <2>2. \E i \in some : Cardinality(under(i)) = n - 1
    BY <1>8, <2>1
  <2>3. LET x == CHOOSE i \in some : Cardinality(under(i)) = n - 1 IN x \in some /\ Cardinality(under(x)) = n - 1
    BY <2>2
  <2> QED
    BY <2>3
<1>10. at \in [1..N -> some]
  <2>1. at = [n \in 1..N |-> at[n]]
    OBVIOUS
  <2> HIDE DEF at
  <2> QED
    BY <1>9, <2>1
<1>11. Sorted(defs, some) = [n \in 1..N |-> defs[at[n]]]
  BY DEF Sorted, under, N
<1> HIDE DEF at
<1>12. \A m, n \in 1..N : m < n => place(at[m]) <= place(at[n]) /\ at[m] # at[n]
  <2> SUFFICES ASSUME NEW m \in 1..N, NEW n \in 1..N, m < n PROVE place(at[m]) <= place(at[n]) /\ at[m] # at[n]
    OBVIOUS
  <2>1. at[m] \in some /\ at[n] \in some /\ Cardinality(under(at[m])) < Cardinality(under(at[n]))
    BY <1>8, <1>9
  <2>2. at[m] \in under(at[n])
    BY <1>8, <2>1
  <2>3. place(at[m]) \in Nat /\ place(at[n]) \in Nat /\ at[m] \in Nat
    BY <1>1, <2>1
  <2>4. place(at[m]) < place(at[n]) \/ (place(at[m]) = place(at[n]) /\ at[m] < at[n])
    BY <1>3, <2>1, <2>2
  <2>5. at[n] \in Nat
    BY <1>1, <2>1
  <2> QED
    BY <2>3, <2>4, <2>5
<1> QED
  BY <1>8, <1>10, <1>11, <1>12 DEF N, place

\* A function on the first positions is a sequence.
LEMMA AsSequence ==
  ASSUME NEW n \in Nat, NEW f, f = [i \in 1..n |-> f[i]]
  PROVE  f \in Seq({f[i] : i \in 1..n}) /\ Len(f) = n /\ DOMAIN f = 1..n
<1>1. f \in [1..n -> {f[i] : i \in 1..n}]
  OBVIOUS
<1> DEFINE T == {f[i] : i \in 1..n}
<1> HIDE DEF T
<1>2. f \in [1..n -> T]
  BY <1>1 DEF T
<1>3. f \in Seq(T) /\ Len(f) = n /\ DOMAIN f = 1..n
  BY <1>2
<1> QED
  BY <1>3 DEF T

\* What the files of a directory and the manifest define is found in order, each version of a
\* binding once, the manifest's first.
DirectoryHolds ==
  matter = "files" =>
    /\ directory.files \in [1..FileCount -> MigrationFiles]
    /\ directory.manifest \subseteq 1..FileCount

LEMMA DiscoverIs == ASSUME matter = "files", DirectoryHolds, Discover PROVE MigrationsFound'
<1> DEFINE n == Len(directory.files)
           files == directory.files
           listed == [i \in 1..n |-> DefinitionOf(files[i], "manifest")]
           lying == [i \in 1..n |-> DefinitionOf(files[i], "directory")]
           late == Sorted(lying, 1..n)
           defs == listed \o late
           there == directory.manifest \union (n + 1)..(2 * n)
           kept == {i \in there : i > n => WithoutDuplicate(defs, there, i)}
           some == {i \in kept : directory.binding \in {"none", defs[i].binding}}
<1>1. directory' = directory /\ found' = Sorted(defs, some)
  BY DEF Discover
<1>2. /\ n \in Nat /\ n = FileCount /\ directory.manifest \subseteq 1..n
      /\ \A i \in 1..n : files[i] \in MigrationFiles
  BY HostAssumption DEF DirectoryHolds
<1>3. \A i \in 1..n : files[i].version \in Version /\ files[i].marks \in {"none", "up", "down", "up and down", "down and up"}
  BY <1>2 DEF MigrationFiles
<1> HIDE DEF n, files
<1>4. /\ \E T : listed \in Seq(T)
      /\ Len(listed) = n /\ \A i \in 1..n : listed[i] = DefinitionOf(files[i], "manifest") /\ lying[i] = DefinitionOf(files[i], "directory")
  <2>1. /\ listed = [i \in 1..n |-> listed[i]]
        /\ \A i \in 1..n : listed[i] = DefinitionOf(files[i], "manifest") /\ lying[i] = DefinitionOf(files[i], "directory")
    OBVIOUS
  <2> HIDE DEF listed, lying
  <2> QED
    BY <1>2, <2>1, AsSequence
<1>5. \A i \in 1..n :
        /\ LET d == DefinitionOf(files[i], "manifest") IN
             d.version = files[i].version /\ d.binding = files[i].binding /\ d.up = UpOf(files[i]) /\ d.source = "manifest"
        /\ LET d == DefinitionOf(files[i], "directory") IN
             d.version = files[i].version /\ d.binding = files[i].binding /\ d.up = UpOf(files[i]) /\ d.source = "directory"
  BY DEF DefinitionOf
<1> HIDE DEF listed, lying
<1>6. IsFiniteSet(1..n) /\ Cardinality(1..n) = n /\ 1..n \in SUBSET Nat
  BY <1>2, FS_Interval
<1>7. PICK of \in [1..n -> 1..n] : late = [i \in 1..n |-> lying[of[i]]]
  <2>1. \A i \in 1..n : lying[i].version \in Version
    BY <1>3, <1>4, <1>5
  <2> DEFINE S == 1..n
  <2>2. S \in SUBSET Nat /\ IsFiniteSet(S) /\ (\A i \in S : lying[i].version \in Version) /\ late = Sorted(lying, S)
    BY <1>6, <2>1
  <2> HIDE DEF S, late
  <2>3. Cardinality(S) \in Nat /\
          \E at \in [1..Cardinality(S) -> S] :
            /\ late = [k \in 1..Cardinality(S) |-> lying[at[k]]]
            /\ \A m, k \in 1..Cardinality(S) : m < k => /\ Place(lying[at[m]].version) <= Place(lying[at[k]].version)
                                                         /\ at[m] # at[k]
    BY <2>2, SortedIs
  <2> QED
    BY <1>6, <2>3 DEF S
<1> HIDE DEF late
<1>8. Len(late) = n /\ \A i \in 1..n : late[i] = DefinitionOf(files[of[i]], "directory")
  BY <1>2, <1>4, <1>7
<1>9. /\ Len(defs) = 2 * n
      /\ \A i \in 1..n : defs[i] = DefinitionOf(files[i], "manifest")
      /\ \A i \in (n + 1)..(2 * n) : defs[i] = DefinitionOf(files[of[i - n]], "directory")
  <2>1. \E T : late \in Seq(T)
    <3>1. late = [i \in 1..n |-> late[i]]
      BY <1>7
    <3> QED
      BY <1>2, <3>1, AsSequence
  <2>2. /\ Len(defs) = Len(listed) + Len(late)
        /\ \A i \in 1..(Len(listed) + Len(late)) :
             defs[i] = IF i <= Len(listed) THEN listed[i] ELSE late[i - Len(listed)]
    BY <1>4, <2>1, ConcatProperties
  <2> HIDE DEF defs
  <2> QED
    BY <1>2, <1>4, <1>8, <2>2
<1> HIDE DEF defs
<1>10. \A i \in 1..(2 * n) : /\ defs[i].version \in Version
                             /\ i <= n <=> defs[i].source = "manifest"
                             /\ i > n <=> defs[i].source = "directory"
                             /\ \E f \in 1..n : defs[i].up = UpOf(files[f])
  <2> TAKE i \in 1..(2 * n)
  <2>1. CASE i <= n
    <3>1. i \in 1..n /\ i \in Nat
      BY <1>2, <2>1
    <3>2. defs[i].version = files[i].version /\ defs[i].up = UpOf(files[i]) /\ defs[i].source = "manifest"
      BY <1>5, <1>9, <3>1
    <3>3. defs[i].version \in Version
      BY <1>3, <3>1, <3>2
    <3>4. ~(i > n) /\ defs[i].source # "directory"
      BY <1>2, <2>1, <3>1, <3>2
    <3> QED
      BY <2>1, <3>1, <3>2, <3>3, <3>4
  <2>2. CASE i > n
    <3>1. i \in (n + 1)..(2 * n) /\ i - n \in 1..n /\ of[i - n] \in 1..n /\ i \in Nat
      BY <1>2, <1>7, <2>2
    <3>2. defs[i] = DefinitionOf(files[of[i - n]], "directory")
      BY <1>9, <3>1
    <3>3. /\ defs[i].version = files[of[i - n]].version /\ defs[i].up = UpOf(files[of[i - n]])
          /\ defs[i].source = "directory"
      BY <1>5, <3>1, <3>2
    <3>4. defs[i].version \in Version
      BY <1>3, <3>1, <3>3
    <3>5. ~(i <= n) /\ defs[i].source # "manifest"
      BY <1>2, <2>2, <3>1, <3>3
    <3> QED
      BY <2>2, <3>1, <3>3, <3>4, <3>5
  <2> QED
    BY <1>2, <2>1, <2>2
<1>11. /\ there \subseteq 1..(2 * n) /\ some \subseteq kept /\ kept \subseteq there /\ some \in SUBSET Nat /\ IsFiniteSet(some)
       /\ \A i \in some : i > n => WithoutDuplicate(defs, there, i)
  <2>1. there \subseteq 1..(2 * n) /\ IsFiniteSet(1..(2 * n))
    <3> DEFINE m == 2 * n
    <3>1. m \in Int /\ there \subseteq 1..m
      BY <1>2
    <3> HIDE DEF m, there
    <3>2. IsFiniteSet(1..m)
      BY <3>1, FS_Interval
    <3> QED
      BY <3>1, <3>2 DEF m
  <2>2. some \subseteq there /\ some \subseteq kept /\ kept \subseteq there
    OBVIOUS
  <2>3. some \in SUBSET (1..(2 * n))
    BY <2>1, <2>2
  <2> QED
    BY <1>2, <2>1, <2>2, <2>3, FS_Subset
<1>12. directory.manifest \subseteq there
  OBVIOUS
<1> HIDE DEF kept, some, there
<1>13. Cardinality(some) \in Nat /\
       \E at \in [1..Cardinality(some) -> some] :
              /\ found' = [k \in 1..Cardinality(some) |-> defs[at[k]]]
              /\ \A m, k \in 1..Cardinality(some) : m < k => /\ Place(defs[at[m]].version) <= Place(defs[at[k]].version)
                                                             /\ at[m] # at[k]
  BY <1>10, <1>11, <1>1, SortedIs
<1> DEFINE N == Cardinality(some)
<1>14. PICK at \in [1..N -> some] :
              /\ found' = [k \in 1..N |-> defs[at[k]]]
              /\ \A m, k \in 1..N : m < k => /\ Place(defs[at[m]].version) <= Place(defs[at[k]].version)
                                             /\ at[m] # at[k]
  BY <1>13
<1>15. N \in Nat
  BY <1>13
<1> HIDE DEF N
<1>16. Len(found') = N /\ \A k \in 1..N : found'[k] = defs[at[k]] /\ at[k] \in some /\ at[k] \in 1..(2 * n) /\ at[k] \in there
  BY <1>14, <1>15, AsSequence, <1>11
<1>17. ASSUME NEW i \in 1..N, NEW j \in 1..N, i < j PROVE Place(found'[i].version) <= Place(found'[j].version)
  BY <1>14, <1>16, <1>17
<1>18. \A i, j \in some : j < i /\ i > n => defs[j].version # defs[i].version \/ defs[j].binding # defs[i].binding
  BY <1>11 DEF WithoutDuplicate
<1>19. ASSUME NEW i \in 1..N, NEW j \in 1..N, i # j
       PROVE  \/ found'[i].version # found'[j].version \/ found'[i].binding # found'[j].binding
              \/ (found'[i].source = "manifest" /\ found'[j].source = "manifest")
  <2>1. at[i] # at[j]
    BY <1>14, <1>15, <1>19
  <2>2. at[i] \in some /\ at[j] \in some /\ at[i] \in Nat /\ at[j] \in Nat /\ at[i] \in 1..(2 * n) /\ at[j] \in 1..(2 * n)
    BY <1>2, <1>16
  <2>3. CASE at[j] < at[i] /\ at[i] > n
    BY <1>16, <1>18, <2>2, <2>3
  <2>4. CASE at[i] < at[j] /\ at[j] > n
    BY <1>16, <1>18, <2>2, <2>4
  <2>5. CASE at[i] <= n /\ at[j] <= n
    BY <1>10, <1>16, <2>2, <2>5
  <2>6. (at[j] < at[i] /\ at[i] > n) \/ (at[i] < at[j] /\ at[j] > n) \/ (at[i] <= n /\ at[j] <= n)
    <3> DEFINE a == at[i]
               b == at[j]
    <3>1. n \in Nat /\ a \in Nat /\ b \in Nat /\ a # b
      BY <1>2, <2>1, <2>2
    <3> HIDE DEF a, b
    <3>2. (b < a /\ a > n) \/ (a < b /\ b > n) \/ (a <= n /\ b <= n)
      BY <3>1
    <3> QED
      BY <3>2 DEF a, b
  <2> QED
    BY <2>3, <2>4, <2>5, <2>6, Zenon
<1>20. ASSUME NEW i \in 1..N, found'[i].source = "directory"
       PROVE  \A f \in directory.manifest : files[f].version # found'[i].version \/ files[f].binding # found'[i].binding
  <2> TAKE f \in directory.manifest
  <2>1. at[i] > n /\ at[i] \in some
    BY <1>10, <1>16, <1>20
  <2>2. f \in 1..n /\ f \in there /\ f < at[i]
    BY <1>2, <1>12, <1>16, <2>1
  <2>3. defs[f].version # defs[at[i]].version \/ defs[f].binding # defs[at[i]].binding
    BY <1>11, <2>1, <2>2 DEF WithoutDuplicate
  <2>4. defs[f].version = files[f].version /\ defs[f].binding = files[f].binding
    BY <1>5, <1>9, <2>2
  <2> QED
    BY <1>16, <2>3, <2>4
<1>21. ASSUME NEW i \in 1..N, "down" \in found'[i].up PROVE \E f \in 1..n : files[f].marks = "down"
  <2>1. PICK f \in 1..n : found'[i].up = UpOf(files[f])
    BY <1>10, <1>16
  <2>2. ASSUME files[f].marks # "down" PROVE FALSE
    BY <2>2, <1>21, <2>1 DEF UpOf
  <2> QED
    BY <2>2
<1> QED
  BY <1>1, <1>16, <1>17, <1>19, <1>20, <1>21 DEF MigrationsFound, n, files, Place

-----------------------------------------------------------------------------
\* What holds of a value, of a query, of a failure, and of those who open a database.
ValueHolds ==
  /\ matter = "values" => /\ sent \in SentValues
                          /\ \/ stored = Cell("none", "none", 0) /\ read = Unread
                             \/ /\ stored = StoredFor(sent)
                                /\ \/ read = Unread
                                   \/ /\ HostTakes(stored) /\ read.form # "float"
                                      /\ Survives(sent.value, sent.tag, read.form, read.of, read.exact)
  /\ matter = "floats" => /\ sent.value \in Floats /\ Exists(sent.value)
                          /\ read \in {Unread, [form |-> "float", of |-> HashableF64Number(HashableF64(sent.value))]}
  /\ matter \notin {"values", "floats"} => read = Unread

QueryHolds ==
  /\ host \in Results /\ query.at \in {"start", "collecting", "finishing", "rows", "failed"} /\ query.rows \in 0..Sent(host)
  /\ query = [at |-> query.at, rows |-> query.rows]
  /\ query.at \in {"finishing", "rows"} => query.rows = Sent(host)
  /\ query.at = "rows" => ~host.breaks

ErrorHolds == error \in {NoError, PostgresError(cause)}

\* The order of the backends, from each of them on.
Candidate == <<"bun", "node", "wasm">>
From == << <<"bun", "node", "wasm">>, <<"node", "wasm">>, <<"wasm">> >>
Able(backend) == backend \in runtime.registered \intersect runtime.works
\* first is where the preferred one stands; k is the one an opener has come to
First == CHOOSE k \in 1..3 : Candidate[k] = DetectSqliteBackend
Reached(k) == k \in First..3 /\ \A j \in First..(k - 1) : ~Able(Candidate[j])

OpenerIs(r, n, load) ==
  /\ \/ r.at \in {"idle", "failed"}
     \/ r.at = "trying" /\ \E k \in 1..3 : Reached(k) /\ r.left = From[k]
     \/ r.at \in {"waiting", "module", "pragmas"} /\ Reached(3) /\ r.left = From[3]
     \/ r.at = "open" /\ \E k \in 1..3 : Reached(k) /\ r.got = Candidate[k]
  /\ r.at \in {"idle", "trying", "waiting", "module"} => n = 0
  /\ r.at \in {"pragmas", "open"} => n = 1
  /\ r.at = "failed" => n = 0 \/ ~runtime.closes
  /\ r.at = "waiting" => load = "pending"
OpenRecords == [at : {"idle", "trying", "waiting", "module", "pragmas", "open", "failed"}, left : Seq(Backends), got : Backends \union {"none"}]
OpeningHolds ==
  /\ runtime \in Runtimes
  /\ opener \in [Openers -> OpenRecords] /\ connections \in [Openers -> Nat]
  /\ loading \in {"none", "pending", "loaded"}
  /\ \A o \in Openers : OpenerIs(opener[o], connections[o], loading)

HostIInv == matter \in Matters /\ ValueHolds /\ QueryHolds /\ ErrorHolds /\ OpeningHolds /\ DirectoryHolds /\ MigrationsFound

\* A value is written and read back, or a float is.
LEMMA ValueKeeps ==
  ASSUME ValueHolds, matter' = matter, \/ matter = "values" /\ ValuesNext
                                       \/ matter = "floats" /\ SendFloat
  PROVE  ValueHolds'
<1>1. ASSUME matter = "values", Write PROVE ValueHolds'
  BY <1>1 DEF Write, StoredFor, ValueHolds
<1>2. ASSUME matter = "values", ReadBack PROVE ValueHolds'
  BY <1>2, ValuesRead DEF ReadBack, ValueHolds, Cell, ScalarOf, ReadForms, CellForms
<1>3. ASSUME matter = "floats", SendFloat PROVE ValueHolds'
  BY <1>3 DEF ValueHolds, SendFloat
<1> QED
  BY <1>1, <1>2, <1>3 DEF ValuesNext

\* The rows of a query are collected.
LEMMA QueryKeeps == ASSUME QueryHolds, QueryNext PROVE QueryHolds'
<1>1. host.rows \in Nat /\ host.breaks \in BOOLEAN /\ Sent(host) \in Nat /\ query.rows \in Nat /\ query.rows <= Sent(host)
  BY HostAssumption DEF QueryHolds, Results, Sent
<1>2. /\ host \in Results /\ query.at \in {"start", "collecting", "finishing", "rows", "failed"}
      /\ query = [at |-> query.at, rows |-> query.rows]
      /\ query.at \in {"finishing", "rows"} => query.rows = Sent(host)
      /\ query.at = "rows" => ~host.breaks
  BY DEF QueryHolds
<1> DEFINE all == Sent(host)
<1>3. host' = host
  BY DEF QueryNext, ReadRows, Collect, Finish
<1>4. Sent(host)' = all
  BY <1>3 DEF Sent
<1>5. CASE ReadRows
  BY <1>5, <1>2, <1>1, <1>3, <1>4 DEF ReadRows, QueryHolds
<1>6. CASE Collect
  <2> DEFINE left == all - query.rows
             most == IF host.stream = "iterable" THEN 1 ELSE ChunkSize
  <2>1. query.at = "collecting"
        /\ (\/ left = 0 /\ query' = [query EXCEPT !.at = "finishing"]
            \/ left # 0 /\ \E n \in 1..(IF left < most THEN left ELSE most) : query' = [query EXCEPT !.rows = @ + n])
    BY <1>6 DEF Collect
  <2>2. left \in Nat /\ most \in Nat
    BY <1>1 DEF ChunkSize
  <2>3. CASE left = 0
    <3>1. query'.rows = query.rows /\ query'.at = "finishing" /\ query' = [at |-> query'.at, rows |-> query'.rows] /\ query.rows = all
      BY <1>1, <1>2, <2>1, <2>3
    <3> HIDE DEF left, most, all
    <3> QED
      BY <1>1, <1>2, <1>3, <1>4, <3>1 DEF QueryHolds, all
  <2>4. CASE left # 0
    <3>1. PICK n \in 1..(IF left < most THEN left ELSE most) : query' = [query EXCEPT !.rows = @ + n]
      BY <2>1, <2>4
    <3>2. n \in Nat /\ n <= left
      BY <2>2
    <3>3. query'.rows = query.rows + n /\ query'.at = "collecting" /\ query' = [at |-> query'.at, rows |-> query'.rows]
      BY <1>2, <2>1, <3>1
    <3>4. query'.rows \in 0..all
      BY <1>1, <3>2, <3>3
    <3> HIDE DEF left, most, all
    <3> QED
      BY <1>2, <1>3, <1>4, <3>3, <3>4 DEF QueryHolds
  <2> QED
    BY <2>3, <2>4
<1>7. CASE Finish
  <2>1. query.at = "finishing" /\ \E x \in {"failed", "rows"} : query' = [query EXCEPT !.at = x] /\ (x = "rows" => ~host.breaks)
    <3> DEFINE next == IF host.breaks /\ Looks(host.completion) THEN "failed" ELSE "rows"
    <3>1. query.at = "finishing" /\ query' = [query EXCEPT !.at = next]
      BY <1>7 DEF Finish
    <3>2. next = "failed" \/ (next = "rows" /\ ~host.breaks)
      BY Zenon DEF Looks
    <3> HIDE DEF next
    <3>3. next \in {"failed", "rows"} /\ (next = "rows" => ~host.breaks)
      BY <3>2
    <3> QED
      BY <3>1, <3>3, Zenon
  <2>2. query'.rows = query.rows /\ query'.rows = all /\ query' = [at |-> query'.at, rows |-> query'.rows]
        /\ (query'.at = "failed" \/ (query'.at = "rows" /\ ~host.breaks))
    BY <1>2, <2>1
  <2> HIDE DEF all
  <2> QED
    BY <1>1, <1>2, <1>3, <1>4, <2>2 DEF QueryHolds, all
<1> QED
  BY <1>5, <1>6, <1>7 DEF QueryNext

\* The backends that are tried from each on.
LEMMA FromIs ==
         /\ \A k \in 1..3 : /\ From[k] \in Seq(Backends)
                            /\ Candidate[k] \in Backends /\ Head(From[k]) = Candidate[k] /\ Len(From[k]) = 4 - k
                            /\ k < 3 => Tail(From[k]) = From[k + 1]
                            /\ \A i \in 1..Len(From[k]) : From[k][i] = Candidate[k + i - 1]
         /\ \A j, k \in 1..3 : Candidate[j] = Candidate[k] => j = k
<1>2. Candidate[1] = "bun" /\ Candidate[2] = "node" /\ Candidate[3] = "wasm"
  BY DEF Candidate
<1>3. From[1] = <<"bun", "node", "wasm">> /\ From[2] = <<"node", "wasm">> /\ From[3] = <<"wasm">>
  BY DEF From
<1>7. From[1] \in Seq(Backends) /\ From[2] \in Seq(Backends) /\ From[3] \in Seq(Backends)
  BY <1>3 DEF Backends
<1>8. ASSUME NEW k \in 1..3
      PROVE  /\ From[k] \in Seq(Backends) /\ Candidate[k] \in Backends /\ Head(From[k]) = Candidate[k] /\ Len(From[k]) = 4 - k
             /\ k < 3 => Tail(From[k]) = From[k + 1]
             /\ \A i \in 1..Len(From[k]) : From[k][i] = Candidate[k + i - 1]
  <2>1. CASE k = 1
    <3>1. Tail(From[1]) = <<"node", "wasm">> /\ Head(From[1]) = "bun" /\ Len(From[1]) = 3
      BY <1>3
    <3>2. From[1][1] = "bun" /\ From[1][2] = "node" /\ From[1][3] = "wasm"
      BY <1>3
    <3>3. Candidate[k] = "bun" /\ From[k] = From[1] /\ From[k + 1] = From[2] /\ k < 3
      BY <1>2, <2>1
    <3>4. \A i \in 1..3 : From[1][i] = Candidate[1 + i - 1]
      <4> TAKE i \in 1..3
      <4>1. i = 1 \/ i = 2 \/ i = 3
        OBVIOUS
      <4> QED
        BY <1>2, <3>1, <3>2, <4>1
    <3>5. \A i \in 1..Len(From[k]) : From[k][i] = Candidate[k + i - 1]
      BY <2>1, <3>1, <3>3, <3>4
    <3>6. Len(From[k]) = 4 - k
      BY <2>1, <3>1, <3>3
    <3> QED
      BY <1>3, <1>7, <3>1, <3>3, <3>5, <3>6 DEF Backends
  <2>2. CASE k = 2
    <3>1. Tail(From[2]) = <<"wasm">> /\ Head(From[2]) = "node" /\ Len(From[2]) = 2
      BY <1>3
    <3>2. From[2][1] = "node" /\ From[2][2] = "wasm"
      BY <1>3
    <3>3. Candidate[k] = "node" /\ From[k] = From[2] /\ From[k + 1] = From[3] /\ k < 3
      BY <1>2, <2>2
    <3>4. \A i \in 1..2 : From[2][i] = Candidate[2 + i - 1]
      <4> TAKE i \in 1..2
      <4>1. i = 1 \/ i = 2
        OBVIOUS
      <4> QED
        BY <1>2, <3>1, <3>2, <4>1
    <3>5. \A i \in 1..Len(From[k]) : From[k][i] = Candidate[k + i - 1]
      BY <2>2, <3>1, <3>3, <3>4
    <3>6. Len(From[k]) = 4 - k
      BY <2>2, <3>1, <3>3
    <3> QED
      BY <1>3, <1>7, <3>1, <3>3, <3>5, <3>6 DEF Backends
  <2>3. CASE k = 3
    <3>1. Head(From[3]) = "wasm" /\ Len(From[3]) = 1 /\ From[3][1] = "wasm"
      BY <1>3
    <3>3. Candidate[k] = "wasm" /\ From[k] = From[3] /\ ~(k < 3)
      BY <1>2, <2>3
    <3>4. \A i \in 1..1 : From[3][i] = Candidate[3 + i - 1]
      <4> TAKE i \in 1..1
      <4>1. i = 1
        OBVIOUS
      <4> QED
        BY <1>2, <3>1, <4>1
    <3>5. \A i \in 1..Len(From[k]) : From[k][i] = Candidate[k + i - 1]
      BY <2>3, <3>1, <3>3, <3>4
    <3>6. Len(From[k]) = 4 - k
      BY <2>3, <3>1, <3>3
    <3> QED
      BY <1>3, <1>7, <3>1, <3>3, <3>5, <3>6 DEF Backends
  <2>4. k = 1 \/ k = 2 \/ k = 3
    OBVIOUS
  <2> QED
    BY <2>1, <2>2, <2>3, <2>4
<1>9. \A j, k \in 1..3 : Candidate[j] = Candidate[k] => j = k
  BY <1>2
<1> QED
  BY <1>8, <1>9

\* Where the preferred backend stands.
LEMMA BackendsAre ==
  ASSUME runtime \in Runtimes
  PROVE  /\ First \in 1..3 /\ Candidate[First] = DetectSqliteBackend
         /\ FallbackOrder(DetectSqliteBackend) = From[First]
<1>1. DetectSqliteBackend \in Backends
  BY DEF DetectSqliteBackend, Runtimes, Backends
<1>2. Candidate[1] = "bun" /\ Candidate[2] = "node" /\ Candidate[3] = "wasm"
  BY DEF Candidate
<1>3. From[1] = <<"bun", "node", "wasm">> /\ From[2] = <<"node", "wasm">> /\ From[3] = <<"wasm">>
  BY DEF From
<1>4. First \in 1..3 /\ Candidate[First] = DetectSqliteBackend
  BY <1>1, <1>2 DEF Backends, First
<1>5. /\ FallbackOrder("bun") = <<"bun", "node", "wasm">> /\ FallbackOrder("node") = <<"node", "wasm">>
      /\ FallbackOrder("wasm") = <<"wasm">>
  BY DEF FallbackOrder
<1>6. FallbackOrder(DetectSqliteBackend) = From[First]
  BY <1>4, <1>2, <1>3, <1>5
<1> QED
  BY <1>4, <1>6

\* Who could not open with the backend it had come to goes on to the next one, or has failed.
LEMMA NextHolds ==
  ASSUME runtime \in Runtimes, NEW r \in OpenRecords, NEW k \in 1..3, Reached(k), r.left = From[k], k < 3 => ~Able(Candidate[k])
  PROVE  /\ NextCandidate(r) \in OpenRecords
         /\ \/ NextCandidate(r).at = "failed"
            \/ NextCandidate(r).at = "trying" /\ \E j \in 1..3 : Reached(j) /\ NextCandidate(r).left = From[j]
<1> DEFINE e == [r EXCEPT !.at = IF Len(r.left) > 1 THEN "trying" ELSE "failed", !.left = Tail(@)]
<1>1. NextCandidate(r) = e
  BY DEF NextCandidate
<1>2. /\ From[k] \in Seq(Backends) /\ Len(From[k]) = 4 - k /\ (k < 3 => Tail(From[k]) = From[k + 1])
      /\ From[k] # << >> /\ First \in 1..3
  BY BackendsAre, FromIs
<1>3. Tail(From[k]) \in Seq(Backends)
  BY <1>2, HeadTailProperties
<1>4. e.at = (IF Len(r.left) > 1 THEN "trying" ELSE "failed") /\ e.left = Tail(r.left) /\ e \in OpenRecords
  BY <1>3 DEF OpenRecords
<1> HIDE DEF e
<1>5. CASE k = 3
  <2>1. Len(r.left) = 1
    BY <1>2, <1>5
  <2> QED
    BY <1>1, <1>4, <2>1
<1>6. CASE k < 3
  <2>1. k + 1 \in 1..3 /\ Len(r.left) > 1 /\ k + 1 \in First..3
    BY <1>2, <1>6 DEF Reached
  <2>2. \A j \in First..(k + 1 - 1) : ~Able(Candidate[j])
    <3> TAKE j \in First..(k + 1 - 1)
    <3>1. j = k \/ j \in First..(k - 1)
      BY <1>2
    <3> QED
      BY <1>6, <3>1 DEF Reached
  <2>3. Reached(k + 1)
    BY <2>1, <2>2 DEF Reached
  <2> QED
    BY <1>1, <1>2, <1>4, <1>6, <2>1, <2>3
<1> QED
  BY <1>5, <1>6

\* What an opener may be depends on the runtime, which stays.
LEMMA OpenerStays ==
  ASSUME runtime' = runtime
  PROVE  \A r, n, load : OpenerIs(r, n, load)' <=> OpenerIs(r, n, load)
  BY DEF OpenerIs, Reached, First, Able, DetectSqliteBackend

\* The steps of who opens a database change nothing of the others.
LEMMA OpenerMoves ==
  ASSUME OpeningHolds, NEW o \in Openers, NEW r \in OpenRecords, NEW n \in Nat,
         opener' = [opener EXCEPT ![o] = r], connections' = [connections EXCEPT ![o] = n],
         runtime' = runtime, loading' \in {"none", "pending", "loaded"}, loading' # loading => loading # "pending",
         OpenerIs(r, n, loading')
  PROVE  OpeningHolds'
<1>1. /\ opener \in [Openers -> OpenRecords] /\ connections \in [Openers -> Nat]
      /\ \A p \in Openers : OpenerIs(opener[p], connections[p], loading)
      /\ runtime \in Runtimes
  BY DEF OpeningHolds
<1>2. /\ opener' \in [Openers -> OpenRecords] /\ connections' \in [Openers -> Nat]
      /\ opener'[o] = r /\ connections'[o] = n
      /\ \A p \in Openers \ {o} : opener'[p] = opener[p] /\ connections'[p] = connections[p]
  BY <1>1
<1>3. ASSUME NEW p \in Openers PROVE OpenerIs(opener'[p], connections'[p], loading')
  <2>1. CASE p = o
    BY <1>2, <2>1
  <2>2. CASE p # o
    BY <1>1, <1>2, <2>2 DEF OpenerIs
  <2> QED
    BY <2>1, <2>2
<1>4. ASSUME NEW p \in Openers PROVE OpenerIs(opener[p], connections[p], loading)'
  <2>1. runtime' = runtime /\ \A k : Reached(k)' <=> Reached(k)
    BY DEF Reached, First, Able, DetectSqliteBackend
  <2> QED
    BY <1>3, <2>1 DEF OpenerIs
<1> QED
  BY <1>1, <1>2, <1>4 DEF OpeningHolds

LEMMA OpenDatabaseKeeps == ASSUME OpeningHolds, NEW o \in Openers, OpenDatabase(o) PROVE OpeningHolds'
<1> DEFINE r == [at |-> "trying", left |-> FallbackOrder(DetectSqliteBackend), got |-> "none"]
<1>1. /\ opener[o].at = "idle" /\ opener' = [opener EXCEPT ![o] = r] /\ runtime' = runtime /\ loading' = loading
      /\ connections' = connections
  BY DEF OpenDatabase
<1>2. /\ runtime \in Runtimes /\ OpenerIs(opener[o], connections[o], loading) /\ connections \in [Openers -> Nat]
      /\ loading \in {"none", "pending", "loaded"}
  BY DEF OpeningHolds
<1>3. First \in 1..3 /\ FallbackOrder(DetectSqliteBackend) = From[First] /\ From[First] \in Seq(Backends)
  BY <1>2, BackendsAre, FromIs
<1>4. Reached(First)
  BY <1>3 DEF Reached
<1>5. r \in OpenRecords /\ r.at = "trying" /\ r.left = From[First]
  BY <1>3 DEF OpenRecords
<1>6. connections[o] = 0 /\ connections' = [connections EXCEPT ![o] = 0]
  BY <1>1, <1>2 DEF OpenerIs
<1> HIDE DEF r
<1>7. OpenerIs(r, 0, loading')
  BY <1>3, <1>4, <1>5 DEF OpenerIs
<1> QED
  BY <1>1, <1>2, <1>5, <1>6, <1>7, OpenerMoves

\* What is known of an opener that is trying.
LEMMA TryingIs ==
  ASSUME OpeningHolds, NEW o \in Openers, opener[o].at = "trying"
  PROVE  /\ opener[o] \in OpenRecords /\ connections[o] = 0
         /\ \E k \in 1..3 : Reached(k) /\ opener[o].left = From[k] /\ Head(opener[o].left) = Candidate[k] /\ Candidate[k] \in Backends
BY FromIs DEF OpeningHolds, OpenerIs

\* An opener that could not open by its backend.
LEMMA FailingKeeps ==
  ASSUME OpeningHolds, NEW o \in Openers, NEW n \in Nat, n = 0 \/ (opener[o].at = "pragmas" /\ ~runtime.closes),
         NEW k \in 1..3, Reached(k), opener[o].left = From[k], k < 3 => ~Able(Candidate[k]),
         opener' = [opener EXCEPT ![o] = NextCandidate(@)], connections' = [connections EXCEPT ![o] = n],
         runtime' = runtime, loading' = loading
  PROVE  OpeningHolds'
<1> DEFINE e == NextCandidate(opener[o])
<1>1. runtime \in Runtimes /\ opener \in [Openers -> OpenRecords] /\ opener[o] \in OpenRecords
      /\ OpenerIs(opener[o], connections[o], loading) /\ loading \in {"none", "pending", "loaded"}
  BY DEF OpeningHolds
<1>2. e \in OpenRecords /\ (\/ e.at = "failed"
                            \/ e.at = "trying" /\ \E j \in 1..3 : Reached(j) /\ e.left = From[j])
  <2> DEFINE r == opener[o]
  <2>1. r \in OpenRecords /\ r.left = From[k] /\ runtime \in Runtimes /\ (k < 3 => ~Able(Candidate[k])) /\ e = NextCandidate(r)
    BY <1>1
  <2> HIDE DEF r, e
  <2>2. /\ NextCandidate(r) \in OpenRecords
        /\ \/ NextCandidate(r).at = "failed"
           \/ NextCandidate(r).at = "trying" /\ \E j \in 1..3 : Reached(j) /\ NextCandidate(r).left = From[j]
    BY <2>1, NextHolds, Zenon
  <2> QED
    BY <2>1, <2>2
<1>3. opener' = [opener EXCEPT ![o] = e]
  BY <1>1
<1>4. n = 0 \/ e.at = "failed"
  <2>1. CASE n = 0
    BY <2>1
  <2>2. CASE opener[o].at = "pragmas"
    <3>1. opener[o].left = From[3]
      BY <1>1, <2>2 DEF OpenerIs
    <3>2. Len(From[3]) = 1
      BY DEF From
    <3> QED
      BY <1>1, <3>1, <3>2 DEF NextCandidate, OpenRecords
  <2> QED
    BY <2>1, <2>2
<1> HIDE DEF e
<1>5. OpenerIs(e, n, loading')
  BY <1>2, <1>4 DEF OpenerIs
<1> QED
  BY <1>1, <1>2, <1>3, <1>5, OpenerMoves

LEMMA TryNativeKeeps == ASSUME OpeningHolds, NEW o \in Openers, TryNative(o) PROVE OpeningHolds'
<1>1. /\ opener[o].at = "trying" /\ runtime' = runtime /\ loading' = loading
  BY DEF TryNative
<1>2. /\ opener \in [Openers -> OpenRecords] /\ connections \in [Openers -> Nat] /\ loading \in {"none", "pending", "loaded"}
  BY DEF OpeningHolds
<1>3. opener[o] \in OpenRecords /\ connections[o] = 0
  BY <1>1, TryingIs
<1>4. PICK k \in 1..3 : Reached(k) /\ opener[o].left = From[k] /\ Head(opener[o].left) = Candidate[k] /\ Candidate[k] \in Backends
  BY <1>1, TryingIs
<1>5. ASSUME Candidate[k] \in runtime.registered, Candidate[k] # "wasm", Candidate[k] \in runtime.works PROVE OpeningHolds'
  <2> DEFINE e == [opener[o] EXCEPT !.at = "open", !.got = Candidate[k]]
  <2>1. opener' = [opener EXCEPT ![o] = e] /\ connections' = [connections EXCEPT ![o] = 1]
    <3>1. opener' = [opener EXCEPT ![o].at = "open", ![o].got = Candidate[k]] /\ connections' = [connections EXCEPT ![o] = @ + 1]
      BY <1>4, <1>5 DEF TryNative
    <3>2. connections[o] + 1 = 1
      BY <1>3
    <3> QED
      BY <1>2, <3>1, <3>2
  <2>2. e \in OpenRecords /\ e.at = "open" /\ e.got = Candidate[k]
    BY <1>3, <1>4 DEF OpenRecords
  <2> HIDE DEF e
  <2>3. OpenerIs(e, 1, loading')
    BY <1>4, <2>2 DEF OpenerIs
  <2> QED
    BY <1>1, <1>2, <2>1, <2>2, <2>3, OpenerMoves
<1>6. ASSUME ~(Candidate[k] \in runtime.registered /\ Candidate[k] # "wasm" /\ Candidate[k] \in runtime.works) PROVE OpeningHolds'
  BY <1>4, <1>6, <1>2, <1>3, <1>1, FailingKeeps DEF TryNative, Able
<1> QED
  BY <1>5, <1>6

LEMMA TryWasmKeeps == ASSUME OpeningHolds, NEW o \in Openers, TryWasm(o) PROVE OpeningHolds'
<1> DEFINE e == [opener[o] EXCEPT !.at = IF loading = "loaded" THEN "module" ELSE "waiting"]
<1>1. /\ opener[o].at = "trying" /\ Head(opener[o].left) = "wasm" /\ runtime' = runtime /\ connections' = connections
      /\ opener' = [opener EXCEPT ![o].at = IF loading = "loaded" THEN "module" ELSE "waiting"]
  BY DEF TryWasm
<1>2. loading' = IF loading = "none" THEN "pending" ELSE loading
  BY DEF TryWasm
<1>3. /\ opener \in [Openers -> OpenRecords] /\ connections \in [Openers -> Nat] /\ loading \in {"none", "pending", "loaded"}
      /\ runtime \in Runtimes
  BY DEF OpeningHolds
<1>4. opener[o] \in OpenRecords /\ connections[o] = 0
  BY <1>1, TryingIs
<1>5. PICK k \in 1..3 : Reached(k) /\ opener[o].left = From[k] /\ Head(opener[o].left) = Candidate[k]
  BY <1>1, TryingIs
<1>6. k = 3
  BY <1>1, <1>5, FromIs DEF Candidate
<1>7. opener' = [opener EXCEPT ![o] = e] /\ connections' = [connections EXCEPT ![o] = 0]
  BY <1>1, <1>3, <1>4
<1>8. e \in OpenRecords /\ e.left = From[3] /\ e.at = IF loading = "loaded" THEN "module" ELSE "waiting"
  BY <1>4, <1>5, <1>6 DEF OpenRecords
<1> HIDE DEF e
<1>9. OpenerIs(e, 0, loading')
  BY <1>2, <1>3, <1>8, <1>5, <1>6 DEF OpenerIs
<1> QED
  BY <1>1, <1>2, <1>3, <1>7, <1>8, <1>9, OpenerMoves

\* Who waits for the host's module hears what came of its import.
LEMMA ImportedKeeps == ASSUME OpeningHolds, NEW succeeds \in BOOLEAN, Imported(succeeds) PROVE OpeningHolds'
<1> DEFINE e(o) == IF opener[o].at # "waiting" THEN opener[o]
                   ELSE IF succeeds THEN [opener[o] EXCEPT !.at = "module"] ELSE NextCandidate(opener[o])
<1>1. /\ opener \in [Openers -> OpenRecords] /\ connections \in [Openers -> Nat] /\ loading \in {"none", "pending", "loaded"}
      /\ runtime \in Runtimes /\ \A o \in Openers : OpenerIs(opener[o], connections[o], loading)
  BY DEF OpeningHolds
<1>2. /\ runtime' = runtime /\ connections' = connections /\ loading' \in {"none", "loaded"}
      /\ opener' = [o \in Openers |-> e(o)]
  BY DEF Imported, AfterAFailure
<1>3. ASSUME NEW o \in Openers PROVE e(o) \in OpenRecords /\ OpenerIs(e(o), connections[o], loading')
  <2> DEFINE r == opener[o]
  <2>1. r \in OpenRecords /\ OpenerIs(r, connections[o], loading)
    BY <1>1
  <2>2. CASE r.at # "waiting"
    <3>1. e(o) = r
      BY <2>2
    <3> HIDE DEF e, r
    <3> QED
      BY <2>1, <2>2, <3>1 DEF OpenerIs
  <2>3. CASE r.at = "waiting"
    <3>1. Reached(3) /\ r.left = From[3] /\ connections[o] = 0
      BY <2>1, <2>3 DEF OpenerIs
    <3>2. CASE succeeds
      <4> DEFINE x == [r EXCEPT !.at = "module"]
      <4>1. e(o) = x /\ x \in OpenRecords /\ x.at = "module" /\ x.left = From[3]
        BY <2>1, <2>3, <3>1, <3>2 DEF OpenRecords
      <4> HIDE DEF x, e, r
      <4> QED
        BY <3>1, <4>1 DEF OpenerIs
    <3>3. CASE ~succeeds
      <4>1. e(o) = NextCandidate(r)
        BY <2>3, <3>3
      <4> HIDE DEF e, r
      <4>2. 3 \in 1..3 /\ (3 < 3 => ~Able(Candidate[3]))
        OBVIOUS
      <4>3. /\ NextCandidate(r) \in OpenRecords
            /\ \/ NextCandidate(r).at = "failed"
               \/ NextCandidate(r).at = "trying" /\ \E j \in 1..3 : Reached(j) /\ NextCandidate(r).left = From[j]
        BY <1>1, <2>1, <3>1, <4>2, NextHolds, Zenon
      <4> QED
        BY <3>1, <4>1, <4>3 DEF OpenerIs
    <3> QED
      BY <3>2, <3>3
  <2> QED
    BY <2>2, <2>3
<1> HIDE DEF e
<1>4. opener' \in [Openers -> OpenRecords] /\ \A o \in Openers : opener'[o] = e(o)
  BY <1>2, <1>3
<1>5. ASSUME NEW o \in Openers PROVE OpenerIs(opener[o], connections[o], loading)'
  BY <1>2, <1>3, <1>4 DEF OpenerIs, Reached, First, Able, DetectSqliteBackend
<1> QED
  BY <1>1, <1>2, <1>4, <1>5 DEF OpeningHolds

LEMMA OpenConnectionKeeps == ASSUME OpeningHolds, NEW o \in Openers, OpenConnection(o) PROVE OpeningHolds'
<1>1. /\ opener \in [Openers -> OpenRecords] /\ connections \in [Openers -> Nat] /\ loading \in {"none", "pending", "loaded"}
      /\ runtime \in Runtimes /\ OpenerIs(opener[o], connections[o], loading) /\ opener[o] \in OpenRecords
  BY DEF OpeningHolds
<1>2. opener[o].at = "module" /\ runtime' = runtime /\ loading' = loading
  BY DEF OpenConnection
<1>3. Reached(3) /\ opener[o].left = From[3] /\ connections[o] = 0
  BY <1>1, <1>2 DEF OpenerIs
<1>4. ASSUME opener' = [opener EXCEPT ![o].at = "pragmas"], connections' = [connections EXCEPT ![o] = @ + 1] PROVE OpeningHolds'
  <2> DEFINE e == [opener[o] EXCEPT !.at = "pragmas"]
  <2>1. opener' = [opener EXCEPT ![o] = e] /\ connections' = [connections EXCEPT ![o] = 1]
    BY <1>3, <1>1, <1>4
  <2>2. e \in OpenRecords /\ e.at = "pragmas" /\ e.left = From[3]
    BY <1>1, <1>3 DEF OpenRecords
  <2> HIDE DEF e
  <2>3. OpenerIs(e, 1, loading')
    BY <1>3, <2>2 DEF OpenerIs
  <2> QED
    BY <1>1, <1>2, <2>1, <2>2, <2>3, OpenerMoves
<1>5. ASSUME opener' = [opener EXCEPT ![o] = NextCandidate(@)], connections' = connections PROVE OpeningHolds'
  <2> DEFINE n == 0
  <2>1. connections' = [connections EXCEPT ![o] = n] /\ 3 \in 1..3 /\ (3 < 3 => ~Able(Candidate[3])) /\ n \in Nat /\ n = 0
    BY <1>1, <1>3, <1>5
  <2> HIDE DEF n
  <2> QED
    BY <1>2, <1>3, <1>5, <2>1, FailingKeeps
<1> QED
  BY <1>4, <1>5 DEF OpenConnection

LEMMA ApplyPragmasKeeps == ASSUME OpeningHolds, NEW o \in Openers, ApplyPragmas(o) PROVE OpeningHolds'
<1>1. /\ opener \in [Openers -> OpenRecords] /\ connections \in [Openers -> Nat] /\ loading \in {"none", "pending", "loaded"}
      /\ runtime \in Runtimes /\ OpenerIs(opener[o], connections[o], loading) /\ opener[o] \in OpenRecords
  BY DEF OpeningHolds
<1>2. opener[o].at = "pragmas" /\ runtime' = runtime /\ loading' = loading
  BY DEF ApplyPragmas
<1>3. Reached(3) /\ opener[o].left = From[3] /\ connections[o] = 1
  BY <1>1, <1>2 DEF OpenerIs
<1>4. ASSUME opener' = [opener EXCEPT ![o].at = "open", ![o].got = "wasm"], connections' = connections PROVE OpeningHolds'
  <2> DEFINE e == [opener[o] EXCEPT !.at = "open", !.got = "wasm"]
  <2>1. opener' = [opener EXCEPT ![o] = e] /\ connections' = [connections EXCEPT ![o] = 1]
    BY <1>1, <1>3, <1>4
  <2>2. e \in OpenRecords /\ e.at = "open" /\ e.got = Candidate[3] /\ 3 \in 1..3
    <3>1. Candidate[3] = "wasm"
      BY DEF Candidate
    <3>2. e \in OpenRecords /\ e.at = "open" /\ e.got = "wasm"
      BY <1>1 DEF OpenRecords, Backends
    <3> QED
      BY <3>1, <3>2
  <2> HIDE DEF e
  <2>3. OpenerIs(e, 1, loading')
    BY <1>3, <2>2 DEF OpenerIs
  <2> QED
    BY <1>1, <1>2, <2>1, <2>2, <2>3, OpenerMoves
<1>5. ASSUME opener' = [opener EXCEPT ![o] = NextCandidate(@)], connections' = ClosedAgain(o) PROVE OpeningHolds'
  <2> DEFINE n == IF runtime.closes THEN 0 ELSE 1
  <2>1. connections' = [connections EXCEPT ![o] = n]
    <3>1. CASE runtime.closes
      BY <1>3, <1>5, <3>1, <1>1 DEF ClosedAgain
    <3>2. CASE ~runtime.closes
      BY <1>1, <1>3, <1>5, <3>2 DEF ClosedAgain
    <3> QED
      BY <3>1, <3>2
  <2>2. n \in Nat /\ (n = 0 \/ (opener[o].at = "pragmas" /\ ~runtime.closes)) /\ 3 \in 1..3 /\ (3 < 3 => ~Able(Candidate[3]))
    BY <1>2
  <2> HIDE DEF n
  <2> QED
    BY <1>2, <1>3, <1>5, <2>1, <2>2, FailingKeeps
<1> QED
  BY <1>4, <1>5 DEF ApplyPragmas

\* The invariant of the host databases holds at first.
LEMMA HostStarts == HostInit => HostIInv
<1> SUFFICES ASSUME HostInit PROVE HostIInv
  OBVIOUS
<1>1. matter \in Matters /\ ValuesInit
  BY DEF HostInit
<1>2. ValueHolds
  <2>1. stored = Cell("none", "none", 0) /\ read = Unread
    BY <1>1 DEF ValuesInit
  <2>2. CASE matter = "values"
    BY <1>1, <2>2, <2>1 DEF ValuesInit, SentValues, ValueHolds
  <2>3. CASE matter = "floats"
    <3>1. PICK f \in {g \in Floats : Exists(g)} : sent = [value |-> f, tag |-> "float8", database |-> "postgres"]
      BY <1>1, <2>3 DEF ValuesInit
    <3>2. sent.value \in Floats /\ Exists(sent.value)
      BY <3>1
    <3> QED
      BY <2>1, <2>3, <3>2 DEF ValueHolds
  <2>4. CASE matter \notin {"values", "floats"}
    BY <2>1, <2>4 DEF ValueHolds
  <2> QED
    BY <2>2, <2>3, <2>4
<1>3. QueryHolds
  <2>1. SomeResult \in Results
    BY HostAssumption DEF SomeResult, Results
  <2>2. host \in Results
    BY <2>1 DEF HostInit
  <2>3. query = [at |-> "start", rows |-> 0]
    BY DEF HostInit
  <2>4. Sent(host) \in Nat
    BY <2>2, HostAssumption DEF Sent, Results
  <2> QED
    BY <2>2, <2>3, <2>4 DEF QueryHolds
<1>4. ErrorHolds
  BY DEF ErrorHolds, HostInit
<1>5. OpeningHolds
  <2>1. SomeRuntime \in Runtimes
    BY DEF SomeRuntime, Runtimes, Backends
  <2>2. runtime \in Runtimes /\ loading = "none" /\ opener = [o \in Openers |-> NoOpener] /\ connections = [o \in Openers |-> 0]
    BY <2>1 DEF HostInit
  <2>3. NoOpener \in OpenRecords /\ NoOpener.at = "idle"
    BY DEF NoOpener, OpenRecords
  <2>4. \A o \in Openers : OpenerIs(opener[o], connections[o], loading)
    BY <2>2, <2>3 DEF OpenerIs
  <2> QED
    BY <2>2, <2>3, <2>4 DEF OpeningHolds
<1>6. DirectoryHolds
  <2>1. CASE matter = "files"
    <3>1. PICK files \in [1..FileCount -> MigrationFiles], manifest \in SUBSET (1..FileCount), binding \in {"none", "b1"} :
            directory = [files |-> files, manifest |-> manifest, binding |-> binding]
      BY <2>1 DEF HostInit
    <3>2. directory.files = files /\ directory.manifest = manifest
      BY <3>1
    <3> QED
      BY <3>2 DEF DirectoryHolds
  <2>2. CASE matter # "files"
    BY <2>2 DEF DirectoryHolds
  <2> QED
    BY <2>1, <2>2
<1>7. MigrationsFound
  BY DEF HostInit, MigrationsFound
<1> QED
  BY <1>1, <1>2, <1>3, <1>4, <1>5, <1>6, <1>7 DEF HostIInv

\* What is not stepped is kept.
LEMMA ValueStays == ASSUME ValueHolds, matter' = matter, UNCHANGED valueVars PROVE ValueHolds'
BY DEF valueVars, ValueHolds

LEMMA OpeningStays == ASSUME OpeningHolds, UNCHANGED openVars PROVE OpeningHolds'
<1>1. UNCHANGED <<runtime, loading, moduleLoads, opener, connections>>
  BY DEF openVars
<1>2. ASSUME NEW o \in Openers PROVE OpenerIs(opener[o], connections[o], loading)'
  <2>1. OpenerIs(opener[o], connections[o], loading)
    BY DEF OpeningHolds
  <2> QED
    BY <1>1, <2>1 DEF OpenerIs, Reached, First, Able, DetectSqliteBackend
<1> QED
  BY <1>1, <1>2 DEF OpeningHolds

LEMMA FilesStay ==
  ASSUME DirectoryHolds, MigrationsFound, matter' = matter, UNCHANGED fileVars
  PROVE  DirectoryHolds' /\ MigrationsFound'
BY DEF fileVars, DirectoryHolds, MigrationsFound, Place

LEMMA QueryStays == ASSUME QueryHolds, UNCHANGED hostQueryVars PROVE QueryHolds'
BY DEF hostQueryVars, QueryHolds, Sent

LEMMA ErrorStays == ASSUME ErrorHolds, UNCHANGED errorVars PROVE ErrorHolds'
BY DEF errorVars, ErrorHolds, PostgresError, NestedString

\* Every step, and none.
LEMMA HostKept == HostIInv /\ [HostNext]_hostVars => HostIInv'
<1> SUFFICES ASSUME HostIInv, [HostNext]_hostVars PROVE HostIInv'
  OBVIOUS
<1> USE DEF HostIInv
<1>1. CASE UNCHANGED hostVars
  BY <1>1, ValueStays, QueryStays, ErrorStays, OpeningStays, FilesStay DEF hostVars
<1>2. ASSUME HostNext PROVE HostIInv'
  <2>1. matter' = matter
    BY <1>2 DEF HostNext
  <2>2. CASE matter = "values" /\ ValuesNext /\ UNCHANGED <<hostQueryVars, errorVars, openVars, fileVars>>
    BY <2>1, <2>2, ValueKeeps, QueryStays, ErrorStays, OpeningStays, FilesStay
  <2>3. CASE matter = "floats" /\ SendFloat /\ UNCHANGED <<hostQueryVars, errorVars, openVars, fileVars>>
    BY <2>1, <2>3, ValueKeeps, QueryStays, ErrorStays, OpeningStays, FilesStay
  <2>4. CASE matter = "query" /\ QueryNext /\ UNCHANGED <<valueVars, errorVars, openVars, fileVars>>
    BY <2>1, <2>4, ValueStays, QueryKeeps, ErrorStays, OpeningStays, FilesStay
  <2>5. CASE matter = "errors" /\ Normalise /\ UNCHANGED <<valueVars, hostQueryVars, openVars, fileVars>>
    <3>1. ErrorHolds'
      BY <2>5 DEF Normalise, ErrorHolds, PostgresError, NestedString
    <3> QED
      BY <2>1, <2>5, <3>1, ValueStays, QueryStays, OpeningStays, FilesStay
  <2>6. CASE matter = "opening" /\ OpenNext /\ UNCHANGED <<valueVars, hostQueryVars, errorVars, fileVars>>
    <3>1. OpeningHolds'
      <4>1. OpeningHolds /\ OpenNext
        BY <2>6
      <4> QED
        BY <4>1, OpenDatabaseKeeps, TryNativeKeeps, TryWasmKeeps, OpenConnectionKeeps, ApplyPragmasKeeps, ImportedKeeps DEF OpenNext
    <3> QED
      BY <2>1, <2>6, <3>1, ValueStays, QueryStays, ErrorStays, FilesStay
  <2>7. CASE matter = "files" /\ Discover /\ UNCHANGED <<valueVars, hostQueryVars, errorVars, openVars>>
    <3>1. DirectoryHolds'
      BY <2>7, <2>1 DEF Discover, DirectoryHolds
    <3> QED
      BY <2>1, <2>7, <3>1, DiscoverIs, ValueStays, QueryStays, ErrorStays, OpeningStays
  <2> QED
    BY <1>2, <2>2, <2>3, <2>4, <2>5, <2>6, <2>7 DEF HostNext
<1> QED
  BY <1>1, <1>2

\* A database is opened by the first backend that can.
LEMMA OpenedByFirst == OpeningHolds => OpenedOnce
<1> SUFFICES ASSUME OpeningHolds, NEW o \in Openers
    PROVE /\ opener[o].at = "open" =>
             /\ connections[o] = 1
             /\ \A i \in 1..Len(FallbackOrder(DetectSqliteBackend)) :
                  FallbackOrder(DetectSqliteBackend)[i] = opener[o].got =>
                    \A j \in 1..(i - 1) : FallbackOrder(DetectSqliteBackend)[j] \notin (runtime.registered \intersect runtime.works)
          /\ opener[o].at \in {"idle", "trying", "waiting", "module"} => connections[o] = 0
          /\ opener[o].at = "failed" => connections[o] = 0 \/ ~runtime.closes
          /\ opener[o].at = "waiting" => loading = "pending"
  BY DEF OpenedOnce
<1>1. OpenerIs(opener[o], connections[o], loading) /\ runtime \in Runtimes
  BY DEF OpeningHolds
<1>2. /\ First \in 1..3 /\ FallbackOrder(DetectSqliteBackend) = From[First] /\ Len(From[First]) = 4 - First
      /\ \A i \in 1..Len(From[First]) : From[First][i] = Candidate[First + i - 1]
      /\ \A j, k \in 1..3 : Candidate[j] = Candidate[k] => j = k
  BY <1>1, BackendsAre, FromIs
<1>3. ASSUME opener[o].at = "open", NEW i \in 1..Len(From[First]), From[First][i] = opener[o].got, NEW j \in 1..(i - 1)
      PROVE  From[First][j] \notin (runtime.registered \intersect runtime.works)
  <2>1. PICK k \in 1..3 : Reached(k) /\ opener[o].got = Candidate[k]
    BY <1>1, <1>3 DEF OpenerIs
  <2>2. First + i - 1 \in 1..3 /\ From[First][i] = Candidate[First + i - 1]
    BY <1>2
  <2>3. k = First + i - 1
    BY <1>2, <1>3, <2>1, <2>2
  <2>4. j \in 1..Len(From[First]) /\ First + j - 1 \in First..(k - 1)
    BY <1>2, <2>3
  <2>5. ~Able(Candidate[First + j - 1])
    BY <2>1, <2>4 DEF Reached
  <2> QED
    BY <1>2, <2>4, <2>5 DEF Able
<1>4. opener[o].at = "open" => connections[o] = 1
  BY <1>1 DEF OpenerIs
<1>5. /\ opener[o].at \in {"idle", "trying", "waiting", "module"} => connections[o] = 0
      /\ opener[o].at = "failed" => connections[o] = 0 \/ ~runtime.closes
      /\ opener[o].at = "waiting" => loading = "pending"
  BY <1>1 DEF OpenerIs
<1> QED
  BY <1>2, <1>3, <1>4, <1>5

\* What the invariant says of the properties of the host databases.
LEMMA HostsAreRight ==
  HostIInv => ValuesSurvive /\ FloatsSurvive /\ RowsWhole /\ DuplicatesTold /\ OpenedOnce /\ MigrationsFound
<1> SUFFICES ASSUME HostIInv PROVE ValuesSurvive /\ FloatsSurvive /\ RowsWhole /\ DuplicatesTold /\ OpenedOnce /\ MigrationsFound
  OBVIOUS
<1>1. matter \in Matters /\ ValueHolds /\ QueryHolds /\ ErrorHolds /\ OpeningHolds /\ MigrationsFound
  BY DEF HostIInv
<1>2. ValuesSurvive
  BY <1>1 DEF ValueHolds, Unread, ValuesSurvive, Survives
<1>3. FloatsSurvive
  <2>1. ASSUME read.form = "float"
        PROVE  sent.value \in Floats /\ Exists(sent.value) /\ read.of = HashableF64Number(HashableF64(sent.value))
    BY <1>1, <2>1 DEF ValueHolds, Unread
  <2> QED
    BY <2>1, FloatsRead DEF FloatsSurvive
<1>4. RowsWhole
  BY <1>1, HostAssumption DEF RowsWhole, QueryHolds, Sent
<1>5. DuplicatesTold
  BY <1>1 DEF DuplicatesTold, ErrorHolds, PostgresError, NestedString, IsUniqueViolation
<1> QED
  BY <1>1, <1>2, <1>3, <1>4, <1>5, OpenedByFirst

(***************************************************************************)
(* Repositories.                                                           *)
(***************************************************************************)

\* What the repositories keep: types; who waits for, and who is in, a transaction; and what
\* swaps have made of the entities nobody else wrote.
Ages == {Absent, Null} \union Nat
InTransaction == {"begun", "read", "written", "leaving", "throwing"}
SwapRecords == [pc : {"idle", "queued", "done", "abandoned", "failed"} \union InTransaction, entity : Entities,
                mode : {"add", "throw"}, current : Ages]

RepoTypes ==
  /\ store \in {"memory", "sql"} /\ meant \in Asked \union Deletions
  /\ rows \in [Entities -> Ages] /\ earlier \in [Entities -> Ages]
  /\ ledger.created \in Int /\ ledger.reported \in Int /\ ledger = [created |-> ledger.created, reported |-> ledger.reported]
  /\ lookup.pc \in {"idle", "called", "deleting", "done"} /\ lookup.count \in Int
  /\ lookup = [pc |-> lookup.pc, todo |-> lookup.todo, count |-> lookup.count, plans |-> lookup.plans]
  /\ lookup.pc = "deleting" => lookup.todo \in Seq(Entities) /\ lookup.todo # << >>
  /\ swaps \in [Swappers -> SwapRecords] /\ adapterOf \in [Swappers -> {1, 2}]
  /\ lockChain \in [{1, 2} -> Seq(Swappers)] /\ txOf \in Swappers \union {NoSwapper}
  /\ touched.entities \subseteq Entities /\ touched.rolledBack \in BOOLEAN
  /\ touched = [entities |-> touched.entities, rolledBack |-> touched.rolledBack]

Waits(s) == \E i \in 1..Len(lockChain[adapterOf[s]]) : lockChain[adapterOf[s]][i] = s
ChainsHold ==
  /\ \A s \in Swappers : /\ swaps[s].pc \in InTransaction <=> txOf = s
                         /\ swaps[s].pc = "queued" => Waits(s)
                         /\ swaps[s].pc = "queued" \/ txOf = s => store = "sql"
  /\ txOf # NoSwapper => lockChain[adapterOf[txOf]] # << >> /\ Head(lockChain[adapterOf[txOf]]) = txOf

DoneFor(e) == {s \in Swappers : swaps[s].pc = "done" /\ swaps[s].entity = e}
Owed(e) == IF e = 2 THEN Null ELSE e + Cardinality(DoneFor(e))
Swapped(e) ==
  IF txOf = NoSwapper THEN rows[e] = Owed(e)
  ELSE /\ earlier[e] = Owed(e)
       /\ rows[e] = IF swaps[txOf].pc = "written" /\ swaps[txOf].entity = e THEN Owed(e) + 1 ELSE Owed(e)
       /\ swaps[txOf].pc = "written" /\ swaps[txOf].entity = e => e # 2
       /\ swaps[txOf].pc = "read" /\ swaps[txOf].entity = e => swaps[txOf].current = rows[e]
SwapsHold == \A e \in Entities \ touched.entities : Swapped(e)

RepoIInv == RepoTypes /\ ChainsHold /\ SwapsHold /\ RemovalsAddUp

There == {e \in Entities : rows[e] # Absent}

-----------------------------------------------------------------------------
LEMMA EntitiesAre == EntityCount \in Nat /\ 1 \in Entities /\ 2 \in Entities /\ IsFiniteSet(Entities) /\ Cardinality(Entities) = EntityCount
<1>1. EntityCount \in Nat /\ EntityCount >= 2
  BY RepoAssumption
<1>2. IsFiniteSet(1..EntityCount) /\ Cardinality(1..EntityCount) = EntityCount
  BY <1>1, FS_Interval
<1> QED
  BY <1>1, <1>2 DEF Entities

\* How many entities there are after one was written.
LEMMA OneWritten ==
  ASSUME rows \in [Entities -> Ages], NEW e \in Entities, NEW age \in Ages, rows' = [rows EXCEPT ![e] = age]
  PROVE  /\ Cardinality(There) \in Nat
         /\ Cardinality(There)' = IF age # Absent /\ rows[e] = Absent THEN Cardinality(There) + 1
                                  ELSE IF age = Absent /\ rows[e] # Absent THEN Cardinality(There) - 1 ELSE Cardinality(There)
         /\ rows' \in [Entities -> Ages]
<1>1. There \in SUBSET Entities /\ IsFiniteSet(There) /\ Cardinality(There) \in Nat
  BY EntitiesAre, FS_Subset, FS_CardinalityType DEF There
<1>2. Cardinality(There)' = Cardinality(There')
  OBVIOUS
<1>3. There' = IF age # Absent THEN There \union {e} ELSE There \ {e}
  BY DEF There
<1>4. e \in There <=> rows[e] # Absent
  BY DEF There
<1>5. CASE age # Absent
  BY <1>1, FS_AddElement, <1>2, <1>3, <1>4, <1>5
<1>6. CASE age = Absent
  BY <1>1, FS_RemoveElement, <1>2, <1>3, <1>4, <1>6
<1> QED
  BY <1>5, <1>6

\* What swaps are due after one of them took a step, and after one was done.
LEMMA OwedStays ==
  ASSUME swaps \in [Swappers -> SwapRecords], NEW s \in Swappers, NEW r \in SwapRecords, swaps' = [swaps EXCEPT ![s] = r],
         swaps[s].pc # "done", r.pc # "done"
  PROVE  \A e : Owed(e)' = Owed(e)
<1> TAKE e
<1>1. DoneFor(e)' = DoneFor(e)
  BY DEF DoneFor
<1> QED
  BY <1>1 DEF Owed

LEMMA OwedGrows ==
  ASSUME swaps \in [Swappers -> SwapRecords], NEW s \in Swappers, NEW r \in SwapRecords, swaps' = [swaps EXCEPT ![s] = r],
         swaps[s].pc # "done", r.pc = "done"
  PROVE  \A e \in Entities : Owed(e)' = IF e # 2 /\ r.entity = e THEN Owed(e) + 1 ELSE Owed(e)
<1> TAKE e \in Entities
<1>1. CASE r.entity = e
  <2>1. DoneFor(e)' = DoneFor(e) \union {s} /\ s \notin DoneFor(e) /\ DoneFor(e) \in SUBSET Swappers
    BY <1>1 DEF DoneFor
  <2>2. IsFiniteSet(DoneFor(e)) /\ Cardinality(DoneFor(e)) \in Nat
    BY <2>1, RepoAssumption, FS_Subset, FS_CardinalityType
  <2>3. Cardinality(DoneFor(e) \union {s}) = Cardinality(DoneFor(e)) + 1
    BY <2>1, <2>2, FS_AddElement
  <2>4. Cardinality(DoneFor(e))' = Cardinality(DoneFor(e)) + 1
    BY <2>1, <2>3
  <2>5. e \in Int
    BY RepoAssumption DEF Entities
  <2> QED
    BY <1>1, <2>2, <2>4, <2>5 DEF Owed
<1>2. CASE r.entity # e
  BY <1>2 DEF DoneFor, Owed
<1> QED
  BY <1>1, <1>2

\* The types of one swap's step.
LEMMA SwapTyped ==
  ASSUME swaps \in [Swappers -> SwapRecords], NEW s \in Swappers, NEW r \in SwapRecords, swaps' = [swaps EXCEPT ![s] = r]
  PROVE  swaps' \in [Swappers -> SwapRecords] /\ swaps'[s] = r /\ \A t \in Swappers \ {s} : swaps'[t] = swaps[t]
  OBVIOUS

LEMMA PcTyped ==
  ASSUME swaps \in [Swappers -> SwapRecords], NEW s \in Swappers, NEW pc, SwapStep(s, pc),
         pc \in {"idle", "queued", "done", "abandoned", "failed"} \union InTransaction
  PROVE  \E r \in SwapRecords : /\ swaps' = [swaps EXCEPT ![s] = r]
                                /\ r.pc = pc /\ r.entity = swaps[s].entity /\ r.mode = swaps[s].mode /\ r.current = swaps[s].current
<1> DEFINE r == [swaps[s] EXCEPT !.pc = pc]
<1>1. swaps[s] \in SwapRecords
  OBVIOUS
<1>2. swaps' = [swaps EXCEPT ![s] = r]
  BY DEF SwapStep
<1>3. r \in SwapRecords /\ r.pc = pc /\ r.entity = swaps[s].entity /\ r.mode = swaps[s].mode /\ r.current = swaps[s].current
  BY <1>1 DEF SwapRecords
<1> QED
  BY <1>2, <1>3

-----------------------------------------------------------------------------
\* What is sorted for a delete: every row that was selected, once.
ByAge == [property |-> Age, direction |-> "Desc"]

LEMMA RowsOrdered ==
  ASSUME NEW orderBy, orderBy = << >> \/ orderBy = <<ByAge>>, NEW S \in SUBSET Entities,
         \A e \in S : rows[e] \in {Null} \union Nat
  PROVE  \A a, b \in S :
           RowBefore(orderBy, a, b) <=>
             IF orderBy = << >> \/ rows[a] = rows[b] THEN a < b
             ELSE rows[a] = Null \/ (rows[b] # Null /\ rows[a] > rows[b])
<1> SUFFICES ASSUME NEW a \in S, NEW b \in S
    PROVE RowBefore(orderBy, a, b) <=>
             IF orderBy = << >> \/ rows[a] = rows[b] THEN a < b
             ELSE rows[a] = Null \/ (rows[b] # Null /\ rows[a] > rows[b])
  OBVIOUS
<1>1. CASE orderBy = << >>
  BY <1>1 DEF RowBefore
<1>2. CASE orderBy = <<ByAge>>
  <2>1. DOMAIN orderBy = {1} /\ orderBy[1] = ByAge /\ orderBy # << >>
    BY <1>2
  <2>2. rows[a] \in {Null} \union Nat /\ rows[b] \in {Null} \union Nat
    OBVIOUS
  <2> DEFINE c == Compare(rows[a], rows[b])
  <2>3. /\ c \in Int /\ (c = 0 <=> rows[a] = rows[b])
        /\ rows[a] # rows[b] => (-c < 0 <=> rows[a] = Null \/ (rows[b] # Null /\ rows[a] > rows[b]))
    BY <2>2 DEF Compare, Null
  <2>4. CompareBy(ByAge, a, b) = -c
    BY DEF CompareBy, ByAge, Field
  <2> HIDE DEF c
  <2> DEFINE parts == {k \in DOMAIN orderBy : CompareBy(orderBy[k], a, b) # 0}
  <2>5. RowBefore(orderBy, a, b) <=> IF parts = {} THEN a < b ELSE CompareBy(orderBy[FirstPlace(parts)], a, b) < 0
    BY DEF RowBefore
  <2>6. CASE rows[a] = rows[b]
    BY <2>1, <2>3, <2>4, <2>6, <2>5
  <2>7. CASE rows[a] # rows[b]
    <3>1. -c # 0
      BY <2>3, <2>7
    <3>2. parts = {1}
      BY <2>1, <2>4, <3>1
    <3>3. FirstPlace({1}) = 1
      BY DEF FirstPlace
    <3> HIDE DEF parts
    <3>4. RowBefore(orderBy, a, b) <=> -c < 0
      BY <2>1, <2>4, <2>5, <3>2, <3>3
    <3> QED
      BY <2>1, <2>3, <2>7, <3>4
  <2> QED
    BY <2>6, <2>7
<1> QED
  BY <1>1, <1>2

LEMMA SortedRowsAre ==
  ASSUME NEW orderBy, orderBy = << >> \/ orderBy = <<ByAge>>, NEW S \in SUBSET Entities,
         \A e \in S : rows[e] \in {Null} \union Nat
  PROVE  SortedRows(S, orderBy) \in Seq(Entities)
<1> DEFINE N == Cardinality(S)
           under(e) == {d \in S : RowBefore(orderBy, d, e)}
           below == [e \in S |-> under(e)]
           at(n) == CHOOSE e \in S : Cardinality(under(e)) = n - 1
<1>1. \A e \in S : e \in Int /\ rows[e] \in Int
  BY RepoAssumption DEF Entities, Null
<1>2. \A a, b \in S : a \in under(b) <=>
             IF orderBy = << >> \/ rows[a] = rows[b] THEN a < b
             ELSE rows[a] = Null \/ (rows[b] # Null /\ rows[a] > rows[b])
  BY RowsOrdered
<1>3. below \in [S -> SUBSET S] /\ \A e \in S : below[e] = under(e) /\ under(e) \subseteq S
  OBVIOUS
<1> HIDE DEF under, below
<1>4. \A a \in S : a \notin below[a]
  BY <1>1, <1>2, <1>3
<1>5. \A a, b \in S : a \in below[b] => below[a] \subseteq below[b]
  BY <1>3, <1>1, <1>2
<1>6. \A a, b \in S : a = b \/ a \in below[b] \/ b \in below[a]
  BY <1>3, <1>1, <1>2
<1>7. IsFiniteSet(S)
  BY EntitiesAre, FS_Subset
<1>8. N \in Nat /\ \A n \in 0..(N - 1) : \E e \in S : Cardinality(under(e)) = n
  <2>1. N \in Nat /\ \A n \in 0..(N - 1) : \E e \in S : Cardinality(below[e]) = n
    BY <1>3, <1>4, <1>5, <1>6, <1>7, RanksFill
  <2> HIDE DEF N
  <2> QED
    BY <1>3, <2>1
<1> HIDE DEF N
<1>9. \A n \in 1..N : at(n) \in S
  <2> TAKE n \in 1..N
  <2>1. n - 1 \in 0..(N - 1)
    BY <1>8
  <2>2. \E e \in S : Cardinality(under(e)) = n - 1
    BY <1>8, <2>1
  <2> QED
    BY <2>2
<1>10. SortedRows(S, orderBy) = [n \in 1..N |-> at(n)]
  BY DEF SortedRows, under, N
<1> HIDE DEF at
<1>11. SortedRows(S, orderBy) \in [1..N -> Entities]
  BY <1>9, <1>10
<1> QED
  BY <1>8, <1>11

\* The queries that delete, and the order they ask for.
LEMMA DeletionsAre ==
  ASSUME NEW q \in Asked \union Deletions, q.subject = "delete"
  PROVE  (q.orderBy = << >> \/ q.orderBy = <<ByAge>>) /\ q.limit \in Nat
<1>1. \A subject, limit, predicate, orderBy :
        LET x == Query(subject, limit, predicate, orderBy) IN x.subject = subject /\ x.limit = limit /\ x.orderBy = orderBy
  BY DEF Query
<1>2. ASSUME q \in Asked PROVE FALSE
  <2>1. \E subject \in {"query", "exists", "count"} : \E limit, predicate, orderBy : q = Query(subject, limit, predicate, orderBy)
    <3> DEFINE A == {Query("query", l, Sole(c, i), o) : l \in 0..2, c \in Conditions, i \in BOOLEAN, o \in Orders}
               B == {Query("query", l, Predicate(<< >>, << >>), o) : l \in 0..2, o \in Orders \ {<< >>}}
               C == {Query(s, 0, Joined(c, by, d), << >>) : s \in {"exists", "count"}, c \in Conditions, d \in Few, by \in {"And", "Or"}}
    <3>1. q \in A \/ q \in B \/ q \in C
      <4>1. Asked = A \union B \union C
        BY DEF Asked
      <4> HIDE DEF A, B, C
      <4> QED
        BY <1>2, <4>1
    <3>2. CASE q \in A
      BY <3>2
    <3>3. CASE q \in B
      BY <3>3
    <3>4. CASE q \in C
      BY <3>4
    <3> HIDE DEF A, B, C
    <3> QED
      BY <3>1, <3>2, <3>3, <3>4
  <2> QED
    BY <1>1, <2>1
<1>3. ASSUME q \in Deletions PROVE (q.orderBy = << >> \/ q.orderBy = <<ByAge>>) /\ q.limit \in Nat
  BY <1>3, <1>1 DEF Deletions, ByAge
<1> QED
  BY <1>2, <1>3

-----------------------------------------------------------------------------
\* What a step leaves alone.
LEMMA ChainsStay ==
  ASSUME ChainsHold, UNCHANGED <<store, swaps, adapterOf, lockChain, txOf>>
  PROVE  ChainsHold'
  BY DEF ChainsHold, Waits

LEMMA SwapsStay ==
  ASSUME SwapsHold, UNCHANGED <<swaps, txOf, earlier>>, touched.entities \subseteq touched'.entities,
         \A e \in Entities \ touched'.entities : rows'[e] = rows[e]
  PROVE  SwapsHold'
<1>1. ASSUME NEW e \in Entities \ touched'.entities PROVE Swapped(e)'
  BY DEF SwapsHold, Owed, DoneFor, Swapped
<1> QED
  BY <1>1 DEF SwapsHold

LEMMA RemovalsStay ==
  ASSUME RemovalsAddUp, rows' = rows, ledger' = ledger, lookup'.count = lookup.count, touched'.rolledBack = touched.rolledBack
  PROVE  RemovalsAddUp'
  BY DEF RemovalsAddUp

\* The derived call.
LEMMA LookupKeeps == ASSUME RepoIInv, Call PROVE RepoIInv'
BY ChainsStay, SwapsStay, RemovalsStay DEF Call, RepoIInv, RepoTypes

LEMMA ReadMatchingKeeps == ASSUME RepoIInv, SpelledAsMeant, ReadMatching PROVE RepoIInv'
<1>1. UNCHANGED <<store, rows, meant, writes, ledger, swaps, adapterOf, lockChain, txOf, earlier, touched>>
  BY DEF ReadMatching
<1> DEFINE S(plan) == {e \in Entities : rows[e] # Absent /\ RowMatches(e, plan.predicate)}
           selected(plan) == SortedRows(S(plan), plan.orderBy)
           matched(plan) == IF plan.limit = 0 THEN selected(plan)
                            ELSE SubSeq(selected(plan), 1, IF plan.limit < Len(selected(plan)) THEN plan.limit ELSE Len(selected(plan)))
<1>2. PICK plan \in lookup.plans :
        lookup' = [lookup EXCEPT !.pc = IF plan.subject = "delete" /\ matched(plan) # << >> THEN "deleting" ELSE "done",
                                 !.todo = matched(plan)]
  BY DEF ReadMatching
<1>3. plan = meant
  BY DEF SpelledAsMeant
<1>4. plan \in Asked \union Deletions /\ rows \in [Entities -> Ages]
  BY <1>3 DEF RepoIInv, RepoTypes
<1>5. ASSUME plan.subject = "delete" PROVE matched(plan) \in Seq(Entities)
  <2>1. (plan.orderBy = << >> \/ plan.orderBy = <<ByAge>>) /\ plan.limit \in Nat
    BY <1>4, <1>5, DeletionsAre
  <2>2. S(plan) \in SUBSET Entities
    OBVIOUS
  <2>3. \A e \in S(plan) : rows[e] \in {Null} \union Nat
    BY <1>4 DEF Ages
  <2> DEFINE s == selected(plan)
             X == S(plan)
  <2> HIDE DEF S
  <2>4. s \in Seq(Entities)
    BY <2>1, <2>2, <2>3, SortedRowsAre
  <2>5. matched(plan) = IF plan.limit = 0 THEN s ELSE SubSeq(s, 1, IF plan.limit < Len(s) THEN plan.limit ELSE Len(s))
    OBVIOUS
  <2> HIDE DEF s, selected, matched
  <2> QED
    BY <2>1, <2>4, <2>5
<1> HIDE DEF matched
<1>6. /\ lookup'.pc = "done" \/ (lookup'.pc = "deleting" /\ lookup'.todo \in Seq(Entities) /\ lookup'.todo # << >>)
      /\ lookup'.count = lookup.count
      /\ lookup' = [pc |-> lookup'.pc, todo |-> lookup'.todo, count |-> lookup'.count, plans |-> lookup'.plans]
  <2>1. lookup = [pc |-> lookup.pc, todo |-> lookup.todo, count |-> lookup.count, plans |-> lookup.plans]
    BY DEF RepoIInv, RepoTypes
  <2> DEFINE m == matched(plan)
  <2> HIDE DEF m
  <2>2. CASE plan.subject = "delete" /\ m # << >>
    BY <1>2, <2>2, <1>5, <2>1 DEF m
  <2>3. CASE ~(plan.subject = "delete" /\ m # << >>)
    BY <1>2, <2>3, <2>1 DEF m
  <2> QED
    BY <2>2, <2>3
<1>7. RepoTypes'
  BY <1>1, <1>6 DEF RepoIInv, RepoTypes
<1> QED
  BY <1>1, <1>6, <1>7, ChainsStay, SwapsStay, RemovalsStay DEF RepoIInv

LEMMA DeleteOneKeeps == ASSUME RepoIInv, DeleteOne PROVE RepoIInv'
<1> DEFINE e == Head(lookup.todo)
<1>1. /\ UNCHANGED <<store, meant, writes, ledger, swaps, adapterOf, lockChain, txOf, earlier>>
      /\ rows' = [rows EXCEPT ![e] = Absent] /\ touched' = [touched EXCEPT !.entities = @ \union {e}]
      /\ lookup.pc = "deleting"
      /\ lookup' = [lookup EXCEPT !.todo = Tail(@), !.count = Counted(e, @), !.pc = IF Len(lookup.todo) = 1 THEN "done" ELSE "deleting"]
  BY DEF DeleteOne
<1>2. lookup.todo \in Seq(Entities) /\ lookup.todo # << >> /\ rows \in [Entities -> Ages] /\ lookup.count \in Int
      /\ touched.entities \subseteq Entities /\ touched.rolledBack \in BOOLEAN
      /\ touched = [entities |-> touched.entities, rolledBack |-> touched.rolledBack]
      /\ lookup = [pc |-> lookup.pc, todo |-> lookup.todo, count |-> lookup.count, plans |-> lookup.plans]
      /\ ledger.created \in Int /\ ledger.reported \in Int
  BY <1>1 DEF RepoIInv, RepoTypes
<1>3. e \in Entities /\ Tail(lookup.todo) \in Seq(Entities) /\ Len(lookup.todo) \in Nat
      /\ (Len(lookup.todo) # 1 => Tail(lookup.todo) # << >>)
  <2> DEFINE t == lookup.todo
  <2>1. t \in Seq(Entities) /\ t # << >>
    BY <1>2
  <2> HIDE DEF t
  <2>2. Head(t) \in Entities /\ Tail(t) \in Seq(Entities) /\ Len(t) \in Nat /\ Len(t) # 0 /\ Len(Tail(t)) = Len(t) - 1
    BY <2>1, HeadTailProperties, LenProperties, EmptySeq
  <2>3. Len(t) # 1 => Tail(t) # << >>
    <3>1. Len(t) # 1 => Len(Tail(t)) # 0
      BY <2>2
    <3> QED
      BY <3>1
  <2> QED
    BY <2>2, <2>3 DEF t
<1>4. /\ Cardinality(There) \in Nat /\ rows' \in [Entities -> Ages]
      /\ Cardinality(There)' = IF rows[e] # Absent THEN Cardinality(There) - 1 ELSE Cardinality(There)
  <2>1. Absent \in Ages
    BY DEF Ages
  <2> HIDE DEF e
  <2> QED
    BY <1>1, <1>2, <1>3, <2>1, OneWritten
<1> DEFINE n == Counted(e, lookup.count)
<1>5. n = (IF rows[e] # Absent THEN lookup.count + 1 ELSE lookup.count) /\ n \in Int
  BY <1>2 DEF Counted
<1> DEFINE pc == IF Len(lookup.todo) = 1 THEN "done" ELSE "deleting"
<1>6. lookup'.todo = Tail(lookup.todo) /\ lookup'.count = n /\ lookup'.pc = pc
      /\ lookup' = [pc |-> lookup'.pc, todo |-> lookup'.todo, count |-> lookup'.count, plans |-> lookup'.plans]
  BY <1>1, <1>2
<1>7. touched'.entities = touched.entities \union {e} /\ touched'.rolledBack = touched.rolledBack
      /\ touched' = [entities |-> touched'.entities, rolledBack |-> touched'.rolledBack]
  BY <1>1, <1>2
<1> HIDE DEF n, e
<1>8. RemovalsAddUp'
  BY <1>2, <1>4, <1>5, <1>7, <1>1, <1>6 DEF RepoIInv, RemovalsAddUp, There
<1>9. RepoTypes'
  BY <1>3, <1>6, <1>1, <1>4, <1>5, <1>7 DEF RepoIInv, RepoTypes
<1>10. \A x \in Entities \ touched'.entities : rows'[x] = rows[x]
  BY <1>1, <1>2, <1>7
<1> QED
  BY <1>1, <1>7, <1>8, <1>9, <1>10, ChainsStay, SwapsStay DEF RepoIInv

\* What others write. An entity they touched is no longer one that only swaps write.
LEMMA WritingKeeps ==
  ASSUME RepoIInv, NEW e \in Entities, NEW age \in Ages, Writing(e), rows' = [rows EXCEPT ![e] = age],
         ledger'.created \in Int, ledger'.reported \in Int, ledger' = [created |-> ledger'.created, reported |-> ledger'.reported],
         ledger'.created = (IF rows[e] = Absent /\ age # Absent THEN ledger.created + 1 ELSE ledger.created),
         ledger'.reported = IF rows[e] # Absent /\ age = Absent THEN ledger.reported + 1 ELSE ledger.reported
  PROVE  RepoIInv'
<1>1. UNCHANGED <<store, meant, lookup, swaps, adapterOf, lockChain, txOf, earlier>>
      /\ touched' = [touched EXCEPT !.entities = @ \union {e}]
  BY DEF Writing
<1>2. /\ touched.entities \subseteq Entities /\ touched.rolledBack \in BOOLEAN
      /\ touched = [entities |-> touched.entities, rolledBack |-> touched.rolledBack]
      /\ rows \in [Entities -> Ages] /\ lookup.count \in Int /\ ledger.created \in Int /\ ledger.reported \in Int
  BY DEF RepoIInv, RepoTypes
<1>3. touched'.entities = touched.entities \union {e} /\ touched'.rolledBack = touched.rolledBack
      /\ touched' = [entities |-> touched'.entities, rolledBack |-> touched'.rolledBack]
  BY <1>1, <1>2
<1>4. /\ Cardinality(There) \in Nat /\ rows' \in [Entities -> Ages]
      /\ Cardinality(There)' = IF age # Absent /\ rows[e] = Absent THEN Cardinality(There) + 1
                               ELSE IF age = Absent /\ rows[e] # Absent THEN Cardinality(There) - 1 ELSE Cardinality(There)
  BY <1>2, OneWritten
<1>5. RemovalsAddUp'
  BY <1>2, <1>3, <1>4, <1>1 DEF RepoIInv, RemovalsAddUp, There
<1>6. RepoTypes'
  BY <1>1, <1>2, <1>3, <1>4 DEF RepoIInv, RepoTypes
<1>7. \A x \in Entities \ touched'.entities : rows'[x] = rows[x]
  BY <1>2, <1>3
<1> QED
  BY <1>1, <1>3, <1>5, <1>6, <1>7, ChainsStay, SwapsStay DEF RepoIInv

LEMMA CreatedIs ==
  ASSUME RepoIInv, NEW e \in Entities, NEW l, l = Created(e)
  PROVE  /\ l.created \in Int /\ l.reported = ledger.reported /\ l = [created |-> l.created, reported |-> l.reported]
         /\ l.created = IF rows[e] = Absent THEN ledger.created + 1 ELSE ledger.created
<1>1. ledger.created \in Int /\ ledger = [created |-> ledger.created, reported |-> ledger.reported]
  BY DEF RepoIInv, RepoTypes
<1>2. CASE rows[e] = Absent
  BY <1>2, <1>1 DEF Created
<1>3. CASE rows[e] # Absent
  BY <1>1, <1>3 DEF Created
<1> QED
  BY <1>2, <1>3

LEMMA SaveKeeps == ASSUME RepoIInv, NEW e \in Entities, Save(e, 1) PROVE RepoIInv'
<1>1. Writing(e) /\ rows' = [rows EXCEPT ![e] = 1] /\ ledger' = Created(e)
  BY DEF Save
<1>2. /\ ledger'.created \in Int /\ ledger'.reported = ledger.reported
      /\ ledger' = [created |-> ledger'.created, reported |-> ledger'.reported]
      /\ ledger'.created = IF rows[e] = Absent THEN ledger.created + 1 ELSE ledger.created
  BY <1>1, CreatedIs
<1>3. 1 \in Ages /\ 1 # Absent
  BY DEF Ages, Absent
<1>4. ledger.reported \in Int
  BY DEF RepoIInv, RepoTypes
<1> DEFINE age == 1
<1>5. age \in Ages /\ age # Absent /\ rows' = [rows EXCEPT ![e] = age]
  BY <1>1, <1>3
<1> HIDE DEF age
<1> QED
  BY <1>1, <1>2, <1>4, <1>5, WritingKeeps

LEMMA SaveIfAbsentKeeps == ASSUME RepoIInv, NEW e \in Entities, SaveIfAbsent(e) PROVE RepoIInv'
<1> DEFINE age == IF rows[e] = Absent THEN 0 ELSE rows[e]
<1>1. Writing(e) /\ rows' = [rows EXCEPT ![e] = age] /\ ledger' = Created(e)
  BY DEF SaveIfAbsent
<1>2. /\ ledger'.created \in Int /\ ledger'.reported = ledger.reported
      /\ ledger' = [created |-> ledger'.created, reported |-> ledger'.reported]
      /\ ledger'.created = IF rows[e] = Absent THEN ledger.created + 1 ELSE ledger.created
  BY <1>1, CreatedIs
<1>3. ledger.reported \in Int /\ rows[e] \in Ages
  BY DEF RepoIInv, RepoTypes
<1>4. age \in Ages /\ age # Absent
  BY <1>3 DEF Ages, Absent
<1> HIDE DEF age
<1> QED
  BY <1>1, <1>2, <1>3, <1>4, WritingKeeps

LEMMA DeleteKeeps == ASSUME RepoIInv, NEW e \in Entities, Delete(e) PROVE RepoIInv'
<1>1. Writing(e) /\ rows' = [rows EXCEPT ![e] = Absent] /\ ledger' = [ledger EXCEPT !.reported = Counted(e, @)]
  BY DEF Delete
<1>2. ledger.created \in Int /\ ledger.reported \in Int /\ ledger = [created |-> ledger.created, reported |-> ledger.reported]
  BY DEF RepoIInv, RepoTypes
<1>3. Counted(e, ledger.reported) = (IF rows[e] # Absent THEN ledger.reported + 1 ELSE ledger.reported)
  BY DEF Counted
<1>4. /\ ledger'.created = ledger.created /\ ledger'.reported = Counted(e, ledger.reported)
      /\ ledger' = [created |-> ledger'.created, reported |-> ledger'.reported]
  BY <1>1, <1>2
<1> DEFINE age == Absent
<1>5. age \in Ages /\ age = Absent /\ rows' = [rows EXCEPT ![e] = age]
  BY <1>1 DEF Ages
<1> HIDE DEF age
<1>6. ledger'.created \in Int /\ ledger'.reported \in Int
  BY <1>2, <1>3, <1>4
<1> QED
  BY <1>1, <1>2, <1>3, <1>4, <1>5, <1>6, WritingKeeps

-----------------------------------------------------------------------------
\* The steps of a swap.
LEMMA SwapInMemoryKeeps ==
  ASSUME RepoIInv, NEW s \in Swappers, NEW e \in {1, 2}, NEW mode \in {"add", "throw"}, SwapInMemory(s, e, mode)
  PROVE  RepoIInv'
<1> DEFINE next == Mutated(rows[e], mode)
           pc == IF mode = "throw" THEN "failed" ELSE IF next = Absent THEN "abandoned" ELSE "done"
           r == [swaps[s] EXCEPT !.entity = e, !.pc = pc]
<1>1. /\ store = "memory" /\ swaps[s].pc = "idle" /\ swaps' = [swaps EXCEPT ![s] = r]
      /\ rows' = IF next = Absent THEN rows ELSE [rows EXCEPT ![e] = next]
      /\ UNCHANGED <<store, meant, lookup, writes, ledger, adapterOf, lockChain, txOf, earlier, touched>>
  BY DEF SwapInMemory
<1>2. /\ swaps \in [Swappers -> SwapRecords] /\ rows \in [Entities -> Ages]
      /\ e \in Entities /\ lookup.count \in Int /\ ledger.created \in Int /\ ledger.reported \in Int
  BY EntitiesAre DEF RepoIInv, RepoTypes
<1>3. txOf = NoSwapper
  BY <1>1 DEF RepoIInv, ChainsHold, RepoTypes
<1>4. /\ next # Absent => mode = "add" /\ rows[e] \in Nat /\ next = rows[e] + 1
      /\ next \in Ages /\ (next # Absent => next \in Nat)
  BY <1>2 DEF Mutated, Ages, Absent, Null
<1>5. r \in SwapRecords /\ r.pc = pc /\ r.entity = e /\ pc \in {"failed", "abandoned", "done"} /\ (pc = "done" => next # Absent)
      /\ (next # Absent => pc = "done")
  <2>1. swaps[s] \in SwapRecords
    BY <1>2
  <2>2. pc \in {"failed", "abandoned", "done"} /\ (pc = "done" => next # Absent) /\ (next # Absent => pc = "done")
    BY <1>4
  <2> HIDE DEF pc
  <2> QED
    BY <1>2, <2>1, <2>2 DEF SwapRecords
<1> HIDE DEF next, pc, r
<1>6. swaps' \in [Swappers -> SwapRecords] /\ swaps'[s] = r /\ \A t \in Swappers \ {s} : swaps'[t] = swaps[t]
  BY <1>1, <1>2, <1>5
<1>7. rows' \in [Entities -> Ages]
  BY <1>1, <1>2, <1>4
<1>8. RepoTypes'
  BY <1>1, <1>6, <1>7 DEF RepoIInv, RepoTypes
<1>9. ChainsHold'
  BY <1>1, <1>3, <1>5, <1>6, RepoAssumption DEF RepoIInv, ChainsHold, InTransaction, RepoTypes
<1>10. SwapsHold'
  <2>1. ASSUME NEW x \in Entities \ touched.entities PROVE Swapped(x)'
    <3>1. rows[x] = Owed(x)
      BY <1>3 DEF RepoIInv, SwapsHold, Swapped
    <3>2. rows'[x] = Owed(x)'
      <4>1. CASE next = Absent
        BY <1>1, <1>2, <1>5, <4>1, OwedStays, <3>1
      <4>2. CASE next # Absent
        <5>1. \A y \in Entities : Owed(y)' = IF y # 2 /\ r.entity = y THEN Owed(y) + 1 ELSE Owed(y)
          BY <1>1, <1>2, <1>5, <4>2, OwedGrows
        <5>2. x = e => x # 2
          BY <1>4, <3>1, <4>2 DEF Owed, Null
        <5> QED
          BY <1>1, <1>2, <1>4, <1>5, <3>1, <4>2, <5>1, <5>2
      <4> QED
        BY <4>1, <4>2
    <3> QED
      BY <1>1, <1>3, <3>2 DEF Swapped
  <2> QED
    BY <1>1, <2>1 DEF SwapsHold
<1>11. RemovalsAddUp'
  <2>1. \A x \in Entities : rows'[x] # Absent <=> rows[x] # Absent
    BY <1>1, <1>2, <1>4 DEF Absent
  <2>2. {x \in Entities : rows'[x] # Absent} = {x \in Entities : rows[x] # Absent}
    BY <2>1
  <2> QED
    BY <1>1, <2>2 DEF RepoIInv, RemovalsAddUp
<1> QED
  BY <1>8, <1>9, <1>10, <1>11 DEF RepoIInv

\* A swap leaves its adapter's chain: those behind it still wait, and other chains stay.
LEMMA LeaveKeeps ==
  ASSUME lockChain \in [{1, 2} -> Seq(Swappers)], adapterOf \in [Swappers -> {1, 2}], adapterOf' = adapterOf,
         NEW s \in Swappers, LeaveChain(s), lockChain[adapterOf[s]] # << >>, Head(lockChain[adapterOf[s]]) = s
  PROVE  /\ lockChain' \in [{1, 2} -> Seq(Swappers)]
         /\ \A a \in {1, 2} \ {adapterOf[s]} : lockChain'[a] = lockChain[a]
         /\ \A t \in Swappers \ {s} : Waits(t) => Waits(t)'
<1> DEFINE a == adapterOf[s]
           chain == lockChain[a]
<1>1. a \in {1, 2} /\ chain \in Seq(Swappers) /\ chain # << >>
  OBVIOUS
<1>2. lockChain' = [lockChain EXCEPT ![a] = Tail(chain)]
  BY DEF LeaveChain
<1>2a. chain = lockChain[a] /\ a = adapterOf[s] /\ Head(chain) = s
  OBVIOUS
<1> HIDE DEF a, chain
<1>3. Tail(chain) \in Seq(Swappers) /\ Len(chain) \in Nat /\ Len(Tail(chain)) = Len(chain) - 1
      /\ \A i \in 1..Len(Tail(chain)) : Tail(chain)[i] = chain[i + 1]
  BY <1>1, HeadTailProperties, LenProperties
<1>3a. Head(chain) = chain[1]
  BY <1>1, HeadTailProperties
<1>4. /\ lockChain' \in [{1, 2} -> Seq(Swappers)] /\ lockChain'[a] = Tail(chain)
      /\ \A b \in {1, 2} \ {a} : lockChain'[b] = lockChain[b]
  BY <1>1, <1>2, <1>3
<1>5. ASSUME NEW t \in Swappers \ {s}, Waits(t) PROVE Waits(t)'
  <2>1. CASE adapterOf[t] = a
    <3>1. PICK i \in 1..Len(chain) : chain[i] = t
      BY <1>2a, <1>5, <2>1 DEF Waits
    <3>2. i # 1
      BY <1>2a, <1>3a, <3>1
    <3>3. i - 1 \in 1..Len(Tail(chain)) /\ Tail(chain)[i - 1] = chain[i]
      BY <1>3, <3>1, <3>2
    <3> QED
      BY <1>4, <2>1, <3>1, <3>3 DEF Waits
  <2>2. CASE adapterOf[t] # a
    BY <1>4, <2>2, <1>5 DEF Waits
  <2> QED
    BY <2>1, <2>2
<1> QED
  BY <1>2a, <1>4, <1>5

LEMMA AskSwapKeeps ==
  ASSUME RepoIInv, NEW s \in Swappers, NEW e \in {1, 2}, NEW mode \in {"add", "throw"}, AskSwap(s, e, mode)
  PROVE  RepoIInv'
<1> DEFINE r == [pc |-> "queued", entity |-> e, mode |-> mode, current |-> Absent]
           a == adapterOf[s]
           chain == lockChain[a]
<1>1. /\ store = "sql" /\ swaps[s].pc = "idle" /\ swaps' = [swaps EXCEPT ![s] = r]
      /\ lockChain' = [lockChain EXCEPT ![a] = Append(chain, s)]
      /\ UNCHANGED <<store, rows, meant, lookup, writes, ledger, adapterOf, txOf, earlier, touched>>
  BY DEF AskSwap
<1>2. /\ swaps \in [Swappers -> SwapRecords] /\ lockChain \in [{1, 2} -> Seq(Swappers)] /\ adapterOf \in [Swappers -> {1, 2}]
      /\ txOf \in Swappers \union {NoSwapper}
  BY DEF RepoIInv, RepoTypes
<1>3. r \in SwapRecords /\ r.pc = "queued"
  BY EntitiesAre DEF SwapRecords, Ages
<1>4. a \in {1, 2} /\ chain \in Seq(Swappers) /\ a = adapterOf[s] /\ chain = lockChain[a]
  BY <1>2
<1> HIDE DEF r, a, chain
<1>5. /\ Append(chain, s) \in Seq(Swappers) /\ Len(chain) \in Nat /\ Len(Append(chain, s)) = Len(chain) + 1
      /\ Append(chain, s)[Len(chain) + 1] = s /\ \A i \in 1..Len(chain) : Append(chain, s)[i] = chain[i]
  BY <1>4, AppendProperties, LenProperties
<1>6. swaps' \in [Swappers -> SwapRecords] /\ swaps'[s] = r /\ \A t \in Swappers \ {s} : swaps'[t] = swaps[t]
  BY <1>1, <1>2, <1>3
<1>7. /\ lockChain' \in [{1, 2} -> Seq(Swappers)] /\ lockChain'[a] = Append(chain, s)
      /\ \A b \in {1, 2} \ {a} : lockChain'[b] = lockChain[b]
  BY <1>1, <1>2, <1>4, <1>5
<1>8. RepoTypes'
  BY <1>1, <1>6, <1>7 DEF RepoIInv, RepoTypes
<1>9. txOf # s
  BY <1>1 DEF RepoIInv, ChainsHold, InTransaction
<1>10. \A t \in Swappers \ {s} : Waits(t) => Waits(t)'
  <2>1. ASSUME NEW t \in Swappers \ {s}, Waits(t) PROVE Waits(t)'
    <3>1. CASE adapterOf[t] = a
      BY <1>4, <2>1, <3>1, <1>5, <1>1, <1>7 DEF Waits
    <3>2. CASE adapterOf[t] # a
      BY <1>2, <1>7, <3>2, <1>1, <2>1 DEF Waits
    <3> QED
      BY <3>1, <3>2
  <2> QED
    BY <2>1
<1>11. Waits(s)'
  BY <1>5, <1>1, <1>4, <1>7 DEF Waits
<1>12. ChainsHold'
  <2>1. ASSUME NEW t \in Swappers
        PROVE  /\ swaps'[t].pc \in InTransaction <=> txOf = t
               /\ swaps'[t].pc = "queued" => Waits(t)'
               /\ swaps'[t].pc = "queued" \/ txOf = t => store = "sql"
    BY <1>1, <1>3, <1>6, <1>9, <1>11, <1>10 DEF InTransaction, RepoIInv, ChainsHold
  <2>2. ASSUME txOf # NoSwapper PROVE lockChain'[adapterOf[txOf]] # << >> /\ Head(lockChain'[adapterOf[txOf]]) = txOf
    <3>1. lockChain[adapterOf[txOf]] # << >> /\ Head(lockChain[adapterOf[txOf]]) = txOf /\ adapterOf[txOf] \in {1, 2}
      BY <1>2, <2>2 DEF RepoIInv, ChainsHold
    <3>2. CASE adapterOf[txOf] = a
      <4>1. chain # << >> /\ Head(chain) = txOf
        BY <1>4, <3>1, <3>2
      <4>2. Append(chain, s) # << >>
        BY <1>5
      <4>3. 1 \in 1..Len(chain) /\ Head(chain) = chain[1]
        BY <1>4, <4>1, EmptySeq, <1>5, HeadTailProperties
      <4>4. Head(Append(chain, s)) = Append(chain, s)[1]
        BY <1>5, <4>2, HeadTailProperties
      <4> QED
        BY <1>5, <1>7, <3>2, <4>1, <4>2, <4>3, <4>4
    <3>3. CASE adapterOf[txOf] # a
      BY <1>7, <3>1, <3>3
    <3> QED
      BY <3>2, <3>3
  <2> QED
    BY <1>1, <2>1, <2>2 DEF ChainsHold
<1>13. SwapsHold'
  <2>1. ASSUME NEW x \in Entities \ touched.entities PROVE Swapped(x)'
    <3>1. Owed(x)' = Owed(x)
      BY <1>1, <1>2, <1>3, OwedStays
    <3>2. txOf # NoSwapper => swaps'[txOf] = swaps[txOf]
      BY <1>2, <1>6, <1>9
    <3>3. Swapped(x)
      BY DEF RepoIInv, SwapsHold
    <3> QED
      BY <1>1, <3>1, <3>2, <3>3 DEF Swapped
  <2> QED
    BY <1>1, <2>1 DEF SwapsHold
<1> QED
  BY <1>1, <1>8, <1>12, <1>13, RemovalsStay DEF RepoIInv

LEMMA BeginSwapKeeps == ASSUME RepoIInv, NEW s \in Swappers, BeginSwap(s) PROVE RepoIInv'
<1>1. /\ swaps[s].pc = "queued" /\ Head(lockChain[adapterOf[s]]) = s
      /\ UNCHANGED <<store, rows, meant, lookup, writes, ledger, adapterOf, touched>>
  BY DEF BeginSwap, Turn
<1>2. /\ swaps \in [Swappers -> SwapRecords] /\ lockChain \in [{1, 2} -> Seq(Swappers)] /\ adapterOf \in [Swappers -> {1, 2}]
      /\ txOf \in Swappers \union {NoSwapper} /\ rows \in [Entities -> Ages]
  BY DEF RepoIInv, RepoTypes
<1>3. txOf # s /\ Waits(s) /\ store = "sql"
  BY <1>1 DEF RepoIInv, ChainsHold, InTransaction
<1>4. lockChain[adapterOf[s]] # << >>
  <2>1. Len(lockChain[adapterOf[s]]) # 0
    BY <1>2, LenProperties, <1>3 DEF Waits
  <2>2. Len(<< >>) = 0
    BY EmptySeq
  <2> QED
    BY <2>1, <2>2
<1>5. CASE txOf = NoSwapper
  <2>1. txOf' = s /\ earlier' = rows /\ SwapStep(s, "begun") /\ lockChain' = lockChain
    BY <1>5 DEF BeginSwap
  <2>2. PICK r \in SwapRecords : /\ swaps' = [swaps EXCEPT ![s] = r]
                                 /\ r.pc = "begun"
    <3> DEFINE pc == "begun"
    <3>1. SwapStep(s, pc) /\ pc \in {"idle", "queued", "done", "abandoned", "failed"} \union InTransaction /\ pc = "begun"
      BY <2>1 DEF InTransaction
    <3> HIDE DEF pc
    <3> QED
      BY <1>2, <3>1, PcTyped
  <2>3. swaps' \in [Swappers -> SwapRecords] /\ swaps'[s] = r /\ \A t \in Swappers \ {s} : swaps'[t] = swaps[t]
    BY <1>2, <2>2
  <2>4. RepoTypes'
    BY <1>1, <1>2, <2>1, <2>3 DEF RepoIInv, RepoTypes
  <2>5. ChainsHold'
    <3>1. \A t \in Swappers : Waits(t) => Waits(t)'
      BY <1>1, <2>1 DEF Waits
    <3>2. ASSUME NEW t \in Swappers
          PROVE  /\ swaps'[t].pc \in InTransaction <=> txOf' = t
                 /\ swaps'[t].pc = "queued" => Waits(t)'
                 /\ swaps'[t].pc = "queued" \/ txOf' = t => store = "sql"
      <4>1. CASE t = s
        BY <1>3, <2>1, <2>2, <2>3, <4>1 DEF InTransaction
      <4>2. CASE t # s
        BY <1>3, <1>5, <2>1, <2>3, <3>1, <4>2, RepoAssumption DEF RepoIInv, ChainsHold
      <4> QED
        BY <4>1, <4>2
    <3>3. lockChain'[adapterOf'[s]] # << >> /\ Head(lockChain'[adapterOf'[s]]) = s
      BY <1>1, <1>4, <2>1
    <3> QED
      BY <1>1, <2>1, <3>2, <3>3 DEF ChainsHold
  <2>6. SwapsHold'
    <3>1. ASSUME NEW x \in Entities \ touched.entities PROVE Swapped(x)'
      <4>1. Owed(x)' = Owed(x)
        BY <1>1, <1>2, <2>2, OwedStays
      <4>2. rows[x] = Owed(x)
        BY <1>5 DEF RepoIInv, SwapsHold, Swapped
      <4>3. s # NoSwapper
        BY RepoAssumption
      <4> QED
        BY <1>1, <2>1, <2>2, <2>3, <4>1, <4>2, <4>3 DEF Swapped
    <3> QED
      BY <1>1, <3>1 DEF SwapsHold
  <2> QED
    BY <1>1, <2>4, <2>5, <2>6, RemovalsStay DEF RepoIInv
<1>6. CASE txOf # NoSwapper
  <2>1. /\ SwapStep(s, IF adapterOf[txOf] = adapterOf[s] THEN "refused" ELSE "failed")
        /\ LeaveChain(s) /\ UNCHANGED <<txOf, earlier>>
    BY <1>6 DEF BeginSwap
  <2>2. lockChain[adapterOf[txOf]] # << >> /\ Head(lockChain[adapterOf[txOf]]) = txOf /\ txOf \in Swappers
    BY <1>2, <1>6 DEF RepoIInv, ChainsHold
  <2>3. adapterOf[txOf] # adapterOf[s]
    BY <1>1, <1>3, <2>2
  <2>4. PICK r \in SwapRecords : /\ swaps' = [swaps EXCEPT ![s] = r]
                                 /\ r.pc = "failed"
    <3> DEFINE pc == "failed"
    <3>1. SwapStep(s, pc) /\ pc \in {"idle", "queued", "done", "abandoned", "failed"} \union InTransaction /\ pc = "failed"
      BY <2>1, <2>3
    <3> HIDE DEF pc
    <3> QED
      BY <1>2, <3>1, PcTyped
  <2>5. swaps' \in [Swappers -> SwapRecords] /\ swaps'[s] = r /\ \A t \in Swappers \ {s} : swaps'[t] = swaps[t]
    BY <1>2, <2>4
  <2>6. /\ lockChain' \in [{1, 2} -> Seq(Swappers)]
        /\ \A a \in {1, 2} \ {adapterOf[s]} : lockChain'[a] = lockChain[a]
        /\ \A t \in Swappers \ {s} : Waits(t) => Waits(t)'
    BY <1>1, <1>2, <1>4, <2>1, LeaveKeeps
  <2>7. RepoTypes'
    BY <1>1, <1>2, <2>1, <2>5, <2>6 DEF RepoIInv, RepoTypes
  <2>8. ChainsHold'
    <3>2. ASSUME NEW t \in Swappers
          PROVE  /\ swaps'[t].pc \in InTransaction <=> txOf' = t
                 /\ swaps'[t].pc = "queued" => Waits(t)'
                 /\ swaps'[t].pc = "queued" \/ txOf' = t => store = "sql"
      BY <1>3, <2>1, <2>4, <2>5, <2>6 DEF InTransaction, RepoIInv, ChainsHold
    <3>3. lockChain'[adapterOf[txOf]] = lockChain[adapterOf[txOf]]
      BY <1>2, <2>2, <2>3, <2>6
    <3> QED
      BY <1>1, <2>1, <2>2, <3>2, <3>3 DEF ChainsHold
  <2>9. SwapsHold'
    <3>1. ASSUME NEW x \in Entities \ touched.entities PROVE Swapped(x)'
      <4>1. Owed(x)' = Owed(x)
        BY <1>1, <1>2, <2>4, OwedStays
      <4>2. swaps'[txOf] = swaps[txOf]
        BY <1>3, <2>2, <2>5
      <4>3. Swapped(x)
        BY DEF RepoIInv, SwapsHold
      <4> QED
        BY <1>1, <1>6, <2>1, <4>1, <4>2, <4>3 DEF Swapped
    <3> QED
      BY <1>1, <3>1 DEF SwapsHold
  <2> QED
    BY <1>1, <2>7, <2>8, <2>9, RemovalsStay DEF RepoIInv
<1> QED
  BY <1>5, <1>6

\* The swap whose transaction the connection is in.
LEMMA RunningIs ==
  ASSUME RepoIInv, NEW s \in Swappers, swaps[s].pc \in InTransaction
  PROVE  /\ txOf = s /\ txOf # NoSwapper /\ store = "sql"
         /\ lockChain[adapterOf[s]] # << >> /\ Head(lockChain[adapterOf[s]]) = s
         /\ \A t \in Swappers \ {s} : swaps[t].pc \notin InTransaction
         /\ swaps \in [Swappers -> SwapRecords] /\ lockChain \in [{1, 2} -> Seq(Swappers)] /\ adapterOf \in [Swappers -> {1, 2}]
         /\ rows \in [Entities -> Ages] /\ earlier \in [Entities -> Ages]
BY RepoAssumption DEF RepoIInv, ChainsHold, RepoTypes

\* It goes on in its transaction, and the chains stay.
LEMMA RunningGoesOn ==
  ASSUME RepoIInv, NEW s \in Swappers, swaps[s].pc \in InTransaction, NEW r \in SwapRecords, r.pc \in InTransaction,
         swaps' = [swaps EXCEPT ![s] = r], UNCHANGED <<store, adapterOf, lockChain, txOf>>
  PROVE  ChainsHold' /\ \A e : Owed(e)' = Owed(e)
<1>1. txOf = s /\ store = "sql" /\ swaps \in [Swappers -> SwapRecords]
  BY RunningIs
<1>2. swaps'[s] = r /\ \A t \in Swappers \ {s} : swaps'[t] = swaps[t]
  BY <1>1
<1>3. \A t : Waits(t) => Waits(t)'
  BY DEF Waits
<1>4. swaps[s].pc # "done" /\ r.pc # "done" /\ r.pc # "queued"
  BY DEF InTransaction
<1>5. \A t \in Swappers : /\ swaps'[t].pc \in InTransaction <=> txOf = t
                          /\ swaps'[t].pc = "queued" => Waits(t)'
                          /\ swaps'[t].pc = "queued" \/ txOf = t => store = "sql"
  BY <1>1, <1>2, <1>3, <1>4 DEF RepoIInv, ChainsHold
<1>6. ChainsHold'
  BY <1>5 DEF RepoIInv, ChainsHold
<1> QED
  BY <1>1, <1>4, <1>6, OwedStays

LEMMA ReadSwapKeeps == ASSUME RepoIInv, NEW s \in Swappers, ReadSwap(s) PROVE RepoIInv'
<1>1. /\ swaps[s].pc = "begun" /\ swaps' = [swaps EXCEPT ![s].pc = "read", ![s].current = rows[swaps[s].entity]]
      /\ UNCHANGED <<store, rows, meant, lookup, writes, ledger, adapterOf, lockChain, txOf, earlier, touched>>
  BY DEF ReadSwap
<1>2. /\ txOf = s /\ txOf # NoSwapper /\ swaps \in [Swappers -> SwapRecords] /\ rows \in [Entities -> Ages]
      /\ swaps[s].pc \in InTransaction
  BY <1>1, RunningIs DEF InTransaction
<1> DEFINE r == [swaps[s] EXCEPT !.pc = "read", !.current = rows[swaps[s].entity]]
<1>3. swaps' = [swaps EXCEPT ![s] = r]
  BY <1>1
<1>4. r \in SwapRecords /\ r.pc = "read" /\ r.entity = swaps[s].entity /\ r.current = rows[r.entity] /\ r.entity \in Entities
  BY <1>2 DEF SwapRecords, InTransaction
<1> HIDE DEF r
<1>5. r.pc \in InTransaction
  BY <1>4 DEF InTransaction
<1>6. swaps' \in [Swappers -> SwapRecords] /\ swaps'[s] = r
  BY <1>2, <1>3, <1>4
<1>7. RepoTypes'
  BY <1>1, <1>6 DEF RepoIInv, RepoTypes
<1>8. ChainsHold' /\ \A e : Owed(e)' = Owed(e)
  BY <1>1, <1>2, <1>3, <1>4, <1>5, RunningGoesOn
<1>9. SwapsHold'
  <2>1. ASSUME NEW x \in Entities \ touched.entities PROVE Swapped(x)'
    BY <1>1, <1>2, <1>4, <1>6, <1>8 DEF RepoIInv, SwapsHold, Swapped
  <2> QED
    BY <1>1, <2>1 DEF SwapsHold
<1> QED
  BY <1>1, <1>7, <1>8, <1>9, RemovalsStay DEF RepoIInv

LEMMA WriteSwapKeeps == ASSUME RepoIInv, NEW s \in Swappers, WriteSwap(s) PROVE RepoIInv'
<1> DEFINE next == Mutated(swaps[s].current, swaps[s].mode)
           e == swaps[s].entity
<1>1. swaps[s].pc = "read" /\ UNCHANGED <<store, meant, lookup, writes, adapterOf, lockChain, txOf, earlier, touched>>
  BY DEF WriteSwap
<1>2. /\ txOf = s /\ txOf # NoSwapper /\ swaps \in [Swappers -> SwapRecords] /\ rows \in [Entities -> Ages]
      /\ swaps[s].pc \in InTransaction
  BY <1>1, RunningIs DEF InTransaction
<1>3. e \in Entities /\ swaps[s].current \in Ages
  BY <1>2 DEF SwapRecords
<1>4. \/ SwapStep(s, "throwing") /\ rows' = rows /\ ledger' = ledger
      \/ SwapStep(s, "leaving") /\ rows' = rows /\ ledger' = ledger
      \/ next # Absent /\ SwapStep(s, "written") /\ rows' = [rows EXCEPT ![e] = next] /\ ledger' = Created(e)
  BY DEF WriteSwap
<1>5. next # Absent => swaps[s].current \in Nat /\ next = swaps[s].current + 1 /\ next \in Ages
  BY <1>3 DEF Mutated, Ages, Absent, Null
<1> HIDE DEF next, e
<1>6. ASSUME NEW pc \in {"throwing", "leaving"}, SwapStep(s, pc), rows' = rows, ledger' = ledger PROVE RepoIInv'
  <2>1. PICK r \in SwapRecords : swaps' = [swaps EXCEPT ![s] = r] /\ r.pc = pc
    BY <1>2, <1>6, PcTyped DEF InTransaction
  <2>2. r.pc \in InTransaction /\ r.pc # "written" /\ r.pc # "read"
    BY <2>1 DEF InTransaction
  <2>3. swaps' \in [Swappers -> SwapRecords] /\ swaps'[s] = r
    BY <1>2, <2>1
  <2>4. RepoTypes'
    BY <1>1, <1>6, <2>3 DEF RepoIInv, RepoTypes
  <2>5. ChainsHold' /\ \A x : Owed(x)' = Owed(x)
    BY <1>1, <1>2, <2>1, <2>2, RunningGoesOn
  <2>6. SwapsHold'
    <3>1. ASSUME NEW x \in Entities \ touched.entities PROVE Swapped(x)'
      BY <1>1, <1>2, <1>6, <2>2, <2>3, <2>5 DEF RepoIInv, SwapsHold, Swapped
    <3> QED
      BY <1>1, <3>1 DEF SwapsHold
  <2> QED
    BY <1>1, <1>6, <2>4, <2>5, <2>6, RemovalsStay DEF RepoIInv
<1>7. CASE next # Absent /\ SwapStep(s, "written") /\ rows' = [rows EXCEPT ![e] = next] /\ ledger' = Created(e)
  <2>1. PICK r \in SwapRecords : swaps' = [swaps EXCEPT ![s] = r] /\ r.pc = "written" /\ r.entity = e
    <3> DEFINE pc == "written"
    <3>1. SwapStep(s, pc) /\ pc \in {"idle", "queued", "done", "abandoned", "failed"} \union InTransaction /\ pc = "written"
      BY <1>7 DEF InTransaction
    <3> HIDE DEF pc
    <3> QED
      BY <1>2, <3>1, PcTyped DEF e
  <2>2. r.pc \in InTransaction
    BY <2>1 DEF InTransaction
  <2>3. swaps' \in [Swappers -> SwapRecords] /\ swaps'[s] = r
    BY <1>2, <2>1
  <2>4. /\ Cardinality(There) \in Nat /\ rows' \in [Entities -> Ages]
        /\ Cardinality(There)' = IF rows[e] = Absent THEN Cardinality(There) + 1 ELSE Cardinality(There)
    BY <1>2, <1>3, <1>5, <1>7, OneWritten
  <2>5. /\ ledger'.created \in Int /\ ledger'.reported = ledger.reported
        /\ ledger' = [created |-> ledger'.created, reported |-> ledger'.reported]
        /\ ledger'.created = IF rows[e] = Absent THEN ledger.created + 1 ELSE ledger.created
    BY <1>3, <1>7, CreatedIs
  <2>6. ledger.created \in Int /\ ledger.reported \in Int /\ lookup.count \in Int
    BY DEF RepoIInv, RepoTypes
  <2>7. RepoTypes'
    BY <1>1, <2>3, <2>4, <2>5, <2>6 DEF RepoIInv, RepoTypes
  <2>8. ChainsHold' /\ \A x : Owed(x)' = Owed(x)
    BY <1>1, <1>2, <2>1, <2>2, RunningGoesOn
  <2>9. RemovalsAddUp'
    <3>1. ASSUME ~touched.rolledBack PROVE Cardinality(There)' = ledger'.created - ledger'.reported - lookup.count
      BY <3>1, <2>4, <2>5, <2>6 DEF RepoIInv, RemovalsAddUp, There
    <3> QED
      BY <1>1, <3>1 DEF RemovalsAddUp, There
  <2>10. SwapsHold'
    <3>1. ASSUME NEW x \in Entities \ touched.entities PROVE Swapped(x)'
      <4>1. Swapped(x)
        BY DEF RepoIInv, SwapsHold
      <4>2. earlier[x] = Owed(x) /\ rows[x] = Owed(x) /\ (e = x => swaps[s].current = rows[x])
        BY <1>1, <1>2, <4>1 DEF Swapped, e
      <4>3. rows'[x] = IF e = x THEN Owed(x) + 1 ELSE Owed(x)
        BY <1>2, <1>3, <1>5, <1>7, <4>2
      <4>4. e = x => x # 2
        BY <1>5, <1>7, <4>2 DEF Owed, Null
      <4> QED
        BY <1>1, <1>2, <2>1, <2>3, <2>8, <4>2, <4>3, <4>4 DEF Swapped
    <3> QED
      BY <1>1, <3>1 DEF SwapsHold
  <2> QED
    BY <2>7, <2>8, <2>9, <2>10 DEF RepoIInv
<1> QED
  BY <1>4, <1>6, <1>7

\* It ends, and lets the one behind it have its turn.
LEMMA RunningEnds ==
  ASSUME RepoIInv, NEW s \in Swappers, swaps[s].pc \in InTransaction, NEW r \in SwapRecords, r.pc \in {"done", "abandoned", "failed"},
         swaps' = [swaps EXCEPT ![s] = r], UNCHANGED <<store, adapterOf>>, txOf' = NoSwapper, LeaveChain(s)
  PROVE  ChainsHold' /\ lockChain' \in [{1, 2} -> Seq(Swappers)] /\ swaps' \in [Swappers -> SwapRecords]
BY RunningIs, LeaveKeeps, RepoAssumption DEF InTransaction, RepoIInv, ChainsHold

LEMMA CommitKeeps == ASSUME RepoIInv, NEW s \in Swappers, Commit(s) PROVE RepoIInv'
<1> DEFINE pc == IF swaps[s].pc = "written" THEN "done" ELSE "abandoned"
<1>1. /\ swaps[s].pc \in {"written", "leaving"} /\ SwapStep(s, pc) /\ txOf' = NoSwapper /\ LeaveChain(s)
      /\ UNCHANGED <<store, rows, meant, lookup, writes, ledger, adapterOf, earlier, touched>>
  BY DEF Commit
<1>2. /\ txOf = s /\ txOf # NoSwapper /\ swaps \in [Swappers -> SwapRecords] /\ rows \in [Entities -> Ages]
      /\ swaps[s].pc \in InTransaction
  BY <1>1, RunningIs DEF InTransaction
<1>3. pc \in {"done", "abandoned"} /\ (pc = "done" <=> swaps[s].pc = "written")
  OBVIOUS
<1> HIDE DEF pc
<1>4. PICK r \in SwapRecords : swaps' = [swaps EXCEPT ![s] = r] /\ r.pc = pc /\ r.entity = swaps[s].entity
  BY <1>3, <1>1, <1>2, PcTyped
<1>5. ChainsHold' /\ lockChain' \in [{1, 2} -> Seq(Swappers)] /\ swaps' \in [Swappers -> SwapRecords]
  BY <1>1, <1>2, <1>3, <1>4, RunningEnds
<1>6. RepoTypes'
  BY <1>1, <1>5 DEF RepoIInv, RepoTypes
<1>7. SwapsHold'
  <2>1. ASSUME NEW x \in Entities \ touched.entities PROVE Swapped(x)'
    <3>1. Swapped(x)
      BY DEF RepoIInv, SwapsHold
    <3>2. rows'[x] = Owed(x)'
      <4>1. CASE swaps[s].pc = "written"
        <5>1. \A y \in Entities : Owed(y)' = IF y # 2 /\ r.entity = y THEN Owed(y) + 1 ELSE Owed(y)
          BY <1>1, <1>2, <1>3, <1>4, <4>1, OwedGrows
        <5>2. /\ rows[x] = IF swaps[s].entity = x THEN Owed(x) + 1 ELSE Owed(x)
              /\ swaps[s].entity = x => x # 2
          BY <1>2, <3>1, <4>1 DEF Swapped
        <5> QED
          BY <1>1, <1>4, <5>1, <5>2
      <4>2. CASE swaps[s].pc # "written"
        <5>1. swaps[s].pc # "done" /\ r.pc # "done"
          BY <1>1, <1>3, <1>4, <4>2
        <5>2. Owed(x)' = Owed(x)
          BY <1>2, <1>4, <5>1, OwedStays
        <5>3. rows[x] = Owed(x)
          BY <1>2, <3>1, <4>2 DEF Swapped
        <5> QED
          BY <1>1, <5>2, <5>3
      <4> QED
        BY <4>1, <4>2
    <3> QED
      BY <1>1, <3>2 DEF Swapped
  <2> QED
    BY <1>1, <2>1 DEF SwapsHold
<1> QED
  BY <1>1, <1>5, <1>6, <1>7, RemovalsStay DEF RepoIInv

LEMMA RollbackKeeps == ASSUME RepoIInv, NEW s \in Swappers, Rollback(s) PROVE RepoIInv'
<1> DEFINE pc == "failed"
<1>1. /\ swaps[s].pc = "throwing" /\ SwapStep(s, pc) /\ rows' = earlier /\ txOf' = NoSwapper /\ LeaveChain(s)
      /\ touched' = [touched EXCEPT !.rolledBack = @ \/ rows # earlier]
      /\ UNCHANGED <<store, meant, lookup, writes, ledger, adapterOf, earlier>>
  BY DEF Rollback
<1>2. /\ txOf = s /\ txOf # NoSwapper /\ swaps \in [Swappers -> SwapRecords] /\ rows \in [Entities -> Ages] /\ earlier \in [Entities -> Ages]
      /\ swaps[s].pc \in InTransaction
  BY <1>1, RunningIs DEF InTransaction
<1>3. pc = "failed" /\ pc \in {"idle", "queued", "done", "abandoned", "failed"} \union InTransaction
  OBVIOUS
<1> HIDE DEF pc
<1>4. PICK r \in SwapRecords : swaps' = [swaps EXCEPT ![s] = r] /\ r.pc = pc
  BY <1>1, <1>2, <1>3, PcTyped
<1>5. ChainsHold' /\ lockChain' \in [{1, 2} -> Seq(Swappers)] /\ swaps' \in [Swappers -> SwapRecords]
  BY <1>1, <1>2, <1>3, <1>4, RunningEnds
<1>6. /\ touched'.entities = touched.entities /\ touched'.entities \subseteq Entities
      /\ touched'.rolledBack = (touched.rolledBack \/ rows # earlier) /\ touched'.rolledBack \in BOOLEAN
      /\ touched' = [entities |-> touched'.entities, rolledBack |-> touched'.rolledBack]
  <2>1. /\ touched.entities \subseteq Entities /\ touched.rolledBack \in BOOLEAN
        /\ touched = [entities |-> touched.entities, rolledBack |-> touched.rolledBack]
    BY DEF RepoIInv, RepoTypes
  <2> DEFINE b == touched.rolledBack \/ rows # earlier
  <2>2. touched' = [touched EXCEPT !.rolledBack = b] /\ b \in BOOLEAN
    BY <1>1
  <2>3. touched'.entities = touched.entities /\ touched'.rolledBack = b
    BY <2>1, <2>2, Zenon
  <2> HIDE DEF b
  <2>4. touched' = [entities |-> touched'.entities, rolledBack |-> touched'.rolledBack]
    BY <2>1, <2>2
  <2> QED
    BY <2>1, <2>2, <2>3, <2>4 DEF b
<1>7. RepoTypes'
  BY <1>1, <1>2, <1>5, <1>6 DEF RepoIInv, RepoTypes
<1>8. SwapsHold'
  <2>1. ASSUME NEW x \in Entities \ touched.entities PROVE Swapped(x)'
    BY <1>2, <1>1, <1>3, <1>4, OwedStays DEF RepoIInv, SwapsHold, Swapped
  <2> QED
    BY <1>6, <2>1 DEF SwapsHold
<1>9. RemovalsAddUp'
  BY <1>1, <1>6 DEF RepoIInv, RemovalsAddUp
<1> QED
  BY <1>5, <1>7, <1>8, <1>9 DEF RepoIInv

-----------------------------------------------------------------------------
LEMMA RepoStarts == RepoInit => RepoIInv
<1> SUFFICES ASSUME RepoInit PROVE RepoIInv
  OBVIOUS
<1>1. rows = [e \in Entities |-> IF e = 2 THEN Null ELSE e] /\ rows \in [Entities -> Ages]
      /\ \A e \in Entities : rows[e] = (IF e = 2 THEN Null ELSE e) /\ rows[e] # Absent
  BY RepoAssumption DEF Entities, RepoInit, Ages, Absent, Null
<1>2. /\ swaps \in [Swappers -> SwapRecords] /\ \A s \in Swappers : swaps[s].pc = "idle"
      /\ txOf = NoSwapper
  BY EntitiesAre DEF SwapRecords, Ages, RepoInit
<1>3. RepoTypes
  <2>1. lockChain \in [{1, 2} -> Seq(Swappers)]
    BY EmptySeq DEF RepoInit
  <2>2. EntityCount \in Int
    BY EntitiesAre
  <2> QED
    BY <1>1, <1>2, <2>1, <2>2 DEF RepoInit, RepoTypes, Free
<1>4. ChainsHold
  BY <1>2, RepoAssumption DEF ChainsHold, InTransaction
<1>5. SwapsHold
  <2>1. ASSUME NEW e \in Entities PROVE Swapped(e)
    <3>1. DoneFor(e) = {}
      BY <1>2 DEF DoneFor
    <3>2. Cardinality(DoneFor(e)) = 0
      BY <3>1, FS_EmptySet
    <3>3. e \in Int
      BY RepoAssumption DEF Entities
    <3> QED
      BY <1>1, <1>2, <3>2, <3>3 DEF Swapped, Owed
  <2> QED
    BY <2>1 DEF SwapsHold
<1>6. RemovalsAddUp
  <2>1. {e \in Entities : rows[e] # Absent} = Entities
    BY <1>1
  <2>2. ledger.created = EntityCount /\ ledger.reported = 0 /\ lookup.count = 0
    BY DEF RepoInit, Free
  <2>3. Cardinality({e \in Entities : rows[e] # Absent}) = EntityCount
    BY <2>1, EntitiesAre
  <2>4. EntityCount = EntityCount - 0 - 0
    BY EntitiesAre
  <2> QED
    BY <2>2, <2>3, <2>4 DEF RemovalsAddUp
<1> QED
  BY <1>3, <1>4, <1>5, <1>6 DEF RepoIInv

LEMMA RepoKept == RepoIInv /\ SpelledAsMeant /\ [RepoNext]_repoVars => RepoIInv'
<1> SUFFICES ASSUME RepoIInv, SpelledAsMeant, [RepoNext]_repoVars PROVE RepoIInv'
  OBVIOUS
<1>1. CASE Call
  BY <1>1, LookupKeeps
<1>2. CASE ReadMatching
  BY <1>2, ReadMatchingKeeps
<1>3. CASE DeleteOne
  BY <1>3, DeleteOneKeeps
<1>4. ASSUME NEW e \in Entities, Save(e, 1) \/ SaveIfAbsent(e) \/ Delete(e) PROVE RepoIInv'
  BY <1>4, SaveKeeps, SaveIfAbsentKeeps, DeleteKeeps
<1>5. ASSUME NEW s \in Swappers, NEW e \in {1, 2}, NEW mode \in {"add", "throw"}, SwapInMemory(s, e, mode) \/ AskSwap(s, e, mode)
      PROVE RepoIInv'
  BY <1>5, SwapInMemoryKeeps, AskSwapKeeps
<1>6. ASSUME NEW s \in Swappers, BeginSwap(s) \/ ReadSwap(s) \/ WriteSwap(s) \/ Commit(s) \/ Rollback(s) PROVE RepoIInv'
  BY <1>6, BeginSwapKeeps, ReadSwapKeeps, WriteSwapKeeps, CommitKeeps, RollbackKeeps
<1>7. CASE UNCHANGED repoVars
  BY <1>7, ChainsStay, SwapsStay, RemovalsStay DEF repoVars, RepoIInv, RepoTypes
<1>8. CASE RepoNext
  BY <1>1, <1>2, <1>3, <1>4, <1>5, <1>6, <1>8 DEF RepoNext
<1> QED
  BY <1>7, <1>8

LEMMA RepositoriesAreRight == RepoIInv => RepoTypeOK /\ RemovalsAddUp /\ SwapsAddUp /\ SwapsServed
<1> SUFFICES ASSUME RepoIInv PROVE RepoTypeOK /\ RemovalsAddUp /\ SwapsAddUp /\ SwapsServed
  OBVIOUS
<1>1. RepoTypeOK
  BY DEF RepoIInv, RepoTypes, RepoTypeOK, Ages
<1>2. SwapsAddUp
  BY DEF RepoIInv, SwapsHold, Swapped, Owed, DoneFor, SwapsAddUp
<1>3. SwapsServed
  <2>1. ASSUME NEW s \in Swappers PROVE swaps[s].pc # "refused"
    BY DEF RepoIInv, RepoTypes, SwapRecords, InTransaction
  <2> QED
    BY <2>1 DEF SwapsServed
<1> QED
  BY <1>1, <1>2, <1>3 DEF RepoIInv

-----------------------------------------------------------------------------
\* What is asked for: that every name callers may spell a query by is parsed into that query.
\* No constant is in it, so the run, which starts with each of the queries and calls all of its
\* names, checks all of it.
NamesReadBack == \A q \in Asked \union Deletions : \A n \in NamesOf(q) : ParseQueryMethod(n) = q

LEMMA SpellingStarts == RepoInit => SpelledAsMeant
BY DEF RepoInit, SpelledAsMeant, Free

LEMMA SpellingKept == NamesReadBack /\ RepoIInv /\ SpelledAsMeant /\ [RepoNext]_repoVars => SpelledAsMeant'
<1> SUFFICES ASSUME NamesReadBack, RepoIInv, SpelledAsMeant, [RepoNext]_repoVars PROVE SpelledAsMeant'
  OBVIOUS
<1>1. meant' = meant /\ (Call \/ lookup'.plans = lookup.plans)
  <2>1. lookup = [pc |-> lookup.pc, todo |-> lookup.todo, count |-> lookup.count, plans |-> lookup.plans]
    BY DEF RepoIInv, RepoTypes
  <2>2. CASE UNCHANGED repoVars
    BY <2>2 DEF repoVars
  <2>3. CASE Call
    BY <2>3 DEF Call
  <2>4. CASE ReadMatching
    BY <2>4, <2>1 DEF ReadMatching
  <2>5. CASE DeleteOne
    BY <2>5, <2>1 DEF DeleteOne
  <2>6. ASSUME NEW e \in Entities, Writing(e) PROVE UNCHANGED <<meant, lookup>>
    BY <2>6 DEF Writing
  <2>7. ASSUME NEW s \in Swappers, NEW e \in {1, 2}, NEW mode \in {"add", "throw"}, SwapInMemory(s, e, mode) \/ AskSwap(s, e, mode)
        PROVE UNCHANGED <<meant, lookup>>
    BY <2>7 DEF SwapInMemory, AskSwap
  <2>8. ASSUME NEW s \in Swappers, BeginSwap(s) \/ ReadSwap(s) \/ WriteSwap(s) \/ Commit(s) \/ Rollback(s)
        PROVE UNCHANGED <<meant, lookup>>
    BY <2>8 DEF BeginSwap, ReadSwap, WriteSwap, Commit, Rollback
  <2>9. CASE RepoNext
    BY <2>3, <2>4, <2>5, <2>6, <2>7, <2>8, <2>9 DEF RepoNext, Save, SaveIfAbsent, Delete
  <2> QED
    BY <2>2, <2>9
<1>2. CASE Call
  <2>1. meant \in Asked \union Deletions
    BY DEF RepoIInv, RepoTypes
  <2>2. lookup'.plans = {ParseQueryMethod(n) : n \in NamesOf(meant)}
    <3> DEFINE plans == {ParseQueryMethod(n) : n \in NamesOf(meant)}
    <3>1. lookup' = [lookup EXCEPT !.pc = "called", !.plans = plans]
      BY <1>2 DEF Call
    <3>2. lookup = [pc |-> lookup.pc, todo |-> lookup.todo, count |-> lookup.count, plans |-> lookup.plans]
      BY DEF RepoIInv, RepoTypes
    <3> HIDE DEF plans
    <3>3. lookup'.plans = plans
      BY <3>1, <3>2
    <3> QED
      BY <3>3 DEF plans
  <2>3. \A n \in NamesOf(meant) : ParseQueryMethod(n) = meant
    BY <2>1 DEF NamesReadBack
  <2> QED
    BY <1>1, <2>2, <2>3 DEF SpelledAsMeant
<1>3. CASE lookup'.plans = lookup.plans
  BY <1>1, <1>3 DEF SpelledAsMeant
<1> QED
  BY <1>1, <1>2, <1>3

\* Blobs (blob/adapters), however many puts, readers, keys and sizes there are: an object is one
\* put's whole, uploads are accounted for, a listing is complete without doubles, readers are served.
THEOREM BlobsHold == BlobSpec => [](WholeObjects /\ UploadsAccounted /\ ListedOnce /\ ReadsServed)
<1>1. BlobInit => BlobIInv
  BY BlobStarts
<1>2. BlobIInv /\ [BlobNext]_blobVars => BlobIInv'
  BY BlobKept
<1>3. BlobIInv => WholeObjects /\ UploadsAccounted /\ ListedOnce /\ ReadsServed
  BY BlobsAreRight
<1> QED
  BY <1>1, <1>2, <1>3, PTL DEF BlobSpec

\* The databases of hosts, for any widths of numbers and any rows, nestings, openers and files: values
\* and failures come through as they are, an opening is one, the migrations found are those there.
THEOREM HostsHold ==
  HostSpec => [](ValuesSurvive /\ FloatsSurvive /\ RowsWhole /\ DuplicatesTold /\ OpenedOnce /\ MigrationsFound)
<1>1. HostInit => HostIInv
  BY HostStarts
<1>2. HostIInv /\ [HostNext]_hostVars => HostIInv'
  BY HostKept
<1>3. HostIInv => ValuesSurvive /\ FloatsSurvive /\ RowsWhole /\ DuplicatesTold /\ OpenedOnce /\ MigrationsFound
  BY HostsAreRight
<1> QED
  BY <1>1, <1>2, <1>3, PTL DEF HostSpec

\* Repositories, for any entities, swaps and writes: a derived delete counts what it removed, swaps
\* that were acknowledged add up, and none is refused its turn.
THEOREM RepositoriesHold ==
  NamesReadBack => (RepoSpec => [](SpelledAsMeant /\ RemovalsAddUp /\ SwapsAddUp /\ SwapsServed))
<1> SUFFICES ASSUME NamesReadBack PROVE RepoSpec => [](SpelledAsMeant /\ RemovalsAddUp /\ SwapsAddUp /\ SwapsServed)
  OBVIOUS
<1>1. RepoInit => RepoIInv /\ SpelledAsMeant
  BY RepoStarts, SpellingStarts
<1>2. RepoIInv /\ SpelledAsMeant /\ [RepoNext]_repoVars => (RepoIInv /\ SpelledAsMeant)'
  BY RepoKept, SpellingKept
<1>3. RepoIInv => RemovalsAddUp /\ SwapsAddUp /\ SwapsServed
  BY RepositoriesAreRight
<1> QED
  BY <1>1, <1>2, <1>3, PTL DEF RepoSpec


-----------------------------------------------------------------------------
(***************************************************************************)
(* Policies: what a guard lets through, and that text reads back.          *)
(***************************************************************************)
LEMMA HasAsMany ==
  ASSUME NEW n \in Nat, NEW S, NEW f \in [1..n -> S], \A k, m \in 1..n : f[k] = f[m] => k = m, \A x \in S : \E k \in 1..n : f[k] = x
  PROVE  IsFiniteSet(S) /\ Cardinality(S) = n
<1>1. IsFiniteSet(1..n) /\ Cardinality(1..n) = n
  BY FS_Interval
<1>2. ExistsBijection(1..n, S)
  <2>1. f \in Bijection(1..n, S)
    BY DEF Bijection, Injection, Surjection, IsInjective
  <2> QED
    BY <2>1 DEF ExistsBijection
<1> QED
  BY <1>1, <1>2, FS_Bijection

\* Places that are named in their order are found in that order.
LEMMA FoundInTurn ==
  ASSUME NEW n \in Nat, NEW S, NEW at \in [1..n -> S], \A p \in S : \E k \in 1..n : at[k] = p,
         \A m, k \in 1..n : Earlier(at[m], at[k]) <=> m < k
  PROVE  Cardinality(S) = n /\ \A k \in 1..n : InTurn(S, k) = at[k]
<1>1. \A m, k \in 1..n : at[m] = at[k] => m = k
  <2> SUFFICES ASSUME NEW m \in 1..n, NEW k \in 1..n, at[m] = at[k] PROVE m = k
    OBVIOUS
  <2>1. ~(m < k) /\ ~(k < m)
    BY DEF Earlier
  <2> QED
    BY <2>1
<1> DEFINE before(p) == {q \in S : Earlier(q, p)}
<1>2. ASSUME NEW k \in 1..n PROVE Cardinality(before(at[k])) = k - 1
  <2> DEFINE f == [m \in 1..(k - 1) |-> at[m]]
             j == k - 1
             T == before(at[k])
  <2>1. j \in Nat /\ 1..j \subseteq 1..n /\ \A m \in 1..n : m < k <=> m \in 1..j
    OBVIOUS
  <2>2. f \in [1..j -> T] /\ \A m, i \in 1..j : f[m] = f[i] => m = i
    BY <1>1, <2>1
  <2>3. \A x \in T : \E m \in 1..j : f[m] = x
    <3> TAKE x \in T
    <3>1. PICK m \in 1..n : at[m] = x
      OBVIOUS
    <3> QED
      BY <2>1, <3>1
  <2> HIDE DEF f, j, T
  <2>4. Cardinality(T) = j
    BY <2>1, <2>2, <2>3, HasAsMany
  <2> QED
    BY <2>4 DEF T, j
<1> HIDE DEF before
<1>3. ASSUME NEW k \in 1..n PROVE InTurn(S, k) = at[k]
  <2>1. InTurn(S, k) = CHOOSE p \in S : Cardinality(before(p)) = k - 1
    BY DEF InTurn, before
  <2>2. \A p \in S : Cardinality(before(p)) = k - 1 => p = at[k]
    <3> SUFFICES ASSUME NEW m \in 1..n, Cardinality(before(at[m])) = k - 1 PROVE m = k
      OBVIOUS
    <3> QED
      BY <1>2
  <2> QED
    BY <1>2, <2>1, <2>2
<1> QED
  BY <1>1, <1>3, HasAsMany

\* Positions that are picked are picked each once.
Pick(at, k) == CHOOSE i \in at : Cardinality({j \in at : j < i}) = k - 1
LEMMA PickedIs ==
  ASSUME NEW at \in SUBSET Nat, IsFiniteSet(at), NEW s
  PROVE  /\ Cardinality(at) \in Nat
         /\ DOMAIN Picked(s, at) = 1..Cardinality(at)
         /\ \A k \in 1..Cardinality(at) : Pick(at, k) \in at /\ Picked(s, at)[k] = s[Pick(at, k)]
         /\ \A k, m \in 1..Cardinality(at) : Pick(at, k) = Pick(at, m) => k = m
         /\ \A i \in at : \E k \in 1..Cardinality(at) : Pick(at, k) = i
<1> DEFINE N == Cardinality(at)
           under(i) == {j \in at : j < i}
           below == [i \in at |-> under(i)]
<1>1. below \in [at -> SUBSET at] /\ \A i \in at : below[i] = under(i)
  OBVIOUS
<1> HIDE DEF N, below
<1>2. \A i, j \in at : i \in below[j] <=> i < j
  BY <1>1
<1> HIDE DEF under
<1>3. /\ \A i \in at : i \notin below[i]
      /\ \A i, j \in at : i \in below[j] => below[i] \subseteq below[j]
      /\ \A i, j \in at : i = j \/ i \in below[j] \/ j \in below[i]
  <2>1. \A i \in at : i \in Nat
    OBVIOUS
  <2>2. \A i, j, k \in Nat : (k < i /\ i < j => k < j) /\ (i = j \/ i < j \/ j < i)
    OBVIOUS
  <2>3. \A i, j, k \in at : (k < i /\ i < j => k < j) /\ (i = j \/ i < j \/ j < i)
    BY <2>1, <2>2
  <2>4. \A i, j \in at : i \in below[j] => below[i] \subseteq below[j]
    BY <1>2, <1>1, <2>3
  <2>5. \A i \in at : i \notin below[i]
    BY <1>2, <2>1
  <2> QED
    BY <1>2, <2>3, <2>4, <2>5
<1>4. /\ N \in Nat
      /\ \A i \in at : Cardinality(below[i]) \in 0..(N - 1)
      /\ \A i, j \in at : i \in below[j] <=> Cardinality(below[i]) < Cardinality(below[j])
      /\ \A n \in 0..(N - 1) : \E i \in at : Cardinality(below[i]) = n
  BY <1>1, <1>3, RanksFill DEF N
<1>5. \A k \in 1..N : Pick(at, k) \in at /\ Cardinality(under(Pick(at, k))) = k - 1
  <2> SUFFICES ASSUME NEW k \in 1..N PROVE Pick(at, k) \in at /\ Cardinality(under(Pick(at, k))) = k - 1
    OBVIOUS
  <2>1. k - 1 \in 0..(N - 1)
    BY <1>4
  <2>2. \E i \in at : Cardinality(under(i)) = k - 1
    BY <1>1, <1>4, <2>1
  <2>3. Pick(at, k) = CHOOSE i \in at : Cardinality(under(i)) = k - 1
    BY DEF Pick, under
  <2> QED
    BY <2>2, <2>3
<1>6. DOMAIN Picked(s, at) = 1..N /\ \A k \in 1..N : Picked(s, at)[k] = s[Pick(at, k)]
  BY DEF Picked, Pick, N
<1>7. \A k, m \in 1..N : Pick(at, k) = Pick(at, m) => k = m
  <2> SUFFICES ASSUME NEW k \in 1..N, NEW m \in 1..N, Pick(at, k) = Pick(at, m) PROVE k = m
    OBVIOUS
  <2>1. k - 1 = m - 1
    BY <1>5
  <2> QED
    BY <1>4, <2>1
<1>8. \A i \in at : \E k \in 1..N : Pick(at, k) = i
  <2> TAKE i \in at
  <2>1. Cardinality(under(i)) \in 0..(N - 1)
    BY <1>1, <1>4
  <2> DEFINE k == Cardinality(under(i)) + 1
  <2>2. k \in 1..N /\ Cardinality(under(Pick(at, k))) = Cardinality(under(i)) /\ Pick(at, k) \in at
    BY <1>4, <1>5, <2>1
  <2> HIDE DEF k
  <2>3. Cardinality(below[Pick(at, k)]) = Cardinality(below[i]) /\ Cardinality(below[i]) \in 0..(N - 1)
    BY <1>1, <2>1, <2>2
  <2>4. \A x \in 0..(N - 1) : ~(x < x)
    BY <1>4
  <2>5. Pick(at, k) \notin below[i] /\ i \notin below[Pick(at, k)]
    BY <1>4, <2>2, <2>3, <2>4
  <2>6. Pick(at, k) = i
    BY <1>3, <2>2, <2>5
  <2> QED
    BY <2>2, <2>6
<1> QED
  BY <1>4, <1>5, <1>6, <1>7, <1>8 DEF N

CompiledRules == [id : (1..2) \X Range(Methods), effect : {"allow", "deny"}, actions : SUBSET Actions, conditions : SUBSET Facts]
Compiled == [name : 1..2, resource : Resources, rules : Seq(CompiledRules)]
\* What compile makes: each resource has one policy, and each rule an id that says whose it is.
DocumentIs(doc) ==
  /\ doc \in Seq(Compiled) /\ Len(doc) > 0
  /\ \A i, j \in 1..Len(doc) : doc[i].resource = doc[j].resource => i = j
  /\ \A i \in 1..Len(doc) : \A k \in 1..Len(doc[i].rules) : doc[i].rules[k].id[1] = doc[i].name
  /\ \A i \in 1..Len(doc) : \A k, m \in 1..Len(doc[i].rules) : doc[i].rules[k].id = doc[i].rules[m].id => k = m
\* Text of a document: a policy, then its rules.
TextIs(text, doc) ==
  /\ DOMAIN text = 1..Len(doc)
  /\ \A i \in 1..Len(doc) :
       /\ DOMAIN text[i] = 1..(Len(doc[i].rules) + 1)
       /\ text[i][1] = [kind |-> "policy", name |-> doc[i].name, resource |-> doc[i].resource]
       /\ \A k \in 1..Len(doc[i].rules) : text[i][k + 1] = [kind |-> "rule", name |-> doc[i].name, rule |-> doc[i].rules[k]]

LEMMA WrittenIs ==
  ASSUME NEW doc, DocumentIs(doc)
  PROVE  TextIs(Written(doc), doc)
<1>1. DOMAIN doc = 1..Len(doc) /\ \A i \in 1..Len(doc) : doc[i] \in Compiled /\ doc[i].rules \in Seq(CompiledRules)
  <2>1. doc \in Seq(Compiled)
    BY DEF DocumentIs
  <2>2. DOMAIN doc = 1..Len(doc) /\ \A i \in 1..Len(doc) : doc[i] \in Compiled
    BY <2>1
  <2>3. \A p \in Compiled : p.rules \in Seq(CompiledRules)
    BY DEF Compiled
  <2> QED
    BY <2>2, <2>3
<1>2. ASSUME NEW i \in 1..Len(doc)
      PROVE  /\ DOMAIN Productions(doc[i]) = 1..(Len(doc[i].rules) + 1)
             /\ Productions(doc[i])[1] = [kind |-> "policy", name |-> doc[i].name, resource |-> doc[i].resource]
             /\ \A k \in 1..Len(doc[i].rules) :
                  Productions(doc[i])[k + 1] = [kind |-> "rule", name |-> doc[i].name, rule |-> doc[i].rules[k]]
  <2> DEFINE rs == doc[i].rules
             head == [kind |-> "policy", name |-> doc[i].name, resource |-> doc[i].resource]
             rule(k) == [kind |-> "rule", name |-> doc[i].name, rule |-> rs[k]]
             tail == [k \in 1..Len(rs) |-> rule(k)]
             R == {rule(k) : k \in 1..Len(rs)} \union {head}
  <2>1. Len(rs) \in Nat /\ DOMAIN rs = 1..Len(rs)
    BY <1>1
  <2>2. Productions(doc[i]) = <<head>> \o tail
    BY <2>1 DEF Productions
  <2> HIDE DEF head, rule, rs
  <2>3. tail \in Seq(R) /\ Len(tail) = Len(rs) /\ \A k \in 1..Len(rs) : tail[k] = rule(k)
    BY <2>1, FunctionIsSeq
  <2>4. <<head>> \in Seq(R) /\ Len(<<head>>) = 1 /\ <<head>>[1] = head
    OBVIOUS
  <2> HIDE DEF tail, R
  <2>5. <<head>> \o tail \in Seq(R) /\ Len(<<head>> \o tail) = Len(rs) + 1
    BY <2>1, <2>3, <2>4, ConcatProperties
  <2>6. (<<head>> \o tail)[1] = head /\ \A k \in 1..Len(rs) : (<<head>> \o tail)[k + 1] = rule(k)
    BY <2>1, <2>3, <2>4, ConcatProperties
  <2> QED
    BY <2>2, <2>5, <2>6 DEF head, rule, rs
<1> QED
  BY <1>1, <1>2 DEF TextIs, Written, PolicyText

LEMMA PlacesAre ==
  ASSUME NEW doc, DocumentIs(doc), NEW text, TextIs(text, doc)
  PROVE  /\ \A p : p \in PlacesIn(text) <=> \E i \in 1..Len(doc) : \E k \in 1..(Len(doc[i].rules) + 1) : p = <<i, k>>
         /\ \A i \in 1..Len(doc) : Len(doc[i].rules) \in Nat
         /\ \A i \in 1..Len(doc) : \A k \in 1..(Len(doc[i].rules) + 1) :
              /\ k = 1 => Production(text, <<i, k>>) = [kind |-> "policy", name |-> doc[i].name, resource |-> doc[i].resource]
              /\ k # 1 => /\ k - 1 \in 1..Len(doc[i].rules)
                          /\ Production(text, <<i, k>>) = [kind |-> "rule", name |-> doc[i].name, rule |-> doc[i].rules[k - 1]]
<1>1. \A i \in 1..Len(doc) : Len(doc[i].rules) \in Nat
  BY DEF DocumentIs, Compiled
<1>2. \A p : p \in PlacesIn(text) <=> \E i \in 1..Len(doc) : \E k \in 1..(Len(doc[i].rules) + 1) : p = <<i, k>>
  <2> DEFINE block(i) == {<<i, k>> : k \in DOMAIN text[i]}
  <2>1. \A i, p : p \in block(i) <=> \E k \in DOMAIN text[i] : p = <<i, k>>
    OBVIOUS
  <2>2. PlacesIn(text) = UNION {block(i) : i \in DOMAIN text}
    BY DEF PlacesIn
  <2> HIDE DEF block
  <2>3. \A p : p \in PlacesIn(text) <=> \E i \in DOMAIN text : p \in block(i)
    BY <2>2
  <2>4. DOMAIN text = 1..Len(doc) /\ \A i \in 1..Len(doc) : DOMAIN text[i] = 1..(Len(doc[i].rules) + 1)
    BY DEF TextIs
  <2>5. \A p, i : i \in 1..Len(doc) => (p \in block(i) <=> \E k \in 1..(Len(doc[i].rules) + 1) : p = <<i, k>>)
    BY <2>1, <2>4
  <2> QED
    BY <2>3, <2>4, <2>5
<1>3. ASSUME NEW i \in 1..Len(doc), NEW k \in 1..(Len(doc[i].rules) + 1), k # 1
      PROVE  /\ k - 1 \in 1..Len(doc[i].rules)
             /\ text[i][k] = [kind |-> "rule", name |-> doc[i].name, rule |-> doc[i].rules[k - 1]]
  <2> DEFINE m == k - 1
  <2>1. m \in 1..Len(doc[i].rules) /\ m + 1 = k
    BY <1>1, <1>3
  <2> HIDE DEF m
  <2>2. text[i][m + 1] = [kind |-> "rule", name |-> doc[i].name, rule |-> doc[i].rules[m]]
    BY <2>1 DEF TextIs
  <2> QED
    BY <2>1, <2>2 DEF m
<1> QED
  BY <1>1, <1>2, <1>3 DEF Production, TextIs

\* What is refused at a place, by what stands before it.
LEMMA RefusedIs ==
  ASSUME NEW text, NEW p
  PROVE  RefusedAt(text, p) <=>
           IF Production(text, p).kind = "policy"
             THEN \E q \in PlacesIn(text) : /\ Earlier(q, p) /\ Production(text, q).kind = "policy"
                                            /\ \/ Production(text, q).name = Production(text, p).name
                                               \/ Production(text, q).resource = Production(text, p).resource
             ELSE \/ ~\E q \in PlacesIn(text) : /\ Earlier(q, p) /\ Production(text, q).kind = "policy"
                                                /\ Production(text, q).name = Production(text, p).name
                  \/ \E q \in PlacesIn(text) : /\ Earlier(q, p) /\ Production(text, q).kind = "rule"
                                               /\ Production(text, q).rule.id = Production(text, p).rule.id
<1> DEFINE before == {Production(text, q) : q \in {q \in PlacesIn(text) : Earlier(q, p)}}
<1>1. \A x : x \in before <=> \E q \in PlacesIn(text) : Earlier(q, p) /\ x = Production(text, q)
  OBVIOUS
<1>2. RefusedAt(text, p) <=> LET this == Production(text, p) IN
         IF this.kind = "policy"
           THEN \E q \in before : q.kind = "policy" /\ (q.name = this.name \/ q.resource = this.resource)
           ELSE \/ ~\E q \in before : q.kind = "policy" /\ q.name = this.name
                \/ \E q \in before : q.kind = "rule" /\ q.rule.id = this.rule.id
  BY DEF RefusedAt
<1> HIDE DEF before
<1> QED
  BY <1>1, <1>2

LEMMA NamesReadable ==
  ASSUME NEW doc, DocumentIs(doc), NEW text, TextIs(text, doc), \A i, j \in 1..Len(doc) : doc[i].name = doc[j].name => i = j
  PROVE  Readable(text)
<1> DEFINE last(i) == Len(doc[i].rules) + 1
<1>1. /\ \A p : p \in PlacesIn(text) <=> \E i \in 1..Len(doc) : \E k \in 1..last(i) : p = <<i, k>>
      /\ \A i \in 1..Len(doc) : Len(doc[i].rules) \in Nat
      /\ \A i \in 1..Len(doc) : \A k \in 1..last(i) :
           /\ k = 1 => Production(text, <<i, k>>) = [kind |-> "policy", name |-> doc[i].name, resource |-> doc[i].resource]
           /\ k # 1 => /\ k - 1 \in 1..Len(doc[i].rules)
                       /\ Production(text, <<i, k>>) = [kind |-> "rule", name |-> doc[i].name, rule |-> doc[i].rules[k - 1]]
  BY PlacesAre
<1>2. \A i \in 1..Len(doc) : last(i) \in Nat /\ 1 \in 1..last(i)
  BY <1>1
<1> HIDE DEF last
<1>3. ASSUME NEW i \in 1..Len(doc), NEW k \in 1..last(i)
      PROVE  /\ Production(text, <<i, k>>).kind = "policy" => k = 1
             /\ Production(text, <<i, k>>).kind = "rule" => k # 1
  <2>1. CASE k = 1
    <3>1. Production(text, <<i, k>>) = [kind |-> "policy", name |-> doc[i].name, resource |-> doc[i].resource]
      BY <1>1, <2>1
    <3> QED
      BY <2>1, <3>1
  <2>2. CASE k # 1
    <3>1. Production(text, <<i, k>>) = [kind |-> "rule", name |-> doc[i].name, rule |-> doc[i].rules[k - 1]]
      BY <1>1, <2>2
    <3> QED
      BY <2>2, <3>1
  <2> QED
    BY <2>1, <2>2
<1>4. PlacesIn(text) # {}
  <2>1. 1 \in 1..Len(doc)
    BY DEF DocumentIs
  <2>2. <<1, 1>> \in PlacesIn(text)
    BY <1>1, <1>2, <2>1
  <2> QED
    BY <2>2
<1>5. ASSUME NEW i \in 1..Len(doc), NEW k \in 1..last(i) PROVE ~RefusedAt(text, <<i, k>>)
  <2>1. CASE k = 1
    <3>1. Production(text, <<i, k>>) = [kind |-> "policy", name |-> doc[i].name, resource |-> doc[i].resource]
      BY <1>1, <2>1
    <3>2. ASSUME NEW q \in PlacesIn(text), Earlier(q, <<i, k>>), Production(text, q).kind = "policy"
          PROVE  Production(text, q).name # doc[i].name /\ Production(text, q).resource # doc[i].resource
      <4>1. PICK j \in 1..Len(doc) : \E m \in 1..last(j) : q = <<j, m>>
        BY <1>1
      <4>2. PICK m \in 1..last(j) : q = <<j, m>>
        BY <4>1
      <4>3. m = 1
        BY <1>3, <3>2, <4>2
      <4>4. j # i
        <5>1. q[1] = j /\ q[2] = m /\ <<i, k>>[1] = i /\ <<i, k>>[2] = k
          BY <4>2
        <5>2. j < i \/ (j = i /\ m < k)
          BY <3>2, <5>1 DEF Earlier
        <5> QED
          BY <2>1, <4>3, <5>2
      <4>5. Production(text, q) = [kind |-> "policy", name |-> doc[j].name, resource |-> doc[j].resource]
        BY <1>1, <4>2, <4>3
      <4> QED
        BY <4>4, <4>5 DEF DocumentIs
    <3> QED
      BY <3>1, <3>2, RefusedIs
  <2>2. CASE k # 1
    <3>1. k - 1 \in 1..Len(doc[i].rules) /\ Production(text, <<i, k>>) = [kind |-> "rule", name |-> doc[i].name, rule |-> doc[i].rules[k - 1]]
      BY <1>1, <2>2
    <3>2. <<i, 1>> \in PlacesIn(text) /\ Earlier(<<i, 1>>, <<i, k>>)
          /\ Production(text, <<i, 1>>) = [kind |-> "policy", name |-> doc[i].name, resource |-> doc[i].resource]
      <4>1. 1 < k
        BY <1>2, <2>2
      <4> QED
        BY <1>1, <1>2, <4>1 DEF Earlier
    <3>3. ASSUME NEW q \in PlacesIn(text), Earlier(q, <<i, k>>), Production(text, q).kind = "rule"
          PROVE  Production(text, q).rule.id # doc[i].rules[k - 1].id
      <4>1. PICK j \in 1..Len(doc) : \E m \in 1..last(j) : q = <<j, m>>
        BY <1>1
      <4>2. PICK m \in 1..last(j) : q = <<j, m>>
        BY <4>1
      <4>3. m # 1
        BY <1>3, <3>3, <4>2
      <4>4. j # i \/ m # k
        <5>1. q[1] = j /\ q[2] = m /\ <<i, k>>[1] = i /\ <<i, k>>[2] = k
          BY <4>2
        <5>2. j < i \/ (j = i /\ m < k)
          BY <3>3, <5>1 DEF Earlier
        <5> QED
          BY <5>2
      <4>5. m - 1 \in 1..Len(doc[j].rules) /\ Production(text, q) = [kind |-> "rule", name |-> doc[j].name, rule |-> doc[j].rules[m - 1]]
        BY <1>1, <4>2, <4>3
      <4>6. doc[j].rules[m - 1].id[1] = doc[j].name /\ doc[i].rules[k - 1].id[1] = doc[i].name
        BY <3>1, <4>5 DEF DocumentIs
      <4>7. ASSUME doc[j].rules[m - 1].id = doc[i].rules[k - 1].id PROVE FALSE
        <5>1. j = i
          BY <4>6, <4>7
        <5>2. m - 1 = k - 1
          BY <3>1, <4>5, <4>7, <5>1 DEF DocumentIs
        <5> QED
          BY <4>4, <5>1, <5>2
      <4> QED
        BY <4>5, <4>7
    <3> QED
      BY <3>1, <3>2, <3>3, RefusedIs
  <2> QED
    BY <2>1, <2>2
<1> QED
  BY <1>1, <1>4, <1>5 DEF Readable

LEMMA ReadableNames ==
  ASSUME NEW doc, DocumentIs(doc), NEW text, TextIs(text, doc), Readable(text)
  PROVE  \A i, j \in 1..Len(doc) : doc[i].name = doc[j].name => i = j
<1>1. ASSUME NEW i \in 1..Len(doc), NEW j \in 1..Len(doc), i < j, doc[i].name = doc[j].name PROVE FALSE
  <2>1. /\ <<i, 1>> \in PlacesIn(text) /\ <<j, 1>> \in PlacesIn(text)
        /\ Production(text, <<i, 1>>) = [kind |-> "policy", name |-> doc[i].name, resource |-> doc[i].resource]
        /\ Production(text, <<j, 1>>) = [kind |-> "policy", name |-> doc[j].name, resource |-> doc[j].resource]
    <3>1. 1 \in 1..(Len(doc[i].rules) + 1) /\ 1 \in 1..(Len(doc[j].rules) + 1)
      BY PlacesAre
    <3> QED
      BY <3>1, PlacesAre
  <2>2. Earlier(<<i, 1>>, <<j, 1>>)
    BY <1>1 DEF Earlier
  <2>3. RefusedAt(text, <<j, 1>>)
    BY <1>1, <2>1, <2>2, RefusedIs
  <2> QED
    BY <2>1, <2>3 DEF Readable
<1> QED
  <2> SUFFICES ASSUME NEW i \in 1..Len(doc), NEW j \in 1..Len(doc), doc[i].name = doc[j].name, i # j PROVE FALSE
    OBVIOUS
  <2>1. i < j \/ j < i
    OBVIOUS
  <2> QED
    BY <1>1, <2>1

LEMMA TextReads ==
  ASSUME NEW doc, DocumentIs(doc), NEW text, TextIs(text, doc), \A i, j \in 1..Len(doc) : doc[i].name = doc[j].name => i = j
  PROVE  ReadText(text) = doc
<1> DEFINE last(i) == Len(doc[i].rules) + 1
<1>1. /\ \A p : p \in PlacesIn(text) <=> \E i \in 1..Len(doc) : \E k \in 1..last(i) : p = <<i, k>>
      /\ \A i \in 1..Len(doc) : Len(doc[i].rules) \in Nat
      /\ \A i \in 1..Len(doc) : \A k \in 1..last(i) :
           /\ k = 1 => Production(text, <<i, k>>) = [kind |-> "policy", name |-> doc[i].name, resource |-> doc[i].resource]
           /\ k # 1 => /\ k - 1 \in 1..Len(doc[i].rules)
                       /\ Production(text, <<i, k>>) = [kind |-> "rule", name |-> doc[i].name, rule |-> doc[i].rules[k - 1]]
  BY PlacesAre
<1>2. doc \in Seq(Compiled) /\ Len(doc) \in Nat /\ DOMAIN doc = 1..Len(doc)
  BY DEF DocumentIs
<1>3. \A i \in 1..Len(doc) : last(i) \in Nat /\ 1 \in 1..last(i)
  BY <1>1
<1>4. \A i \in 1..Len(doc) : /\ doc[i] = [name |-> doc[i].name, resource |-> doc[i].resource, rules |-> doc[i].rules]
                      /\ doc[i].rules = [k \in 1..Len(doc[i].rules) |-> doc[i].rules[k]]
  <2>1. \A i \in 1..Len(doc) : doc[i] \in Compiled
    BY <1>2
  <2>2. \A p \in Compiled : p = [name |-> p.name, resource |-> p.resource, rules |-> p.rules] /\ p.rules \in Seq(CompiledRules)
    BY DEF Compiled
  <2>3. \A rs \in Seq(CompiledRules) : rs = [k \in 1..Len(rs) |-> rs[k]]
    OBVIOUS
  <2> QED
    BY <2>1, <2>2, <2>3
<1>5. ASSUME NEW i \in 1..Len(doc), NEW k \in 1..Len(doc[i].rules)
      PROVE  k + 1 \in 1..last(i) /\ Production(text, <<i, k + 1>>) = [kind |-> "rule", name |-> doc[i].name, rule |-> doc[i].rules[k]]
  <2>1. k + 1 \in 1..last(i) /\ k + 1 # 1 /\ (k + 1) - 1 = k
    BY <1>1
  <2> HIDE DEF last
  <2> QED
    BY <1>1, <2>1
<1>6. Cardinality(PoliciesIn(text)) = Len(doc) /\ \A i \in 1..Len(doc) : InTurn(PoliciesIn(text), i) = <<i, 1>>
  <2> DEFINE at == [i \in 1..Len(doc) |-> <<i, 1>>]
             S == PoliciesIn(text)
  <2>1. \A i \in 1..Len(doc) : <<i, 1>> \in S
    <3> TAKE i \in 1..Len(doc)
    <3>1. <<i, 1>> \in PlacesIn(text)
      BY <1>1, <1>3
    <3>2. Production(text, <<i, 1>>) = [kind |-> "policy", name |-> doc[i].name, resource |-> doc[i].resource]
      BY <1>1, <1>3
    <3>3. Production(text, <<i, 1>>).kind = "policy"
      BY <3>2
    <3> QED
      BY <3>1, <3>3 DEF PoliciesIn
  <2>2. \A p \in S : \E i \in 1..Len(doc) : p = <<i, 1>>
    <3> TAKE p \in S
    <3>1. p \in PlacesIn(text) /\ Production(text, p).kind = "policy"
      BY DEF PoliciesIn
    <3>2. PICK i \in 1..Len(doc) : \E k \in 1..last(i) : p = <<i, k>>
      BY <1>1, <3>1
    <3>3. PICK k \in 1..last(i) : p = <<i, k>>
      BY <3>2
    <3>4. k # 1 => Production(text, p) = [kind |-> "rule", name |-> doc[i].name, rule |-> doc[i].rules[k - 1]]
      BY <1>1, <3>3
    <3> QED
      BY <3>1, <3>3, <3>4
  <2> HIDE DEF S
  <2>3. \A i \in 1..Len(doc) : at[i] = <<i, 1>>
    OBVIOUS
  <2>4. at \in [1..Len(doc) -> S] /\ \A p \in S : \E i \in 1..Len(doc) : at[i] = p
    BY <2>1, <2>2
  <2>5. \A m, k \in 1..Len(doc) : Earlier(at[m], at[k]) <=> m < k
    <3> SUFFICES ASSUME NEW m \in 1..Len(doc), NEW k \in 1..Len(doc) PROVE Earlier(<<m, 1>>, <<k, 1>>) <=> m < k
      BY <2>3
    <3> QED
      BY DEF Earlier
  <2> HIDE DEF at
  <2>6. Cardinality(S) = Len(doc) /\ \A i \in 1..Len(doc) : InTurn(S, i) = at[i]
    BY <1>2, <2>4, <2>5, FoundInTurn
  <2> QED
    BY <2>3, <2>6 DEF S
<1>7. ASSUME NEW i \in 1..Len(doc)
      PROVE  /\ Cardinality(RulesIn(text, doc[i].name)) = Len(doc[i].rules)
             /\ \A k \in 1..Len(doc[i].rules) : InTurn(RulesIn(text, doc[i].name), k) = <<i, k + 1>>
  <2> DEFINE l == Len(doc[i].rules)
             at == [k \in 1..l |-> <<i, k + 1>>]
             S == RulesIn(text, doc[i].name)
  <2>1. \A k \in 1..l : <<i, k + 1>> \in S
    <3> TAKE k \in 1..l
    <3>1. k + 1 \in 1..last(i) /\ Production(text, <<i, k + 1>>) = [kind |-> "rule", name |-> doc[i].name, rule |-> doc[i].rules[k]]
      BY <1>5
    <3> HIDE DEF last
    <3> QED
      BY <1>1, <3>1 DEF RulesIn
  <2>2. \A p \in S : \E k \in 1..l : p = <<i, k + 1>>
    <3> TAKE p \in S
    <3>1. p \in PlacesIn(text) /\ Production(text, p).kind = "rule" /\ Production(text, p).name = doc[i].name
      BY DEF RulesIn
    <3>2. PICK j \in 1..Len(doc) : \E k \in 1..last(j) : p = <<j, k>>
      BY <1>1, <3>1
    <3>3. PICK k \in 1..last(j) : p = <<j, k>>
      BY <3>2
    <3>4. k # 1
      <4>1. k = 1 => Production(text, p) = [kind |-> "policy", name |-> doc[j].name, resource |-> doc[j].resource]
        BY <1>1, <3>3
      <4> QED
        BY <3>1, <4>1
    <3>5. k - 1 \in 1..Len(doc[j].rules) /\ Production(text, p) = [kind |-> "rule", name |-> doc[j].name, rule |-> doc[j].rules[k - 1]]
      BY <1>1, <3>3, <3>4
    <3>6. j = i
      BY <3>1, <3>5
    <3>7. k = (k - 1) + 1
      BY <1>1, <3>6
    <3> QED
      BY <3>3, <3>5, <3>6, <3>7
  <2>3. l \in Nat
    BY <1>1
  <2> HIDE DEF S, l
  <2>4. \A k \in 1..l : at[k] = <<i, k + 1>>
    OBVIOUS
  <2>5. at \in [1..l -> S] /\ \A p \in S : \E k \in 1..l : at[k] = p
    BY <2>1, <2>2
  <2>6. \A m, k \in 1..l : Earlier(at[m], at[k]) <=> m < k
    <3> SUFFICES ASSUME NEW m \in 1..l, NEW k \in 1..l PROVE Earlier(<<i, m + 1>>, <<i, k + 1>>) <=> m < k
      BY <2>4
    <3> QED
      BY <1>2, <2>3 DEF Earlier
  <2> HIDE DEF at
  <2>7. Cardinality(S) = l /\ \A k \in 1..l : InTurn(S, k) = at[k]
    BY <2>3, <2>5, <2>6, FoundInTurn
  <2> QED
    BY <2>4, <2>7 DEF S, l
<1> DEFINE policy(i) == Production(text, InTurn(PoliciesIn(text), i))
           rules(i) == RulesIn(text, policy(i).name)
           readAt(i) == [name |-> policy(i).name, resource |-> policy(i).resource,
                       rules |-> [k \in 1..Cardinality(rules(i)) |-> Production(text, InTurn(rules(i), k)).rule]]
<1>8. ReadText(text) = [i \in 1..Len(doc) |-> readAt(i)]
  BY <1>6 DEF ReadText
<1>9. ASSUME NEW i \in 1..Len(doc) PROVE readAt(i) = doc[i]
  <2>1. policy(i) = [kind |-> "policy", name |-> doc[i].name, resource |-> doc[i].resource]
    BY <1>1, <1>3, <1>6
  <2> HIDE DEF policy
  <2>2. policy(i).name = doc[i].name /\ policy(i).resource = doc[i].resource
    BY <2>1
  <2>3. rules(i) = RulesIn(text, doc[i].name)
    BY <2>2
  <2> HIDE DEF rules
  <2>4. \A k \in 1..Len(doc[i].rules) : Production(text, InTurn(rules(i), k)).rule = doc[i].rules[k]
    <3> TAKE k \in 1..Len(doc[i].rules)
    <3>1. InTurn(rules(i), k) = <<i, k + 1>>
      BY <1>7, <2>3
    <3>2. Production(text, <<i, k + 1>>) = [kind |-> "rule", name |-> doc[i].name, rule |-> doc[i].rules[k]]
      BY <1>5
    <3>3. Production(text, InTurn(rules(i), k)).rule = [kind |-> "rule", name |-> doc[i].name, rule |-> doc[i].rules[k]].rule
      BY <3>1, <3>2
    <3> QED
      BY <3>3
  <2> DEFINE ruleAt(k) == Production(text, InTurn(rules(i), k)).rule
  <2>5. Cardinality(rules(i)) = Len(doc[i].rules)
    BY <1>7, <2>3
  <2>6. \A k \in 1..Len(doc[i].rules) : ruleAt(k) = doc[i].rules[k]
    BY <2>4
  <2>7. [k \in 1..Cardinality(rules(i)) |-> Production(text, InTurn(rules(i), k)).rule] = [k \in 1..Len(doc[i].rules) |-> ruleAt(k)]
    BY <2>5
  <2> HIDE DEF ruleAt
  <2>8. [k \in 1..Len(doc[i].rules) |-> ruleAt(k)] = doc[i].rules
    BY <1>4, <2>6
  <2>9. [k \in 1..Cardinality(rules(i)) |-> Production(text, InTurn(rules(i), k)).rule] = doc[i].rules
    BY <2>7, <2>8
  <2> QED
    BY <1>4, <2>2, <2>9
<1> HIDE DEF readAt
<1>10. ReadText(text) = [i \in 1..Len(doc) |-> doc[i]]
  BY <1>8, <1>9
<1> QED
  BY <1>2, <1>10

LEMMA DocumentReads ==
  ASSUME NEW doc, DocumentIs(doc)
  PROVE  /\ (\A i, j \in DOMAIN doc : i # j => doc[i].name # doc[j].name) => Readable(Written(doc))
         /\ Readable(Written(doc)) => ReadText(Written(doc)) = doc
<1>1. TextIs(Written(doc), doc) /\ DOMAIN doc = 1..Len(doc)
  BY WrittenIs DEF DocumentIs
<1> QED
  BY <1>1, NamesReadable, ReadableNames, TextReads

\* The classes that are known can be put in the order of their names.
LEMMA ClassesAre ==
  ASSUME IsFiniteSet(Known), nameOf \in [PolicyClasses -> 1..2]
  PROVE  /\ Cardinality(Known) \in Nat
         /\ ClassesInOrder \in [1..Cardinality(Known) -> Known]
         /\ \A i, j \in 1..Cardinality(Known) : ClassesInOrder[i] = ClassesInOrder[j] => i = j
<1> DEFINE K == Known
           n == Cardinality(K)
           s == SetToSeq(K)
           pos(t) == CHOOSE i \in 1..n : s[i] = t
           before(u, t) == nameOf[u] < nameOf[t] \/ (nameOf[u] = nameOf[t] /\ pos(u) < pos(t))
           below == [t \in K |-> {u \in K : before(u, t)}]
           o == [k \in 1..n |-> CHOOSE t \in K : Cardinality(below[t]) = k - 1]
<1>1. n \in Nat /\ IsFiniteSet(K)
  BY FS_CardinalityType
<1>2. \A t \in K : nameOf[t] \in Nat
  BY DEF Known
<1> HIDE DEF K
<1>3. Len(s) = n /\ (\A i, j \in 1..Len(s) : s[i] = s[j] => i = j) /\ \A t \in K : \E i \in 1..Len(s) : s[i] = t
  BY <1>1, SetToSeqIs
<1> HIDE DEF s, n
<1>4. \A t \in K : pos(t) \in Nat /\ s[pos(t)] = t
  BY <1>1, <1>3
<1> HIDE DEF pos
<1>5. /\ \A t \in K : ~before(t, t)
      /\ \A t, u, v \in K : before(v, u) /\ before(u, t) => before(v, t)
      /\ \A t, u \in K : t = u \/ before(t, u) \/ before(u, t)
  <2> SUFFICES ASSUME NEW t \in K, NEW u \in K, NEW v \in K
               PROVE  ~before(t, t) /\ (before(v, u) /\ before(u, t) => before(v, t)) /\ (t = u \/ before(t, u) \/ before(u, t))
    OBVIOUS
  <2> DEFINE a == nameOf[t]
             b == nameOf[u]
             c == nameOf[v]
             d == pos(t)
             e == pos(u)
             f == pos(v)
  <2>1. a \in Nat /\ b \in Nat /\ c \in Nat /\ d \in Nat /\ e \in Nat /\ f \in Nat
    BY <1>2, <1>4
  <2>2. d = e => t = u
    BY <1>4
  <2>3. /\ before(t, t) <=> (a < a \/ (a = a /\ d < d))
        /\ before(v, u) <=> (c < b \/ (c = b /\ f < e))
        /\ before(u, t) <=> (b < a \/ (b = a /\ e < d))
        /\ before(v, t) <=> (c < a \/ (c = a /\ f < d))
        /\ before(t, u) <=> (a < b \/ (a = b /\ d < e))
    OBVIOUS
  <2> HIDE DEF a, b, c, d, e, f, before
  <2>4. ~before(t, t)
    BY <2>1, <2>3
  <2>5. before(v, u) /\ before(u, t) => before(v, t)
    BY <2>1, <2>3
  <2>6. d = e \/ before(t, u) \/ before(u, t)
    BY <2>1, <2>3
  <2> QED
    BY <2>2, <2>4, <2>5, <2>6
<1>6. \A t, u \in K : before(t, u) => nameOf[t] <= nameOf[u]
  BY <1>2
<1> HIDE DEF before
<1>7. below \in [K -> SUBSET K] /\ \A t, u \in K : u \in below[t] <=> before(u, t)
  OBVIOUS
<1> HIDE DEF below
<1>8. /\ \A t \in K : t \notin below[t]
      /\ \A u, t \in K : u \in below[t] => below[u] \subseteq below[t]
      /\ \A t, u \in K : t = u \/ t \in below[u] \/ u \in below[t]
  BY <1>5, <1>7
<1>9. /\ \A t \in K : Cardinality(below[t]) \in 0..(n - 1)
      /\ \A t, u \in K : t \in below[u] <=> Cardinality(below[t]) < Cardinality(below[u])
      /\ \A m \in 0..(n - 1) : \E t \in K : Cardinality(below[t]) = m
  BY <1>1, <1>7, <1>8, RanksFill DEF n
<1>10. \A k \in 1..n : o[k] \in K /\ Cardinality(below[o[k]]) = k - 1
  <2> SUFFICES ASSUME NEW k \in 1..n PROVE o[k] \in K /\ Cardinality(below[o[k]]) = k - 1
    OBVIOUS
  <2>1. k - 1 \in 0..(n - 1)
    BY <1>1
  <2>2. \E t \in K : Cardinality(below[t]) = k - 1
    BY <1>9, <2>1
  <2> QED
    BY <2>2
<1>11. o \in [1..n -> K] /\ DOMAIN o = 1..n
  BY <1>10
<1> HIDE DEF o
<1>12. \A t \in K : \E k \in 1..n : o[k] = t
  <2> TAKE t \in K
  <2> DEFINE k == Cardinality(below[t]) + 1
  <2>1. Cardinality(below[t]) \in 0..(n - 1)
    BY <1>9
  <2>2. k \in 1..n /\ k - 1 = Cardinality(below[t])
    BY <1>1, <2>1
  <2>3. o[k] \in K /\ Cardinality(below[o[k]]) = Cardinality(below[t])
    BY <1>10, <2>2
  <2>4. ~(Cardinality(below[o[k]]) < Cardinality(below[t])) /\ ~(Cardinality(below[t]) < Cardinality(below[o[k]]))
    BY <2>1, <2>3
  <2>5. o[k] = t
    BY <1>8, <1>9, <2>3, <2>4
  <2> QED
    BY <2>2, <2>5
<1>13. \A i, j \in 1..n : i < j => nameOf[o[i]] <= nameOf[o[j]]
  <2> SUFFICES ASSUME NEW i \in 1..n, NEW j \in 1..n, i < j PROVE nameOf[o[i]] <= nameOf[o[j]]
    OBVIOUS
  <2>1. o[i] \in K /\ o[j] \in K /\ Cardinality(below[o[i]]) < Cardinality(below[o[j]])
    BY <1>10
  <2> QED
    BY <1>6, <1>7, <1>9, <2>1
<1>14. \E c \in [1..n -> K] : Range(c) = K /\ \A i, j \in DOMAIN c : i < j => nameOf[c[i]] <= nameOf[c[j]]
  <2>1. Range(o) = K
    BY <1>11, <1>12 DEF Range
  <2> QED
    BY <1>11, <1>13, <2>1
<1>15. ClassesInOrder \in [1..n -> K] /\ Range(ClassesInOrder) = K
  BY <1>14 DEF ClassesInOrder, n, K
<1>16. ClassesInOrder \in Surjection(1..n, K)
  BY <1>15 DEF Surjection, Range
<1>17. IsFiniteSet(1..n) /\ Cardinality(1..n) = n
  BY <1>1, FS_Interval
<1>18. ClassesInOrder \in Injection(1..n, K)
  BY <1>1, <1>16, <1>17, FS_SurjSameCardinalityImpliesInj DEF n
<1> QED
  BY <1>1, <1>15, <1>18 DEF Injection, IsInjective, n, K

DraftedRules == [effect : {"none", "allow", "deny"}, actions : SUBSET Actions, conditions : SUBSET Facts]
Drafts == [resource : Resources \union {NoResource}, rules : [Range(Methods) -> DraftedRules]]
\* No two classes have a resource, and what is compiled is a document.
RegistryIs ==
  /\ nameOf \in [PolicyClasses -> 1..2]
  /\ drafts \in [PolicyClasses -> Drafts]
  /\ \A t, u \in PolicyClasses : drafts[t].resource = drafts[u].resource => t = u \/ drafts[t].resource = NoResource
  /\ \A doc \in compiled : DocumentIs(doc)

LEMMA RulesAre ==
  ASSUME PoliciesAssumption, RegistryIs, NEW t \in PolicyClasses, \A m \in Range(Methods) : Drafted(t, m) => drafts[t].rules[m].effect # "none"
  PROVE  /\ RulesOf(t) \in Seq(CompiledRules)
         /\ \A k \in 1..Len(RulesOf(t)) : RulesOf(t)[k].id[1] = nameOf[t]
         /\ \A k, m \in 1..Len(RulesOf(t)) : RulesOf(t)[k].id = RulesOf(t)[m].id => k = m
<1> DEFINE at == {i \in DOMAIN Methods : Drafted(t, Methods[i])}
           n == Cardinality(at)
           ms == Picked(Methods, at)
<1>1. DOMAIN Methods = 1..Len(Methods) /\ Len(Methods) \in Nat /\ \A i, j \in DOMAIN Methods : Methods[i] = Methods[j] => i = j
  BY DEF PoliciesAssumption
<1>2. at \in SUBSET Nat /\ IsFiniteSet(at)
  <2>1. IsFiniteSet(1..Len(Methods)) /\ at \subseteq 1..Len(Methods)
    BY <1>1, FS_Interval
  <2> QED
    BY <2>1, FS_Subset
<1>3. \A i \in at : i \in DOMAIN Methods /\ Drafted(t, Methods[i])
  OBVIOUS
<1>4. RulesOf(t) = [i \in DOMAIN ms |-> RuleOf(t, ms[i])]
  BY DEF RulesOf
<1> HIDE DEF at
<1>5. n \in Nat
  BY <1>2, FS_CardinalityType
<1>6. /\ DOMAIN ms = 1..n
      /\ \A k \in 1..n : Pick(at, k) \in at /\ ms[k] = Methods[Pick(at, k)]
      /\ \A k, m \in 1..n : Pick(at, k) = Pick(at, m) => k = m
  BY <1>2, PickedIs
<1> HIDE DEF ms, n
<1>7. \A k \in 1..n : /\ ms[k] \in Range(Methods) /\ Drafted(t, ms[k])
                      /\ \A m \in 1..n : ms[k] = ms[m] => k = m
  <2>1. \A k \in 1..n : Pick(at, k) \in DOMAIN Methods /\ ms[k] = Methods[Pick(at, k)] /\ Drafted(t, ms[k])
    BY <1>3, <1>6
  <2>2. \A k \in 1..n : ms[k] \in Range(Methods)
    BY <2>1 DEF Range
  <2>3. \A k, m \in 1..n : ms[k] = ms[m] => k = m
    BY <1>1, <1>6, <2>1
  <2> QED
    BY <2>1, <2>2, <2>3
<1>8. ASSUME NEW k \in 1..n PROVE RuleOf(t, ms[k]) \in CompiledRules /\ RuleOf(t, ms[k]).id = <<nameOf[t], ms[k]>>
  <2> DEFINE r == drafts[t].rules[ms[k]]
  <2>1. r \in DraftedRules
    BY <1>7 DEF RegistryIs, Drafts
  <2>2. r.effect # "none"
    BY <1>7
  <2>3. nameOf[t] \in 1..2 /\ ms[k] \in Range(Methods)
    BY <1>7 DEF RegistryIs
  <2>4. RuleOf(t, ms[k]) = [id |-> <<nameOf[t], ms[k]>>, effect |-> r.effect, actions |-> r.actions, conditions |-> r.conditions]
    BY DEF RuleOf
  <2> HIDE DEF r
  <2>5. r.effect \in {"allow", "deny"} /\ r.actions \in SUBSET Actions /\ r.conditions \in SUBSET Facts
    BY <2>1, <2>2 DEF DraftedRules
  <2> QED
    BY <2>3, <2>4, <2>5 DEF CompiledRules
<1>9. RulesOf(t) = [k \in 1..n |-> RuleOf(t, ms[k])]
  BY <1>4, <1>6
<1>10. RulesOf(t) \in Seq(CompiledRules) /\ Len(RulesOf(t)) = n
  <2>1. RulesOf(t) \in [1..n -> CompiledRules]
    BY <1>8, <1>9
  <2> QED
    BY <1>5, <2>1, FunctionIsSeq
<1>11. \A k \in 1..n : RulesOf(t)[k].id = <<nameOf[t], ms[k]>>
  BY <1>8, <1>9
<1> QED
  BY <1>7, <1>10, <1>11

LEMMA CompileIs ==
  ASSUME PoliciesAssumption, RegistryIs, Known # {}, ~Incomplete
  PROVE  DocumentIs(Document)
<1> DEFINE n == Cardinality(Known)
           policy(t) == [name |-> nameOf[t], resource |-> drafts[t].resource, rules |-> RulesOf(t)]
<1>1. Known \subseteq PolicyClasses /\ IsFiniteSet(Known)
  BY FS_Subset DEF PoliciesAssumption, Known
<1>2. /\ n \in Nat
      /\ ClassesInOrder \in [1..n -> Known]
      /\ \A i, j \in 1..n : ClassesInOrder[i] = ClassesInOrder[j] => i = j
  BY <1>1, ClassesAre DEF RegistryIs
<1>3. n > 0
  BY <1>1, <1>2, FS_EmptySet
<1>4. ASSUME NEW t \in Known
      PROVE  /\ policy(t) \in Compiled /\ policy(t).rules = RulesOf(t) /\ policy(t).name = nameOf[t] /\ policy(t).resource = drafts[t].resource
             /\ drafts[t].resource # NoResource
             /\ \A k \in 1..Len(RulesOf(t)) : RulesOf(t)[k].id[1] = nameOf[t]
             /\ \A k, m \in 1..Len(RulesOf(t)) : RulesOf(t)[k].id = RulesOf(t)[m].id => k = m
  <2>1. drafts[t].resource # NoResource /\ \A m \in Range(Methods) : Drafted(t, m) => drafts[t].rules[m].effect # "none"
    BY DEF Incomplete
  <2>2. /\ RulesOf(t) \in Seq(CompiledRules)
        /\ \A k \in 1..Len(RulesOf(t)) : RulesOf(t)[k].id[1] = nameOf[t]
        /\ \A k, m \in 1..Len(RulesOf(t)) : RulesOf(t)[k].id = RulesOf(t)[m].id => k = m
    BY <1>1, <2>1, RulesAre
  <2>3. nameOf[t] \in 1..2 /\ drafts[t] \in Drafts
    BY <1>1 DEF RegistryIs
  <2>4. drafts[t].resource \in Resources
    BY <2>1, <2>3 DEF Drafts
  <2> QED
    BY <2>1, <2>2, <2>3, <2>4 DEF Compiled
<1>5. Document = [i \in 1..n |-> policy(ClassesInOrder[i])]
  BY DEF Document
<1> HIDE DEF policy, n
<1>6. \A i \in 1..n : ClassesInOrder[i] \in Known /\ Document[i] = policy(ClassesInOrder[i])
  BY <1>2, <1>5
<1>7. Document \in Seq(Compiled) /\ Len(Document) = n
  <2>1. Document \in [1..n -> Compiled]
    BY <1>4, <1>5, <1>6
  <2> QED
    BY <1>2, <2>1, FunctionIsSeq
<1>8. \A i, j \in 1..n : Document[i].resource = Document[j].resource => i = j
  <2> SUFFICES ASSUME NEW i \in 1..n, NEW j \in 1..n, Document[i].resource = Document[j].resource PROVE i = j
    OBVIOUS
  <2> DEFINE t == ClassesInOrder[i]
             u == ClassesInOrder[j]
  <2>1. t \in Known /\ u \in Known /\ t \in PolicyClasses /\ u \in PolicyClasses
    BY <1>1, <1>6
  <2>2. drafts[t].resource = drafts[u].resource /\ drafts[t].resource # NoResource
    BY <1>4, <1>6, <2>1
  <2>3. t = u
    BY <2>1, <2>2 DEF RegistryIs
  <2> QED
    BY <1>2, <2>3
<1>9. ASSUME NEW i \in 1..n
      PROVE  /\ \A k \in 1..Len(Document[i].rules) : Document[i].rules[k].id[1] = Document[i].name
             /\ \A k, m \in 1..Len(Document[i].rules) : Document[i].rules[k].id = Document[i].rules[m].id => k = m
  <2> DEFINE t == ClassesInOrder[i]
  <2>1. t \in Known /\ Document[i].rules = RulesOf(t) /\ Document[i].name = nameOf[t]
    BY <1>4, <1>6
  <2> QED
    BY <1>4, <2>1
<1> QED
  BY <1>3, <1>7, <1>8, <1>9 DEF DocumentIs

LEMMA EvaluateIs ==
  ASSUME NEW p, NEW a, NEW facts
  PROVE  Evaluate(p, a, facts) <=>
           /\ \E r \in Range(p.rules) : a \in r.actions /\ r.conditions \subseteq facts /\ r.effect = "allow"
           /\ ~\E r \in Range(p.rules) : a \in r.actions /\ r.conditions \subseteq facts /\ r.effect = "deny"
<1>1. \A r : r \in Applicable(p, a, facts) <=> r \in Range(p.rules) /\ a \in r.actions /\ r.conditions \subseteq facts
  BY DEF Applicable
<1> QED
  BY <1>1 DEF Evaluate

LEMMA ReverseHasTheSame ==
  ASSUME NEW S, NEW s \in Seq(S)
  PROVE  Range(Reverse(s)) = Range(s)
<1>1. Len(s) \in Nat /\ DOMAIN s = 1..Len(s)
  OBVIOUS
<1>2. Reverse(s) = [i \in 1..Len(s) |-> s[(Len(s) - i) + 1]]
  BY DEF Reverse
<1> DEFINE n == Len(s)
<1> HIDE DEF n
<1>3. \A i \in 1..n : (n - i) + 1 \in 1..n /\ (n - ((n - i) + 1)) + 1 = i
  BY <1>1 DEF n
<1>4. DOMAIN Reverse(s) = 1..n /\ \A i \in 1..n : Reverse(s)[i] = s[(n - i) + 1]
  BY <1>2 DEF n
<1>5. \A i \in 1..n : s[i] = Reverse(s)[(n - i) + 1]
  BY <1>3, <1>4
<1>6. DOMAIN s = 1..n
  BY <1>1 DEF n
<1> QED
  BY <1>3, <1>4, <1>5, <1>6 DEF Range

LEMMA DenialOutweighs ==
  ASSUME NEW p \in Compiled, NEW a, NEW facts
  PROVE  LET turned == [p EXCEPT !.rules = Reverse(p.rules)]
             without == [p EXCEPT !.rules = Picked(p.rules, {k \in DOMAIN p.rules : p.rules[k].effect = "allow"})] IN
         /\ Evaluate(p, a, facts) <=> Evaluate(turned, a, facts)
         /\ Evaluate(p, a, facts) => Evaluate(without, a, facts)
<1> DEFINE rs == p.rules
           at == {k \in DOMAIN rs : rs[k].effect = "allow"}
           turned == [p EXCEPT !.rules = Reverse(p.rules)]
           without == [p EXCEPT !.rules = Picked(p.rules, at)]
           n == Cardinality(at)
<1>1. rs \in Seq(CompiledRules) /\ Len(rs) \in Nat /\ DOMAIN rs = 1..Len(rs)
  BY DEF Compiled
<1>2. turned.rules = Reverse(rs) /\ without.rules = Picked(rs, at)
  BY DEF Compiled
<1> HIDE DEF turned, without, rs
<1>3. Range(turned.rules) = Range(rs)
  BY <1>1, <1>2, ReverseHasTheSame
<1>4. at \in SUBSET Nat /\ IsFiniteSet(at)
  <2>1. IsFiniteSet(1..Len(rs)) /\ at \subseteq 1..Len(rs)
    BY <1>1, FS_Interval
  <2> QED
    BY <2>1, FS_Subset
<1>5. \A k : k \in at <=> k \in DOMAIN rs /\ rs[k].effect = "allow"
  OBVIOUS
<1> HIDE DEF at
<1>6. /\ DOMAIN Picked(rs, at) = 1..n
      /\ \A k \in 1..n : Pick(at, k) \in at /\ Picked(rs, at)[k] = rs[Pick(at, k)]
      /\ \A i \in at : \E k \in 1..n : Pick(at, k) = i
  BY <1>4, PickedIs
<1>7. \A r : r \in Range(without.rules) <=> r \in Range(rs) /\ r.effect = "allow"
  <2> SUFFICES ASSUME NEW r PROVE r \in Range(without.rules) <=> r \in Range(rs) /\ r.effect = "allow"
    OBVIOUS
  <2>1. r \in Range(without.rules) <=> \E k \in 1..n : r = rs[Pick(at, k)]
    BY <1>2, <1>6 DEF Range
  <2>2. r \in Range(rs) <=> \E i \in DOMAIN rs : r = rs[i]
    BY DEF Range
  <2>3. ASSUME NEW k \in 1..n, r = rs[Pick(at, k)] PROVE r \in Range(rs) /\ r.effect = "allow"
    <3>1. Pick(at, k) \in DOMAIN rs /\ rs[Pick(at, k)].effect = "allow"
      BY <1>5, <1>6
    <3> QED
      BY <2>2, <2>3, <3>1
  <2>4. ASSUME NEW i \in DOMAIN rs, r = rs[i], r.effect = "allow" PROVE \E k \in 1..n : r = rs[Pick(at, k)]
    <3>1. PICK k \in 1..n : Pick(at, k) = i
      BY <1>5, <1>6, <2>4
    <3> QED
      BY <2>4, <3>1
  <2> QED
    BY <2>1, <2>2, <2>3, <2>4
<1>8. Evaluate(p, a, facts) <=> Evaluate(turned, a, facts)
  BY <1>3, EvaluateIs DEF rs
<1>9. Evaluate(p, a, facts) => Evaluate(without, a, facts)
  <2>1. \A r : r \in Range(without.rules) <=> r \in Range(p.rules) /\ r.effect = "allow"
    BY <1>7 DEF rs
  <2>2. ASSUME NEW r, r.effect = "allow" PROVE r.effect # "deny"
    BY <2>2
  <2> QED
    BY <2>1, <2>2, EvaluateIs
<1> QED
  BY <1>8, <1>9 DEF turned, without, rs, at

LEMMA MembersFound ==
  ASSUME NEW doc, NEW r, NEW facts
  PROVE  /\ \A invocation \in FieldCalls : GuardedField(doc, r, invocation, facts) = "runs" =>
              (invocation.id /\ invocation.found) \/ (invocation.declared = "none" /\ invocation.verb # "read")
         /\ \A invocation \in RouteCalls : GuardedRoute(doc, r, invocation, facts) = "runs" =>
              /\ invocation.id => invocation.found
              /\ invocation.declared = "none" => (invocation.id <=> invocation.method = "PUT") \/ invocation.method = "GET"
<1>1. ASSUME NEW invocation \in FieldCalls, GuardedField(doc, r, invocation, facts) = "runs"
      PROVE  (invocation.id /\ invocation.found) \/ (invocation.declared = "none" /\ invocation.verb # "read")
  <2>1. Authorized(doc, r, FieldAction(invocation), FieldCollection(invocation), invocation, facts)
    BY <1>1 DEF GuardedField
  <2>2. FieldCollection(invocation) \/ (invocation.id /\ invocation.found)
    BY <2>1 DEF Authorized
  <2>3. FieldCollection(invocation) => invocation.declared = "none" /\ invocation.verb # "read"
    BY DEF FieldCollection
  <2> QED
    BY <2>2, <2>3
<1>2. ASSUME NEW invocation \in RouteCalls, GuardedRoute(doc, r, invocation, facts) = "runs"
      PROVE  /\ invocation.id => invocation.found
             /\ invocation.declared = "none" => (invocation.id <=> invocation.method = "PUT") \/ invocation.method = "GET"
  <2>1. RouteAction(invocation) # "undeclarable" /\ Authorized(doc, r, RouteAction(invocation), ~invocation.id, invocation, facts)
    BY <1>2 DEF GuardedRoute
  <2>2. ~invocation.id \/ (invocation.id /\ invocation.found)
    BY <2>1 DEF Authorized
  <2>3. invocation.method \in {"GET", "POST", "PUT"} /\ invocation.id \in BOOLEAN
    BY DEF RouteCalls
  <2>4. ASSUME invocation.declared = "none" PROVE (invocation.id <=> invocation.method = "PUT") \/ invocation.method = "GET"
    BY <2>1, <2>3, <2>4 DEF RouteAction
  <2> QED
    BY <2>2, <2>4
<1> QED
  BY <1>1, <1>2

(***************************************************************************)
(* The rule of a field, along a chain of two classes.                      *)
(***************************************************************************)
WalkStart == [found |-> FALSE, public |-> FALSE, rule |-> "none", type |-> "none"]
Walked(w, mark) ==
  IF w.found THEN w
  ELSE IF mark.member # "none" THEN [found |-> TRUE, public |-> (w.public \/ mark.public), rule |-> mark.member, type |-> w.type]
  ELSE [found |-> FALSE, public |-> (w.public \/ mark.public), rule |-> "none", type |-> FirstType(w.type, mark)]
Concluded(end, fallback) ==
  IF end.public THEN "none" ELSE IF end.found THEN end.rule ELSE IF end.type # "none" THEN end.type ELSE fallback

LEMMA RuleIs ==
  ASSUME NEW chain \in [1..2 -> Marks], NEW fallback
  PROVE  AuthRule(chain, fallback) = Concluded(Walked(Walked(WalkStart, chain[1]), chain[2]), fallback)
<1> DEFINE is(f) == f = [i \in 0..Len(chain) |->
              IF i = 0 THEN WalkStart
              ELSE LET w == f[i - 1]
                       public == w.public \/ chain[i].public IN
                   IF w.found THEN w
                   ELSE IF chain[i].member # "none" THEN [found |-> TRUE, public |-> public, rule |-> chain[i].member, type |-> w.type]
                   ELSE [found |-> FALSE, public |-> public, rule |-> "none", type |-> FirstType(w.type, chain[i])]]
           path == CHOOSE f : is(f)
           one == Walked(WalkStart, chain[1])
           two == Walked(one, chain[2])
           g == [i \in 0..2 |-> IF i = 0 THEN WalkStart ELSE IF i = 1 THEN one ELSE two]
<1>1. Len(chain) = 2
  BY FunctionIsSeq
<1>2. AuthRule(chain, fallback) = Concluded(path[Len(chain)], fallback)
  BY DEF AuthRule, Concluded, WalkStart
<1>3. \A i \in 0..2 : g[i] = IF i = 0 THEN WalkStart ELSE Walked(g[i - 1], chain[i])
  <2>1. g[0] = WalkStart /\ g[1] = one /\ g[2] = two
    OBVIOUS
  <2> HIDE DEF g
  <2> QED
    BY <2>1
<1>4. \A f : is(f) <=> f = [i \in 0..2 |-> IF i = 0 THEN WalkStart ELSE Walked(f[i - 1], chain[i])]
  BY <1>1 DEF Walked
<1> HIDE DEF is
<1>5. is(g)
  <2>1. g = [i \in 0..2 |-> g[i]]
    OBVIOUS
  <2> HIDE DEF g
  <2>2. g = [i \in 0..2 |-> IF i = 0 THEN WalkStart ELSE Walked(g[i - 1], chain[i])]
    BY <1>3, <2>1
  <2> QED
    BY <1>4, <2>2
<1>6. is(path)
  BY <1>5
<1> HIDE DEF path
<1>7. path = [i \in 0..2 |-> IF i = 0 THEN WalkStart ELSE Walked(path[i - 1], chain[i])]
  BY <1>4, <1>6
<1>8. path[2] = two
  <2>1. path[0] = WalkStart
    BY <1>7
  <2>2. path[1] = Walked(path[0], chain[1])
    BY <1>7
  <2>3. path[2] = Walked(path[1], chain[2])
    BY <1>7
  <2> QED
    BY <2>1, <2>2, <2>3
<1> QED
  BY <1>1, <1>2, <1>8

LEMMA NearestApplies ==
  ASSUME marks \in [1..2 -> Marks], user.fallback \in {"none", "any"}
  PROVE  NearestRuleApplies /\ Required \in Strengths
<1> DEFINE a == marks[1]
           b == marks[2]
           one == Walked(WalkStart, a)
           two == Walked(one, b)
           own == {i \in DOMAIN marks : marks[i].member # "none"}
           typed == {i \in DOMAIN marks : marks[i].type # "none"}
           nearest(S) == CHOOSE i \in S : \A j \in S : i <= j
           reach == IF own # {} THEN nearest(own) ELSE Len(marks)
           public == \E i \in 1..reach : marks[i].public
           nearestRule == IF public THEN "none"
                      ELSE IF own # {} THEN marks[nearest(own)].member
                      ELSE IF typed # {} THEN marks[nearest(typed)].type ELSE user.fallback
<1>1. /\ a.member \in Strengths /\ a.type \in Strengths /\ b.member \in Strengths /\ b.type \in Strengths
      /\ DOMAIN marks = 1..2 /\ Len(marks) = 2
  BY FunctionIsSeq DEF Marks
<1>2. AuthRule(marks, user.fallback) = Concluded(two, user.fallback)
  BY RuleIs
<1>3. \A S \in SUBSET (1..2) : (1 \in S => nearest(S) = 1) /\ (1 \notin S /\ 2 \in S => nearest(S) = 2) /\ (1 \notin S /\ 2 \notin S => S = {})
  <2> SUFFICES ASSUME NEW S \in SUBSET (1..2)
               PROVE  (1 \in S => nearest(S) = 1) /\ (1 \notin S /\ 2 \in S => nearest(S) = 2) /\ (1 \notin S /\ 2 \notin S => S = {})
    OBVIOUS
  <2>1. \A i \in S : i \in Int /\ (i = 1 \/ i = 2)
    OBVIOUS
  <2>2. ASSUME S # {} PROVE nearest(S) \in S /\ \A j \in S : nearest(S) <= j
    <3>1. \E i \in S : \A j \in S : i <= j
      <4>1. CASE 1 \in S
        <5>1. \A j \in S : 1 <= j
          BY <2>1
        <5> QED
          BY <4>1, <5>1
      <4>2. CASE 1 \notin S
        <5>1. 2 \in S /\ \A j \in S : j = 2
          BY <2>1, <2>2, <4>2
        <5>2. \A j \in S : 2 <= j
          BY <5>1
        <5> QED
          BY <5>1, <5>2
      <4> QED
        BY <4>1, <4>2
    <3> QED
      BY <3>1
  <2> HIDE DEF nearest
  <2>3. ASSUME 1 \in S PROVE nearest(S) = 1
    <3>1. nearest(S) \in S /\ nearest(S) <= 1
      BY <2>2, <2>3
    <3>2. nearest(S) = 1 \/ nearest(S) = 2
      BY <2>1, <3>1
    <3> QED
      BY <3>1, <3>2
  <2>4. ASSUME 1 \notin S, 2 \in S PROVE nearest(S) = 2
    BY <2>1, <2>2, <2>4
  <2> QED
    BY <2>1, <2>3, <2>4
<1>4. /\ own \in SUBSET (1..2) /\ (1 \in own <=> a.member # "none") /\ (2 \in own <=> b.member # "none")
      /\ typed \in SUBSET (1..2) /\ (1 \in typed <=> a.type # "none") /\ (2 \in typed <=> b.type # "none")
  BY <1>1
<1>5. NearestRuleApplies <=> AuthRule(marks, user.fallback) = nearestRule
  BY DEF NearestRuleApplies
<1>6. /\ reach = 1 => (public <=> a.public)
      /\ reach = 2 => (public <=> a.public \/ b.public)
  <2> HIDE DEF reach
  <2>1. reach = 1 => 1..reach = {1}
    OBVIOUS
  <2>2. reach = 2 => 1..reach = {1, 2}
    OBVIOUS
  <2> QED
    BY <2>1, <2>2
<1> HIDE DEF public
<1>7. /\ reach = IF own # {} THEN nearest(own) ELSE 2
      /\ nearestRule = IF public THEN "none"
                      ELSE IF own # {} THEN marks[nearest(own)].member
                      ELSE IF typed # {} THEN marks[nearest(typed)].type ELSE user.fallback
  BY <1>1
<1> HIDE DEF reach, nearestRule, own, typed, nearest
<1>8. CASE a.member # "none"
  <2>1. own # {} /\ nearest(own) = 1 /\ reach = 1
    BY <1>3, <1>4, <1>7, <1>8
  <2>2. nearestRule = IF a.public THEN "none" ELSE a.member
    BY <1>6, <1>7, <2>1
  <2>3. two.found /\ (two.public <=> a.public) /\ two.rule = a.member
    BY <1>8 DEF Walked, WalkStart
  <2>4. Concluded(two, user.fallback) = IF a.public THEN "none" ELSE a.member
    BY <2>3 DEF Concluded
  <2> QED
    BY <1>1, <1>2, <1>5, <2>2, <2>4 DEF Required, Strengths
<1>9. CASE a.member = "none" /\ b.member # "none"
  <2>1. own # {} /\ nearest(own) = 2 /\ reach = 2
    BY <1>3, <1>4, <1>7, <1>9
  <2>2. nearestRule = IF a.public \/ b.public THEN "none" ELSE b.member
    BY <1>6, <1>7, <2>1
  <2>3. two.found /\ (two.public <=> a.public \/ b.public) /\ two.rule = b.member
    <3>1. ~one.found /\ (one.public <=> a.public)
      BY <1>9 DEF Walked, WalkStart
    <3> HIDE DEF one
    <3> QED
      BY <1>9, <3>1 DEF Walked
  <2>4. Concluded(two, user.fallback) = IF a.public \/ b.public THEN "none" ELSE b.member
    BY <2>3 DEF Concluded
  <2> QED
    BY <1>1, <1>2, <1>5, <2>2, <2>4 DEF Required, Strengths
<1>10. CASE a.member = "none" /\ b.member = "none"
  <2> DEFINE type == IF a.type # "none" THEN a.type ELSE IF b.type # "none" THEN b.type ELSE user.fallback
  <2>1. own = {} /\ reach = 2
    BY <1>3, <1>4, <1>7, <1>10
  <2>2. nearestRule = IF a.public \/ b.public THEN "none" ELSE type
    <3>1. CASE a.type # "none"
      <4>1. typed # {} /\ nearest(typed) = 1
        BY <1>3, <1>4, <3>1
      <4> QED
        BY <1>6, <1>7, <2>1, <3>1, <4>1
    <3>2. CASE a.type = "none" /\ b.type # "none"
      <4>1. typed # {} /\ nearest(typed) = 2
        BY <1>3, <1>4, <3>2
      <4> QED
        BY <1>6, <1>7, <2>1, <3>2, <4>1
    <3>3. CASE a.type = "none" /\ b.type = "none"
      <4>1. typed = {}
        BY <1>3, <1>4, <3>3
      <4> QED
        BY <1>6, <1>7, <2>1, <3>3, <4>1
    <3> QED
      BY <3>1, <3>2, <3>3
  <2>3. ~two.found /\ (two.public <=> a.public \/ b.public) /\ two.type = IF a.type # "none" THEN a.type ELSE b.type
    <3>1. ~one.found /\ (one.public <=> a.public) /\ one.type = a.type
      BY <1>10 DEF Walked, WalkStart, FirstType
    <3> HIDE DEF one
    <3> QED
      BY <1>10, <3>1 DEF Walked, FirstType
  <2>4. Concluded(two, user.fallback) = IF a.public \/ b.public THEN "none" ELSE type
    BY <2>3 DEF Concluded
  <2> QED
    BY <1>1, <1>2, <1>5, <2>2, <2>4 DEF Required, Strengths
<1> QED
  BY <1>8, <1>9, <1>10

\* What the sign-in was looked at for.
SignedInFor(checked) == (Required = "fresh" => checked <= MaxAge) /\ (Required # "none" => user.signedIn)
FieldTypes ==
  /\ marks \in [1..2 -> Marks]
  /\ user \in [signedIn : BOOLEAN, strong : BOOLEAN, policy : {"none", "subjects", "anyone"}, fallback : {"none", "any"}]
StreamIs ==
  /\ stream \in [at : {"closed", "subscribe", "asking", "refused", "open", "resolve", "asking again"}, event : Nat, checked : Nat,
                 approved : BOOLEAN, yields : Nat]
  /\ moment \in Nat
  /\ stream.at \in {"asking", "asking again"} => (stream.approved <=> user.policy = "none")
  /\ stream.at = "asking again" => SignedInFor(stream.checked)
  /\ stream.yields # 0 => /\ stream.at = "open" /\ stream.yields = stream.event /\ stream.approved
                          /\ user.policy = "subjects" => user.signedIn
                          /\ SignedInFor(stream.checked)
PoliciesIInv == RegistryIs /\ FieldTypes /\ StreamIs

\* A draft of which only one rule changes.
LEMMA RuleDrafted ==
  ASSUME RegistryIs, UNCHANGED <<nameOf, compiled>>,
         NEW t \in PolicyClasses, NEW m \in Range(Methods), NEW rule, drafts[t].rules[m] \in DraftedRules => rule \in DraftedRules,
         drafts' = [drafts EXCEPT ![t] = WithRule(drafts[t], m, rule)]
  PROVE  RegistryIs'
<1> DEFINE rules == [drafts[t].rules EXCEPT ![m] = rule]
           draft == WithRule(drafts[t], m, rule)
<1>1. drafts[t] \in Drafts /\ drafts \in [PolicyClasses -> Drafts]
  BY DEF RegistryIs
<1>2. rules \in [Range(Methods) -> DraftedRules]
  BY <1>1 DEF Drafts
<1>3. draft = [drafts[t] EXCEPT !.rules = rules]
  BY DEF WithRule
<1> HIDE DEF rules
<1>4. draft \in Drafts /\ draft.resource = drafts[t].resource
  BY <1>1, <1>2, <1>3 DEF Drafts
<1> HIDE DEF draft
<1>5. drafts' \in [PolicyClasses -> Drafts] /\ \A u \in PolicyClasses : drafts'[u].resource = drafts[u].resource
  BY <1>1, <1>4 DEF draft
<1> QED
  BY <1>5 DEF RegistryIs

LEMMA RegistrySteps ==
  ASSUME PoliciesAssumption, RegistryIs, [RegistryNext]_registryVars
  PROVE  RegistryIs'
<1>1. CASE UNCHANGED <<nameOf, drafts, compiled>>
  BY <1>1 DEF RegistryIs
<1>2. ASSUME NEW t \in PolicyClasses, NEW r \in Resources, DeclarePolicy(t, r) PROVE RegistryIs'
  <2>1. CASE drafts[t].resource # NoResource \/ \E u \in PolicyClasses : drafts[u].resource = r
    <3>1. UNCHANGED <<nameOf, drafts, compiled>>
      BY <1>2, <2>1 DEF DeclarePolicy, Decorate, Throws
    <3> QED
      BY <1>1, <3>1
  <2>2. CASE ~(drafts[t].resource # NoResource \/ \E u \in PolicyClasses : drafts[u].resource = r)
    <3>1. drafts' = [drafts EXCEPT ![t].resource = r] /\ UNCHANGED <<nameOf, compiled>>
      BY <1>2, <2>2 DEF DeclarePolicy, Decorate
    <3>2. drafts[t] \in Drafts /\ drafts \in [PolicyClasses -> Drafts]
      BY DEF RegistryIs
    <3>3. [drafts[t] EXCEPT !.resource = r] \in Drafts /\ [drafts[t] EXCEPT !.resource = r].resource = r
      BY <3>2 DEF Drafts
    <3>4. drafts' = [drafts EXCEPT ![t] = [drafts[t] EXCEPT !.resource = r]]
      BY <3>1, <3>2
    <3>5. /\ drafts' \in [PolicyClasses -> Drafts] /\ drafts'[t].resource = r
          /\ \A u \in PolicyClasses : u # t => drafts'[u] = drafts[u]
      BY <3>2, <3>3, <3>4
    <3>6. \A u, v \in PolicyClasses : drafts'[u].resource = drafts'[v].resource => u = v \/ drafts'[u].resource = NoResource
      BY <2>2, <3>5 DEF RegistryIs
    <3> QED
      BY <3>1, <3>5, <3>6 DEF RegistryIs
  <2> QED
    BY <2>1, <2>2
<1>3. ASSUME NEW t \in PolicyClasses, NEW m \in Range(Methods), NEW e \in {"allow", "deny"}, NEW a \in Actions, DeclareRule(t, m, e, a)
      PROVE  RegistryIs'
  <2>1. CASE drafts[t].rules[m].effect \notin {"none", e}
    <3>1. UNCHANGED <<nameOf, drafts, compiled>>
      BY <1>3, <2>1 DEF DeclareRule, Decorate, Throws
    <3> QED
      BY <1>1, <3>1
  <2>2. CASE drafts[t].rules[m].effect \in {"none", e}
    <3> DEFINE rule == WithAction(drafts[t].rules[m], e, a)
    <3>1. drafts' = [drafts EXCEPT ![t] = WithRule(drafts[t], m, rule)]
      BY <1>3, <2>2 DEF DeclareRule, Decorate
    <3>2. UNCHANGED <<nameOf, compiled>>
      BY <1>3 DEF DeclareRule, Decorate
    <3>3. drafts[t].rules[m] \in DraftedRules => rule \in DraftedRules
      BY DEF WithAction, DraftedRules
    <3> HIDE DEF rule
    <3> QED
      BY <3>1, <3>2, <3>3, RuleDrafted
  <2> QED
    BY <2>1, <2>2
<1>4. ASSUME NEW t \in PolicyClasses, NEW m \in Range(Methods), NEW fact \in Facts, DeclareCondition(t, m, fact)
      PROVE  RegistryIs'
  <2> DEFINE rule == WithCondition(drafts[t].rules[m], fact)
  <2>1. drafts' = [drafts EXCEPT ![t] = WithRule(drafts[t], m, rule)]
    BY <1>4 DEF DeclareCondition, Decorate
  <2>2. UNCHANGED <<nameOf, compiled>>
    BY <1>4 DEF DeclareCondition, Decorate
  <2>3. drafts[t].rules[m] \in DraftedRules => rule \in DraftedRules
    BY DEF WithCondition, DraftedRules
  <2> HIDE DEF rule
  <2> QED
    BY <2>1, <2>2, <2>3, RuleDrafted
<1>5. ASSUME Compile PROVE RegistryIs'
  <2>1. compiled' = {Document} /\ UNCHANGED <<nameOf, drafts>> /\ Known # {} /\ ~Incomplete
    BY <1>5 DEF Compile
  <2>2. DocumentIs(Document)
    BY <2>1, CompileIs
  <2>3. \A doc \in compiled' : DocumentIs(doc)
    BY <2>1, <2>2
  <2> QED
    BY <2>1, <2>3 DEF RegistryIs
<1>6. \A i \in DOMAIN Methods : Methods[i] \in Range(Methods)
  BY DEF Range
<1>7. CASE UNCHANGED registryVars
  BY <1>1, <1>7 DEF registryVars
<1>8. CASE RegistryNext
  BY <1>2, <1>3, <1>4, <1>5, <1>6, <1>8 DEF RegistryNext
<1> QED
  BY <1>7, <1>8

\* The sign-in is strong enough: so it is for as long as the field has its rule.
LEMMA StrongFor ==
  ASSUME FieldTypes, moment \in Nat, StrongEnough
  PROVE  SignedInFor(moment)
<1>1. Required \in Strengths
  BY NearestApplies DEF FieldTypes
<1>2. CASE Required = "none"
  BY <1>2 DEF SignedInFor
<1>3. CASE Required = "any"
  <2>1. user.signedIn
    BY <1>3, Zenon DEF StrongEnough
  <2> QED
    BY <1>3, <2>1 DEF SignedInFor
<1>4. CASE Required = "strong"
  <2>1. user.signedIn
    BY <1>4, Zenon DEF StrongEnough
  <2> QED
    BY <1>4, <2>1 DEF SignedInFor
<1>5. CASE Required = "fresh"
  <2>1. user.signedIn /\ moment <= MaxAge
    BY <1>5, Zenon DEF StrongEnough
  <2> QED
    BY <2>1 DEF SignedInFor
<1> QED
  BY <1>1, <1>2, <1>3, <1>4, <1>5 DEF Strengths

LEMMA SameSignIn ==
  ASSUME UNCHANGED <<marks, user>>
  PROVE  (FieldTypes <=> FieldTypes') /\ \A checked : SignedInFor(checked)' <=> SignedInFor(checked)
<1>1. Required' = Required
  BY DEF Required
<1>2. FieldTypes <=> FieldTypes'
  BY DEF FieldTypes
<1> QED
  BY <1>1, <1>2 DEF SignedInFor

Streams == [at : {"closed", "subscribe", "asking", "refused", "open", "resolve", "asking again"}, event : Nat, checked : Nat,
            approved : BOOLEAN, yields : Nat]
\* A stream s that is as it should be.
StreamGuarded(s) ==
  /\ s.at \in {"asking", "asking again"} => (s.approved <=> user.policy = "none")
  /\ s.at = "asking again" => SignedInFor(s.checked)
  /\ s.yields # 0 => /\ s.at = "open" /\ s.yields = s.event /\ s.approved
                     /\ user.policy = "subjects" => user.signedIn
                     /\ SignedInFor(s.checked)

LEMMA FieldSteps ==
  ASSUME FieldTypes, StreamIs, [FieldNext]_fieldVars
  PROVE  FieldTypes' /\ StreamIs'
<1>1. stream \in Streams /\ moment \in Nat /\ StreamGuarded(stream)
  BY DEF StreamIs, Streams, StreamGuarded
<1>2. CASE UNCHANGED fieldVars
  <2>1. UNCHANGED <<marks, user, moment, stream>>
    BY <1>2 DEF fieldVars
  <2> QED
    BY <1>1, <2>1, SameSignIn DEF StreamIs, StreamGuarded
<1>3. ASSUME UNCHANGED <<marks, user>>, moment' \in Nat, stream' \in Streams, StreamGuarded(stream')
      PROVE  FieldTypes' /\ StreamIs'
  BY <1>3, SameSignIn DEF StreamIs, StreamGuarded, Streams
<1>4. CASE Tick
  <2>1. UNCHANGED <<marks, user, stream>> /\ moment' = moment + 1
    BY <1>4 DEF Tick
  <2> QED
    BY <1>1, <1>3, <2>1
<1>5. CASE SubscribeField
  <2>1. UNCHANGED <<marks, user, moment>> /\ stream' = [stream EXCEPT !.at = "subscribe"] /\ stream.at = "closed"
    BY <1>5 DEF SubscribeField
  <2>2. stream' \in Streams /\ stream'.at = "subscribe" /\ stream'.yields = stream.yields
    BY <1>1, <2>1 DEF Streams
  <2>3. stream.yields = 0
    BY <1>1, <2>1 DEF StreamGuarded
  <2>4. StreamGuarded(stream')
    BY <2>2, <2>3 DEF StreamGuarded
  <2> QED
    BY <1>1, <1>3, <2>1, <2>2, <2>4
<1>6. CASE Event
  <2>1. UNCHANGED <<marks, user, moment>> /\ stream' = [stream EXCEPT !.at = "resolve", !.event = @ + 1, !.yields = 0, !.checked = 0]
    BY <1>6 DEF Event
  <2> DEFINE event == stream.event + 1
  <2>2. stream.event \in Nat
    BY <1>1 DEF Streams
  <2>3. event \in Nat
    BY <2>2
  <2>4. stream' = [stream EXCEPT !.at = "resolve", !.event = event, !.yields = 0, !.checked = 0]
    BY <2>1
  <2> HIDE DEF event
  <2>5. stream' \in Streams /\ stream'.at = "resolve" /\ stream'.yields = 0
    BY <1>1, <2>3, <2>4 DEF Streams
  <2>6. StreamGuarded(stream')
    BY <2>5 DEF StreamGuarded
  <2> QED
    BY <1>1, <1>3, <2>1, <2>5, <2>6
<1>7. CASE GuardAsked
  <2> DEFINE opens == [stream EXCEPT !.at = "open"]
             yields == [stream EXCEPT !.at = "open", !.yields = stream.event, !.approved = TRUE]
             refuses == [Closed EXCEPT !.at = "refused"]
  <2>1. /\ UNCHANGED <<marks, user, moment>>
        /\ stream.at \in {"asking", "asking again"}
        /\ (user.policy = "subjects" /\ ~user.signedIn /\ ~stream.approved) => stream'.at = "refused"
    BY <1>7 DEF GuardAsked
  <2>2. stream.yields = 0
    BY <1>1, <2>1 DEF StreamGuarded
  <2>3. opens \in Streams /\ StreamGuarded(opens)
    <3>1. opens \in Streams /\ opens.at = "open" /\ opens.yields = stream.yields
      BY <1>1 DEF Streams
    <3> QED
      BY <2>2, <3>1 DEF StreamGuarded
  <2>4. refuses \in Streams /\ StreamGuarded(refuses)
    <3>1. refuses \in Streams /\ refuses.at = "refused" /\ refuses.yields = 0
      BY DEF Closed, Streams
    <3> QED
      BY <3>1 DEF StreamGuarded
  <2>5. ASSUME stream' = yields, stream.at = "asking again" PROVE stream' \in Streams /\ StreamGuarded(stream')
    <3>1. /\ stream' \in Streams /\ stream'.at = "open" /\ stream'.yields = stream'.event /\ stream'.checked = stream.checked
      BY <1>1, <2>5 DEF Streams
    <3>2. stream'.approved
      BY <1>1, <2>5 DEF Streams
    <3>3. SignedInFor(stream.checked) /\ (stream.approved <=> user.policy = "none")
      BY <1>1, <2>5 DEF StreamGuarded
    <3>4. user.policy = "subjects" => user.signedIn
      BY <2>1, <3>1, <3>3
    <3> QED
      BY <3>1, <3>2, <3>3, <3>4 DEF StreamGuarded
  <2>6. stream' = opens \/ stream' = refuses \/ (stream' = yields /\ stream.at = "asking again")
    BY <1>7, <2>1 DEF GuardAsked
  <2> HIDE DEF opens, yields, refuses
  <2>7. stream' \in Streams /\ StreamGuarded(stream')
    BY <2>3, <2>4, <2>5, <2>6
  <2> QED
    BY <1>1, <1>3, <2>1, <2>7
<1>8. ASSUME NEW phase \in {"subscribe", "resolve"}, EnterPhase(phase) PROVE FieldTypes' /\ StreamIs'
  <2> DEFINE weak == GuardedPhase(phase) /\ ~StrongEnough
             next == IF phase = "subscribe" THEN "asking" ELSE "asking again"
             free == ~(user.policy # "none" /\ GuardedPhase(phase))
             enters == [stream EXCEPT !.at = next, !.checked = moment, !.approved = free]
  <2>1. UNCHANGED <<marks, user, moment>> /\ stream.at = phase
    BY <1>8 DEF EnterPhase
  <2>2. stream.yields = 0
    BY <1>1, <2>1 DEF StreamGuarded
  <2>3. CASE weak
    <3>1. stream' = [Closed EXCEPT !.at = "refused"] \/ stream' = [stream EXCEPT !.at = "open"]
      BY <1>8, <2>3 DEF EnterPhase
    <3>2. stream' \in Streams /\ stream'.at \in {"refused", "open"} /\ stream'.yields = 0
      BY <1>1, <2>2, <3>1 DEF Closed, Streams
    <3>3. StreamGuarded(stream')
      BY <3>2 DEF StreamGuarded
    <3> QED
      BY <1>1, <1>3, <2>1, <3>2, <3>3
  <2>4. CASE ~weak
    <3>1. GuardedPhase(phase)
      BY DEF GuardedPhase
    <3>2. SignedInFor(moment)
      BY <1>1, <2>4, <3>1, StrongFor
    <3>3. stream' = enters
      BY <1>8, <2>4, Zenon DEF EnterPhase
    <3>4. free \in BOOLEAN /\ (free <=> user.policy = "none")
      BY <3>1
    <3>5. next \in {"asking", "asking again"}
      OBVIOUS
    <3> HIDE DEF free, next
    <3>6. /\ enters \in Streams /\ enters.at = next /\ enters.yields = 0 /\ enters.checked = moment
      BY <1>1, <2>2, <3>4, <3>5 DEF Streams
    <3>7. enters.approved <=> free
      BY <1>1 DEF Streams
    <3> HIDE DEF enters
    <3>8. StreamGuarded(enters)
      BY <3>2, <3>4, <3>6, <3>7 DEF StreamGuarded
    <3> QED
      BY <1>1, <1>3, <2>1, <3>3, <3>6, <3>8
  <2> QED
    BY <2>3, <2>4
<1> QED
  BY <1>2, <1>4, <1>5, <1>6, <1>7, <1>8 DEF FieldNext

PoliciesProved == ReadsBack /\ DenyOutweighs /\ MemberFound /\ NearestRuleApplies /\ EventsChecked

LEMMA PoliciesStart ==
  ASSUME PoliciesInit
  PROVE  PoliciesIInv
<1>1. RegistryIs
  <2>1. /\ nameOf \in [PolicyClasses -> 1..2] /\ drafts = [t \in PolicyClasses |-> NoDraft] /\ compiled = {}
    BY DEF PoliciesInit, RegistryInit
  <2>2. NoRule \in DraftedRules
    BY DEF NoRule, DraftedRules
  <2>3. NoDraft \in Drafts /\ NoDraft.resource = NoResource
    BY <2>2 DEF NoDraft, Drafts
  <2> QED
    BY <2>1, <2>3 DEF RegistryIs
<1>2. FieldTypes
  BY DEF PoliciesInit, FieldInit, FieldTypes
<1>3. StreamIs
  <2>1. stream = Closed /\ moment = 0
    BY DEF PoliciesInit, FieldInit
  <2> QED
    BY <2>1 DEF StreamIs, Closed
<1> QED
  BY <1>1, <1>2, <1>3 DEF PoliciesIInv

LEMMA PoliciesSteps ==
  ASSUME PoliciesAssumption, PoliciesIInv, [PoliciesNext]_policyVars
  PROVE  PoliciesIInv'
<1>1. [RegistryNext]_registryVars /\ [FieldNext]_fieldVars
  BY DEF PoliciesNext, policyVars, registryVars, fieldVars
<1> QED
  BY <1>1, RegistrySteps, FieldSteps DEF PoliciesIInv

LEMMA SameTruth == ASSUME NEW P \in BOOLEAN, NEW Q \in BOOLEAN, P <=> Q PROVE P = Q
OBVIOUS

LEMMA PoliciesAre ==
  ASSUME PoliciesIInv
  PROVE  PoliciesProved
<1>1. \A doc \in compiled : DocumentIs(doc)
  BY DEF PoliciesIInv, RegistryIs
<1>2. ReadsBack
  BY <1>1, DocumentReads DEF ReadsBack
<1>3. DenyOutweighs
  <2> SUFFICES ASSUME NEW doc \in compiled, NEW i \in DOMAIN doc, NEW a \in Actions, NEW facts \in SUBSET Facts
               PROVE  LET p == doc[i]
                          turned == [p EXCEPT !.rules = Reverse(p.rules)]
                          without == [p EXCEPT !.rules = Picked(p.rules, {k \in DOMAIN p.rules : p.rules[k].effect = "allow"})] IN
                      /\ Evaluate(p, a, facts) = Evaluate(turned, a, facts)
                      /\ Evaluate(p, a, facts) => Evaluate(without, a, facts)
    BY DEF DenyOutweighs
  <2>1. doc[i] \in Compiled
    BY <1>1 DEF DocumentIs
  <2> DEFINE turned == [doc[i] EXCEPT !.rules = Reverse(doc[i].rules)]
             without == [doc[i] EXCEPT !.rules = Picked(doc[i].rules, {k \in DOMAIN doc[i].rules : doc[i].rules[k].effect = "allow"})]
  <2>2. /\ Evaluate(doc[i], a, facts) <=> Evaluate(turned, a, facts)
        /\ Evaluate(doc[i], a, facts) => Evaluate(without, a, facts)
    BY <2>1, DenialOutweighs
  <2>3. Evaluate(doc[i], a, facts) \in BOOLEAN /\ Evaluate(turned, a, facts) \in BOOLEAN
    BY DEF Evaluate
  <2> HIDE DEF turned, without
  <2>4. Evaluate(doc[i], a, facts) = Evaluate(turned, a, facts)
    BY <2>2, <2>3, SameTruth
  <2> QED
    BY <2>2, <2>4, Zenon DEF turned, without
<1>4. MemberFound
  BY MembersFound DEF MemberFound
<1>5. NearestRuleApplies
  BY NearestApplies DEF PoliciesIInv, FieldTypes
<1>6. EventsChecked
  BY DEF PoliciesIInv, StreamIs, EventsChecked, SignedInFor
<1> QED
  BY <1>2, <1>3, <1>4, <1>5, <1>6 DEF PoliciesProved

\* Whatever the decorators declare and in whichever order: a document reads back from its text, a
\* denial outweighs, a member was found before it is worked on, a field has the rule nearest to it,
\* and no event of a subscription passes unchecked (authz/registry.ts, ebnf.ts, evaluator.ts,
\* manager.ts, auth/graphql/protect.ts).
THEOREM PoliciesHold == PoliciesSpec => [](ReadsBack /\ DenyOutweighs /\ MemberFound /\ NearestRuleApplies /\ EventsChecked)
<1>1. PoliciesInit => PoliciesIInv
  BY PoliciesStart
<1>2. PoliciesIInv /\ [PoliciesNext]_policyVars => PoliciesIInv'
  BY PoliciesAssumption, PoliciesSteps
<1>3. PoliciesIInv => ReadsBack /\ DenyOutweighs /\ MemberFound /\ NearestRuleApplies /\ EventsChecked
  BY PoliciesAre DEF PoliciesProved
<1> QED
  BY <1>1, <1>2, <1>3, PTL DEF PoliciesSpec
=============================================================================
