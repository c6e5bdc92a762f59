---- MODULE TypeGraph ----
(***************************************************************************)
(* The semantic layer of di-framework-graphql (type-graph.ts): it turns    *)
(* what classes declare into a graph of types, for the whole program or    *)
(* for the slice of one bounded context. A declaration is a pair of an     *)
(* owner and what it declares; a field is known by what it returns, so a   *)
(* name and a type are one thing here. References are to a type, to a      *)
(* connection over a type, to the one union and to the one interface.      *)
(***************************************************************************)
EXTENDS FiniteSets, Naturals

CONSTANTS Types, Contexts, NoContext,
          MaxDeclarations   \* fields, actions, union members and implements clauses

ASSUME TypeGraphAssumption == NoContext \notin Contexts

VARIABLES home,        \* @BoundedContext of a type
          interfaceHome,
          boundary,    \* types declared a boundary, which have a key
          declarations,
          graphs       \* selected contexts -> the graph built for them

graphVars == <<home, interfaceHome, boundary, declarations, graphs>>

AllContexts == Contexts \union {NoContext}
Type(t) == <<"type", t>>
ConnectionOver(t) == <<"connection", t>>
EdgeOf(t) == <<"edge", t>>
Union == <<"union">>
Interface == <<"interface">>
PageInfo == <<"PageInfo">>
KeyField == <<"key">>
NameField == <<"name">>
Portal(c) == <<"portal", c>>
Extending(c, t) == <<"extends", c, t>>
Roots == {<<"Query">>, <<"Mutation">>}

References == {Type(t) : t \in Types} \union {ConnectionOver(t) : t \in Types} \union {Union, Interface}
Owners == {Type(t) : t \in Types} \union {Interface} \union {Portal(c) : c \in Contexts}
          \union {Extending(c, t) : c \in Contexts, t \in Types}
Declarable == (Owners \X References)
              \union {<<Type(t), <<"action">>>> : t \in Types}
              \union {<<Type(t), <<"implements">>>> : t \in Types}
              \union {<<Union, Type(t)>> : t \in Types}

NotBuilt == [status |-> "none"]
FailedGraph == [status |-> "failed"]
Selections == {Contexts} \union {{c} : c \in Contexts}
Programs == {{}} \union UNION {{{x[i] : i \in 1..k} : x \in [1..k -> Declarable]} : k \in 1..MaxDeclarations}

TypeGraphInit ==
  /\ home \in [Types -> AllContexts]
  /\ interfaceHome \in AllContexts
  /\ boundary \in SUBSET Types
  /\ declarations \in Programs
  /\ graphs = [s \in Selections |-> NotBuilt]

-----------------------------------------------------------------------------
\* The passes of one build, for the selected contexts S. Selecting every context is the
\* build without a filter.

Declared(owner) == {r \in References : <<owner, r>> \in declarations}
Members == {t \in Types : <<Union, Type(t)>> \in declarations}
Implementers == {t \in Types : <<Type(t), <<"implements">>>> \in declarations}
Acting == {t \in Types : <<Type(t), <<"action">>>> \in declarations}
Returns(owner, ref, context) == [owner |-> owner, ref |-> ref, context |-> context]

\* what has no context is shared, and in every slice
InSelectedContext(S, c) == c = NoContext \/ c \in S
Owned(S) == {t \in Types : InSelectedContext(S, home[t])}

\* Bug: a type of another context has no stub, whatever it is.
NoStubs(S) == {}
\* a slice sees a boundary type of another context as a stub
Stubs(S) == {t \in Types \ Owned(S) : t \in boundary}

\* resolveTypeRef: whether a reference can be resolved in the slice
RefResolves(S, ref) ==
  LET known == Owned(S) \union Stubs(S) IN
  /\ ref[1] \in {"type", "connection"} => ref[2] \in known
  /\ ref = Union => Members # {} /\ Members \subseteq known

\* the fields of types and stubs, before anything is added to them
OwnFields(S) ==
  {Returns(Type(p[1]), p[2], home[p[1]]) : p \in {q \in Owned(S) \X References : q[2] \in Declared(Type(q[1]))}}
  \union {Returns(Type(t), KeyField, home[t]) : t \in (Owned(S) \union Stubs(S)) \intersect boundary}
InterfaceFields == {Returns(Interface, r, interfaceHome) : r \in Declared(Interface) \union {NameField}}

\* applyInterfaces: a type that implements the interface, or a stub of one, gets the
\* fields it does not have
Inherited(S) ==
  LET own == OwnFields(S)
      inherits(t) == {f \in InterfaceFields : ~\E g \in own : g.owner = Type(t) /\ g.ref = f.ref}
  IN UNION {{Returns(Type(t), f.ref, home[t]) : f \in inherits(t)} :
              t \in Implementers \intersect (Owned(S) \union Stubs(S))}

\* applyExtensions: those of the selected contexts, to types the slice knows
Extensions(S) == {e \in S \X Types : e[2] \in Owned(S) \union Stubs(S) /\ Declared(Extending(e[1], e[2])) # {}}
Extended(S) == UNION {{Returns(Type(e[2]), r, e[1]) : r \in Declared(Extending(e[1], e[2]))} : e \in Extensions(S)}
Trespasses(S) == \E e \in Extensions(S) : e[1] # home[e[2]] /\ e[2] \notin boundary
Redeclared(S) ==
  LET extended == Extended(S)
      before == IF extended = {} THEN {} ELSE OwnFields(S) \union Inherited(S)
      Collides(f, g) == g.owner = f.owner /\ g.ref = f.ref
  IN \E f \in extended : (\E g \in before : Collides(f, g)) \/ (\E g \in extended \ {f} : Collides(f, g))

\* the root types: portals' fields, and the actions of the types the slice owns
QueryFields(S) == UNION {{Returns(<<"Query">>, r, c) : r \in Declared(Portal(c))} : c \in S}
MutationFields(S) == {Returns(<<"Mutation">>, Type(t), home[t]) : t \in Acting \intersect Owned(S)}
DeclaredTwice(S) == LET fields == QueryFields(S) IN \E f, g \in fields : f # g /\ f.ref = g.ref
ActsWithoutKey(S) == ~(Acting \intersect Owned(S) \subseteq boundary)

TypeFields(S) == OwnFields(S) \union Inherited(S) \union Extended(S)
RootFields(S) == QueryFields(S) \union MutationFields(S)
\* every reference the passes resolve, the interface's own and the ones that fields are
\* inherited from included
ResolvedTypes(S) == {f.ref : f \in TypeFields(S) \union InterfaceFields \union RootFields(S)}

\* Bug: the types generated for a connection belong to no context.
ContextFree(t) == NoContext
\* ensureConnection: connection and edge inherit the context of what they page over
ConnectionContext(t) == home[t]

Paged(S) == LET refs == ResolvedTypes(S) IN {t \in Types : ConnectionOver(t) \in refs}
Synthetic(S) ==
  UNION {{Returns(ConnectionOver(t), EdgeOf(t), ConnectionContext(t)),
          Returns(ConnectionOver(t), PageInfo, ConnectionContext(t)),
          Returns(EdgeOf(t), Type(t), ConnectionContext(t))} : t \in Paged(S)}
SyntheticObjects(S) == UNION {{ConnectionOver(t), EdgeOf(t), PageInfo} : t \in Paged(S)}

\* Bug: only the fields of the roots count.
MentionedByRoots(S) == {f.ref : f \in RootFields(S)}
\* pruneUnreferencedStubs: what fields mention as an object, from the roots, the slice's
\* own types and the interface on, through the stubs mentioned
Mentioned(S) ==
  LET stubs == {Type(t) : t \in Stubs(S)}
      all == TypeFields(S) \union Synthetic(S) \union InterfaceFields \union RootFields(S)
      MentionedFrom(reached) == {f.ref : f \in {g \in all : g.owner \notin stubs \/ g.owner \in reached}}
  IN MentionedFrom({o \in stubs : \A reached \in SUBSET stubs :
                      MentionedFrom(reached) \intersect stubs \subseteq reached => o \in reached})
\* Bug: the slice's own types are pruned like stubs.
KeptIfMentioned(S) == {Type(t) : t \in Owned(S) \union Stubs(S)} \intersect Mentioned(S)
Kept(S) == {Type(t) : t \in Owned(S)} \union ({Type(t) : t \in Stubs(S)} \intersect Mentioned(S))
Objects(S) == Kept(S) \union SyntheticObjects(S)

\* the objects behind a reference, for validateBoundaries
Behind(drawn, ref) ==
  {o \in drawn : \/ o = ref
                 \/ ref = Union /\ \E t \in Members : o = Type(t)
                 \/ ref = Interface /\ \E t \in Implementers : o = Type(t)}
OwnerContext(o) ==
  IF o[1] = "type" THEN home[o[2]]
  ELSE IF o[1] \in {"connection", "edge"} THEN ConnectionContext(o[2])
  ELSE NoContext
BoundaryObject(o) == o[1] \in {"type", "connection", "edge"} /\ o[2] \in boundary
Crosses(from, o) == from # NoContext /\ OwnerContext(o) \notin {NoContext, from} /\ ~BoundaryObject(o)
EmittedFields(S) ==
  LET drawn == Objects(S) IN {f \in TypeFields(S) \union Synthetic(S) : f.owner \in drawn} \union RootFields(S)
BreaksBoundary(S) ==
  LET drawn == Objects(S) IN
    \E f \in EmittedFields(S) : \E o \in Behind(drawn, f.ref) : Crosses(f.context, o)

\* collectContexts: of all objects but the stubs, and of the portals
RepresentedContexts(S) ==
  ({OwnerContext(o) : o \in Objects(S) \ {Type(t) : t \in Stubs(S)}}
     \union {c \in S : Declared(Portal(c)) # {}}) \ {NoContext}

\* an interface is emitted when something implements it, kept or not, or a field returns it
InterfaceEmitted(S) ==
  \/ Implementers \intersect (Owned(S) \union Stubs(S)) # {}
  \/ Interface \in {f.ref : f \in EmittedFields(S) \union InterfaceFields}

BuildFails(S) ==
  \/ LET refs == ResolvedTypes(S) IN \E ref \in refs : ~RefResolves(S, ref)
  \/ Trespasses(S) \/ Redeclared(S) \/ DeclaredTwice(S) \/ ActsWithoutKey(S)
  \/ BreaksBoundary(S)

UnionMembers(S) == IF Union \in ResolvedTypes(S) THEN {Type(t) : t \in Members} ELSE {}
EntitiesOf(drawn) == {o \in drawn : o[1] = "type" /\ o[2] \in boundary}

\* the schema is assembled by name: what a field returns, and what a union is of, must be
\* among the types of the graph
Assembles(g) ==
  /\ g.members \subseteq g.objects
  /\ \A f \in g.fields :
       f.ref \in g.objects \union {KeyField, NameField} \union (IF g.interface THEN {Interface} ELSE {})
                 \union (IF g.members # {} THEN {Union} ELSE {})

Graph(S) ==
  LET printed == InterfaceEmitted(S)
      drawn == Objects(S)
  IN [status    |-> "built",
      objects   |-> drawn,
      fields    |-> EmittedFields(S) \union (IF printed THEN InterfaceFields ELSE {}),
      members   |-> UnionMembers(S),
      interface |-> printed,
      entities  |-> EntitiesOf(drawn),
      contexts  |-> RepresentedContexts(S)]

\* buildTypeGraph, for the whole program or one subgraph after the other
Build(S) ==
  /\ graphs[S] = NotBuilt
  /\ S # Contexts => graphs[Contexts] # NotBuilt
  /\ graphs' = [graphs EXCEPT ![S] = IF BuildFails(S) THEN FailedGraph ELSE Graph(S)]
  /\ UNCHANGED <<home, interfaceHome, boundary, declarations>>

TypeGraphNext == \E S \in Selections : Build(S)
TypeGraphSpec == TypeGraphInit /\ [][TypeGraphNext]_graphVars

SliceBuilt(S) == graphs[S].status = "built"
Slices == Selections \ {Contexts}
TypeGraphTypeOK == \A S \in Selections : graphs[S].status \in {"none", "built", "failed"}

-----------------------------------------------------------------------------
\* The types a declared reference leads to, whatever was made of it.
LeadsTo(ref) ==
  {t \in Types : \/ ref = Type(t) \/ ref = ConnectionOver(t)
                 \/ ref = Union /\ t \in Members
                 \/ ref = Interface /\ t \in Implementers}

\* A graph that is built is one the context edges hold in: a field declared in one context
\* leads to a type of another, directly, by pages, by the union or by the interface, only
\* if that type is a boundary type.
ContextsAreReal ==
  \A S \in Selections : SliceBuilt(S) =>
    \A f \in {g \in graphs[S].fields : g.owner \in {Type(t) : t \in Types} \union Roots} :
      \A t \in LeadsTo(f.ref) :
        Type(t) \in graphs[S].objects /\ f.context # NoContext /\ home[t] # NoContext /\ home[t] # f.context
          => t \in boundary

\* A schema can be assembled from every graph that is built, but for one whose union is of
\* a stub that nothing else mentions.
NamesWhatItHas ==
  \A S \in Selections : SliceBuilt(S) => Assembles(graphs[S]) \/ (Union \in ResolvedTypes(S) /\ Members \intersect Stubs(S) # {})

\* The slices add up to the program. A slice gives its types and its stubs no field that
\* the whole program does not give them, every type is in a slice with all of its own, and
\* a type with a context that is in several slices is an entity in each.
SlicesAddUp ==
  SliceBuilt(Contexts) =>
    LET TypesIn(S) == {f \in graphs[S].fields : f.owner \in {Type(t) : t \in Types}}
        whole == TypesIn(Contexts)
    IN /\ \A S \in Slices : SliceBuilt(S) =>
            /\ TypesIn(S) \subseteq whole
            /\ {f \in whole : home[f.owner[2]] \in S /\ f.context = home[f.owner[2]]} \subseteq graphs[S].fields
       /\ \A S, R \in Slices : S # R /\ SliceBuilt(S) /\ SliceBuilt(R) =>
            \A t \in Types : Type(t) \in graphs[S].objects \intersect graphs[R].objects /\ home[t] # NoContext =>
              Type(t) \in graphs[S].entities \intersect graphs[R].entities

\* If the program builds, a slice of it does, unless something every slice has (the
\* interface, or a type of no context) or the union names a type that is closed to it.
SlicesBuild ==
  \A S \in Slices :
    SliceBuilt(Contexts) /\ graphs[S] = FailedGraph =>
      \E t \in (Types \ boundary) \ Owned(S) :
        \E owner \in {Interface, Union} \union {Type(u) : u \in {v \in Types : home[v] = NoContext}} :
          \E ref \in Declared(owner) : t \in LeadsTo(ref)

\* type-graph.ts:1265-1268: each slice sees every other context only through boundary
\* stubs, "the key, plus whatever this context contributes with `@Extends`". What a
\* context contributes is in its slice.
ContributionsKept ==
  \A S \in Slices : SliceBuilt(S) => Extended(S) \subseteq graphs[S].fields
====
