------------------------------- MODULE Policies -------------------------------
(***************************************************************************)
(* Authorization: policies declared by decorators and compiled             *)
(* (authz/registry.ts), written and read as text (authz/ebnf.ts),          *)
(* evaluated (authz/evaluator.ts, authz/manager.ts), and the guards of     *)
(* GraphQL fields and subscriptions that ask them (authz/graphql.ts,       *)
(* auth/graphql/protect.ts, decorators.ts).                                *)
(*                                                                         *)
(* A condition is a fact about a subject and a resource that holds or does *)
(* not; text is blocks of productions.                                     *)
(***************************************************************************)
EXTENDS Naturals, FiniteSets, Sequences, SequencesExt

NoResource == "none"

CONSTANTS
    PolicyClasses,   \* decorated classes
    Methods,         \* their methods, each a rule, in the order of their names
    Resources,       \* resource names
    Actions,         \* actions
    Facts,           \* conditions
    MaxDecorations,  \* bound on the decorators applied
    MaxMoment        \* bound on the clock of the subscription

ASSUME PoliciesAssumption ==
    /\ IsFiniteSet(PolicyClasses) /\ NoResource \notin Resources
    /\ Methods \in Seq(Range(Methods)) /\ \A i, j \in DOMAIN Methods : Methods[i] = Methods[j] => i = j

VARIABLES
    nameOf,     \* the name of each class, in the order of names; two may share one
    drafts,     \* what the decorators of each class have registered
    thrown,     \* whether a decorator threw
    applied,    \* how many decorators have run
    compiled,   \* the document compiled from the drafts, if any, as a set
    marks,      \* a field's decorators, from its own class up the prototype chain
    user,       \* who is signed in and how strongly; the policy of the field and what applies without a rule
    moment,     \* the clock
    stream      \* the subscription under guard

registryVars == <<nameOf, drafts, thrown, applied, compiled>>
fieldVars == <<marks, user, moment, stream>>
policyVars == <<nameOf, drafts, thrown, applied, compiled, marks, user, moment, stream>>

NoRule == [effect |-> "none", actions |-> {}, conditions |-> {}]
NoDraft == [resource |-> NoResource, rules |-> [m \in Range(Methods) |-> NoRule]]

(***************************************************************************)
(* The registry.                                                           *)
(***************************************************************************)
Throws == /\ thrown' = TRUE
          /\ UNCHANGED drafts

Decorate(step) ==
    /\ ~thrown /\ compiled = {} /\ applied < MaxDecorations
    /\ applied' = applied + 1
    /\ step
    /\ UNCHANGED <<nameOf, compiled>>

\* @Policy: once for a class, and no two classes for a resource.
DeclarePolicy(t, r) ==
    Decorate(IF drafts[t].resource # NoResource \/ \E u \in PolicyClasses : drafts[u].resource = r
               THEN Throws
               ELSE drafts' = [drafts EXCEPT ![t].resource = r] /\ UNCHANGED thrown)

WithRule(draft, m, rule) == [draft EXCEPT !.rules = [@ EXCEPT ![m] = rule]]
WithAction(rule, effect, action) == [rule EXCEPT !.effect = effect, !.actions = @ \cup {action}]
WithCondition(rule, fact) == [rule EXCEPT !.conditions = @ \cup {fact}]

\* @Allow and @Deny: a method has one effect, and collects actions.
DeclareRule(t, m, effect, action) ==
    Decorate(IF drafts[t].rules[m].effect \notin {"none", effect}
               THEN Throws
               ELSE /\ drafts' = [drafts EXCEPT ![t] = WithRule(@, m, WithAction(@.rules[m], effect, action))]
                    /\ UNCHANGED thrown)

\* @Owner, @HasRole, @HasScope, @Equals.
DeclareCondition(t, m, fact) ==
    Decorate(drafts' = [drafts EXCEPT ![t] = WithRule(@, m, WithCondition(@.rules[m], fact))] /\ UNCHANGED thrown)

Drafted(t, m) == drafts[t].rules[m] # NoRule
Known == {t \in PolicyClasses : drafts[t].resource # NoResource \/ \E m \in Range(Methods) : Drafted(t, m)}

\* What makes compile throw: a class without @Policy, a rule without an effect, two rules of one name.
Incomplete ==
    \/ \E t \in Known : drafts[t].resource = NoResource
    \/ \E t \in Known, m \in Range(Methods) : Drafted(t, m) /\ drafts[t].rules[m].effect = "none"
    \/ \E t, u \in Known, m \in Range(Methods) : t # u /\ nameOf[t] = nameOf[u] /\ Drafted(t, m) /\ Drafted(u, m)

\* Policies by name, of one name as they were registered, and the rules by method.
ClassesInOrder == CHOOSE o \in [1..Cardinality(Known) -> Known] :
    Range(o) = Known /\ \A i, j \in DOMAIN o : i < j => nameOf[o[i]] <= nameOf[o[j]]
\* what a sequence has at some of its positions, in its order
Picked(s, at) == [k \in 1..Cardinality(at) |-> s[CHOOSE i \in at : Cardinality({j \in at : j < i}) = k - 1]]
RuleOf(t, m) == [id |-> <<nameOf[t], m>>, effect |-> drafts[t].rules[m].effect,
                 actions |-> drafts[t].rules[m].actions, conditions |-> drafts[t].rules[m].conditions]
RulesOf(t) ==
    LET ms == Picked(Methods, {i \in DOMAIN Methods : Drafted(t, Methods[i])})
    IN [i \in DOMAIN ms |-> RuleOf(t, ms[i])]
Document == [i \in 1..Cardinality(Known) |->
                [name |-> nameOf[ClassesInOrder[i]], resource |-> drafts[ClassesInOrder[i]].resource, rules |-> RulesOf(ClassesInOrder[i])]]

Compile ==
    /\ ~thrown /\ compiled = {} /\ Known # {} /\ ~Incomplete
    /\ compiled' = {Document}
    /\ UNCHANGED <<nameOf, drafts, thrown, applied>>

(***************************************************************************)
(* Text: a block for each policy, with a production for it and then one    *)
(* for each of its rules.  The place of a production is its block and      *)
(* where it stands in that; to the reader blocks are nothing.              *)
(***************************************************************************)
Productions(p) == <<[kind |-> "policy", name |-> p.name, resource |-> p.resource]>>
                  \o [i \in DOMAIN p.rules |-> [kind |-> "rule", name |-> p.name, rule |-> p.rules[i]]]
\* Bug: rules are written before the policy they belong to.
RulesFirst(p) == [i \in DOMAIN p.rules |-> [kind |-> "rule", name |-> p.name, rule |-> p.rules[i]]]
                 \o <<[kind |-> "policy", name |-> p.name, resource |-> p.resource]>>
PolicyText(p) == Productions(p)
Written(doc) == [i \in DOMAIN doc |-> PolicyText(doc[i])]

PlacesIn(text) == UNION {{<<i, k>> : k \in DOMAIN text[i]} : i \in DOMAIN text}
Production(text, p) == text[p[1]][p[2]]
Earlier(q, p) == q[1] < p[1] \/ (q[1] = p[1] /\ q[2] < p[2])
InTurn(ps, k) == CHOOSE p \in ps : Cardinality({q \in ps : Earlier(q, p)}) = k - 1

\* What makes the reader throw at a place: a name or resource seen before, an unknown policy, a
\* rule seen before.
RefusedAt(text, p) ==
    LET before == {Production(text, q) : q \in {q \in PlacesIn(text) : Earlier(q, p)}}
        this == Production(text, p) IN
    IF this.kind = "policy"
      THEN \E q \in before : q.kind = "policy" /\ (q.name = this.name \/ q.resource = this.resource)
      ELSE \/ ~\E q \in before : q.kind = "policy" /\ q.name = this.name
           \/ \E q \in before : q.kind = "rule" /\ q.rule.id = this.rule.id
Readable(text) == PlacesIn(text) # {} /\ \A p \in PlacesIn(text) : ~RefusedAt(text, p)
PoliciesIn(text) == {p \in PlacesIn(text) : Production(text, p).kind = "policy"}
RulesIn(text, n) == {p \in PlacesIn(text) : Production(text, p).kind = "rule" /\ Production(text, p).name = n}
ReadText(text) ==
    [i \in 1..Cardinality(PoliciesIn(text)) |->
       LET policy == Production(text, InTurn(PoliciesIn(text), i))
           rules == RulesIn(text, policy.name)
       IN [name |-> policy.name, resource |-> policy.resource,
           rules |-> [k \in 1..Cardinality(rules) |-> Production(text, InTurn(rules, k)).rule]]]

(***************************************************************************)
(* Evaluation: the rules for the action all of whose conditions hold; one  *)
(* that denies outweighs those that allow.                                 *)
(***************************************************************************)
Applicable(policy, action, facts) ==
    {r \in Range(policy.rules) : action \in r.actions /\ r.conditions \subseteq facts}
\* Bug: the first rule that applies decides.
FirstApplicable(policy, action, facts) ==
    LET rs == SelectSeq(policy.rules, LAMBDA r : r \in Applicable(policy, action, facts))
    IN rs # <<>> /\ rs[1].effect = "allow"
Evaluate(policy, action, facts) ==
    LET rs == Applicable(policy, action, facts)
    IN (\E r \in rs : r.effect = "allow") /\ ~\E r \in rs : r.effect = "deny"

(***************************************************************************)
(* Resources: what the guards of fields (authz/graphql.ts) and of routes   *)
(* (authz/http.ts) ask the manager, and its answer.  A field call is what  *)
(* the field is named after, the action declared for it, whether it names  *)
(* an id, whether there is a subject, and whether the provider finds the   *)
(* resource; a route call has a method, and a path with or without the id. *)
(***************************************************************************)
FieldCalls == [verb : {"list", "create", "read"}, declared : {"none"} \cup Actions,
               id : BOOLEAN, signedIn : BOOLEAN, found : BOOLEAN]
RouteCalls == [method : {"GET", "POST", "PUT"}, declared : {"none"} \cup Actions,
               id : BOOLEAN, signedIn : BOOLEAN, found : BOOLEAN]

FieldAction(invocation) == IF invocation.declared # "none" THEN invocation.declared ELSE invocation.verb
\* Bug: an action that creates or lists needs no resource, however it was declared.
CollectionByAction(invocation) == FieldAction(invocation) \in {"list", "create"}
FieldCollection(invocation) == invocation.declared = "none" /\ invocation.verb \in {"list", "create"}

\* A route that names neither an action nor a member when it needs one cannot be declared.
RouteAction(invocation) == IF invocation.declared # "none" THEN invocation.declared
                     ELSE IF invocation.method = "GET" THEN IF invocation.id THEN "read" ELSE "list"
                     ELSE IF invocation.method = "POST" /\ ~invocation.id THEN "create"
                     ELSE IF invocation.method = "PUT" /\ invocation.id THEN "update"
                     ELSE "undeclarable"

Covered(doc, resource) == \E i \in DOMAIN doc : doc[i].resource = resource

\* The manager's answer: a subject, for a member action a resource that its provider found, and a rule.
Authorized(doc, resource, action, collection, invocation, facts) ==
    /\ invocation.signedIn
    /\ collection \/ (invocation.id /\ invocation.found)
    /\ \E i \in DOMAIN doc : doc[i].resource = resource /\ Evaluate(doc[i], action, facts)

\* The guard of a field refuses a member action without an id before it asks who calls.
GuardedField(doc, resource, invocation, facts) ==
    IF ~FieldCollection(invocation) /\ FieldAction(invocation) # "create" /\ ~invocation.id THEN "id missing"
    ELSE IF ~invocation.signedIn THEN "unauthenticated"
    ELSE IF ~Covered(doc, resource) THEN "error"
    \* without an id the manager looks for a request, which the context of a field has not
    ELSE IF ~FieldCollection(invocation) /\ ~invocation.id THEN "error"
    ELSE IF Authorized(doc, resource, FieldAction(invocation), FieldCollection(invocation), invocation, facts) THEN "runs"
    ELSE "forbidden"

GuardedRoute(doc, resource, invocation, facts) ==
    IF RouteAction(invocation) = "undeclarable" \/ ~Covered(doc, resource) THEN "error"
    ELSE IF Authorized(doc, resource, RouteAction(invocation), ~invocation.id, invocation, facts) THEN "runs" ELSE "denied"

(***************************************************************************)
(* The rule of a field: authRuleFor walks up the prototype chain.          *)
(***************************************************************************)
Strengths == {"none", "any", "strong", "fresh"}
Marks == [public : BOOLEAN, member : Strengths, type : Strengths]
NoMark == [public |-> FALSE, member |-> "none", type |-> "none"]

\* Bug: the rule of a class further up replaces that of a class further down.
LastType(type, mark) == IF mark.type # "none" THEN mark.type ELSE type
FirstType(type, mark) == IF type # "none" THEN type ELSE mark.type

AuthRule(chain, fallback) ==
    LET path[i \in 0..Len(chain)] ==
          IF i = 0 THEN [found |-> FALSE, public |-> FALSE, rule |-> "none", type |-> "none"]
          ELSE LET w == path[i - 1]
                   public == w.public \/ chain[i].public IN
               IF w.found THEN w
               ELSE IF chain[i].member # "none" THEN [found |-> TRUE, public |-> public, rule |-> chain[i].member, type |-> w.type]
               ELSE [found |-> FALSE, public |-> public, rule |-> "none", type |-> FirstType(w.type, chain[i])]
        end == path[Len(chain)]
    IN IF end.public THEN "none" ELSE IF end.found THEN end.rule
       ELSE IF end.type # "none" THEN end.type ELSE fallback

(***************************************************************************)
(* A subscription under guard.  Its start is guarded, and so is each event *)
(* it yields; in both the strength of the sign-in is looked at first and   *)
(* the policy is asked after that, which takes time.                       *)
(***************************************************************************)
MaxAge == 1
Closed == [at |-> "closed", event |-> 0, checked |-> 0, approved |-> FALSE, yields |-> 0]

Required == AuthRule(marks, user.fallback)
StrongEnough == CASE Required = "none" -> TRUE
                  [] Required = "any" -> user.signedIn
                  [] Required = "strong" -> user.signedIn /\ user.strong
                  [] Required = "fresh" -> user.signedIn /\ (moment <= MaxAge)

FieldInit ==
    /\ marks \in [1..2 -> Marks]
    /\ user \in {u \in [signedIn : BOOLEAN, strong : BOOLEAN, policy : {"none", "subjects", "anyone"}, fallback : {"none", "any"}] :
                 u.strong => u.signedIn}
    /\ moment = 0
    /\ stream = Closed

RegistryInit ==
    /\ nameOf \in [PolicyClasses -> 1..2]
    /\ drafts = [t \in PolicyClasses |-> NoDraft]
    /\ thrown = FALSE /\ applied = 0 /\ compiled = {}

PoliciesInit == RegistryInit /\ FieldInit

Tick ==
    /\ moment < MaxMoment
    /\ moment' = moment + 1
    /\ UNCHANGED <<marks, user, stream>>

\* Bug: only the start of a subscription is guarded.
SubscribeOnly(phase) == phase = "subscribe"
GuardedPhase(phase) == phase \in {"subscribe", "resolve"}

\* The first half of a guard: the sign-in.
EnterPhase(phase) ==
    /\ stream.at = phase
    /\ stream' = IF GuardedPhase(phase) /\ ~StrongEnough
                   THEN IF phase = "subscribe" THEN [Closed EXCEPT !.at = "refused"] ELSE [stream EXCEPT !.at = "open"]
                   ELSE [stream EXCEPT !.at = IF phase = "subscribe" THEN "asking" ELSE "asking again",
                                       !.checked = moment, !.approved = ~(user.policy # "none" /\ GuardedPhase(phase))]
    /\ UNCHANGED <<marks, user, moment>>

\* The second half: the manager's answer, when the field has a policy; a policy for subjects refuses
\* whoever is not signed in.
GuardAsked ==
    /\ stream.at \in {"asking", "asking again"}
    /\ LET opens == [stream EXCEPT !.at = "open"]
           yields == [stream EXCEPT !.at = "open", !.yields = stream.event, !.approved = TRUE] IN
       \/ stream' = IF stream.at = "asking" THEN opens ELSE yields
       \/ /\ ~stream.approved
          /\ stream' = IF stream.at = "asking" THEN [Closed EXCEPT !.at = "refused"] ELSE opens
    /\ (user.policy = "subjects" /\ ~user.signedIn /\ ~stream.approved) => stream'.at = "refused"
    /\ UNCHANGED <<marks, user, moment>>

SubscribeField ==
    /\ stream.at = "closed"
    /\ stream' = [stream EXCEPT !.at = "subscribe"]
    /\ UNCHANGED <<marks, user, moment>>

\* An event is published, and its payload goes through the guarded resolver.
Event ==
    /\ stream.at = "open" /\ stream.event < 2
    /\ stream' = [stream EXCEPT !.at = "resolve", !.event = @ + 1, !.yields = 0, !.checked = 0]
    /\ UNCHANGED <<marks, user, moment>>

RegistryNext ==
    \/ \E t \in PolicyClasses, r \in Resources : DeclarePolicy(t, r)
    \/ \E t \in PolicyClasses, i \in DOMAIN Methods, e \in {"allow", "deny"}, a \in Actions : DeclareRule(t, Methods[i], e, a)
    \/ \E t \in PolicyClasses, i \in DOMAIN Methods, f \in Facts : DeclareCondition(t, Methods[i], f)
    \/ Compile
FieldNext == Tick \/ SubscribeField \/ Event \/ GuardAsked \/ \E phase \in {"subscribe", "resolve"} : EnterPhase(phase)
PoliciesNext == (RegistryNext /\ UNCHANGED fieldVars) \/ (FieldNext /\ UNCHANGED registryVars)

PoliciesSpec == PoliciesInit /\ [][PoliciesNext]_policyVars

(***************************************************************************)
(* Properties.                                                             *)
(***************************************************************************)
\* A compiled document written as text reads back as itself, unless two of its classes share a name:
\* those compile, and their text is then refused, never read as something else (ebnf.ts:17-32, 135-175).
\* Actions are taken to have no | in them and names no $, which the text has no way to write.
ReadsBack ==
    \A doc \in compiled :
        /\ (\A i, j \in DOMAIN doc : i # j => doc[i].name # doc[j].name) => Readable(Written(doc))
        /\ Readable(Written(doc)) => ReadText(Written(doc)) = doc

\* The decision does not depend on the order of the rules, and a rule that denies never widens what
\* is allowed (evaluator.ts:64-87).
DenyOutweighs ==
    \A doc \in compiled : \A i \in DOMAIN doc : \A a \in Actions, facts \in SUBSET Facts :
        LET p == doc[i]
            turned == [p EXCEPT !.rules = Reverse(p.rules)]
            without == [p EXCEPT !.rules = Picked(p.rules, {k \in DOMAIN p.rules : p.rules[k].effect = "allow"})] IN
        /\ Evaluate(p, a, facts) = Evaluate(turned, a, facts)
        /\ Evaluate(p, a, facts) => Evaluate(without, a, facts)

\* A guarded field or route that works on a member of a resource runs only after the provider found
\* that member: the guard of a field lets an action declared as "create" go on without an id, and it
\* is the manager that fails on it (authz/graphql.ts:143, http.ts:28-46, manager.ts:64-87).
MemberFound ==
    \A doc \in compiled : \A r \in Resources, facts \in SUBSET Facts :
        /\ \A invocation \in FieldCalls : GuardedField(doc, r, invocation, facts) = "runs" =>
              (invocation.id /\ invocation.found) \/ (invocation.declared = "none" /\ invocation.verb # "read")
        /\ \A invocation \in RouteCalls : GuardedRoute(doc, r, invocation, facts) = "runs" =>
              /\ invocation.id => invocation.found
              /\ invocation.declared = "none" => (invocation.id <=> invocation.method = "PUT") \/ invocation.method = "GET"

\* The rule of a field is that of the nearest declaration: its own, unless it was made public at that
\* class or below; else none, if it was made public anywhere; else that of the nearest class.
NearestRuleApplies ==
    LET own == {i \in DOMAIN marks : marks[i].member # "none"}
        typed == {i \in DOMAIN marks : marks[i].type # "none"}
        nearest(S) == CHOOSE i \in S : \A j \in S : i <= j
        reach == IF own # {} THEN nearest(own) ELSE Len(marks) IN
    AuthRule(marks, user.fallback) = IF \E i \in 1..reach : marks[i].public THEN "none"
                      ELSE IF own # {} THEN marks[nearest(own)].member
                      ELSE IF typed # {} THEN marks[nearest(typed)].type ELSE user.fallback

\* Each event of a subscription that is yielded passed the guard after it was published, however long
\* ago the subscription was started: the sign-in was fresh and the policy said yes (protect.ts:150-211, 231-254).
EventsChecked ==
    stream.yields # 0 =>
        /\ stream.yields = stream.event /\ stream.approved
        /\ user.policy = "subjects" => user.signedIn
        /\ Required = "fresh" => stream.checked <= MaxAge
        /\ Required # "none" => user.signedIn
=============================================================================
