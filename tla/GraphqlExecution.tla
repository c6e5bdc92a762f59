---- MODULE GraphqlExecution ----
(***************************************************************************)
(* What a GraphQL request does with the fields of a graph                  *)
(* (di-framework-graphql: resolvers.ts, loader.ts, connection.ts,          *)
(* schema.ts). Five parts that share no state: the batch loader of a       *)
(* field, a client that pages through a connection, a subscription served  *)
(* over SSE, a query that is decoded, costed and executed, and the         *)
(* entities a gateway asks a subgraph for. part says which of them runs.   *)
(***************************************************************************)
EXTENDS Naturals, Sequences, FiniteSets

CONSTANTS LoadKeys,    \* parents a batched field is resolved for
          MaxItems,    \* items of the list behind a connection
          MaxEvents,   \* events published while a subscription is served
          MaxEntities  \* representations in one request for entities

ASSUME GraphqlAssumption ==
  {"none", "pending", "failed"} \intersect LoadKeys = {} /\ {MaxItems, MaxEvents, MaxEntities} \subseteq Nat

VARIABLES part,
          loadQueue, scheduled, loadCache, inFlight, loadResult, asks,   \* one BatchLoader
          total, window, visited, walk,                                  \* one walk of a connection
          requires, principal, attached, backlog, generator, returning,  \* one subscription
          sseClosed, publishedSince, frames,
          asked, selections, limits, stage, status,                      \* one query
          family, representations, loads                                 \* one request for entities

loaderVars == <<loadQueue, scheduled, loadCache, inFlight, loadResult, asks>>
pageVars == <<total, window, visited, walk>>
streamVars == <<requires, principal, attached, backlog, generator, returning, sseClosed, publishedSince, frames>>
queryVars == <<asked, selections, limits, stage, status>>
entityVars == <<family, representations, loads>>
graphqlVars == <<part, loaderVars, pageVars, streamVars, queryVars, entityVars>>

ErrorFrame == 0
Rules == {"authenticated", "role", "claim", "predicate"}
WholeList == [start |-> 0, end |-> 0, next |-> TRUE, previous |-> TRUE]

-----------------------------------------------------------------------------
\* BatchLoader. A key asked for again shares the promise of the first time, which stays in
\* the cache when it was rejected.

Load(k) ==
  /\ k \notin loadCache
  /\ loadCache' = loadCache \union {k}
  /\ loadQueue' = Append(loadQueue, k)
  /\ scheduled' = TRUE
  /\ loadResult' = [loadResult EXCEPT ![k] = "pending"]
  /\ UNCHANGED <<inFlight, asks>>

\* Bug: what is dispatched stays in the queue.
QueueKept(queue) == queue
\* dispatch takes the whole queue and lets another batch be scheduled while it waits
QueueAfter(queue) == << >>

Dispatch ==
  /\ scheduled
  /\ scheduled' = FALSE
  /\ loadQueue' = QueueAfter(loadQueue)
  /\ inFlight' = IF loadQueue = << >> THEN inFlight ELSE inFlight \union {loadQueue}
  /\ asks' = [k \in LoadKeys |-> asks[k] + Cardinality({i \in 1..Len(loadQueue) : loadQueue[i] = k})]
  /\ UNCHANGED <<loadCache, loadResult>>

\* Bug: as many results as there are are handed out, to the keys in front.
GivenAsFarAsTheyGo(batch, results, k) ==
  IF \E i \in 1..Len(results) : batch[i] = k THEN results[CHOOSE i \in 1..Len(results) : batch[i] = k] ELSE "failed"
\* one result per key, in order, or none for anybody
Given(batch, results, k) ==
  IF Len(results) # Len(batch) THEN "failed" ELSE results[CHOOSE i \in 1..Len(batch) : batch[i] = k]

\* the batch function answers what it finds, with all results or with one missing, or throws
BatchEnds(batch) ==
  /\ batch \in inFlight
  /\ \E missing \in 0..Len(batch) :
       LET results == IF missing = 0 THEN batch
                      ELSE SubSeq(batch, 1, missing - 1) \o SubSeq(batch, missing + 1, Len(batch)) IN
         loadResult' = [k \in LoadKeys |->
           IF \E i \in 1..Len(batch) : batch[i] = k THEN Given(batch, results, k) ELSE loadResult[k]]
  /\ inFlight' = inFlight \ {batch}
  /\ UNCHANGED <<loadQueue, scheduled, loadCache, asks>>

-----------------------------------------------------------------------------
\* connectionFromArray: after and before narrow the window, then first or last trims it.
\* A cursor is the index of its item.

\* Bug: the item the cursor is of comes again.
FromCursor(cursor) == cursor
PastCursor(cursor) == cursor + 1
Smaller(a, b) == IF a < b THEN a ELSE b
Greater(a, b) == IF a > b THEN a ELSE b

NoCursor == MaxItems + 1
Slice(after, before, size, forward) ==
  LET start == IF after = NoCursor THEN 0 ELSE Smaller(PastCursor(after), total)
      limit == IF before = NoCursor THEN total ELSE Smaller(total, before)
      end == Greater(start, limit)
      from == IF forward THEN start ELSE Greater(start, IF end > size THEN end - size ELSE 0)
      to == IF forward THEN Smaller(end, start + size) ELSE end
  IN [start |-> from, end |-> to, next |-> to < total, previous |-> from > 0]

Indices(w) == [i \in 1..(w.end - w.start) |-> w.start + i - 1]

\* the next page in the direction of the walk, while the last one says there is more
Page ==
  /\ IF walk.forward THEN window.next ELSE window.previous
  /\ LET w == IF walk.forward
              THEN Slice(IF walk.started THEN window.end - 1 ELSE NoCursor, NoCursor, walk.size, TRUE)
              ELSE Slice(NoCursor, IF walk.started THEN window.start ELSE NoCursor, walk.size, FALSE) IN
       /\ window' = w
       /\ visited' = IF walk.forward THEN visited \o Indices(w) ELSE Indices(w) \o visited
  /\ walk' = [walk EXCEPT !.started = TRUE]
  /\ UNCHANGED total

-----------------------------------------------------------------------------
\* A subscription: containerEventIterator, behind deferredIterator if the field has
\* requirements, in the generator that api.subscribe returns, read by the SSE handler.

\* evaluateRequirements: every requirement must pass. principal is the set of rules the
\* caller satisfies; roles and claims need a caller that is known.
Denied == ~(requires \subseteq principal)

\* Bug: the listener is attached before the requirements are looked at.
AlwaysAtOnce == TRUE
AttachesAtOnce == requires = {}

Ends == /\ generator' = "done" /\ attached' = FALSE /\ backlog' = << >>

\* subscribe, and the first next of the stream's start
Subscribe ==
  /\ generator = "unstarted"
  /\ attached' = AttachesAtOnce
  /\ generator' = IF requires = {} THEN "waiting" ELSE "opening"
  /\ UNCHANGED <<requires, principal, backlog, returning, sseClosed, publishedSince, frames>>

Frame(f) == frames' = IF sseClosed THEN frames ELSE Append(frames, f)

\* the requirements have been evaluated
Open ==
  /\ generator = "opening"
  /\ IF Denied
     THEN /\ Ends /\ Frame(ErrorFrame) /\ sseClosed' = TRUE
     ELSE /\ attached' = TRUE /\ generator' = "waiting"
          /\ UNCHANGED <<backlog, frames, sseClosed>>
  /\ UNCHANGED <<requires, principal, returning, publishedSince>>

\* an event that passes the field's filter: to the call of next that waits, or to the
\* backlog
Publish ==
  /\ attached /\ Len(publishedSince) < MaxEvents
  /\ LET event == Len(publishedSince) + 1 IN
       /\ publishedSince' = Append(publishedSince, event)
       /\ IF generator = "waiting" /\ backlog = << >>
          THEN generator' = "yielding" /\ backlog' = <<event>>
          ELSE backlog' = Append(backlog, event) /\ UNCHANGED generator
  /\ UNCHANGED <<requires, principal, attached, returning, sseClosed, frames>>

\* The generator yields the event, and goes on with what was asked of it meanwhile: the
\* return of a cancelled stream, or the handler's next.
Yield ==
  /\ generator = "yielding"
  /\ Frame(Head(backlog))
  /\ IF returning
     THEN Ends
     ELSE /\ backlog' = Tail(backlog)
          /\ generator' = IF Len(backlog) > 1 THEN "yielding" ELSE "waiting"
          /\ UNCHANGED attached
  /\ UNCHANGED <<requires, principal, returning, sseClosed, publishedSince>>

\* cancel of the stream: the return waits behind the next the generator is busy with
Cancel ==
  /\ generator # "unstarted" /\ ~sseClosed
  /\ sseClosed' = TRUE
  /\ returning' = TRUE
  /\ UNCHANGED <<requires, principal, attached, backlog, generator, publishedSince, frames>>

-----------------------------------------------------------------------------
\* A query. Its document is a selection set, block 1, whose items are fields, inline
\* fragments and spreads that lead to blocks further on: validation refuses fragments that
\* spread one another. What the fields are called is left out: no two have one name.

Leaf == [kind |-> "field", to |-> 0]
Items(block) == {Leaf} \union [kind : {"field", "inline", "spread"}, to : {b \in 1..3 : b > block}]
Bodies(block) == UNION {[1..n -> Items(block)] : n \in 1..2}
Documents == {<<first, second, third>> : first \in Bodies(1), second \in Bodies(2), third \in Bodies(3)}
OneField == << <<Leaf>>, <<Leaf>>, <<Leaf>> >>

\* queryCost: fragments of both kinds cost what they contain; a field is one more, and one deeper.
NoCost == [depth |-> 0, complexity |-> 0]
\* Bug: what a spread stands for is not counted.
SpreadForFree(nested) == NoCost
SpreadCost(nested) == nested
ItemCost(item, nested) ==
  IF item.kind = "field" THEN [depth |-> nested.depth + 1, complexity |-> nested.complexity + 1]
  ELSE IF item.kind = "spread" THEN SpreadCost(nested) ELSE nested
Together(costs) ==
  IF Len(costs) = 1 THEN costs[1]
  ELSE [depth |-> Greater(costs[1].depth, costs[2].depth), complexity |-> costs[1].complexity + costs[2].complexity]
BlockCosts(doc) ==
  LET cost[block \in 0..3] ==
        IF block = 0 THEN NoCost
        ELSE Together([i \in 1..Len(doc[block]) |-> ItemCost(doc[block][i], cost[doc[block][i].to])])
  IN cost
CostOf(doc) == BlockCosts(doc)[1]

\* What execution does with a document: a field is one at the end of a chain of fields, and a
\* fragment that a selection set has twice is merged.
ItemChains(at, item, nested) == IF item.kind = "field" THEN {<<at>>} \union {<<at>> \o c : c \in nested} ELSE nested
BlockChains(doc) ==
  LET chains[block \in 0..3] ==
        IF block = 0 THEN {}
        ELSE UNION {ItemChains(<<block, i>>, doc[block][i], chains[doc[block][i].to]) : i \in 1..Len(doc[block])}
  IN chains
Executions(doc) == BlockChains(doc)[1]

NoLimits == [depth |-> 99, complexity |-> 99]
PlainQuery == [method |-> "POST", sse |-> FALSE, query |-> "text", wellFormed |-> TRUE, valid |-> TRUE]
Queries == [method : {"GET", "POST", "PUT"}, sse : BOOLEAN, query : {"text", "known hash", "other hash", "none"},
            wellFormed : BOOLEAN, valid : BOOLEAN]

QueryInit ==
  /\ asked \in Queries
  /\ selections \in (IF asked = PlainQuery THEN Documents ELSE {OneField})
  /\ limits \in [depth : {2, 99}, complexity : {3, 99}]
  /\ stage = "received" /\ status = 0

\* createGraphQLHandler and createGraphQLSSEHandler: what keeps a request from being a query.
\* The SSE handler knows no persisted queries. A GET whose variables are not JSON makes
\* either handler throw; a POST that is not JSON is a bad request.
HasQuery == asked.query = "text" \/ (asked.query = "known hash" /\ ~asked.sse)
Receive ==
  /\ stage = "received"
  /\ LET refuse(code) == stage' = "answered" /\ status' = code IN
     IF asked.method = "PUT" \/ (asked.sse /\ asked.method # "GET") THEN refuse(405)
     ELSE IF asked.method = "POST" /\ ~asked.wellFormed THEN refuse(400)
     ELSE IF ~HasQuery THEN refuse(400)
     ELSE IF ~asked.wellFormed THEN refuse(500)
     ELSE stage' = "context" /\ UNCHANGED status
  /\ UNCHANGED <<asked, selections, limits>>

\* prepare, in execute and in subscribe: validation, and then the two limits.
Errors == ~asked.valid \/ CostOf(selections).depth > limits.depth \/ CostOf(selections).complexity > limits.complexity
\* Bug: a subscription is looked at when its events come.
PreparedUnlessStreamed == asked.sse \/ ~Errors
Prepared == ~Errors

\* What is refused is a bad request, an answer without data; but a text that does not even
\* parse makes prepare throw (schema.ts:583), and with it either handler.
Refusals == IF asked.valid THEN {400} ELSE {400, 500}

\* The request's context has been built, which takes time.
Prepare ==
  /\ stage = "context"
  /\ IF Prepared THEN stage' = "executing" /\ UNCHANGED status ELSE stage' = "answered" /\ status' \in Refusals
  /\ UNCHANGED <<asked, selections, limits>>

Execute ==
  /\ stage = "executing"
  /\ stage' = "executed" /\ status' = 200
  /\ UNCHANGED <<asked, selections, limits>>

-----------------------------------------------------------------------------
\* _entities: every representation is resolved by the @Lookup of its class, all at once; one
\* that fails fails them all. Classes 1 and 2 are entities, 3 is not; family is what each
\* class extends, itself if nothing.

EntityClasses == 1..3
Subclass(c, d) == c = d \/ family[c] = d
Failed == [kind |-> "failed", class |-> 0]
Pending == [kind |-> "pending", class |-> 0]

EntitiesInit ==
  /\ family \in [EntityClasses -> EntityClasses] /\ \A c \in EntityClasses : family[c] # c => family[family[c]] = family[c]
  /\ representations \in UNION {[1..n -> EntityClasses] : n \in 0..MaxEntities}
  /\ loads = [i \in 1..Len(representations) |-> Pending]

\* Bug: what the lookup returns is taken as it is.
AsLoaded(target, class) == class
\* hydrate: an instance of the class stays what it is, anything else becomes one; 0 is plain data
Hydrated(target, class) == IF class # 0 /\ Subclass(class, target) THEN class ELSE target

LoadEntity(i) ==
  /\ loads[i] = Pending
  /\ LET c == representations[i] IN
     \E result \in {Failed, [kind |-> "null", class |-> 0]} \union {[kind |-> "object", class |-> Hydrated(c, k)] : k \in 0..3} :
        /\ c = 3 => result = Failed
        /\ loads' = [loads EXCEPT ![i] = result]
  /\ UNCHANGED <<family, representations>>

\* resolveType of _Entity: the first entity, in the order of names, that the object is an instance of
TypenameOf(class) == IF \E t \in 1..2 : class # 0 /\ Subclass(class, t)
                     THEN CHOOSE t \in 1..2 : Subclass(class, t) /\ \A u \in 1..2 : Subclass(class, u) => t <= u ELSE 0

-----------------------------------------------------------------------------
GraphqlInit ==
  /\ part \in {"loader", "pages", "stream", "query", "entities"}
  /\ loadQueue = << >> /\ scheduled = FALSE /\ loadCache = {} /\ inFlight = {}
  /\ loadResult = [k \in LoadKeys |-> "none"] /\ asks = [k \in LoadKeys |-> 0]
  /\ total \in 0..MaxItems /\ window = WholeList /\ visited = << >>
  /\ walk \in [forward : BOOLEAN, size : 1..MaxItems, started : {FALSE}]
  /\ requires \in SUBSET Rules
  /\ principal \in {held \in SUBSET Rules : held \intersect {"role", "claim"} # {} => "authenticated" \in held}
  /\ part # "pages" => total = 0 /\ walk.forward /\ walk.size = 1
  /\ part # "stream" => requires = {} /\ principal = {}
  /\ attached = FALSE /\ backlog = << >> /\ generator = "unstarted" /\ returning = FALSE
  /\ sseClosed = FALSE /\ publishedSince = << >> /\ frames = << >>
  /\ IF part = "query" THEN QueryInit
     ELSE asked = PlainQuery /\ selections = OneField /\ limits = NoLimits /\ stage = "received" /\ status = 0
  /\ IF part = "entities" THEN EntitiesInit
     ELSE family = [c \in EntityClasses |-> c] /\ representations = << >> /\ loads = << >>

GraphqlNext ==
  /\ UNCHANGED part
  /\ \/ /\ part = "loader" /\ ((\E k \in LoadKeys : Load(k)) \/ Dispatch \/ \E b \in inFlight : BatchEnds(b))
        /\ UNCHANGED <<pageVars, streamVars, queryVars, entityVars>>
     \/ part = "pages" /\ Page /\ UNCHANGED <<loaderVars, streamVars, queryVars, entityVars>>
     \/ /\ part = "stream" /\ (Subscribe \/ Open \/ Publish \/ Yield \/ Cancel)
        /\ UNCHANGED <<loaderVars, pageVars, queryVars, entityVars>>
     \/ /\ part = "query" /\ (Receive \/ Prepare \/ Execute)
        /\ UNCHANGED <<loaderVars, pageVars, streamVars, entityVars>>
     \/ /\ part = "entities" /\ \E i \in 1..Len(representations) : LoadEntity(i)
        /\ UNCHANGED <<loaderVars, pageVars, streamVars, queryVars>>

GraphqlSpec == GraphqlInit /\ [][GraphqlNext]_graphqlVars

GraphqlTypeOK ==
  /\ loadCache \subseteq LoadKeys /\ scheduled \in BOOLEAN
  /\ generator \in {"unstarted", "opening", "waiting", "yielding", "done"}
  /\ attached \in BOOLEAN

-----------------------------------------------------------------------------
\* A key is asked for once, whatever batches are under way when it is loaded; a key that
\* waits has a dispatch to come; and what a load comes to is its own key's result.
LoadsAnswered ==
  /\ \A k \in LoadKeys : asks[k] <= 1
  /\ loadQueue # << >> => scheduled
  /\ \A k \in LoadKeys :
       /\ loadResult[k] \in {"none", "pending", "failed", k}
       /\ loadResult[k] = "pending" =>
            \/ \E i \in 1..Len(loadQueue) : loadQueue[i] = k
            \/ \E b \in inFlight : \E i \in 1..Len(b) : b[i] = k

\* The pages of a walk follow one another without a gap or an item twice, and the last
\* one, the one that says there is no more, ends the list.
PagesTile ==
  /\ \A i \in 1..Len(visited) : i > 1 => visited[i] = visited[i - 1] + 1
  /\ walk.started /\ ~(IF walk.forward THEN window.next ELSE window.previous) => Len(visited) = total

\* The frames of a stream are the events since its listener was attached, in order; a
\* caller that is denied never has a listener; and one whose stream has ended keeps none.
StreamFaithful ==
  /\ \A i \in 1..Len(frames) : frames[i] \in {i, ErrorFrame}
  /\ Denied => ~attached /\ publishedSince = << >>
  /\ generator = "done" => ~attached
  /\ ~sseClosed => Len(frames) + Len(backlog) = Len(publishedSince)

\* A query that is executed runs no more fields, and no deeper, than the limits say, whichever
\* fragments it is made of and whichever handler took it; and nothing that has no text, or whose
\* text is not valid, is executed.
LimitsHold ==
  stage \in {"executing", "executed"} =>
    /\ asked.valid /\ HasQuery /\ asked.wellFormed
    /\ Cardinality(Executions(selections)) <= limits.complexity
    /\ \A chain \in Executions(selections) : Len(chain) <= limits.depth

\* An entity answered for a representation is one of the class that was asked for, and where no
\* class extends another it is answered under the name that was asked for.
EntitiesKeepTheirType ==
  \A i \in 1..Len(loads) : loads[i].kind = "object" =>
    /\ loads[i].class # 0 /\ Subclass(loads[i].class, representations[i])
    /\ TypenameOf(loads[i].class) # 0
    /\ (\A c \in EntityClasses : family[c] = c) => TypenameOf(loads[i].class) = representations[i]
====
