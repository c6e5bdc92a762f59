---------------------------- MODULE Repositories ----------------------------
(***************************************************************************)
(* The repositories of di-framework-repo: a call whose method name spells   *)
(* its query (query-derivation.ts) runs over a store that other callers     *)
(* write and swap in meanwhile, the Map of InMemoryRepository or a table    *)
(* that SQL adapters reach over one connection (adapters/sql.ts, d1.ts,     *)
(* bun-sqlite.ts). Method names are sequences of words, a word ending where *)
(* the next capital letter or underscore is. An entity has its id as its    *)
(* name and an age, which may be null. Callers write beside a call only     *)
(* when it deletes: what lookups read is one list, whatever happens after.  *)
(***************************************************************************)
EXTENDS Integers, Sequences, FiniteSets, SequencesExt

CONSTANTS EntityCount, \* entities are numbered
          Swappers,    \* calls of compareAndSwap
          MaxWrites,   \* other saves and deletes
          NoSwapper

ASSUME RepoAssumption == EntityCount \in Nat \ {0, 1} /\ IsFiniteSet(Swappers) /\ NoSwapper \notin Swappers

Entities == 1..EntityCount
Absent == -2
Null == -1

VARIABLES store,      \* "memory" or "sql"
          rows,       \* entity -> its age, Null or Absent
          meant,      \* the query the caller has in mind, whose name it calls
          lookup,     \* the derived call: where it is, its plan, what is left, its count
          writes,     \* saves and deletes of others
          ledger,     \* entities created, and removals reported to callers
          swaps,      \* compareAndSwap calls
          adapterOf,  \* the adapter each goes through: repositories have one each
          lockChain,      \* adapter -> the transactions waiting on it, first the one that runs
          txOf,       \* the swap whose transaction the connection is in
          earlier,     \* the rows a rollback brings back
          touched     \* entities others wrote, and whether a transaction was rolled back

repoVars == <<store, rows, meant, lookup, writes, ledger, swaps, adapterOf, lockChain, txOf, earlier, touched>>

(* Names of queries. *)

\* the operators in the order they are looked for, longest first: the words, and whether
\* "Is" may stand before them
Keyword(words, op, args, is) == [words |-> words, op |-> op, args |-> args, is |-> is]
GreaterThanEqual == Keyword(<<"Greater", "Than", "Equal">>, "gte", 1, TRUE)
GreaterThan == Keyword(<<"Greater", "Than">>, "gt", 1, TRUE)
Others == <<
  Keyword(<<"Less", "Than", "Equal">>, "lte", 1, TRUE), Keyword(<<"Less", "Than">>, "lt", 1, TRUE),
  Keyword(<<"Not", "Containing">>, "notContaining", 1, TRUE), Keyword(<<"Not", "Contains">>, "notContaining", 1, FALSE),
  Keyword(<<"Containing">>, "containing", 1, TRUE), Keyword(<<"Contains">>, "containing", 1, FALSE),
  Keyword(<<"Starting", "With">>, "startingWith", 1, TRUE), Keyword(<<"Starts", "With">>, "startingWith", 1, FALSE),
  Keyword(<<"Ending", "With">>, "endingWith", 1, TRUE), Keyword(<<"Ends", "With">>, "endingWith", 1, FALSE),
  Keyword(<<"Not", "Empty">>, "isNotEmpty", 0, TRUE), Keyword(<<"Empty">>, "isEmpty", 0, TRUE),
  Keyword(<<"Not", "Null">>, "isNotNull", 0, TRUE), Keyword(<<"Null">>, "isNull", 0, TRUE),
  Keyword(<<"Not", "In">>, "notIn", 1, TRUE), Keyword(<<"In">>, "in", 1, TRUE),
  Keyword(<<"Not", "Like">>, "notLike", 1, TRUE), Keyword(<<"Like">>, "like", 1, TRUE),
  Keyword(<<"Between">>, "between", 2, TRUE), Keyword(<<"After">>, "gt", 1, TRUE),
  Keyword(<<"Before">>, "lt", 1, TRUE), Keyword(<<"False">>, "isFalse", 0, TRUE),
  Keyword(<<"True">>, "isTrue", 0, TRUE), Keyword(<<"Not">>, "neq", 1, TRUE),
  Keyword(<<"Equals">>, "eq", 1, FALSE), Keyword(<<"Is">>, "eq", 1, FALSE) >>
\* Bug: the shorter of two operators is tried first.
KeywordsShortestFirst == Reverse(Others) \o <<GreaterThan, GreaterThanEqual>>
PredicateKeywords == <<GreaterThanEqual, GreaterThan>> \o Others

EndsWithWords(s, words) == Len(s) > Len(words) /\ IsSuffix(words, s)
Chop(s, words) == SubSeq(s, 1, Len(s) - Len(words))
Places(s, words) == {i \in 1..(Len(s) - Len(words) + 1) : SubSeq(s, i, i + Len(words) - 1) = words}
FirstPlace(S) == CHOOSE i \in S : \A j \in S : i <= j
InOrder(S) == [k \in 1..Cardinality(S) |-> CHOOSE i \in S : Cardinality({j \in S : j < i}) = k - 1]
ElementsAt(s, S) == LET places == InOrder(S) IN [k \in DOMAIN places |-> s[places[k]]]
\* the pieces of s between the places in cuts
Pieces(s, cuts) ==
  LET at == <<0>> \o InOrder(cuts) \o <<Len(s) + 1>>
  IN [k \in 1..(Cardinality(cuts) + 1) |-> SubSeq(s, at[k] + 1, at[k + 1] - 1)]

\* parseCondition: the case is looked at last in the name, then the first operator of the
\* table that ends it; a name without one asks for equality
ParseCondition(segment, allIgnoreCase) ==
  LET ignores == \E w \in {<<"Ignore", "Case">>, <<"Ignoring", "Case">>} : Len(segment) >= 2 /\ IsSuffix(w, segment)
      s == IF ignores THEN SubSeq(segment, 1, Len(segment) - 2) ELSE segment
      fits == {k \in DOMAIN PredicateKeywords : EndsWithWords(s, PredicateKeywords[k].words)}
      word == PredicateKeywords[FirstPlace(fits)]
      rest == Chop(s, word.words)
      property == IF word.is /\ EndsWithWords(rest, <<"Is">>) THEN Chop(rest, <<"Is">>) ELSE rest
  IN IF fits = {} THEN [property |-> s, op |-> "eq", ignoreCase |-> allIgnoreCase \/ ignores, args |-> 1]
     ELSE [property |-> property, op |-> word.op, ignoreCase |-> allIgnoreCase \/ ignores, args |-> word.args]

\* parsePredicate: AllIgnoreCase counts wherever it stands; And and Or part the conditions
\* unless nothing follows them
ParsePredicate(text) ==
  LET alls == Places(text, <<"All", "Ignore", "Case">>) \union Places(text, <<"All", "Ignoring", "Case">>)
      kept == {i \in DOMAIN text : \A a \in alls : i \notin a..(a + 2)}
      clause == ElementsAt(text, kept)
      cuts == {i \in DOMAIN clause : clause[i] \in {"And", "Or"} /\ i < Len(clause)}
      segments == SelectSeq(Pieces(clause, cuts), LAMBDA s : s # << >>)
  IN [conditions |-> [k \in DOMAIN segments |-> ParseCondition(segments[k], alls # {})],
      combinators |-> ElementsAt(clause, cuts)]

\* parseOrderBy: each Asc or Desc ends a property; what follows the last is dropped, and a
\* text without any is one property
ParseOrderBy(text) ==
  LET ends == {i \in DOMAIN text : text[i] \in {"Asc", "Desc"} /\ i > 1 /\ text[i - 1] \notin {"Asc", "Desc"}}
      pieces == Pieces(text, ends)
  IN IF text = << >> THEN << >>
     ELSE IF ends = {} THEN <<[property |-> text, direction |-> "Asc"]>>
     ELSE [k \in 1..Cardinality(ends) |-> [property |-> pieces[k], direction |-> ElementsAt(text, ends)[k]]]

\* a word that only begins with one of these is taken for it: findTopicsBy finds the top one
Limits == [w \in {"First", "Top", "Top2", "Topics"} |-> IF w = "Top2" THEN 2 ELSE 1]
Subjects == [w \in {"find", "read", "get", "query", "search", "stream", "exists", "count", "delete", "remove"} |->
              IF w \in {"exists", "count"} THEN w ELSE IF w \in {"delete", "remove"} THEN "delete" ELSE "query"]
\* parseQueryMethod: the first By ends the subject, OrderBy the predicate. limit is 0 when
\* there is none; one entity is returned for a query with limit 1.
ParseQueryMethod(name) ==
  LET by == FirstPlace({i \in Places(name, <<"By">>) : i < Len(name)})
      subject == SubSeq(name, 2, by - 1)
      after == SubSeq(name, by + 1, Len(name))
      orders == {i \in Places(after, <<"Order", "By">>) : i + 1 < Len(after)}
      bounds == {i \in DOMAIN subject : subject[i] \in DOMAIN Limits}
      limit == IF bounds = {} THEN 0 ELSE Limits[subject[CHOOSE i \in bounds : \A j \in bounds : j <= i]]
      kind == Subjects[name[1]]
  IN [subject |-> kind, distinct |-> \E i \in DOMAIN subject : subject[i] = "Distinct",
      limit |-> limit,
      singleResult |-> kind = "query" /\ \E i \in bounds : Limits[subject[i]] = 1,
      predicate |-> ParsePredicate(IF orders = {} THEN after ELSE SubSeq(after, 1, FirstPlace(orders) - 1)),
      orderBy |-> IF orders = {} THEN << >> ELSE ParseOrderBy(SubSeq(after, FirstPlace(orders) + 2, Len(after)))]

(* Queries as callers mean them, and their names. *)

Condition(property, op, args) == [property |-> property, op |-> op, ignoreCase |-> FALSE, args |-> args]
Age == <<"Age">>
Name == <<"Last", "Name">>
Predicate(conditions, combinators) == [conditions |-> conditions, combinators |-> combinators]
Query(subject, limit, predicate, orderBy) ==
  [subject |-> subject, distinct |-> limit = 2, limit |-> limit, singleResult |-> subject = "query" /\ limit = 1,
   predicate |-> predicate, orderBy |-> orderBy]
Conditions == {Condition(p, PredicateKeywords[k].op, PredicateKeywords[k].args) : p \in {Age, Name}, k \in DOMAIN PredicateKeywords}
Few == {c \in Conditions : c.op \in {"gte", "isNull"}}
Orders == {<< >>, <<[property |-> Name, direction |-> "Asc"]>>,
           <<[property |-> Age, direction |-> "Desc"], [property |-> Name, direction |-> "Asc"]>>}
Sole(c, ignores) == Predicate(<<[c EXCEPT !.ignoreCase = ignores]>>, << >>)
Joined(c, by, d) == Predicate(<<c, d>>, <<by>>)
Asked ==
  {Query("query", l, Sole(c, i), o) : l \in 0..2, c \in Conditions, i \in BOOLEAN, o \in Orders}
  \union {Query("query", l, Predicate(<< >>, << >>), o) : l \in 0..2, o \in Orders \ {<< >>}}
  \union {Query(s, 0, Joined(c, by, d), << >>) : s \in {"exists", "count"}, c \in Conditions, d \in Few, by \in {"And", "Or"}}
Deletions ==
  {Query("delete", l, Predicate(<<Condition(Age, "gte", 1)>>, << >>), <<[property |-> Age, direction |-> "Desc"]>>) : l \in {0, 1}}
  \union {Query("delete", 0, Predicate(<<Condition(Age, "isNull", 0), Condition(Age, "between", 2)>>, <<"Or">>), << >>)}

\* Names that mean q, operators and case spelled in any of their ways; the word that only describes
\* does not begin like one that counts
Spellings(c) ==
  {c.property \o s \o i :
     s \in UNION {{k.words} \union (IF k.is THEN {<<"Is">> \o k.words} ELSE {}) : k \in {w \in Range(PredicateKeywords) : w.op = c.op}}
           \union (IF c.op = "eq" THEN {<< >>} ELSE {}),
     i \in IF c.ignoreCase THEN {<<"Ignore", "Case">>, <<"All", "Ignoring", "Case">>} ELSE {<< >>}}
Ordering(o) == IF o = << >> THEN << >> ELSE <<"Order", "By">> \o FlattenSeq([k \in DOMAIN o |-> o[k].property \o <<o[k].direction>>])
NamesOf(q) ==
  LET conditions == q.predicate.conditions
      firsts == IF conditions = << >> THEN {<< >>} ELSE Spellings(conditions[1]) IN
    {<<w>> \o (CASE q.limit = 0 -> <<"Any">> [] q.limit = 1 -> <<"First", "Of">> [] OTHER -> <<"Distinct", "Top2">>) \o <<"By">> \o s
       \o (IF Len(conditions) < 2 THEN << >>
           ELSE <<q.predicate.combinators[1]>> \o CHOOSE t \in Spellings(conditions[2]) : TRUE)
       \o Ordering(q.orderBy) :
     w \in {CHOOSE v \in DOMAIN Subjects : Subjects[v] = q.subject}, s \in firsts}

(* The derived call. *)

\* compareOrdered: numbers by size; null is compared as text, after every number
Compare(a, b) ==
  IF a = b THEN 0 ELSE IF a = Null THEN 1 ELSE IF b = Null THEN -1 ELSE IF a > b THEN 1 ELSE -1
Field(e, property) == IF property = Age THEN rows[e] ELSE e
\* evaluateCondition, for numbers and null; args are the call's arguments from this
\* condition's first on
EvaluateOperator(raw, op, args) ==
  CASE op \in {"eq", "containing", "startingWith", "endingWith", "like", "in"} -> raw = args[1]
    [] op \in {"neq", "notContaining", "notLike", "notIn"} -> raw # args[1]
    [] op = "gt" -> Compare(raw, args[1]) > 0
    [] op = "gte" -> Compare(raw, args[1]) >= 0
    [] op = "lt" -> Compare(raw, args[1]) < 0
    [] op = "lte" -> Compare(raw, args[1]) <= 0
    [] op = "between" -> Compare(raw, args[1]) >= 0 /\ Compare(raw, args[2]) <= 0
    [] op \in {"isNull", "isEmpty"} -> raw = Null
    [] op \in {"isNotNull", "isNotEmpty"} -> raw # Null
    [] OTHER -> FALSE
\* each condition takes the arguments that follow those of the conditions before it
Arguments(conditions, k) ==
  LET taken == FoldLeft(LAMBDA n, c : n + c.args, 0, SubSeq(conditions, 1, k - 1))
  IN [j \in 1..conditions[k].args |-> taken + j]
\* filterEntities: And and Or apply from left to right
RowMatches(e, predicate) ==
  LET holds(k) == EvaluateOperator(Field(e, predicate.conditions[k].property), predicate.conditions[k].op,
                           Arguments(predicate.conditions, k))
      upTo[k \in 1..Len(predicate.conditions)] ==
        IF k = 1 THEN holds(1)
        ELSE IF predicate.combinators[k - 1] = "Or" THEN upTo[k - 1] \/ holds(k) ELSE upTo[k - 1] /\ holds(k)
  IN predicate.conditions = << >> \/ upTo[Len(predicate.conditions)]
\* sortEntities: by the first property that tells them apart; the store's order for the rest
CompareBy(order, a, b) ==
  LET c == Compare(Field(a, order.property), Field(b, order.property)) IN IF order.direction = "Asc" THEN c ELSE -c
RowBefore(orderBy, a, b) ==
  LET parts == {k \in DOMAIN orderBy : CompareBy(orderBy[k], a, b) # 0}
  IN IF parts = {} THEN a < b ELSE CompareBy(orderBy[FirstPlace(parts)], a, b) < 0
SortedRows(selected, orderBy) ==
  [n \in 1..Cardinality(selected) |->
     CHOOSE e \in selected : Cardinality({d \in selected : RowBefore(orderBy, d, e)}) = n - 1]

Free == [pc |-> "idle", todo |-> << >>, count |-> 0, plans |-> {}]
\* the proxy parses the name that was called and returns the method
Call ==
  /\ lookup.pc = "idle"
  /\ lookup' = [lookup EXCEPT !.pc = "called", !.plans = {ParseQueryMethod(n) : n \in NamesOf(meant)}]
  /\ UNCHANGED <<store, rows, meant, writes, ledger, swaps, adapterOf, lockChain, txOf, earlier, touched>>
\* findAll, then filter, sort and limit in one go
ReadMatching ==
  /\ lookup.pc = "called"
  /\ \E plan \in lookup.plans :
       LET selected == SortedRows({e \in Entities : rows[e] # Absent /\ RowMatches(e, plan.predicate)}, plan.orderBy)
           matched == IF plan.limit = 0 THEN selected ELSE SubSeq(selected, 1, IF plan.limit < Len(selected) THEN plan.limit ELSE Len(selected))
       IN lookup' = [lookup EXCEPT !.pc = IF plan.subject = "delete" /\ matched # << >> THEN "deleting" ELSE "done",
                                   !.todo = matched]
  /\ UNCHANGED <<store, rows, meant, writes, ledger, swaps, adapterOf, lockChain, txOf, earlier, touched>>

\* Bug: an entity that is no longer there is counted.
CountedAnyway(e, n) == n + 1
\* only what the store says it deleted is counted
Counted(e, n) == IF rows[e] # Absent THEN n + 1 ELSE n
\* the entities that were read are deleted one after the other, as they are by then
DeleteOne ==
  LET e == Head(lookup.todo) IN
    /\ lookup.pc = "deleting"
    /\ rows' = [rows EXCEPT ![e] = Absent]
    /\ lookup' = [lookup EXCEPT !.todo = Tail(@), !.count = Counted(e, @),
                                !.pc = IF Len(lookup.todo) = 1 THEN "done" ELSE "deleting"]
    /\ touched' = [touched EXCEPT !.entities = @ \union {e}]
    /\ UNCHANGED <<store, meant, writes, ledger, swaps, adapterOf, lockChain, txOf, earlier>>

(* Other callers. *)

Writing(e) ==
  /\ meant.subject = "delete" /\ writes < MaxWrites /\ writes' = writes + 1
  /\ touched' = [touched EXCEPT !.entities = @ \union {e}]
  /\ UNCHANGED <<store, meant, lookup, swaps, adapterOf, lockChain, txOf, earlier>>
Created(e) == IF rows[e] = Absent THEN [ledger EXCEPT !.created = @ + 1] ELSE ledger
\* save inserts or updates
Save(e, age) ==
  /\ Writing(e) /\ rows' = [rows EXCEPT ![e] = age] /\ ledger' = Created(e)
SaveIfAbsent(e) ==
  /\ Writing(e) /\ rows' = [rows EXCEPT ![e] = IF @ = Absent THEN 0 ELSE @] /\ ledger' = Created(e)
Delete(e) ==
  /\ Writing(e) /\ rows' = [rows EXCEPT ![e] = Absent]
  /\ ledger' = [ledger EXCEPT !.reported = Counted(e, @)]

(* compareAndSwap. mutate adds one to an age, abandons the swap, or throws. *)

SwapStep(s, pc) == swaps' = [swaps EXCEPT ![s].pc = pc]
Mutated(age, mode) == IF mode = "add" /\ age >= 0 THEN age + 1 ELSE Absent
\* the Map's swap has no step in it
SwapInMemory(s, e, mode) ==
  /\ store = "memory" /\ swaps[s].pc = "idle" /\ meant.subject = "delete"
  /\ swaps' = [swaps EXCEPT ![s] = [@ EXCEPT !.entity = e, !.pc =
                 IF mode = "throw" THEN "failed" ELSE IF Mutated(rows[e], mode) = Absent THEN "abandoned" ELSE "done"]]
  /\ rows' = IF Mutated(rows[e], mode) = Absent THEN rows ELSE [rows EXCEPT ![e] = Mutated(@, mode)]
  /\ UNCHANGED <<store, meant, lookup, writes, ledger, adapterOf, lockChain, txOf, earlier, touched>>
\* transaction: the swap queues behind those of its adapter
AskSwap(s, e, mode) ==
  /\ store = "sql" /\ swaps[s].pc = "idle" /\ meant.subject = "delete"
  /\ swaps' = [swaps EXCEPT ![s] = [pc |-> "queued", entity |-> e, mode |-> mode, current |-> Absent]]
  /\ lockChain' = [lockChain EXCEPT ![adapterOf[s]] = Append(@, s)]
  /\ UNCHANGED <<store, rows, meant, lookup, writes, ledger, adapterOf, txOf, earlier, touched>>
\* Bug: transactions of an adapter do not wait for each other.
TurnAtOnce(s) == TRUE
\* a transaction runs when those called before it on its adapter are over
Turn(s) == Head(lockChain[adapterOf[s]]) = s
\* and lets the one behind it have its turn
LeaveChain(s) == lockChain' = [lockChain EXCEPT ![adapterOf[s]] = Tail(@)]
\* the connection is in one transaction at a time: BEGIN fails inside another's
BeginSwap(s) ==
  /\ swaps[s].pc = "queued" /\ Turn(s)
  /\ IF txOf = NoSwapper
     THEN txOf' = s /\ earlier' = rows /\ SwapStep(s, "begun") /\ UNCHANGED lockChain
     ELSE SwapStep(s, IF adapterOf[txOf] = adapterOf[s] THEN "refused" ELSE "failed") /\ LeaveChain(s) /\ UNCHANGED <<txOf, earlier>>
  /\ UNCHANGED <<store, rows, meant, lookup, writes, ledger, adapterOf, touched>>
ReadSwap(s) ==
  /\ swaps[s].pc = "begun"
  /\ swaps' = [swaps EXCEPT ![s].pc = "read", ![s].current = rows[swaps[s].entity]]
  /\ UNCHANGED <<store, rows, meant, lookup, writes, ledger, adapterOf, lockChain, txOf, earlier, touched>>
\* mutate sees what was read; what it returns is saved, in the same transaction
WriteSwap(s) ==
  LET next == Mutated(swaps[s].current, swaps[s].mode) IN
    /\ swaps[s].pc = "read"
    /\ IF swaps[s].mode = "throw" THEN SwapStep(s, "throwing") /\ UNCHANGED <<rows, ledger>>
       ELSE IF next = Absent THEN SwapStep(s, "leaving") /\ UNCHANGED <<rows, ledger>>
       ELSE SwapStep(s, "written") /\ rows' = [rows EXCEPT ![swaps[s].entity] = next] /\ ledger' = Created(swaps[s].entity)
    /\ UNCHANGED <<store, meant, lookup, writes, adapterOf, lockChain, txOf, earlier, touched>>
Commit(s) ==
  /\ swaps[s].pc \in {"written", "leaving"}
  /\ SwapStep(s, IF swaps[s].pc = "written" THEN "done" ELSE "abandoned")
  /\ txOf' = NoSwapper /\ LeaveChain(s)
  /\ UNCHANGED <<store, rows, meant, lookup, writes, ledger, adapterOf, earlier, touched>>
\* the rollback takes everything back that went over the connection meanwhile
Rollback(s) ==
  /\ swaps[s].pc = "throwing" /\ SwapStep(s, "failed")
  /\ rows' = earlier /\ txOf' = NoSwapper /\ LeaveChain(s)
  /\ touched' = [touched EXCEPT !.rolledBack = @ \/ rows # earlier]
  /\ UNCHANGED <<store, meant, lookup, writes, ledger, adapterOf, earlier>>

RepoInit ==
  /\ store \in {"memory", "sql"}
  /\ rows = [e \in Entities |-> IF e = 2 THEN Null ELSE e]
  /\ meant \in Asked \union Deletions
  /\ meant \in Asked => store = "memory"
  /\ lookup = Free /\ writes = 0
  /\ ledger = [created |-> EntityCount, reported |-> 0]
  /\ swaps = [s \in Swappers |-> [pc |-> "idle", entity |-> 1, mode |-> "add", current |-> Absent]]
  /\ adapterOf \in [Swappers -> {1, 2}]
  /\ store = "memory" => \A s \in Swappers : adapterOf[s] = 1
  /\ lockChain = [a \in {1, 2} |-> << >>] /\ txOf = NoSwapper /\ earlier = rows
  /\ touched = [entities |-> {}, rolledBack |-> FALSE]

RepoNext ==
  \/ Call \/ ReadMatching \/ DeleteOne
  \/ \E e \in Entities : Save(e, 1) \/ SaveIfAbsent(e) \/ Delete(e)
  \/ \E s \in Swappers :
       \/ \E e \in {1, 2}, mode \in {"add", "throw"} : SwapInMemory(s, e, mode) \/ AskSwap(s, e, mode)
       \/ BeginSwap(s) \/ ReadSwap(s) \/ WriteSwap(s) \/ Commit(s) \/ Rollback(s)

RepoSpec == RepoInit /\ [][RepoNext]_repoVars

RepoTypeOK ==
  /\ \A e \in Entities : rows[e] \in {Absent, Null} \union Nat
  /\ lookup.pc \in {"idle", "called", "deleting", "done"}
  /\ txOf \in Swappers \union {NoSwapper}

\* However a query is spelled, with or without Is, with operators that contain others and
\* case words at either place, its name is parsed into the query that was meant.
SpelledAsMeant == lookup.plans \subseteq {meant}

\* Entities created, less removals that callers were told of, are those that are there,
\* however a derived delete and others overlap. (A rollback takes back what others did.)
RemovalsAddUp ==
  ~touched.rolledBack =>
    Cardinality({e \in Entities : rows[e] # Absent}) = ledger.created - ledger.reported - lookup.count

\* An entity that only swaps write counts every swap that was acknowledged.
SwapsAddUp ==
  txOf = NoSwapper => \A e \in Entities \ touched.entities :
    rows[e] = IF e = 2 THEN Null ELSE e + Cardinality({s \in Swappers : swaps[s].pc = "done" /\ swaps[s].entity = e})

\* Swaps of one adapter wait for each other instead of failing.
SwapsServed == \A s \in Swappers : swaps[s].pc # "refused"
=============================================================================
