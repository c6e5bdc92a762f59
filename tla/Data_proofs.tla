---------------------------- MODULE Data_proofs ----------------------------
(***************************************************************************)
(* Five components of MCData for every value of their constants: the auth  *)
(* routes (AuthEndpoints), HTTP routing with static files and the OpenAPI  *)
(* document (HttpRouting), the two ends of rpc (RpcEndpoints), the graph   *)
(* of types (TypeGraph) and the execution of GraphQL (GraphqlExecution).   *)
(* Each has its inductive invariant and a theorem of its own               *)
(* specification; the last part puts them, and those of Parts_proofs,      *)
(* together under the specification of MCData.                             *)
(***************************************************************************)
EXTENDS MCData, Parts_proofs
-----------------------------------------------------------------------------
(***************************************************************************)
(* AuthEndpoints.                                                          *)
(***************************************************************************)
Verdicts == {"no-credential", "failed", "authenticated"}
CallRecords ==
  [kind : Kinds, at : {"idle", "guard", "authorize", "handler", "revoke", "create", "answered"},
   cookie : Nat, token : Nat, sameOrigin : BOOLEAN, bearer : {"none", "good", "bad"},
   key : {"none", "good", "bad"}, strategy : 1..3, principal : {"nobody", "session", "bearer", "api-key"},
   sets : [session : Nat, csrf : Nat], answer : {"none", "refused", "done", "signed-in", "signed-out"},
   approved : BOOLEAN, boundAtStart : BOOLEAN, told : Seq(Verdicts)]

\* A call between two of its steps: the sessions it names were issued; a guard has heard only
\* strategies with nothing to say; who is let in, whose session is over and who was approved are
\* what the properties say, from the step that settles it on.
NothingHeard(r) == \A i \in 1..Len(r.told) : r.told[i] = "no-credential"
InGuard(r) ==
  r.at = "guard" => r.strategy = Len(r.told) + 1 /\ r.strategy <= Len(Strategies) /\ NothingHeard(r)
LetIn(r) ==
  r.at \in {"authorize", "handler"} /\ r.kind \in Guarded \cup {"whoami"} =>
    /\ \A i \in 1..Len(r.told) - 1 : r.told[i] = "no-credential"
    /\ r.principal = "nobody" => NothingHeard(r)
Replacing(r) == r.kind = "login" /\ (r.at = "create" \/ r.answer = "signed-in") => r.cookie \notin active
Paired(r) == r.answer = "signed-in" /\ setup.csrf => r.sets.csrf = r.sets.session
ApprovedFirst(r) == r.kind \in Guarded /\ r.at = "handler" /\ (r.boundAtStart \/ setup.policy = "route") => r.approved
CallHolds(r) ==
  /\ r.cookie <= issued /\ r.sets.session <= issued /\ r.sets.csrf <= issued
  /\ (r.boundAtStart => bound)
  /\ InGuard(r) /\ LetIn(r) /\ Replacing(r) /\ Paired(r) /\ ApprovedFirst(r)
AuthTypes ==
  /\ setup \in Setups /\ issued \in Nat /\ bound \in BOOLEAN
  /\ jar \in [session : 0..issued, csrf : 0..issued]
  /\ call \in [Calls -> CallRecords]
AuthIInv ==
  /\ AuthTypes
  /\ CookiesPaired
  /\ \A c \in Calls : CallHolds(call[c])

\* The strategies of a setup, and what the last one of them is.
LEMMA StrategiesAre ==
  ASSUME setup \in Setups
  PROVE  /\ Len(Strategies) \in 2..3
         /\ \A k \in 1..Len(Strategies) : Strategies[k] \in {"session", "bearer", "api-key"}
<1> DEFINE Names == {"session", "bearer", "api-key"}
           a == <<"session">>
           b == <<"bearer">>
           k == <<"api-key">>
<1>1. a \in Seq(Names) /\ b \in Seq(Names) /\ k \in Seq(Names) /\ << >> \in Seq(Names)
  BY EmptySeq
<1>2. Len(a) = 1 /\ Len(b) = 1 /\ Len(k) = 1 /\ a[1] = "session" /\ b[1] = "bearer" /\ k[1] = "api-key"
  OBVIOUS
<1>3. CASE setup.jwt
  <2>1. Strategies = (a \o b) \o k
    BY <1>3 DEF Strategies
  <2> HIDE DEF a, b, k
  <2>2. a \o b \in Seq(Names) /\ Len(a \o b) = 2 /\ (a \o b)[1] = "session" /\ (a \o b)[2] = "bearer"
    BY <1>1, <1>2, ConcatProperties
  <2>3. /\ Len((a \o b) \o k) = 3
        /\ \A i \in 1..3 : ((a \o b) \o k)[i] = IF i <= 2 THEN (a \o b)[i] ELSE k[i - 2]
    BY <1>1, <1>2, <2>2, ConcatProperties
  <2> QED
    BY <1>2, <2>1, <2>2, <2>3
<1>4. CASE ~setup.jwt
  <2>1. Strategies = (a \o << >>) \o k
    BY <1>4 DEF Strategies
  <2> HIDE DEF a, b, k
  <2>2. a \o << >> = a
    BY <1>1, ConcatEmptySeq
  <2>3. /\ Len(a \o k) = 2
        /\ \A i \in 1..2 : (a \o k)[i] = IF i <= 1 THEN a[i] ELSE k[i - 1]
    BY <1>1, <1>2, ConcatProperties
  <2> QED
    BY <1>2, <2>1, <2>2, <2>3
<1> QED
  BY <1>3, <1>4

\* A call that does not move keeps what holds of it while others move.
LEMMA CallKept ==
  ASSUME AuthIInv, NEW c \in Calls,
         setup' = setup, issued' \in Nat, issued' >= issued, (bound => bound'),
         active' \subseteq active \cup {issued + 1}
  PROVE  CallHolds(call[c])'  \/ call'[c] # call[c]
<1> SUFFICES ASSUME call'[c] = call[c]
             PROVE  CallHolds(call[c])'
  OBVIOUS
<1> DEFINE r == call[c]
<1>1. r \in CallRecords /\ CallHolds(r) /\ issued \in Nat
  BY DEF AuthIInv, AuthTypes
<1>2. r.cookie \in Nat /\ r.sets.session \in Nat /\ r.sets.csrf \in Nat
  BY <1>1 DEF CallRecords
<1>3. r.cookie # issued + 1
  BY <1>1, <1>2 DEF CallHolds
<1>4. Replacing(call[c])'
  BY <1>1, <1>3 DEF CallHolds, Replacing
<1>5. Strategies' = Strategies
  BY DEF Strategies
<1>6. InGuard(call[c])' /\ LetIn(call[c])' /\ Paired(call[c])' /\ ApprovedFirst(call[c])'
  BY <1>1, <1>5 DEF CallHolds, InGuard, LetIn, Paired, ApprovedFirst, NothingHeard
<1> QED
  BY <1>1, <1>2, <1>4, <1>6 DEF CallHolds

\* A step of one call keeps the invariant when it leaves a call of which it holds.
LEMMA OneCallMoves ==
  ASSUME AuthIInv, NEW c \in Calls, NEW r \in CallRecords, call' = [call EXCEPT ![c] = r],
         setup' = setup, issued' \in Nat, issued' >= issued, bound' = bound,
         active' \subseteq active \cup {issued + 1},
         jar' \in [session : 0..issued', csrf : 0..issued'], CookiesPaired',
         CallHolds(call[c])'
  PROVE  AuthIInv'
<1>1. call' \in [Calls -> CallRecords]
  BY DEF AuthIInv, AuthTypes
<1>2. AuthTypes'
  BY <1>1 DEF AuthIInv, AuthTypes
<1>3. ASSUME NEW d \in Calls PROVE CallHolds(call[d])'
  <2>1. CASE d = c
    BY <2>1
  <2>2. CASE d # c
    BY <2>2, CallKept, <1>2 DEF AuthIInv, AuthTypes
  <2> QED
    BY <2>1, <2>2
<1> QED
  BY <1>2, <1>3 DEF AuthIInv

\* A call that has not been made.
LEMMA IdleHolds ==
  /\ Idle \in CallRecords /\ Idle.kind = "page" /\ Idle.at = "idle" /\ Idle.cookie = 0 /\ Idle.answer = "none"
  /\ Idle.boundAtStart = FALSE /\ Idle.sets = NoCookies /\ Idle.told = << >> /\ Idle.principal = "nobody"
  /\ Idle.strategy = 1
  /\ NoCookies \in [session : Nat, csrf : Nat] /\ NoCookies.session = 0 /\ NoCookies.csrf = 0
BY EmptySeq DEF NoCookies, Kinds, Guarded, Idle, CallRecords

\* The call an answer leaves: what it keeps of the one that was answered.
LEMMA EndedHolds ==
  ASSUME AuthIInv, NEW c \in Calls, NEW reply \in {"refused", "done", "signed-in", "signed-out"},
         NEW sets \in [session : Nat, csrf : Nat],
         issued' \in Nat, issued' >= issued, setup' = setup, sets.session <= issued', sets.csrf <= issued',
         reply = "signed-in" =>
           /\ setup.csrf => sets.csrf = sets.session
           /\ call[c].kind = "login" => call[c].cookie \notin active',
         call' = [call EXCEPT ![c] = Ended(c, reply, sets)]
  PROVE  Ended(c, reply, sets) \in CallRecords /\ CallHolds(call[c])'
<1> DEFINE r == call[c]
           e == Ended(c, reply, sets)
<1>1. r \in CallRecords /\ CallHolds(r) /\ issued \in Nat
  BY DEF AuthIInv, AuthTypes
<1>2. r.cookie \in Nat /\ r.cookie <= issued /\ r.kind \in Kinds
  BY <1>1 DEF CallRecords, CallHolds
<1> DEFINE i == Idle
           a == [i EXCEPT !.at = "answered", !.answer = reply, !.sets = sets]
           l == [a EXCEPT !.kind = "login", !.cookie = r.cookie]
<1>4. /\ e \in CallRecords /\ e.at = "answered" /\ e.answer = reply /\ e.sets = sets
      /\ e.boundAtStart = FALSE
      /\ e.kind = "login" => r.kind = "login" /\ e.cookie = r.cookie
      /\ e.cookie \in {0, r.cookie}
  <2>1. i \in CallRecords /\ i.kind = "page" /\ i.cookie = 0 /\ i.boundAtStart = FALSE
    BY IdleHolds
  <2>2. e = IF r.kind = "login" THEN l ELSE a
    BY DEF Ended
  <2> HIDE DEF i
  <2>3. /\ a \in CallRecords /\ a.at = "answered" /\ a.answer = reply /\ a.sets = sets
        /\ a.boundAtStart = FALSE /\ a.kind = "page" /\ a.cookie = 0
    BY <2>1, ZenonT(60) DEF CallRecords
  <2> HIDE DEF a
  <2>4. "login" \in Kinds
    BY DEF Kinds, SignIns
  <2>5. /\ l \in CallRecords /\ l.at = "answered" /\ l.answer = reply /\ l.sets = sets
        /\ l.boundAtStart = FALSE /\ l.kind = "login" /\ l.cookie = r.cookie
    BY <1>2, <2>3, <2>4 DEF CallRecords
  <2> HIDE DEF e, l
  <2> QED
    BY <2>2, <2>3, <2>5
<1>5. call'[c] = e
  BY DEF AuthIInv, AuthTypes
<1> HIDE DEF e
<1>6. e.cookie <= issued' /\ e.cookie \in Nat
  BY <1>1, <1>2, <1>4
<1>7. Replacing(call[c])' /\ Paired(call[c])'
  BY <1>4, <1>5 DEF Replacing, Paired
<1>8. InGuard(call[c])' /\ LetIn(call[c])' /\ ApprovedFirst(call[c])'
  BY <1>4, <1>5 DEF InGuard, LetIn, ApprovedFirst
<1> QED
  BY <1>4, <1>5, <1>6, <1>7, <1>8 DEF CallHolds, e

\* An answer that changes neither sessions nor jar.
LEMMA AnswerKeeps ==
  ASSUME AuthIInv, NEW c \in Calls, NEW reply \in {"refused", "done", "signed-out"}, Answers(c, reply),
         setup' = setup, issued' \in Nat, issued' >= issued, bound' = bound, jar' = jar,
         active' \subseteq active \cup {issued + 1}
  PROVE  AuthIInv'
<1>1. /\ NoCookies \in [session : Nat, csrf : Nat] /\ issued \in Nat
      /\ NoCookies.session <= issued' /\ NoCookies.csrf <= issued'
  BY IdleHolds DEF AuthIInv, AuthTypes
<1>2. call' = [call EXCEPT ![c] = Ended(c, reply, NoCookies)] /\ reply # "signed-in"
  BY DEF Answers
<1>3. Ended(c, reply, NoCookies) \in CallRecords /\ CallHolds(call[c])'
  BY <1>1, <1>2, EndedHolds
<1>4. jar' \in [session : 0..issued', csrf : 0..issued'] /\ CookiesPaired'
  BY DEF AuthIInv, AuthTypes, CookiesPaired
<1> QED
  BY <1>2, <1>3, <1>4, OneCallMoves

\* A call that moves on keeps the rest of what it is.
LEMMA RunsIsRun ==
  ASSUME call \in [Calls -> CallRecords], NEW c \in Calls, NEW state, call' = [call EXCEPT ![c].at = state]
  PROVE  call' = [call EXCEPT ![c].at = state, ![c].approved = call[c].approved]
<1> DEFINE r == call[c]
           one == [r EXCEPT !.at = state]
           two == [r EXCEPT !.at = state, !.approved = r.approved]
<1>1. r \in CallRecords
  OBVIOUS
<1>2. one = two
  BY <1>1 DEF CallRecords
<1> QED
  BY <1>2

\* A step that only moves a call on, to a handler's next state.
LEMMA RunKeeps ==
  ASSUME AuthIInv, NEW c \in Calls, NEW state \in {"handler", "revoke", "create"}, NEW approved \in BOOLEAN,
         call' = [call EXCEPT ![c].at = state, ![c].approved = approved],
         setup' = setup, issued' = issued, bound' = bound, jar' = jar, active' \subseteq active,
         state = "create" /\ call[c].kind = "login" => call[c].cookie \notin active',
         state = "handler" => /\ call[c].at = "authorize"
                              /\ call[c].kind \in Guarded /\ HasPolicy(c) => approved
  PROVE  AuthIInv'
<1> DEFINE r == call[c]
           e == [r EXCEPT !.at = state, !.approved = approved]
<1>1. r \in CallRecords /\ CallHolds(r) /\ issued \in Nat
  BY DEF AuthIInv, AuthTypes
<1>2. e \in CallRecords /\ e.at = state /\ e.approved = approved /\ e.kind = r.kind /\ e.cookie = r.cookie
      /\ e.sets = r.sets /\ e.answer = r.answer /\ e.boundAtStart = r.boundAtStart /\ e.told = r.told
      /\ e.principal = r.principal
  BY <1>1 DEF CallRecords
<1>3. call' = [call EXCEPT ![c] = e]
  BY DEF AuthIInv, AuthTypes
<1>4. call'[c] = e
  BY <1>3 DEF AuthIInv, AuthTypes
<1> HIDE DEF e
<1>5. Replacing(call[c])' /\ Paired(call[c])' /\ InGuard(call[c])'
  BY <1>1, <1>2, <1>4 DEF CallHolds, Replacing, Paired, InGuard
<1>6. LetIn(call[c])'
  BY <1>1, <1>2, <1>4, ZenonT(60) DEF CallHolds, LetIn, NothingHeard
<1>7. ApprovedFirst(call[c])'
  BY <1>1, <1>2, <1>4 DEF CallHolds, ApprovedFirst, HasPolicy
<1>8. CallHolds(call[c])'
  BY <1>1, <1>2, <1>4, <1>5, <1>6, <1>7 DEF CallHolds
<1>9. jar' \in [session : 0..issued', csrf : 0..issued'] /\ CookiesPaired'
  BY DEF AuthIInv, AuthTypes, CookiesPaired
<1>10. issued' \in Nat /\ issued' >= issued /\ active' \subseteq active \cup {issued + 1}
  BY <1>1
<1> QED
  BY <1>2, <1>3, <1>8, <1>9, <1>10, OneCallMoves

\* The strategy of a guard says one of three things, and who it is goes by its name.
LEMMA StrategySays ==
  ASSUME AuthIInv, NEW c \in Calls, call[c].at = "guard"
  PROVE  /\ Verdict(c) \in Verdicts
         /\ Strategies[call[c].strategy] \in {"session", "bearer", "api-key"}
         /\ Len(Strategies) \in 2..3
<1>1. call[c] \in CallRecords /\ InGuard(call[c]) /\ setup \in Setups
  BY DEF AuthIInv, AuthTypes, CallHolds
<1>2. call[c].strategy \in 1..Len(Strategies) /\ Len(Strategies) \in 2..3
  BY <1>1, StrategiesAre DEF InGuard, CallRecords
<1>3. Strategies[call[c].strategy] \in {"session", "bearer", "api-key"}
  BY <1>1, <1>2, StrategiesAre
<1>4. /\ SessionVerdict(c) \in Verdicts
      /\ BearerVerdict(c) \in Verdicts
      /\ KeyVerdict(c) \in Verdicts
  BY <1>1 DEF SessionVerdict, BearerVerdict, KeyVerdict, Verdicts, CallRecords
<1>5. Verdict(c) \in Verdicts
  BY <1>3, <1>4 DEF Verdict
<1> QED
  BY <1>2, <1>3, <1>5

\* The invariant holds at first.
LEMMA AuthFirst == AuthInit => AuthIInv
<1> SUFFICES ASSUME AuthInit PROVE AuthIInv
  OBVIOUS
<1>1. /\ setup \in Setups /\ issued = 0 /\ bound = FALSE /\ jar = NoCookies
      /\ \A c \in Calls : call[c] = Idle
      /\ call \in [Calls -> CallRecords]
  BY IdleHolds DEF AuthInit
<1>2. jar \in [session : 0..issued, csrf : 0..issued] /\ CookiesPaired
  BY <1>1 DEF NoCookies, CookiesPaired
<1>3. AuthTypes
  BY <1>1, <1>2 DEF AuthTypes
<1>4. CallHolds(Idle)
  BY <1>1, IdleHolds DEF CallHolds, InGuard, LetIn, Replacing, Paired, ApprovedFirst
<1> QED
  BY <1>1, <1>2, <1>3, <1>4 DEF AuthIInv

\* A request is sent.
LEMMA SendKeeps == ASSUME AuthIInv, NEW c \in Calls, Send(c) PROVE AuthIInv'
<1>1. PICK kind \in Kinds, echo \in BOOLEAN, same \in BOOLEAN, bearer, key \in {"none", "good", "bad"} :
        /\ kind = "csrf" => setup.csrf
        /\ (kind \notin {"act"}) => echo /\ same
        /\ (kind \notin Guarded \cup {"whoami"}) => bearer = "none"
        /\ (bearer # "none") => key = "none"
        /\ (kind \notin Guarded \cup {"whoami"}) => key = "none"
        /\ call' = [call EXCEPT ![c] = Request(kind, echo, same, bearer, key)]
  BY DEF Send
<1> DEFINE i == Idle
           token == IF echo /\ kind = "act" THEN jar.csrf ELSE 0
           started == bound /\ kind \in Guarded
           state == IF kind \in Guarded \cup {"whoami"} THEN "guard" ELSE "handler"
           e == [i EXCEPT !.kind = kind, !.cookie = jar.session, !.token = token, !.sameOrigin = same,
                          !.bearer = bearer, !.key = key, !.boundAtStart = started, !.at = state]
<1>2. jar.session \in 0..issued /\ jar.csrf \in 0..issued /\ issued \in Nat /\ bound \in BOOLEAN
      /\ setup \in Setups /\ setup' = setup /\ issued' = issued /\ active' = active /\ jar' = jar /\ bound' = bound
  BY DEF AuthIInv, AuthTypes, Send
<1>3. token \in Nat /\ started \in BOOLEAN /\ (started => bound) /\ state \in {"guard", "handler"}
      /\ (state = "handler" => kind \notin Guarded \cup {"whoami"}) /\ jar.session \in Nat
  BY <1>2
<1>4. call' = [call EXCEPT ![c] = e]
  BY <1>1 DEF Request
<1> HIDE DEF i, token, started, state
<1>5. /\ e \in CallRecords /\ e.kind = kind /\ e.cookie = jar.session /\ e.boundAtStart = started /\ e.at = state
      /\ e.told = << >> /\ e.strategy = 1 /\ e.answer = "none" /\ e.sets = NoCookies
  <2>1. i \in CallRecords /\ i.told = << >> /\ i.strategy = 1 /\ i.answer = "none" /\ i.sets = NoCookies
    BY IdleHolds DEF i
  <2>2. e.kind = kind /\ e.cookie = jar.session /\ e.boundAtStart = started /\ e.at = state
    BY <2>1 DEF CallRecords
  <2>3. e.told = << >> /\ e.strategy = 1 /\ e.answer = "none" /\ e.sets = NoCookies
    BY <2>1 DEF CallRecords
  <2>4. e \in CallRecords
    BY <1>3, <2>1 DEF CallRecords
  <2> QED
    BY <2>2, <2>3, <2>4
<1> HIDE DEF e
<1>6. call'[c] = e
  BY <1>4 DEF AuthIInv, AuthTypes
<1>7. Len(e.told) = 0 /\ Strategies' = Strategies /\ Len(Strategies) \in 2..3
  BY <1>2, <1>5, StrategiesAre DEF Strategies
<1>8. InGuard(call[c])' /\ LetIn(call[c])' /\ Replacing(call[c])' /\ Paired(call[c])' /\ ApprovedFirst(call[c])'
  <2>0. call'[c].strategy = 1 /\ Len(call'[c].told) = 0
    BY <1>5, <1>6, <1>7
  <2>1. InGuard(call[c])'
    BY <1>7, <2>0, SMTT(60) DEF InGuard, NothingHeard
  <2>2. LetIn(call[c])'
    BY <1>3, <1>5, <1>6 DEF LetIn
  <2>3. Replacing(call[c])'
    BY <1>3, <1>5, <1>6 DEF Replacing
  <2>4. Paired(call[c])' /\ ApprovedFirst(call[c])'
    BY <1>3, <1>5, <1>6 DEF Paired, ApprovedFirst
  <2> QED
    BY <2>1, <2>2, <2>3, <2>4
<1>9. CallHolds(call[c])'
  BY <1>2, <1>3, <1>5, <1>6, <1>8, IdleHolds DEF CallHolds
<1>10. /\ issued' \in Nat /\ issued' >= issued /\ active' \subseteq active \cup {issued + 1}
       /\ jar' \in [session : 0..issued', csrf : 0..issued'] /\ CookiesPaired'
  BY <1>2 DEF AuthIInv, AuthTypes, CookiesPaired
<1> QED
  BY <1>2, <1>4, <1>5, <1>9, <1>10, OneCallMoves

\* One strategy of the chain is asked.
LEMMA AuthenticateKeeps == ASSUME AuthIInv, NEW c \in Calls, Authenticate(c) PROVE AuthIInv'
<1> DEFINE r == call[c]
           v == Verdict(c)
           told == Append(r.told, v)
           heard == [r EXCEPT !.told = told]
           further == [heard EXCEPT !.strategy = heard.strategy + 1]
           i == Idle
           admitted == [i EXCEPT !.kind = r.kind, !.at = "authorize", !.told = heard.told, !.boundAtStart = r.boundAtStart]
           name == Strategies[r.strategy]
           known == [admitted EXCEPT !.principal = name]
<1>1. r \in CallRecords /\ CallHolds(r) /\ issued \in Nat /\ setup \in Setups /\ r.at = "guard" /\ bound \in BOOLEAN
  BY DEF AuthIInv, AuthTypes, Authenticate
<1>2. v \in Verdicts /\ name \in {"session", "bearer", "api-key"} /\ Len(Strategies) \in 2..3
  BY <1>1, StrategySays
<1>3. /\ setup' = setup /\ issued' = issued /\ active' = active /\ jar' = jar /\ bound' = bound
      /\ issued' \in Nat /\ issued' >= issued /\ active' \subseteq active \cup {issued + 1}
      /\ jar' \in [session : 0..issued', csrf : 0..issued'] /\ CookiesPaired'
  BY <1>1 DEF AuthIInv, AuthTypes, CookiesPaired, Authenticate
<1>4. r.told \in Seq(Verdicts) /\ r.kind \in Kinds /\ r.strategy \in 1..3 /\ r.boundAtStart \in BOOLEAN
      /\ r.strategy = Len(r.told) + 1 /\ r.strategy <= Len(Strategies) /\ NothingHeard(r) /\ (r.boundAtStart => bound)
  BY <1>1 DEF CallHolds, InGuard, CallRecords
<1>5. /\ told \in Seq(Verdicts) /\ Len(told) = Len(r.told) + 1 /\ Len(r.told) \in Nat
      /\ told[Len(told)] = v /\ \A k \in 1..Len(told) - 1 : told[k] = "no-credential"
      /\ v = "no-credential" => \A k \in 1..Len(told) : told[k] = "no-credential"
  BY <1>2, <1>4, AppendProperties DEF NothingHeard
<1>6. \/ v = "no-credential" /\ r.strategy < Len(Strategies) /\ call' = [call EXCEPT ![c] = further]
      \/ v = "authenticated" /\ call' = [call EXCEPT ![c] = known]
      \/ v = "no-credential" /\ call' = [call EXCEPT ![c] = admitted]
      \/ Answers(c, "refused")
  <2>1. call' = [call EXCEPT ![c] =
                   IF GoesOn(v) /\ r.strategy < Len(Strategies) THEN further
                   ELSE IF v = "authenticated" THEN known
                   ELSE IF v = "no-credential" /\ r.kind = "whoami" THEN admitted
                   ELSE Ended(c, "refused", NoCookies)]
    BY DEF Authenticate
  <2> HIDE DEF v, further, known, admitted, name
  <2> QED
    BY <2>1 DEF GoesOn, Answers
<1> HIDE DEF v, told, i, name
<1>14. /\ heard \in CallRecords /\ heard.told = told /\ heard.strategy = r.strategy /\ heard.at = "guard"
       /\ heard.cookie = r.cookie /\ heard.sets = r.sets /\ heard.boundAtStart = r.boundAtStart
       /\ heard.answer = r.answer /\ heard.kind = r.kind
  BY <1>1, <1>5 DEF CallRecords
<1> HIDE DEF heard
<1>7. ASSUME v = "no-credential", r.strategy < Len(Strategies), call' = [call EXCEPT ![c] = further] PROVE AuthIInv'
  <2>1. /\ further \in CallRecords /\ further.told = told /\ further.strategy = r.strategy + 1 /\ further.at = "guard"
        /\ further.cookie = r.cookie /\ further.sets = r.sets /\ further.boundAtStart = r.boundAtStart
        /\ further.answer = r.answer /\ further.kind = r.kind
    <3> DEFINE k == r.strategy
               n == Len(Strategies)
    <3>0. k \in 1..3 /\ n \in 2..3 /\ k < n /\ heard.strategy = k
      BY <1>2, <1>4, <1>7, <1>14
    <3> HIDE DEF k, n
    <3>1. heard.strategy + 1 \in 1..3
      BY <3>0
    <3> QED
      BY <1>1, <1>14, <3>1 DEF CallRecords
  <2>2. call'[c] = further
    BY <1>7 DEF AuthIInv, AuthTypes
  <2> HIDE DEF further
  <2>3. Strategies' = Strategies
    BY <1>3 DEF Strategies
  <2>4. InGuard(call[c])' /\ LetIn(call[c])' /\ ApprovedFirst(call[c])'
    BY <1>2, <1>4, <1>5, <1>7, <2>1, <2>2, <2>3 DEF InGuard, LetIn, ApprovedFirst, NothingHeard
  <2>5. Replacing(call[c])' /\ Paired(call[c])'
    BY <1>1, <1>3, <2>1, <2>2 DEF CallHolds, Replacing, Paired
  <2>6. CallHolds(call[c])'
    BY <1>1, <1>3, <2>1, <2>2, <2>4, <2>5 DEF CallHolds
  <2> QED
    BY <1>3, <1>7, <2>1, <2>6, OneCallMoves
<1>8. ASSUME NEW e \in CallRecords, call' = [call EXCEPT ![c] = e], e.at = "authorize", e.told = told, e.cookie = 0,
             e.sets = NoCookies, e.boundAtStart = r.boundAtStart, e.answer = "none",
             e.principal = "nobody" => v = "no-credential"
      PROVE AuthIInv'
  <2>1. call'[c] = e
    BY <1>8 DEF AuthIInv, AuthTypes
  <2>2. InGuard(call[c])' /\ LetIn(call[c])' /\ ApprovedFirst(call[c])' /\ Replacing(call[c])' /\ Paired(call[c])'
    BY <1>5, <1>8, <2>1 DEF InGuard, LetIn, ApprovedFirst, NothingHeard, Replacing, Paired
  <2>3. CallHolds(call[c])'
    BY <1>3, <1>4, <1>8, <2>1, <2>2, IdleHolds DEF CallHolds
  <2> QED
    BY <1>3, <1>8, <2>3, OneCallMoves
<1>9. /\ admitted \in CallRecords /\ admitted.at = "authorize" /\ admitted.told = told /\ admitted.cookie = 0
      /\ admitted.sets = NoCookies /\ admitted.boundAtStart = r.boundAtStart /\ admitted.answer = "none"
      /\ admitted.principal = "nobody"
  BY IdleHolds, <1>4, <1>5, <1>14 DEF i, CallRecords
<1> HIDE DEF admitted
<1>10. /\ known \in CallRecords /\ known.at = "authorize" /\ known.told = told /\ known.cookie = 0
       /\ known.sets = NoCookies /\ known.boundAtStart = r.boundAtStart /\ known.answer = "none"
       /\ known.principal = name
  BY <1>2, <1>9 DEF CallRecords
<1> HIDE DEF known, further
<1>11. ASSUME v = "authenticated", call' = [call EXCEPT ![c] = known] PROVE AuthIInv'
  BY <1>2, <1>8, <1>10, <1>11
<1>12. ASSUME v = "no-credential", call' = [call EXCEPT ![c] = admitted] PROVE AuthIInv'
  BY <1>8, <1>9, <1>12
<1>13. ASSUME Answers(c, "refused") PROVE AuthIInv'
  BY <1>3, <1>13, AnswerKeeps
<1> QED
  BY <1>6, <1>7, <1>11, <1>12, <1>13

\* Nothing an action leaves alone is disturbed.
LEMMA AuthUnmoved ==
  ASSUME AuthIInv
  PROVE  /\ issued \in Nat /\ setup \in Setups /\ bound \in BOOLEAN /\ call \in [Calls -> CallRecords]
         /\ issued >= issued
         /\ jar \in [session : 0..issued, csrf : 0..issued] /\ CookiesPaired
BY DEF AuthIInv, AuthTypes

\* A request is authorized by the policy its route has by then.
LEMMA AuthorizeKeeps == ASSUME AuthIInv, NEW c \in Calls, Authorize(c) PROVE AuthIInv'
<1>1. /\ setup' = setup /\ issued' = issued /\ active' = active /\ jar' = jar /\ bound' = bound
      /\ call[c].at = "authorize"
  BY DEF Authorize
<1>2. CASE call[c].kind \in Guarded /\ HasPolicy(c)
  BY <1>1, AuthUnmoved, AnswerKeeps, RunKeeps, <1>2 DEF Authorize
<1>3. CASE ~(call[c].kind \in Guarded /\ HasPolicy(c))
  <2>1. call' = [call EXCEPT ![c].at = "handler"]
    BY <1>3 DEF Authorize, Runs
  <2>2. call[c] \in CallRecords /\ call[c].approved \in BOOLEAN
    BY AuthUnmoved DEF CallRecords
  <2>3. call' = [call EXCEPT ![c].at = "handler", ![c].approved = call[c].approved]
    BY <2>1, <2>2, AuthUnmoved, RunsIsRun
  <2> QED
    BY <1>1, <1>3, <2>2, <2>3, RunKeeps
<1> QED
  BY <1>2, <1>3

\* A handler checks a password, an assertion or a code, and a login may then look for an old session.
LEMMA CheckKeeps ==
  ASSUME AuthIInv, NEW c \in Calls, CheckPassword(c) \/ CheckAssertion(c) \/ CheckCode(c)
  PROVE  AuthIInv'
<1>1. /\ setup' = setup /\ issued' = issued /\ active' = active /\ jar' = jar /\ bound' = bound
      /\ Answers(c, "refused") \/ Runs(c, "revoke") \/ (Runs(c, "create") /\ call[c].kind # "login")
  BY DEF CheckPassword, CheckAssertion, CheckCode
<1>2. call[c] \in CallRecords /\ call[c].approved \in BOOLEAN
  BY AuthUnmoved DEF CallRecords
<1>3. CASE Answers(c, "refused")
  BY <1>1, <1>3, AuthUnmoved, AnswerKeeps
<1>4. ASSUME NEW state \in {"revoke", "create"}, Runs(c, state), state = "create" => call[c].kind # "login"
      PROVE  AuthIInv'
  BY <1>2, <1>4, AuthUnmoved, RunsIsRun, <1>1, RunKeeps DEF Runs
<1> QED
  BY <1>1, <1>3, <1>4

\* A login revokes the session it came with before it creates its own.
LEMMA RevokeKeeps == ASSUME AuthIInv, NEW c \in Calls, Revoke(c) PROVE AuthIInv'
<1>1. /\ setup' = setup /\ issued' = issued /\ active' = active \ {call[c].cookie} /\ jar' = jar /\ bound' = bound
      /\ Runs(c, "create")
  BY DEF Revoke, Revokes
<1>2. call[c] \in CallRecords /\ call[c].approved \in BOOLEAN
  BY AuthUnmoved DEF CallRecords
<1>3. call' = [call EXCEPT ![c].at = "create", ![c].approved = call[c].approved]
  BY <1>1, <1>2, AuthUnmoved, RunsIsRun DEF Runs
<1> QED
  BY <1>1, <1>2, <1>3, RunKeeps

\* A session is created, and its cookies are in the answer unless the hook throws.
LEMMA CreateKeeps == ASSUME AuthIInv, NEW c \in Calls, Create(c) PROVE AuthIInv'
<1>1. /\ setup' = setup /\ issued' = issued + 1 /\ active' = active \cup {issued + 1} /\ jar' = jar /\ bound' = bound
      /\ call[c].at = "create"
  BY DEF Create
<1>2. issued' \in Nat /\ issued' >= issued /\ issued + 1 # 0 /\ issued \in Nat
  BY <1>1, AuthUnmoved
<1>3. jar' \in [session : 0..issued', csrf : 0..issued'] /\ CookiesPaired'
  BY <1>1, <1>2, AuthUnmoved DEF CookiesPaired
<1>4. CASE Answers(c, "refused")
  BY <1>1, <1>2, <1>4, AnswerKeeps
<1>5. ASSUME call' = [call EXCEPT ![c] =
                Ended(c, "signed-in", [session |-> issued + 1, csrf |-> IF setup.csrf THEN issued + 1 ELSE 0])]
      PROVE  AuthIInv'
  <2> DEFINE token == IF setup.csrf THEN issued + 1 ELSE 0
             sets == [session |-> issued + 1, csrf |-> token]
  <2>1. token \in Nat /\ token <= issued' /\ (setup.csrf => token = issued + 1)
    BY <1>1, <1>2
  <2> HIDE DEF token
  <2>2. /\ sets \in [session : Nat, csrf : Nat] /\ sets.session <= issued' /\ sets.csrf <= issued'
        /\ setup.csrf => sets.csrf = sets.session
    BY <1>1, <1>2, <2>1
  <2>3. call' = [call EXCEPT ![c] = Ended(c, "signed-in", sets)]
    BY <1>5 DEF token
  <2> HIDE DEF sets
  <2>4. call[c].kind = "login" => call[c].cookie \notin active'
    BY AuthUnmoved, <1>1, <1>2 DEF AuthIInv, CallRecords, CallHolds, Replacing
  <2>5. Ended(c, "signed-in", sets) \in CallRecords /\ CallHolds(call[c])'
    BY <1>1, <1>2, <2>2, <2>3, <2>4, EndedHolds
  <2>6. active' \subseteq active \cup {issued + 1}
    BY <1>1
  <2> QED
    BY <1>1, <1>2, <1>3, <2>3, <2>5, <2>6, OneCallMoves
<1> QED
  BY <1>4, <1>5 DEF Create

\* An answer reaches the jar or is lost; the call can be made again.
LEMMA DeliverKeeps == ASSUME AuthIInv, NEW c \in Calls, Deliver(c) \/ Lose(c) PROVE AuthIInv'
<1>1. /\ setup' = setup /\ issued' = issued /\ active' = active /\ bound' = bound
      /\ call' = [call EXCEPT ![c] = Idle]
      /\ \/ jar' = jar
         \/ call[c].answer = "signed-in" /\ jar' = call[c].sets
         \/ jar' = NoCookies
  BY DEF Deliver, Lose, BothCleared
<1>2. call[c] \in CallRecords /\ CallHolds(call[c])
  BY AuthUnmoved DEF AuthIInv
<1>3. /\ call[c].sets \in [session : Nat, csrf : Nat]
      /\ call[c].sets.session <= issued /\ call[c].sets.csrf <= issued
      /\ call[c].answer = "signed-in" /\ setup.csrf => call[c].sets.csrf = call[c].sets.session
  BY <1>2 DEF CallRecords, CallHolds, Paired
<1>4. jar' \in [session : 0..issued', csrf : 0..issued'] /\ CookiesPaired'
  BY <1>1, AuthUnmoved, <1>3 DEF CookiesPaired, NoCookies
<1>5. call'[c] = Idle
  BY <1>1, AuthUnmoved
<1>6. CallHolds(call[c])'
  BY <1>1, <1>5, IdleHolds, AuthUnmoved DEF CallHolds, InGuard, LetIn, Replacing, Paired, ApprovedFirst
<1> QED
  BY <1>1, <1>4, <1>6, IdleHolds, AuthUnmoved, OneCallMoves

\* Sessions end, and a policy is bound, without a call.
LEMMA OthersKeep == ASSUME AuthIInv, Bind \/ Expire \/ UNCHANGED authVars PROVE AuthIInv'
<1>1. /\ setup' = setup /\ issued' = issued /\ active' \subseteq active /\ (bound => bound') /\ bound' \in BOOLEAN
      /\ call' = call /\ jar' = jar
  <2>1. CASE Bind
    BY <2>1, AuthUnmoved DEF Bind
  <2>2. CASE Expire
    BY <2>2, AuthUnmoved DEF Expire
  <2>3. CASE UNCHANGED authVars
    BY <2>3, AuthUnmoved DEF authVars
  <2> QED
    BY <2>1, <2>2, <2>3
<1>2. AuthTypes' /\ CookiesPaired'
  BY <1>1, AuthUnmoved DEF AuthTypes, CookiesPaired
<1>3. ASSUME NEW c \in Calls PROVE CallHolds(call[c])'
  BY <1>1, AuthUnmoved, CallKept
<1> QED
  BY <1>2, <1>3 DEF AuthIInv

\* Every step of a call, of an answer and of the world around them keeps it.
LEMMA AuthKept == AuthIInv /\ [AuthNext]_authVars => AuthIInv'
<1> SUFFICES ASSUME AuthIInv, [AuthNext]_authVars PROVE AuthIInv'
  OBVIOUS
<1>1. ASSUME NEW c \in Calls, Handler(c) PROVE AuthIInv'
  BY <1>1, AuthUnmoved, AnswerKeeps DEF Handler
<1>2. ASSUME NEW c \in Calls, Logout(c) PROVE AuthIInv'
  BY <1>2, AuthUnmoved, AnswerKeeps DEF Logout
<1> QED
  BY <1>1, <1>2, SendKeeps, AuthenticateKeeps, AuthorizeKeeps, CheckKeeps, RevokeKeeps, CreateKeeps, DeliverKeeps,
     OthersKeep DEF AuthNext

\* What the invariant says of every call is what the properties ask.
LEMMA AuthSays == AuthIInv => NeverMadeUpFor /\ LoginReplaces /\ CookiesPaired /\ PolicyAsked
<1> SUFFICES ASSUME AuthIInv PROVE NeverMadeUpFor /\ LoginReplaces /\ PolicyAsked
  BY DEF AuthIInv
<1>1. ASSUME NEW c \in Calls
      PROVE  /\ call[c] \in CallRecords /\ LetIn(call[c]) /\ Replacing(call[c]) /\ ApprovedFirst(call[c])
             /\ DOMAIN call[c].told = 1..Len(call[c].told)
  BY AuthUnmoved, LenProperties DEF AuthIInv, CallRecords, CallHolds
<1>2. NeverMadeUpFor
  BY <1>1 DEF NeverMadeUpFor, LetIn, NothingHeard
<1>3. LoginReplaces /\ PolicyAsked
  BY <1>1 DEF LoginReplaces, PolicyAsked, Replacing, ApprovedFirst
<1> QED
  BY <1>2, <1>3

\* Whatever calls of a browser, answers and timeouts do: a rejected credential is never made up for,
\* a login ends the session it came with, the two cookies stay paired, and a policy is asked.
THEOREM SignInsHold == AuthSpec => [](NeverMadeUpFor /\ LoginReplaces /\ CookiesPaired /\ PolicyAsked)
<1>1. AuthSpec => []AuthIInv
  BY AuthFirst, AuthKept, PTL DEF AuthSpec
<1> QED
  BY <1>1, AuthSays, PTL

-----------------------------------------------------------------------------
(***************************************************************************)
(* HttpRouting: serving.                                                   *)
(***************************************************************************)
Middle == Wildcard(<<"middleware">>)
Authed == Wildcard(<<"auth">>)
Final == Len(table)
AuthAdded == options.auth /\ options.registered

\* The table: what comes before the route, in this order, and the route.
TableHolds ==
  /\ Final \in 1..4
  /\ table[Final] = Route(options)
  /\ \A k \in 1..Final - 1 : table[k] \in {Middle, Mount, Authed}
  /\ options.middleware => Final > 1 /\ table[1] = Middle
  /\ AuthAdded => Final > 1 /\ table[Final - 1] = Authed

StaticLooks == {"looking", "resolving", "opening", "rechecking", "restating", "answering"}
Codes == {Undefined, 200, 304, 400, 401, 403, 404, 405, 415, 500}
RequestRecords ==
  [at : {"unsent", "walking", "answered"} \cup StaticLooks, method : {"GET", "HEAD", "POST"},
   path : {"asset", "root", "odd", "api"}, json : BOOLEAN, tag : 0..MaxVersions, route : Nat \ {0}, handler : 1..3,
   seen : SUBSET {"middleware", "auth", "guard", "parse", "static"},
   body : {"unread", "read", "streaming", "streamed"}, status : Codes, file : 0..Outside, since : Nat]
FdRecords == [file : 0..Outside, owner : {"nobody", "handler", "stream"}]
DiskRecords == [version : 0..MaxVersions, linked : BOOLEAN, written : 1..MaxVersions]
PackRecords == [at : {"none", "hashed", "made", "failed", "empty"}, hash : 0..MaxVersions, content : 0..MaxVersions]

\* A request has seen what stands before it in the table, or stands before it still, unanswered.
BeforeAll(r) == r.at \in {"unsent", "walking", "answered"} /\ r.status \in {Undefined, 401}
MiddlewareSeen(r) == options.middleware => "middleware" \in r.seen \/ (r.route = 1 /\ BeforeAll(r))
AuthSeen(r) == AuthAdded /\ r.path = "api" => "auth" \in r.seen \/ (r.route < Final /\ BeforeAll(r))
GuardSeen(r) ==
  options.use => "guard" \in r.seen \/ ((r.route = Final => r.handler = 1) /\ r.body # "read" /\ r.status # 415)
InTable(r) ==
  /\ r.route <= Final + 1 /\ (r.route # Final => r.handler = 1)
  /\ r.route = Final => r.handler <= Len(Route(options).handlers)
Looking(r) == r.at \in StaticLooks => r.route < Final /\ table[r.route] = Mount /\ r.path = "asset"
RequestHolds(r) == InTable(r) /\ MiddlewareSeen(r) /\ AuthSeen(r) /\ GuardSeen(r) /\ Looking(r)
\* A descriptor has an owner.
FdHolds(r, o) ==
  o # NoFd => \/ o.owner = "handler" /\ r.at \in {"rechecking", "restating", "answering"}
              \/ o.owner = "stream" /\ r.at = "answered" /\ r.body = "streaming"

ServingTypes ==
  /\ options \in Options /\ TableHolds
  /\ rq \in [Requests -> RequestRecords] /\ opened \in [Requests -> FdRecords]
  /\ disk \in DiskRecords /\ pack \in PackRecords /\ diskSwaps \in Nat
ServingIInv ==
  /\ ServingTypes
  /\ \A q \in Requests : RequestHolds(rq[q]) /\ FdHolds(rq[q], opened[q])

\* The builder's table is what TableHolds says.
LEMMA TableIs ==
  ASSUME options \in Options, table = Append(Built(options), Route(options))
  PROVE  TableHolds
<1> DEFINE S == {Middle, Mount, Authed}
           a == IF options.middleware THEN <<Middle>> ELSE << >>
           b == IF options.mounts THEN <<Mount>> ELSE << >>
           e == IF options.auth /\ options.registered THEN <<Authed>> ELSE << >>
<1>1. Built(options) = (a \o b) \o e
  BY DEF Built, Extension, Middle, Authed
<1>2. << >> \in Seq(S) /\ Len(<< >>) = 0
  BY EmptySeq
<1>3. a \in Seq(S) /\ (Len(a) = 0 \/ Len(a) = 1) /\ (options.middleware => Len(a) = 1 /\ a[1] = Middle)
  <2>1. CASE options.middleware
    BY <2>1
  <2>2. CASE ~options.middleware
    BY <1>2, <2>2
  <2> QED
    BY <2>1, <2>2
<1>4. /\ a \o b \in Seq(S) /\ (Len(a \o b) = Len(a) \/ Len(a \o b) = Len(a) + 1) /\ \A k \in 1..Len(a) : (a \o b)[k] = a[k]
  <2>1. CASE options.mounts
    <3> HIDE DEF a
    <3>1. b = <<Mount>>
      BY <2>1
    <3> HIDE DEF b
    <3>2. Mount \in S
      OBVIOUS
    <3> HIDE DEF S
    <3> QED
      BY <1>3, <3>1, <3>2, OneMore
  <2>2. CASE ~options.mounts
    <3>1. b = << >>
      BY <2>2
    <3> HIDE DEF a, b, S
    <3> QED
      BY <1>3, <3>1, ConcatEmptySeq
  <2> QED
    BY <2>1, <2>2
<1> DEFINE ab == a \o b
<1>5. /\ ab \o e \in Seq(S) /\ (Len(ab \o e) = Len(ab) \/ Len(ab \o e) = Len(ab) + 1) /\ \A k \in 1..Len(ab) : (ab \o e)[k] = ab[k]
      /\ AuthAdded => Len(ab \o e) > 0 /\ (ab \o e)[Len(ab \o e)] = Authed
  <2> HIDE DEF a, b
  <2>0. ab \in Seq(S) /\ Len(ab) \in Nat
    BY <1>4, LenProperties
  <2> HIDE DEF ab
  <2>1. CASE AuthAdded
    <3>1. e = <<Authed>> /\ Authed \in S
      BY <2>1 DEF AuthAdded
    <3> HIDE DEF e, S
    <3> QED
      BY <2>0, <3>1, OneMore
  <2>2. CASE ~AuthAdded
    <3>1. e = << >>
      BY <2>2 DEF AuthAdded
    <3> HIDE DEF e, S
    <3> QED
      BY <2>0, <2>2, <3>1, ConcatEmptySeq
  <2> QED
    BY <2>1, <2>2
<1> HIDE DEF a, b, e
<1> DEFINE inBuilt == ab \o e
<1>6. /\ inBuilt \in Seq(S) /\ Len(inBuilt) \in 0..3
      /\ options.middleware => Len(inBuilt) > 0 /\ inBuilt[1] = Middle
      /\ AuthAdded => Len(inBuilt) > 0 /\ inBuilt[Len(inBuilt)] = Authed
  <2>1. /\ ab \in Seq(S) /\ (Len(ab) = Len(a) \/ Len(ab) = Len(a) + 1) /\ \A k \in 1..Len(a) : ab[k] = a[k]
        /\ (Len(a) = 0 \/ Len(a) = 1) /\ (options.middleware => Len(a) = 1 /\ a[1] = Middle)
    BY <1>3, <1>4
  <2> HIDE DEF ab
  <2>2. Len(ab) \in 0..2 /\ (options.middleware => Len(ab) > 0 /\ ab[1] = Middle)
    <3> DEFINE k == Len(a)
               n == Len(ab)
    <3>1. /\ n = k \/ n = k + 1
          /\ \A j \in 1..k : ab[j] = a[j]
          /\ k = 0 \/ k = 1
          /\ options.middleware => k = 1 /\ a[1] = Middle
      BY <2>1
    <3> HIDE DEF a, S, k, n
    <3>2. n \in 0..2 /\ (options.middleware => n > 0 /\ ab[1] = Middle)
      BY <3>1
    <3> QED
      BY <3>2 DEF n
  <2>3. inBuilt \in Seq(S) /\ (Len(inBuilt) = Len(ab) \/ Len(inBuilt) = Len(ab) + 1) /\ \A k \in 1..Len(ab) : inBuilt[k] = ab[k]
    BY <1>5
  <2>4. AuthAdded => Len(inBuilt) > 0 /\ inBuilt[Len(inBuilt)] = Authed
    BY <1>5
  <2> DEFINE k == Len(ab)
             n == Len(inBuilt)
  <2>5. /\ n = k \/ n = k + 1
        /\ \A j \in 1..k : inBuilt[j] = ab[j]
        /\ k \in 0..2 /\ (options.middleware => k > 0 /\ ab[1] = Middle)
    BY <2>2, <2>3
  <2> HIDE DEF inBuilt, S, k, n
  <2>6. n \in 0..3 /\ (options.middleware => n > 0 /\ inBuilt[1] = Middle)
    BY <2>5
  <2> QED
    BY <2>3, <2>4, <2>6 DEF n
<1> HIDE DEF inBuilt
<1>7. table = Append(inBuilt, Route(options))
  BY <1>1 DEF inBuilt
<1>8. /\ Len(table) = Len(inBuilt) + 1 /\ table[Len(inBuilt) + 1] = Route(options)
      /\ \A k \in 1..Len(inBuilt) : table[k] = inBuilt[k] /\ inBuilt[k] \in S
  <2>1. \A k \in 1..Len(inBuilt) : inBuilt[k] \in S
    BY <1>6, ElementOfSeq
  <2> DEFINE T == S \cup {Route(options)}
             r == Route(options)
  <2>2. inBuilt \in Seq(T) /\ r \in T
    BY <1>6, SeqMonotonic
  <2> HIDE DEF T, r
  <2> QED
    BY <1>7, <2>1, <2>2, AppendProperties DEF r
<1> QED
  BY <1>6, <1>8 DEF TableHolds, Final

\* What a request's walk can meet where it stands.
LEMMA WhereItStands ==
  ASSUME ServingIInv, NEW q \in Requests, rq[q].route <= Final
  PROVE  /\ rq[q].route < Final => /\ table[rq[q].route] \in {Middle, Mount, Authed}
                                  /\ rq[q].handler = 1 /\ Len(table[rq[q].route].handlers) = 1
         /\ rq[q].route = Final => table[rq[q].route] = Route(options)
         /\ options.middleware /\ rq[q].route = 1 => rq[q].route < Final /\ table[rq[q].route] = Middle
         /\ AuthAdded /\ rq[q].route = Final - 1 => table[rq[q].route] = Authed
<1> DEFINE r == rq[q]
<1>1. r \in RequestRecords /\ InTable(r) /\ TableHolds
  BY DEF ServingIInv, ServingTypes, RequestHolds
<1>2. r.route \in Nat \ {0} /\ Final \in 1..4
  BY <1>1 DEF RequestRecords, TableHolds
<1>3. Len(<<"middleware">>) = 1 /\ Len(<<"static">>) = 1 /\ Len(<<"auth">>) = 1
  OBVIOUS
<1>4. Len(Middle.handlers) = 1 /\ Len(Mount.handlers) = 1 /\ Len(Authed.handlers) = 1
  BY <1>3 DEF Middle, Mount, Authed, Wildcard
<1> QED
  BY <1>1, <1>2, <1>4 DEF TableHolds, InTable

\* The handlers of the route.
LEMMA RouteIs ==
  LET h == Route(options).handlers IN
  /\ options.use => Len(h) = 3 /\ h[1] = "guard" /\ h[2] = "parse" /\ h[3] = "handler"
  /\ ~options.use => Len(h) = 2 /\ h[1] = "parse" /\ h[2] = "handler"
  /\ Route(options).on = {"api"} /\ Route(options).methods = {options.method}
<1> DEFINE N == {"guard", "parse", "handler"}
           g == IF options.use THEN <<"guard">> ELSE << >>
           p == <<"parse">>
           e == "handler"
<1>1. Route(options).handlers = (g \o p) \o <<e>> /\ Route(options).on = {"api"}
      /\ Route(options).methods = {options.method}
  BY DEF Route
<1>e. e \in N
  OBVIOUS
<1> HIDE DEF e, N
<1>2. CASE options.use
  <2>1. g = <<"guard">> /\ g \in Seq(N) /\ Len(g) = 1 /\ g[1] = "guard"
    BY <1>2 DEF N
  <2> HIDE DEF g
  <2>2. g \o p \in Seq(N) /\ Len(g \o p) = Len(g) + 1 /\ (g \o p)[Len(g) + 1] = "parse"
        /\ \A k \in 1..Len(g) : (g \o p)[k] = g[k]
    BY <2>1, OneMore DEF N
  <2> DEFINE s == g \o p
  <2>3. s \in Seq(N) /\ Len(s) = 2 /\ s[1] = "guard" /\ s[2] = "parse"
    BY <2>1, <2>2
  <2> HIDE DEF s, p
  <2>4. s \o <<e>> \in Seq(N) /\ Len(s \o <<e>>) = Len(s) + 1 /\ (s \o <<e>>)[Len(s) + 1] = e
        /\ \A k \in 1..Len(s) : (s \o <<e>>)[k] = s[k]
    <3>1. s \in Seq(N)
      BY <2>3
    <3> QED
      BY <1>e, <3>1, OneMore
  <2>5. Len(s \o <<e>>) = 3 /\ (s \o <<e>>)[1] = "guard" /\ (s \o <<e>>)[2] = "parse" /\ (s \o <<e>>)[3] = "handler"
    BY <2>3, <2>4 DEF e
  <2> QED
    BY <1>1, <1>2, <2>5 DEF s, e
<1>3. CASE ~options.use
  <2>1. g \o p = p
    <3>1. g = << >> /\ p \in Seq(N)
      BY <1>3 DEF N
    <3> HIDE DEF g, p
    <3> QED
      BY <3>1, ConcatEmptySeq
  <2>2. p \in Seq(N) /\ Len(p) = 1 /\ p[1] = "parse"
    BY DEF N
  <2> HIDE DEF g, p
  <2>3. p \o <<e>> \in Seq(N) /\ Len(p \o <<e>>) = Len(p) + 1 /\ (p \o <<e>>)[Len(p) + 1] = e
        /\ \A k \in 1..Len(p) : (p \o <<e>>)[k] = p[k]
    <3>1. p \in Seq(N)
      BY <2>2
    <3> QED
      BY <1>e, <3>1, OneMore
  <2>4. Len(p \o <<e>>) = 2 /\ (p \o <<e>>)[1] = "parse" /\ (p \o <<e>>)[2] = "handler"
    BY <2>2, <2>3 DEF e
  <2> QED
    BY <1>1, <1>3, <2>1, <2>4 DEF e
<1> QED
  BY <1>2, <1>3

\* A request stands on a handler it came to, or on the static handler that looks at the disk.
OnHandler(q, name) == At(q, name) \/ (name = "static" /\ rq[q].at \in StaticLooks)

\* A handler's name tells where in the table a request is, and what it has seen by then.
LEMMA NameTells ==
  ASSUME ServingIInv, NEW q \in Requests, NEW name \in {"middleware", "auth", "guard", "parse", "handler", "static"},
         OnHandler(q, name)
  PROVE  /\ rq[q].route \in 1..Final
         /\ rq[q].route = Final <=> name \in {"guard", "parse", "handler"}
         /\ name # "middleware" => (options.middleware => "middleware" \in rq[q].seen)
         /\ name \notin {"middleware", "auth"} => (AuthAdded /\ rq[q].path = "api" => "auth" \in rq[q].seen)
         /\ name \in {"parse", "handler"} => (options.use => "guard" \in rq[q].seen)
         /\ name = "auth" \/ name = "static" \/ name = "middleware" => table[rq[q].route].handlers = <<name>>
         /\ name = "static" => rq[q].path # "api"
         /\ rq[q].handler <= Len(table[rq[q].route].handlers)
         /\ Len(table[rq[q].route].handlers) \in 1..3
<1> DEFINE r == rq[q]
           t == table[r.route]
<1>0. r \in RequestRecords /\ RequestHolds(r) /\ TableHolds
  BY DEF ServingIInv, ServingTypes
<1>l. ASSUME name = "static", r.at \in StaticLooks
      PROVE  /\ r.route < Final /\ t = Mount /\ r.handler = 1 /\ r.path = "asset" /\ r.route \in Nat \ {0}
             /\ t.handlers[r.handler] = name /\ r.path \in t.on
  BY <1>0, <1>l DEF RequestHolds, Looking, InTable, RequestRecords, TableHolds, Mount
<1>1. /\ r \in RequestRecords /\ RequestHolds(r) /\ TableHolds /\ r.route <= Final
      /\ t.handlers[r.handler] = name /\ r.path \in t.on
  BY <1>0, <1>l DEF RequestRecords, TableHolds, OnHandler, At, Matches, Final
<1>2. r.route \in 1..Final /\ Final \in 1..4 /\ r.handler \in 1..3
  BY <1>1 DEF RequestRecords, TableHolds
<1>3. /\ r.route < Final => t \in {Middle, Mount, Authed} /\ r.handler = 1 /\ Len(t.handlers) = 1
      /\ r.route = Final => t = Route(options)
      /\ options.middleware /\ r.route = 1 => r.route < Final /\ t = Middle
      /\ AuthAdded /\ r.route = Final - 1 => t = Authed
  BY <1>1, <1>2, WhereItStands
<1>4. /\ Middle.handlers = <<"middleware">> /\ Mount.handlers = <<"static">> /\ Authed.handlers = <<"auth">>
      /\ Mount.on = {"asset", "root", "odd"}
  BY DEF Middle, Mount, Authed, Wildcard
<1>5. ASSUME r.route < Final
      PROVE  /\ name \in {"middleware", "static", "auth"} /\ t.handlers = <<name>>
             /\ name = "static" => r.path # "api"
             /\ name = "middleware" => t = Middle
             /\ name = "auth" => t = Authed
             /\ r.handler <= Len(t.handlers) /\ Len(t.handlers) \in 1..3
             /\ t = Middle => name = "middleware"
             /\ t = Authed => name = "auth"
  BY <1>1, <1>3, <1>4, <1>5
<1>6. ASSUME r.route = Final
      PROVE  /\ name \in {"guard", "parse", "handler"}
             /\ name \in {"parse", "handler"} /\ options.use => r.handler > 1
             /\ r.handler <= Len(t.handlers) /\ Len(t.handlers) \in 1..3
  <2> DEFINE h == Route(options).handlers
  <2>1. t.handlers = h
    BY <1>3, <1>6
  <2>2. /\ options.use => Len(h) = 3 /\ h[1] = "guard" /\ h[2] = "parse" /\ h[3] = "handler"
        /\ ~options.use => Len(h) = 2 /\ h[1] = "parse" /\ h[2] = "handler"
    BY RouteIs
  <2>3. r.handler <= Len(h)
    BY <1>1, <1>6, <2>1 DEF RequestHolds, InTable
  <2> HIDE DEF h
  <2> QED
    BY <1>1, <1>2, <2>1, <2>2, <2>3
<1>7. name # "middleware" => (options.middleware => "middleware" \in r.seen)
  BY <1>1, <1>2, <1>3, <1>5, <1>6 DEF RequestHolds, MiddlewareSeen
<1>8. name \notin {"middleware", "auth"} => (AuthAdded /\ r.path = "api" => "auth" \in r.seen)
  BY <1>1, <1>2, <1>3, <1>5, <1>6 DEF RequestHolds, AuthSeen
<1>9. name \in {"parse", "handler"} => (options.use => "guard" \in r.seen)
  BY <1>1, <1>2, <1>5, <1>6 DEF RequestHolds, GuardSeen
<1> QED
  BY <1>1, <1>2, <1>5, <1>6, <1>7, <1>8, <1>9

\* The request that passed a handler, and the one that was answered.
LEMMA PassedIs ==
  ASSUME ServingIInv, NEW q \in Requests, NEW name \in {"middleware", "auth", "guard", "parse", "static"}, OnHandler(q, name)
  PROVE  LET e == Passed(q, name) IN
         /\ e \in RequestRecords /\ e.at = "walking" /\ e.path = rq[q].path /\ e.status = rq[q].status
         /\ e.body = rq[q].body /\ e.seen = rq[q].seen \cup {name} /\ InTable(e)
         /\ e.route >= rq[q].route
         /\ rq[q].route < Final => e.route = rq[q].route + 1 /\ e.handler = 1
         /\ e.file = rq[q].file /\ e.since = rq[q].since
<1> DEFINE r == rq[q]
           t == table[r.route]
           here == [r EXCEPT !.at = "walking", !.handler = r.handler + 1, !.seen = r.seen \cup {name}]
           beyond == [r EXCEPT !.at = "walking", !.handler = 1, !.route = r.route + 1, !.seen = r.seen \cup {name}]
           e == Passed(q, name)
<1>1. r \in RequestRecords /\ InTable(r) /\ TableHolds
  BY DEF ServingIInv, ServingTypes, RequestHolds
<1>2. /\ r.route \in 1..Final /\ r.handler <= Len(t.handlers) /\ Len(t.handlers) \in 1..3
      /\ r.route < Final => Len(t.handlers) = 1
      /\ r.route = Final => t = Route(options)
  BY NameTells, WhereItStands
<1>3. r.route \in Nat \ {0} /\ r.handler \in 1..3 /\ Final \in 1..4 /\ r.seen \cup {name} \in SUBSET {"middleware", "auth", "guard", "parse", "static"}
  BY <1>1 DEF RequestRecords, TableHolds
<1>4. e = IF r.handler < Len(t.handlers) THEN here ELSE beyond
  BY DEF Passed
<1> DEFINE k == Len(t.handlers)
<1> HIDE DEF k, e
<1>5. ASSUME r.handler < k
      PROVE  /\ here \in RequestRecords /\ here.at = "walking" /\ here.path = r.path /\ here.status = r.status
             /\ here.body = r.body /\ here.seen = r.seen \cup {name} /\ here.file = r.file /\ here.since = r.since
             /\ here.route = r.route /\ here.handler = r.handler + 1 /\ r.route = Final /\ r.handler + 1 <= k
  <2>1. k \in 1..3 /\ (r.route < Final => k = 1)
    BY <1>2 DEF k
  <2>2. r.handler + 1 \in 1..3 /\ r.handler + 1 <= k /\ r.route = Final
    BY <1>2, <1>3, <1>5, <2>1
  <2> QED
    BY <1>1, <1>3, <2>2 DEF RequestRecords
<1>6. /\ beyond \in RequestRecords /\ beyond.at = "walking" /\ beyond.path = r.path /\ beyond.status = r.status
      /\ beyond.body = r.body /\ beyond.seen = r.seen \cup {name} /\ beyond.file = r.file /\ beyond.since = r.since
      /\ beyond.route = r.route + 1 /\ beyond.handler = 1
  <2>1. r.route + 1 \in Nat \ {0} /\ 1 \in 1..3
    BY <1>3
  <2> QED
    BY <1>1, <1>3, <2>1 DEF RequestRecords
<1> HIDE DEF here, beyond
<1>7. CASE r.handler < k
  BY <1>4, <1>7, <1>2, <1>3, <1>5 DEF k, InTable, e
<1>8. CASE ~(r.handler < k)
  <2>1. e = beyond
    BY <1>4, <1>8 DEF k
  <2>2. InTable(e)
    BY <1>2, <1>3, <1>6, <2>1, RouteIs DEF InTable
  <2> QED
    BY <1>3, <1>6, <2>1, <2>2 DEF e
<1> QED
  BY <1>7, <1>8

\* A request that is answered keeps all it had but where it is and what it was told.
LEMMA AnsweredIs ==
  ASSUME ServingIInv, NEW q \in Requests, NEW code \in Codes
  PROVE  LET e == Answered(q, code) IN
         /\ e \in RequestRecords /\ e.at = "answered" /\ e.status = code /\ e.path = rq[q].path /\ e.body = rq[q].body
         /\ e.seen = rq[q].seen /\ e.route = rq[q].route /\ e.handler = rq[q].handler /\ e.file = rq[q].file /\ e.since = rq[q].since
         /\ InTable(e)
<1>1. rq[q] \in RequestRecords /\ InTable(rq[q])
  BY DEF ServingIInv, ServingTypes, RequestHolds
<1> DEFINE e == Answered(q, code)
<1>2. /\ e \in RequestRecords /\ e.at = "answered" /\ e.status = code /\ e.path = rq[q].path /\ e.body = rq[q].body
      /\ e.seen = rq[q].seen /\ e.route = rq[q].route /\ e.handler = rq[q].handler /\ e.file = rq[q].file /\ e.since = rq[q].since
  BY <1>1 DEF Answered, RequestRecords
<1> HIDE DEF e
<1>3. InTable(e)
  BY <1>1, <1>2 DEF InTable
<1> QED
  BY <1>2, <1>3 DEF e

\* A step of one request keeps the invariant if what it leaves does.
LEMMA OneRequestMoves ==
  ASSUME ServingIInv, NEW q \in Requests, NEW e \in RequestRecords, NEW o \in FdRecords,
         rq' = [rq EXCEPT ![q] = e], opened' = [opened EXCEPT ![q] = o], RestKept(q),
         RequestHolds(e), FdHolds(e, o)
  PROVE  ServingIInv'
<1>1. options' = options /\ table' = table /\ disk' = disk /\ pack' = pack /\ diskSwaps' = diskSwaps
  BY DEF RestKept
<1>2. rq' \in [Requests -> RequestRecords] /\ opened' \in [Requests -> FdRecords] /\ rq'[q] = e /\ opened'[q] = o
      /\ \A p \in Requests : p # q => rq'[p] = rq[p] /\ opened'[p] = opened[p]
  BY DEF ServingIInv, ServingTypes
<1>3. TableHolds' /\ Final' = Final /\ AuthAdded' = AuthAdded
  BY <1>1 DEF ServingIInv, ServingTypes, TableHolds, Final, AuthAdded
<1>4. ServingTypes'
  BY <1>1, <1>2, <1>3 DEF ServingIInv, ServingTypes
<1>5. \A r : RequestHolds(r) => RequestHolds(r)'
  BY <1>1, <1>3 DEF RequestHolds, InTable, MiddlewareSeen, AuthSeen, GuardSeen, Looking
<1>6. ASSUME NEW p \in Requests PROVE (RequestHolds(rq[p]) /\ FdHolds(rq[p], opened[p]))'
  BY <1>2, <1>5 DEF ServingIInv
<1> QED
  BY <1>4, <1>6 DEF ServingIInv

\* A handler that lets a request pass, and the answers handlers give, keep what requests have seen.
LEMMA PassedHolds ==
  ASSUME ServingIInv, NEW q \in Requests, NEW name \in {"middleware", "auth", "guard", "parse", "static"},
         OnHandler(q, name)
  PROVE  RequestHolds(Passed(q, name)) /\ Passed(q, name).at = "walking"
<1> DEFINE r == rq[q]
           e == Passed(q, name)
<1>1. r \in RequestRecords /\ RequestHolds(r) /\ TableHolds
  BY DEF ServingIInv, ServingTypes
<1>2. /\ e \in RequestRecords /\ e.at = "walking" /\ e.path = r.path /\ e.status = r.status
      /\ e.body = r.body /\ e.seen = r.seen \cup {name} /\ InTable(e)
      /\ r.route < Final => e.route = r.route + 1 /\ e.handler = 1
  BY PassedIs
<1>3. /\ r.route \in 1..Final
      /\ r.route = Final <=> name \in {"guard", "parse", "handler"}
      /\ name # "middleware" => (options.middleware => "middleware" \in r.seen)
      /\ name \notin {"middleware", "auth"} => (AuthAdded /\ r.path = "api" => "auth" \in r.seen)
      /\ name \in {"parse", "handler"} => (options.use => "guard" \in r.seen)
      /\ name = "auth" \/ name = "static" \/ name = "middleware" => table[r.route].handlers = <<name>>
  BY NameTells
<1>4. r.route \in Nat /\ Final \in 1..4 /\ r.route <= Final
  BY <1>1, <1>3 DEF TableHolds, RequestRecords
<1> HIDE DEF e
<1>5. MiddlewareSeen(e)
  BY <1>2, <1>3 DEF MiddlewareSeen
<1>6. AuthSeen(e)
  <2>1. CASE name # "middleware"
    BY <1>2, <1>3, <2>1 DEF AuthSeen
  <2>2. CASE name = "middleware"
    <3> SUFFICES ASSUME AuthAdded, e.path = "api", "auth" \notin e.seen
                 PROVE  e.route < Final /\ BeforeAll(e)
      BY DEF AuthSeen
    <3>1. r.route < Final /\ BeforeAll(r)
      BY <1>1, <1>2 DEF RequestHolds, AuthSeen
    <3>2. r.route # Final - 1
      BY <1>1, <1>3, <2>2 DEF TableHolds, Authed, Wildcard
    <3>3. e.route = r.route + 1 /\ e.route < Final
      BY <1>2, <1>4, <3>1, <3>2
    <3> QED
      BY <1>2, <3>1, <3>3 DEF BeforeAll
  <2> QED
    BY <2>1, <2>2
<1>7. GuardSeen(e)
  <2>1. CASE name \in {"guard", "parse"}
    BY <1>2, <1>3, <2>1 DEF GuardSeen
  <2>2. CASE name \notin {"guard", "parse"}
    BY <1>3, <1>4, <2>2, <1>1, <1>2 DEF RequestHolds, GuardSeen
  <2> QED
    BY <2>1, <2>2
<1>8. Looking(e)
  BY <1>2 DEF Looking, StaticLooks
<1> QED
  BY <1>2, <1>5, <1>6, <1>7, <1>8 DEF RequestHolds, e

\* An answer keeps what a request owes its guards.
LEMMA AnsweredHolds ==
  ASSUME ServingIInv, NEW q \in Requests, NEW name \in {"middleware", "auth", "guard", "parse", "handler", "static"},
         OnHandler(q, name), NEW code \in Codes, code = 401 \/ name \in {"handler", "static"},
         code = 415 => name = "handler"
  PROVE  RequestHolds(Answered(q, code)) /\ Answered(q, code).at = "answered"
<1> DEFINE r == rq[q]
           e == Answered(q, code)
<1>1. r \in RequestRecords /\ RequestHolds(r)
  BY DEF ServingIInv, ServingTypes
<1>2. /\ e.at = "answered" /\ e.status = code /\ e.path = r.path /\ e.body = r.body
      /\ e.seen = r.seen /\ e.route = r.route /\ e.handler = r.handler /\ InTable(e)
  BY AnsweredIs
<1>3. /\ r.route = Final <=> name \in {"guard", "parse", "handler"}
      /\ name # "middleware" => (options.middleware => "middleware" \in r.seen)
      /\ name \notin {"middleware", "auth"} => (AuthAdded /\ r.path = "api" => "auth" \in r.seen)
      /\ name \in {"parse", "handler"} => (options.use => "guard" \in r.seen)
  BY NameTells
<1> HIDE DEF e
<1>4. MiddlewareSeen(e)
  BY <1>1, <1>2, <1>3 DEF RequestHolds, MiddlewareSeen, BeforeAll
<1>5. AuthSeen(e)
  BY <1>1, <1>2, <1>3 DEF RequestHolds, AuthSeen, BeforeAll
<1>6. GuardSeen(e)
  BY <1>1, <1>2, <1>3 DEF RequestHolds, GuardSeen
<1>7. Looking(e)
  BY <1>2 DEF Looking, StaticLooks
<1> QED
  BY <1>2, <1>4, <1>5, <1>6, <1>7 DEF RequestHolds, e

\* A static handler that declines answers, or lets the request go on.
LEMMA DeclinesHolds ==
  ASSUME ServingIInv, NEW q \in Requests, OnHandler(q, "static"), NEW code \in {400, 403, 404, 405}
  PROVE  /\ Declines(q, code) \in RequestRecords /\ RequestHolds(Declines(q, code))
         /\ Declines(q, code).at \in {"walking", "answered"}
<1>1. code \in Codes /\ code # 415
  BY DEF Codes
<1>2. CASE options.fallthrough
  BY <1>2, PassedIs, PassedHolds DEF Declines
<1>3. CASE ~options.fallthrough
  BY <1>1, AnsweredHolds, AnsweredIs, <1>3 DEF Declines
<1> QED
  BY <1>2, <1>3

\* A request that walks has no descriptor.
LEMMA WalkersHaveNone ==
  ASSUME ServingIInv, NEW q \in Requests, rq[q].at \notin {"rechecking", "restating", "answering", "answered"}
  PROVE  opened[q] = NoFd /\ NoFd \in FdRecords /\ [opened EXCEPT ![q] = NoFd] = opened
BY HttpAssumption DEF ServingIInv, FdHolds, NoFd, FdRecords, Outside, ServingTypes

\* A step of a request that opens nothing.
LEMMA WalkKeeps ==
  ASSUME ServingIInv, NEW q \in Requests, rq[q].at \notin {"rechecking", "restating", "answering", "answered"},
         NEW e \in RequestRecords, rq' = [rq EXCEPT ![q] = e], opened' = opened, RestKept(q),
         RequestHolds(e)
  PROVE  ServingIInv'
BY WalkersHaveNone, OneRequestMoves DEF FdHolds

\* The steps of a request.
LEMMA ArriveKeeps == ASSUME ServingIInv, NEW q \in Requests, Arrive(q) PROVE ServingIInv'
<1>1. PICK m \in {"GET", "HEAD", "POST"}, p \in {"asset", "root", "odd", "api"}, j \in BOOLEAN, t \in 0..MaxVersions :
        rq' = [rq EXCEPT ![q] = [Unsent EXCEPT !.at = "walking", !.method = m, !.path = p, !.json = j, !.tag = t]]
  BY ZenonT(60) DEF Arrive
<1> DEFINE u == Unsent
           e == [u EXCEPT !.at = "walking", !.method = m, !.path = p, !.json = j, !.tag = t]
<1>2. /\ u \in RequestRecords /\ u.seen = {} /\ u.route = 1 /\ u.handler = 1 /\ u.status = Undefined /\ u.body = "unread"
  BY HttpAssumption DEF Unsent, RequestRecords, Codes, Undefined, Outside
<1>3. rq' = [rq EXCEPT ![q] = e]
  BY <1>1
<1> HIDE DEF u
<1>4. /\ e \in RequestRecords /\ e.seen = {} /\ e.route = 1 /\ e.handler = 1 /\ e.status = Undefined
      /\ e.body = "unread" /\ e.at = "walking"
  BY <1>2 DEF RequestRecords
<1> HIDE DEF e
<1>5. TableHolds /\ Final \in 1..4
  BY DEF ServingIInv, ServingTypes, TableHolds
<1>6. InTable(e)
  BY <1>4, <1>5, RouteIs DEF InTable
<1>7. MiddlewareSeen(e) /\ GuardSeen(e) /\ Looking(e)
  BY <1>4, <1>5 DEF MiddlewareSeen, GuardSeen, Looking, BeforeAll, StaticLooks, Undefined
<1>8. AuthSeen(e)
  BY <1>4, <1>5 DEF AuthSeen, BeforeAll, TableHolds
<1>9. RequestHolds(e)
  BY <1>6, <1>7, <1>8 DEF RequestHolds
<1>10. rq[q].at = "unsent" /\ opened' = opened /\ RestKept(q)
  BY DEF Arrive
<1> QED
  BY <1>3, <1>4, <1>9, <1>10, WalkKeeps

\* A route that does not match sends the request to the next one.
LEMMA SkipKeeps == ASSUME ServingIInv, NEW q \in Requests, Skip(q) PROVE ServingIInv'
<1> DEFINE r == rq[q]
           next == [r EXCEPT !.route = r.route + 1, !.handler = 1]
           over == Answered(q, Undefined)
<1>1. r \in RequestRecords /\ RequestHolds(r) /\ TableHolds /\ Final \in 1..4 /\ r.route \in Nat \ {0}
  BY DEF ServingIInv, ServingTypes, RequestRecords, TableHolds
<1>2. /\ r.at = "walking" /\ opened' = opened /\ RestKept(q)
      /\ rq' = [rq EXCEPT ![q] = IF r.route > Final THEN over ELSE next]
      /\ r.route <= Final => ~Matches(q, table[r.route])
  <2>1. rq' = [rq EXCEPT ![q] = IF r.route > Final THEN over ELSE [r EXCEPT !.route = @ + 1, !.handler = 1]]
    BY DEF Skip, Final
  <2>2. [r EXCEPT !.route = @ + 1, !.handler = 1] = next
    OBVIOUS
  <2>3. r.at = "walking" /\ opened' = opened /\ RestKept(q) /\ (r.route <= Final => ~Matches(q, table[r.route]))
    BY DEF Skip, Final
  <2> HIDE DEF next, over
  <2> QED
    BY <2>1, <2>2, <2>3
<1>3. /\ next \in RequestRecords /\ next.at = "walking" /\ next.route = r.route + 1 /\ next.handler = 1
      /\ next.seen = r.seen /\ next.status = r.status /\ next.body = r.body /\ next.path = r.path
  <2> DEFINE k == r.route + 1
             x == r
             n == [x EXCEPT !.route = k, !.handler = 1]
  <2>1. x \in RequestRecords /\ k \in Nat \ {0} /\ x.at = "walking" /\ 1 \in 1..3
    BY <1>1, <1>2
  <2>2. next = n
    OBVIOUS
  <2> HIDE DEF k, x, next
  <2>3. n \in RequestRecords
    BY <2>1 DEF RequestRecords
  <2>4. /\ n.at = "walking" /\ n.route = k /\ n.handler = 1
        /\ n.seen = x.seen /\ n.status = x.status /\ n.body = x.body /\ n.path = x.path
    BY <2>1 DEF RequestRecords
  <2> HIDE DEF n
  <2> QED
    BY <2>2, <2>3, <2>4 DEF k, x
<1> HIDE DEF next, over
<1>4. CASE r.route > Final
  <2>1. /\ over \in RequestRecords /\ over.at = "answered" /\ over.status = Undefined /\ over.path = r.path /\ over.body = r.body
        /\ over.seen = r.seen /\ over.route = r.route /\ over.handler = r.handler /\ InTable(over)
    BY AnsweredIs DEF Codes, over
  <2>2. MiddlewareSeen(over) /\ AuthSeen(over) /\ GuardSeen(over) /\ Looking(over)
    BY <1>1, <2>1 DEF RequestHolds, MiddlewareSeen, AuthSeen, GuardSeen, Looking, BeforeAll, StaticLooks, Undefined
  <2>3. RequestHolds(over)
    BY <2>1, <2>2 DEF RequestHolds
  <2>4. rq' = [rq EXCEPT ![q] = over]
    BY <1>2, <1>4
  <2> QED
    BY <1>2, <2>1, <2>3, <2>4, WalkKeeps
<1>5. CASE r.route <= Final
  <2>1. ~Matches(q, table[r.route])
    BY <1>2, <1>5
  <2>2. /\ r.route < Final => table[r.route] \in {Middle, Mount, Authed}
        /\ r.route = Final => table[r.route] = Route(options)
        /\ options.middleware /\ r.route = 1 => r.route < Final /\ table[r.route] = Middle
        /\ AuthAdded /\ r.route = Final - 1 => table[r.route] = Authed
    BY <1>5, WhereItStands
  <2>3. Matches(q, Middle) /\ Matches(q, Authed)
    BY <1>1 DEF Matches, Middle, Authed, Wildcard, RequestRecords
  <2>4. MiddlewareSeen(next)
    BY <1>1, <1>3, <2>1, <2>2, <2>3 DEF RequestHolds, MiddlewareSeen
  <2>5. AuthSeen(next)
    BY <1>1, <1>3, <2>1, <2>2, <2>3 DEF RequestHolds, AuthSeen, BeforeAll
  <2>6. GuardSeen(next) /\ Looking(next)
    BY <1>1, <1>3 DEF RequestHolds, GuardSeen, Looking, StaticLooks
  <2>7. InTable(next)
    BY <1>1, <1>3, <1>5, RouteIs DEF InTable
  <2>8. RequestHolds(next)
    BY <2>4, <2>5, <2>6, <2>7 DEF RequestHolds
  <2>9. rq' = [rq EXCEPT ![q] = next]
    <3>1. ~(r.route > Final)
      BY <1>1, <1>5
    <3>2. rq' = [rq EXCEPT ![q] = IF r.route > Final THEN over ELSE next]
      BY <1>2
    <3> QED
      BY <3>1, <3>2
  <2> QED
    BY <1>2, <1>3, <2>8, <2>9, WalkKeeps
<1> QED
  BY <1>1, <1>4, <1>5

\* The guard of a route is passed or answers.
LEMMA CheckKeepsServing == ASSUME ServingIInv, NEW q \in Requests, Check(q) PROVE ServingIInv'
<1>1. PICK name \in {"middleware", "auth", "guard"} :
        /\ At(q, name) /\ opened' = opened /\ RestKept(q)
        /\ rq' = [rq EXCEPT ![q] = Passed(q, name)] \/ rq' = [rq EXCEPT ![q] = Answered(q, 401)]
  BY DEF Check
<1>2. OnHandler(q, name) /\ rq[q].at = "walking" /\ 401 \in Codes
  BY <1>1 DEF OnHandler, At, Codes
<1>3. Passed(q, name) \in RequestRecords /\ RequestHolds(Passed(q, name)) /\ Passed(q, name).at = "walking"
  BY <1>2, PassedIs, PassedHolds
<1>4. /\ Answered(q, 401) \in RequestRecords /\ RequestHolds(Answered(q, 401)) /\ Answered(q, 401).at = "answered"
  BY <1>2, AnsweredIs, AnsweredHolds
<1> QED
  BY <1>1, <1>2, <1>3, <1>4, WalkKeeps

\* A body that cannot be parsed answers before the handler runs.
LEMMA ParseKeeps == ASSUME ServingIInv, NEW q \in Requests, Parse(q) PROVE ServingIInv'
<1> DEFINE p == Passed(q, "parse")
           e == [p EXCEPT !.body = "read"]
<1>1. /\ OnHandler(q, "parse") /\ rq[q].at = "walking" /\ opened' = opened /\ RestKept(q)
      /\ rq' = [rq EXCEPT ![q] = e]
  BY DEF Parse, OnHandler, At
<1>2. p \in RequestRecords /\ RequestHolds(p) /\ p.at = "walking" /\ p.seen = rq[q].seen \cup {"parse"}
  BY <1>1, PassedIs, PassedHolds
<1>3. options.use => "guard" \in p.seen
  BY <1>1, <1>2, NameTells
<1> HIDE DEF p
<1>4. /\ e \in RequestRecords /\ e.at = "walking" /\ e.seen = p.seen /\ e.route = p.route /\ e.handler = p.handler
      /\ e.status = p.status /\ e.path = p.path
  BY <1>2 DEF RequestRecords
<1> HIDE DEF e
<1>5. RequestHolds(e)
  BY <1>2, <1>3, <1>4 DEF RequestHolds, InTable, MiddlewareSeen, AuthSeen, GuardSeen, Looking, BeforeAll, StaticLooks
<1> QED
  BY <1>1, <1>4, <1>5, WalkKeeps

\* The handler answers once all guards have been passed.
LEMMA HandleKeeps == ASSUME ServingIInv, NEW q \in Requests, Handle(q) PROVE ServingIInv'
BY AnsweredIs, AnsweredHolds, WalkKeeps DEF Handle, OnHandler, At, Codes

\* The static handler.
LEMMA StaticKeeps == ASSUME ServingIInv, NEW q \in Requests, Static(q) PROVE ServingIInv'
<1> DEFINE r == rq[q]
           look == [r EXCEPT !.at = "looking"]
<1>1. At(q, "static") /\ OnHandler(q, "static") /\ r.at = "walking" /\ opened' = opened /\ RestKept(q)
  BY DEF Static, OnHandler, At
<1>2. r \in RequestRecords /\ RequestHolds(r) /\ TableHolds
  BY DEF ServingIInv, ServingTypes
<1>3. /\ r.route \in 1..Final /\ r.route < Final /\ r.path # "api"
      /\ options.middleware => "middleware" \in r.seen
      /\ table[r.route].handlers = <<"static">>
  BY <1>1, NameTells, <1>2 DEF TableHolds
<1>4. table[r.route] = Mount
  BY <1>2, <1>3 DEF TableHolds, Middle, Authed, Wildcard
<1>5. ASSUME NEW code \in {400, 403, 404, 405}, rq' = [rq EXCEPT ![q] = Declines(q, code)]
      PROVE  ServingIInv'
  <2>1. Declines(q, code) \in RequestRecords /\ RequestHolds(Declines(q, code)) /\ Declines(q, code).at \in {"walking", "answered"}
    BY <1>1, DeclinesHolds
  <2> QED
    BY <1>1, <1>5, <2>1, WalkKeeps, ZenonT(60)
<1>6. ASSUME r.path = "asset", rq' = [rq EXCEPT ![q] = look]
      PROVE  ServingIInv'
  <2>1. look \in RequestRecords
    BY <1>2 DEF RequestRecords, StaticLooks
  <2>2. /\ look.at = "looking" /\ look.route = r.route /\ look.handler = r.handler
        /\ look.seen = r.seen /\ look.status = r.status /\ look.body = r.body /\ look.path = r.path
    BY <1>2 DEF RequestRecords
  <2> HIDE DEF look
  <2>3. InTable(look) /\ MiddlewareSeen(look) /\ GuardSeen(look)
    BY <1>2, <1>3, <2>2 DEF RequestHolds, InTable, MiddlewareSeen, GuardSeen
  <2>4. AuthSeen(look) /\ Looking(look)
    BY <1>3, <1>4, <1>6, <2>2 DEF AuthSeen, Looking
  <2>5. RequestHolds(look)
    BY <2>3, <2>4 DEF RequestHolds
  <2> QED
    BY <1>1, <1>6, <2>1, <2>2, <2>5, WalkKeeps
<1>7. ASSUME rq' = [rq EXCEPT ![q] = FromPackage(q)]
      PROVE  ServingIInv'
  <2> DEFINE code == IF r.tag = pack.hash THEN 304 ELSE 200
             a == Answered(q, code)
             e == [a EXCEPT !.file = pack.content]
  <2>1. code \in Codes /\ code # 415 /\ pack.content \in 0..Outside
    BY HttpAssumption DEF Codes, ServingIInv, ServingTypes, PackRecords, Outside
  <2>2. FromPackage(q) = e
    BY DEF FromPackage
  <2> HIDE DEF code
  <2>3. a \in RequestRecords /\ RequestHolds(a) /\ a.at = "answered"
    BY <2>1, AnsweredIs, <1>1, AnsweredHolds
  <2> HIDE DEF a
  <2>4. e \in RequestRecords
    BY <2>1, <2>3 DEF RequestRecords
  <2>5. /\ e.at = "answered" /\ e.route = a.route /\ e.handler = a.handler
        /\ e.seen = a.seen /\ e.status = a.status /\ e.body = a.body /\ e.path = a.path
    BY <2>3 DEF RequestRecords
  <2> HIDE DEF e
  <2>6. RequestHolds(e)
    BY <2>3, <2>5 DEF RequestHolds, InTable, MiddlewareSeen, AuthSeen, GuardSeen, Looking, BeforeAll, StaticLooks
  <2> QED
    BY <1>1, <1>7, <2>2, <2>4, <2>5, <2>6, WalkKeeps
<1>8. \/ \E code \in {400, 403, 404, 405} : rq' = [rq EXCEPT ![q] = Declines(q, code)]
      \/ r.path = "asset" /\ rq' = [rq EXCEPT ![q] = look]
      \/ rq' = [rq EXCEPT ![q] = FromPackage(q)]
  <2>1. r.method \in {"GET", "HEAD", "POST"} /\ r.path \in {"asset", "root", "odd"}
    BY <1>2, <1>3 DEF RequestRecords
  <2>2. CASE r.method = "POST"
    BY <2>2 DEF Static
  <2>3. CASE r.method # "POST" /\ r.path = "odd"
    BY <2>3 DEF Static
  <2>4. CASE r.method # "POST" /\ r.path = "root"
    BY <2>4 DEF Static
  <2>5. CASE r.method # "POST" /\ r.path = "asset" /\ UseLive
    BY <2>5 DEF Static
  <2>6. CASE r.method # "POST" /\ r.path = "asset" /\ ~UseLive
    BY <2>6, ZenonT(60) DEF Static
  <2> QED
    BY <2>1, <2>2, <2>3, <2>4, <2>5, <2>6
<1> QED
  BY <1>5, <1>6, <1>7, <1>8

\* What a request at the static handler, and what it becomes when it only looks on.
LEMMA LooksOn ==
  ASSUME ServingIInv, NEW q \in Requests, rq[q].at \in StaticLooks, NEW at \in StaticLooks
  PROVE  LET e == [rq[q] EXCEPT !.at = at] IN
         e \in RequestRecords /\ e.at = at /\ RequestHolds(e)
<1> DEFINE r == rq[q]
           e == [r EXCEPT !.at = at]
<1>1. r \in RequestRecords /\ RequestHolds(r) /\ TableHolds
  BY DEF ServingIInv, ServingTypes
<1>2. e \in RequestRecords
  BY <1>1 DEF RequestRecords
<1>3. /\ e.at = at /\ e.route = r.route /\ e.handler = r.handler
      /\ e.seen = r.seen /\ e.status = r.status /\ e.body = r.body /\ e.path = r.path
  BY <1>1 DEF RequestRecords
<1>4. options.middleware => "middleware" \in r.seen
  BY NameTells DEF OnHandler
<1>5. AuthAdded /\ r.path = "api" => "auth" \in r.seen
  BY NameTells DEF OnHandler
<1> HIDE DEF e
<1>6. RequestHolds(e)
  BY <1>1, <1>3, <1>4, <1>5 DEF RequestHolds, InTable, MiddlewareSeen, AuthSeen, GuardSeen, Looking
<1> QED
  BY <1>2, <1>3, <1>6 DEF e

\* The directory is looked at: a file, none, or one behind a link.
LEMMA LookKeeps == ASSUME ServingIInv, NEW q \in Requests, Look(q) PROVE ServingIInv'
<1> DEFINE r == rq[q]
           on == [r EXCEPT !.at = "resolving"]
           open == [r EXCEPT !.at = "opening"]
           e == [r EXCEPT !.at = "opening", !.since = diskSwaps]
           code == IF rq[q].at = "looking" THEN 403 ELSE 404
<1>1. rq[q].at \in {"looking", "resolving"} /\ opened' = opened /\ RestKept(q)
  BY DEF Look
<1>2. OnHandler(q, "static") /\ rq[q].at \in StaticLooks /\ {"resolving", "opening"} \subseteq StaticLooks
  BY <1>1 DEF OnHandler, StaticLooks
<1>3. \/ rq' = [rq EXCEPT ![q] = Declines(q, 404)]
      \/ rq' = [rq EXCEPT ![q] = Declines(q, code)]
      \/ rq' = [rq EXCEPT ![q] = on]
      \/ rq' = [rq EXCEPT ![q] = e]
  <2>1. rq' = [rq EXCEPT ![q] = IF ~FileThere THEN Declines(q, 404) ELSE IF disk.linked THEN Declines(q, code)
                                ELSE IF rq[q].at = "looking" THEN on ELSE e]
    BY DEF Look
  <2> HIDE DEF e, on, code
  <2> QED
    BY <2>1
<1>4. code \in {400, 403, 404, 405}
  OBVIOUS
<1> HIDE DEF code
<1>5. ASSUME NEW c \in {400, 403, 404, 405}, rq' = [rq EXCEPT ![q] = Declines(q, c)]
      PROVE  ServingIInv'
  <2>1. Declines(q, c) \in RequestRecords /\ RequestHolds(Declines(q, c)) /\ Declines(q, c).at \in {"walking", "answered"}
    BY <1>2, DeclinesHolds
  <2> QED
    BY <1>1, <1>5, <2>1, WalkKeeps, ZenonT(60)
<1>6. on \in RequestRecords /\ RequestHolds(on) /\ open \in RequestRecords /\ open.at = "opening" /\ RequestHolds(open)
  BY <1>2, LooksOn
<1>7. CASE rq' = [rq EXCEPT ![q] = on]
  <2> HIDE DEF on
  <2> QED
    BY <1>1, <1>6, <1>7, WalkKeeps
<1>8. CASE rq' = [rq EXCEPT ![q] = e]
  <2>1. r \in RequestRecords /\ diskSwaps \in Nat
    BY DEF ServingIInv, ServingTypes
  <2>2. /\ e \in RequestRecords /\ e.at = open.at /\ e.route = open.route /\ e.handler = open.handler
        /\ e.seen = open.seen /\ e.status = open.status /\ e.body = open.body /\ e.path = open.path
    BY <2>1 DEF RequestRecords, StaticLooks
  <2> HIDE DEF e, open
  <2>3. RequestHolds(e)
    BY <1>6, <2>2 DEF RequestHolds, InTable, MiddlewareSeen, AuthSeen, GuardSeen, Looking, BeforeAll, StaticLooks
  <2> QED
    BY <1>1, <1>8, <2>2, <2>3, WalkKeeps
<1> QED
  BY <1>3, <1>4, <1>5, <1>7, <1>8

\* The descriptor is the one of the file that is there at that moment.
LEMMA OpenAssetKeeps == ASSUME ServingIInv, NEW q \in Requests, OpenAsset(q) PROVE ServingIInv'
<1> DEFINE e == [rq[q] EXCEPT !.at = "rechecking"]
           o == [file |-> Seen, owner |-> "handler"]
<1>1. rq[q].at = "opening" /\ RestKept(q) /\ OnHandler(q, "static") /\ rq[q].at \in StaticLooks
  BY DEF OpenAsset, OnHandler, StaticLooks
<1>2. CASE FileThere
  <2>1. rq' = [rq EXCEPT ![q] = e] /\ opened' = [opened EXCEPT ![q] = o]
    BY <1>2 DEF OpenAsset
  <2>2. "rechecking" \in StaticLooks
    BY DEF StaticLooks
  <2>3. e \in RequestRecords /\ e.at = "rechecking" /\ RequestHolds(e)
    BY <1>1, <2>2, LooksOn
  <2>4. o \in FdRecords /\ o.owner = "handler"
    BY HttpAssumption DEF FdRecords, Seen, Outside, ServingIInv, ServingTypes, DiskRecords
  <2> HIDE DEF e, o
  <2>5. FdHolds(e, o)
    BY <2>3, <2>4 DEF FdHolds
  <2> QED
    BY <1>1, <2>1, <2>3, <2>4, <2>5, OneRequestMoves
<1>3. CASE ~FileThere
  BY <1>3, <1>1, DeclinesHolds, WalkKeeps DEF OpenAsset
<1> QED
  BY <1>2, <1>3

\* What was opened is looked at once more, by its name and then by its number.
LEMMA RecheckKeeps == ASSUME ServingIInv, NEW q \in Requests, Recheck(q) \/ Restat(q) PROVE ServingIInv'
<1> DEFINE at == IF rq[q].at = "rechecking" THEN "restating" ELSE "answering"
           e == [rq[q] EXCEPT !.at = at]
           o == opened[q]
<1>1. /\ rq[q].at \in {"rechecking", "restating"} /\ RestKept(q) /\ OnHandler(q, "static") /\ rq[q].at \in StaticLooks
      /\ at \in StaticLooks /\ at \in {"restating", "answering"}
  BY DEF Recheck, Restat, OnHandler, StaticLooks
<1>2. o \in FdRecords /\ FdHolds(rq[q], o) /\ opened \in [Requests -> FdRecords]
  BY DEF ServingIInv, ServingTypes
<1>0. \/ rq' = [rq EXCEPT ![q] = e] /\ opened' = opened
      \/ rq' = [rq EXCEPT ![q] = Declines(q, 404)] /\ opened' = [opened EXCEPT ![q] = NoFd]
  BY DEF Recheck, Restat
<1> HIDE DEF at
<1>3. CASE rq' = [rq EXCEPT ![q] = e] /\ opened' = opened
  <2>2. opened' = [opened EXCEPT ![q] = o]
    BY <1>2, <1>3
  <2>4. e \in RequestRecords /\ e.at = at /\ RequestHolds(e)
    BY <1>1, LooksOn
  <2> HIDE DEF e
  <2>6. FdHolds(e, o)
    BY <1>1, <1>2, <2>4 DEF FdHolds
  <2> HIDE DEF o
  <2> QED
    BY <1>1, <1>2, <1>3, <2>2, <2>4, <2>6, OneRequestMoves
<1>4. CASE rq' = [rq EXCEPT ![q] = Declines(q, 404)] /\ opened' = [opened EXCEPT ![q] = NoFd]
  <2>2. Declines(q, 404) \in RequestRecords /\ RequestHolds(Declines(q, 404)) /\ Declines(q, 404).at \in {"walking", "answered"}
    BY <1>1, DeclinesHolds
  <2>3. NoFd \in FdRecords /\ FdHolds(Declines(q, 404), NoFd)
    BY <2>2, HttpAssumption DEF FdRecords, NoFd, Outside, FdHolds
  <2> QED
    BY <1>1, <1>4, <2>2, <2>3, OneRequestMoves, ZenonT(60)
<1> QED
  BY <1>0, <1>3, <1>4

\* An answer with the file that was looked at again, with or without a stream.
FileAnswer(q, code, b) == [Answered(q, code) EXCEPT !.file = opened[q].file, !.body = b]
\* An answer from a file is of the file that was opened.
LEMMA FileAnswered ==
  ASSUME ServingIInv, NEW q \in Requests, rq[q].at = "answering", NEW code \in {200, 304}, NEW b \in {rq[q].body, "streaming"}
  PROVE  LET e == FileAnswer(q, code, b)
         IN e \in RequestRecords /\ RequestHolds(e) /\ e.at = "answered" /\ e.body = b
<1> DEFINE f == opened[q].file
           a == Answered(q, code)
           e == [a EXCEPT !.file = f, !.body = b]
<1>1. OnHandler(q, "static") /\ code \in Codes
  BY DEF OnHandler, StaticLooks, Codes
<1>2. f \in 0..Outside
  BY DEF ServingIInv, ServingTypes, FdRecords
<1>3. a \in RequestRecords /\ RequestHolds(a) /\ a.at = "answered" /\ a.body = rq[q].body /\ a.status = code
  BY <1>1, AnsweredIs, AnsweredHolds
<1> HIDE DEF f, a
<1>4. b \in {"unread", "read", "streaming", "streamed"}
  BY DEF ServingIInv, ServingTypes, RequestRecords
<1>5. e \in RequestRecords
  <2> DEFINE x == [a EXCEPT !.file = f]
  <2>1. x \in RequestRecords
    BY <1>2, <1>3 DEF RequestRecords
  <2>2. e = [x EXCEPT !.body = b]
    BY <1>3 DEF RequestRecords
  <2> HIDE DEF x, e
  <2> QED
    BY <1>4, <2>1, <2>2 DEF RequestRecords
<1>6. /\ e.at = "answered" /\ e.route = a.route /\ e.handler = a.handler
      /\ e.seen = a.seen /\ e.status = a.status /\ e.body = b /\ e.path = a.path
  BY <1>3 DEF RequestRecords
<1> HIDE DEF e
<1>7. b = a.body \/ b # "read"
  BY <1>3
<1>8. RequestHolds(e)
  BY <1>3, <1>6, <1>7 DEF RequestHolds, InTable, MiddlewareSeen, AuthSeen, GuardSeen, Looking, BeforeAll, StaticLooks
<1> QED
  BY <1>5, <1>6, <1>8 DEF FileAnswer, e, f, a

\* The reply closes the descriptor or hands it to the stream.
LEMMA ReplyKeeps == ASSUME ServingIInv, NEW q \in Requests, Reply(q) PROVE ServingIInv'
<1> DEFINE f == opened[q].file
           Bodiless(code) == [Answered(q, code) EXCEPT !.file = f]
           streamed == [Answered(q, 200) EXCEPT !.file = f, !.body = "streaming"]
           raised == IF options.catch THEN 500 ELSE Undefined
           o == [opened[q] EXCEPT !.owner = "stream"]
<1>1. rq[q].at = "answering" /\ RestKept(q) /\ OnHandler(q, "static") /\ rq[q].at \in StaticLooks
  BY DEF Reply, OnHandler, StaticLooks
<1>2. NoFd \in FdRecords /\ \A r : FdHolds(r, NoFd)
  BY HttpAssumption DEF FdRecords, NoFd, Outside, FdHolds
<1>3. ASSUME NEW code \in {200, 304}, rq' = [rq EXCEPT ![q] = Bodiless(code)], opened' = [opened EXCEPT ![q] = NoFd]
      PROVE  ServingIInv'
  <2> DEFINE a == Answered(q, code)
             e == FileAnswer(q, code, rq[q].body)
  <2>1. e \in RequestRecords /\ RequestHolds(e) /\ e.at = "answered"
    BY <1>1, <1>3, FileAnswered
  <2>2. Bodiless(code) = e
    <3>1. a \in RequestRecords /\ a.body = rq[q].body
      BY AnsweredIs DEF Codes
    <3>0. e = [a EXCEPT !.file = f, !.body = rq[q].body] /\ Bodiless(code) = [a EXCEPT !.file = f]
      BY DEF FileAnswer
    <3> HIDE DEF a, f, e, Bodiless
    <3>2. [a EXCEPT !.file = f] = [a EXCEPT !.file = f, !.body = a.body]
      BY <3>1 DEF RequestRecords
    <3> QED
      BY <3>0, <3>1, <3>2
  <2> HIDE DEF e, Bodiless
  <2> QED
    BY <1>1, <1>2, <1>3, <2>1, <2>2, OneRequestMoves
<1>4. ASSUME rq' = [rq EXCEPT ![q] = streamed], opened' = [opened EXCEPT ![q].owner = "stream"]
      PROVE  ServingIInv'
  <2>1. streamed \in RequestRecords /\ RequestHolds(streamed) /\ streamed.at = "answered" /\ streamed.body = "streaming"
    <3>1. streamed = FileAnswer(q, 200, "streaming") /\ "streaming" \in {rq[q].body, "streaming"}
      BY DEF FileAnswer
    <3> HIDE DEF streamed
    <3> QED
      BY <1>1, <3>1, FileAnswered
  <2>2. o \in FdRecords /\ o.owner = "stream"
    BY DEF ServingIInv, ServingTypes, FdRecords
  <2>3. opened' = [opened EXCEPT ![q] = o]
    BY <1>4
  <2> HIDE DEF streamed, o
  <2>4. FdHolds(streamed, o)
    BY <2>1, <2>2 DEF FdHolds
  <2> QED
    BY <1>1, <1>4, <2>1, <2>2, <2>3, <2>4, OneRequestMoves
<1>5. ASSUME rq' = [rq EXCEPT ![q] = Answered(q, raised)], opened' = [opened EXCEPT ![q] = NoFd]
      PROVE  ServingIInv'
  <2>1. raised \in Codes /\ raised # 415
    BY DEF Codes, Undefined
  <2> HIDE DEF raised
  <2>2. Answered(q, raised) \in RequestRecords
    BY <2>1, AnsweredIs
  <2>3. RequestHolds(Answered(q, raised)) /\ Answered(q, raised).at = "answered"
    BY <1>1, <2>1, AnsweredHolds
  <2> QED
    BY <1>1, <1>2, <1>5, <2>2, <2>3, OneRequestMoves
<1>6. \/ \E code \in {200, 304} : rq' = [rq EXCEPT ![q] = Bodiless(code)] /\ opened' = [opened EXCEPT ![q] = NoFd]
      \/ rq' = [rq EXCEPT ![q] = streamed] /\ opened' = [opened EXCEPT ![q].owner = "stream"]
      \/ rq' = [rq EXCEPT ![q] = Answered(q, raised)] /\ opened' = [opened EXCEPT ![q] = NoFd]
  BY DEF Reply, ClosedWithoutBody
<1> QED
  BY <1>3, <1>4, <1>5, <1>6

\* The stream closes what it was handed.
LEMMA DrainKeeps == ASSUME ServingIInv, NEW q \in Requests, Drain(q) PROVE ServingIInv'
<1> DEFINE r == rq[q]
           e == [r EXCEPT !.body = "streamed"]
<1>1. r \in RequestRecords /\ RequestHolds(r) /\ FdHolds(r, opened[q])
  BY DEF ServingIInv, ServingTypes
<1>2. rq' = [rq EXCEPT ![q] = e] /\ opened' = [opened EXCEPT ![q] = NoFd] /\ RestKept(q) /\ opened[q].owner = "stream"
  BY DEF Drain
<1>3. opened[q] # NoFd /\ r.at = "answered"
  BY <1>1, <1>2 DEF FdHolds, NoFd
<1>4. e \in RequestRecords
  BY <1>1 DEF RequestRecords
<1>5. /\ e.at = "answered" /\ e.route = r.route /\ e.handler = r.handler
      /\ e.seen = r.seen /\ e.status = r.status /\ e.body = "streamed" /\ e.path = r.path
  BY <1>1, <1>3 DEF RequestRecords
<1> HIDE DEF e
<1>6. RequestHolds(e)
  BY <1>1, <1>3, <1>5 DEF RequestHolds, InTable, MiddlewareSeen, AuthSeen, GuardSeen, Looking, BeforeAll, StaticLooks
<1>7. NoFd \in FdRecords /\ FdHolds(e, NoFd)
  BY <1>5, HttpAssumption DEF FdRecords, NoFd, Outside, FdHolds
<1> QED
  BY <1>2, <1>4, <1>6, <1>7, OneRequestMoves

\* Deployments, packaging, and steps that leave the requests alone.
LEMMA OutsideKeeps ==
  ASSUME ServingIInv, UNCHANGED <<options, table, rq, opened>>, disk' \in DiskRecords, pack' \in PackRecords, diskSwaps' \in Nat
  PROVE  ServingIInv'
<1>1. TableHolds' /\ Final' = Final /\ AuthAdded' = AuthAdded
  BY DEF ServingIInv, ServingTypes, TableHolds, Final, AuthAdded
<1>2. ServingTypes'
  BY <1>1 DEF ServingIInv, ServingTypes
<1>3. ASSUME NEW q \in Requests PROVE (RequestHolds(rq[q]) /\ FdHolds(rq[q], opened[q]))'
  BY <1>1 DEF ServingIInv, RequestHolds, InTable, MiddlewareSeen, AuthSeen, GuardSeen, Looking
<1> QED
  BY <1>2, <1>3 DEF ServingIInv

\* A deployment changes the directory and no descriptor.
LEMMA DeploymentKeeps == ASSUME ServingIInv, Deploy \/ Manifest \/ Package PROVE ServingIInv'
<1>1. disk \in DiskRecords /\ pack \in PackRecords /\ diskSwaps \in Nat
  BY DEF ServingIInv, ServingTypes
<1>2. CASE Deploy
  <2>1. \/ disk.written < MaxVersions /\ disk' = [disk EXCEPT !.version = disk.written + 1, !.written = disk.written + 1]
        \/ disk' = [disk EXCEPT !.version = 0]
        \/ disk' = [disk EXCEPT !.linked = ~disk.linked]
    BY <1>2 DEF Deploy
  <2>2. disk' \in DiskRecords
    <3>1. disk.written \in 1..MaxVersions /\ MaxVersions \in Nat /\ disk.linked \in BOOLEAN
      BY <1>1, HttpAssumption DEF DiskRecords
    <3>2. disk.written < MaxVersions => disk.written + 1 \in 1..MaxVersions /\ disk.written + 1 \in 0..MaxVersions
      <4> DEFINE n == disk.written
      <4>1. n \in 1..MaxVersions /\ MaxVersions \in Nat
        BY <3>1
      <4> HIDE DEF n
      <4>2. n < MaxVersions => n + 1 \in 1..MaxVersions /\ n + 1 \in 0..MaxVersions
        BY <4>1
      <4> QED
        BY <4>2 DEF n
    <3>3. 0 \in 0..MaxVersions
      BY HttpAssumption
    <3>6. (~disk.linked) \in BOOLEAN
      OBVIOUS
    <3> DEFINE d == disk
               v == disk.written + 1
               l == ~disk.linked
    <3>4. d \in DiskRecords /\ (d.written < MaxVersions => v \in 1..MaxVersions /\ v \in 0..MaxVersions) /\ l \in BOOLEAN
      BY <1>1, <3>2, <3>6
    <3>5. \/ d.written < MaxVersions /\ disk' = [d EXCEPT !.version = v, !.written = v]
          \/ disk' = [d EXCEPT !.version = 0]
          \/ disk' = [d EXCEPT !.linked = l]
      BY <2>1
    <3> HIDE DEF d, v, l
    <3> QED
      BY <3>3, <3>4, <3>5 DEF DiskRecords
  <2>3. diskSwaps' \in Nat
    BY <1>1, <1>2 DEF Deploy
  <2> QED
    BY <1>1, <1>2, <2>2, <2>3, OutsideKeeps DEF Deploy
<1>3. CASE Manifest
  BY <1>1, <1>3, HttpAssumption, OutsideKeeps DEF Manifest, PackRecords, DiskRecords
<1>4. CASE Package
  BY <1>1, <1>4, OutsideKeeps DEF Package, PackRecords, DiskRecords
<1> QED
  BY <1>2, <1>3, <1>4

\* The table is built before any request is sent.
LEMMA ServingStarts == ASSUME HttpInit PROVE ServingIInv
<1>1. TableHolds /\ options \in Options
  BY TableIs DEF HttpInit
<1>2. Unsent \in RequestRecords /\ NoFd \in FdRecords /\ disk \in DiskRecords /\ pack \in PackRecords /\ diskSwaps \in Nat
  BY HttpAssumption DEF HttpInit, Unsent, RequestRecords, Codes, Undefined, NoFd, FdRecords, Outside, DiskRecords, PackRecords, NoPackage
<1>3. rq \in [Requests -> RequestRecords] /\ opened \in [Requests -> FdRecords]
  BY <1>2 DEF HttpInit
<1>4. ServingTypes
  BY <1>1, <1>2, <1>3 DEF ServingTypes
<1>5. ASSUME NEW q \in Requests PROVE RequestHolds(rq[q]) /\ FdHolds(rq[q], opened[q])
  <2>1. rq[q] = Unsent /\ opened[q] = NoFd
    BY DEF HttpInit
  <2>2. Final \in 1..4 /\ (options.middleware => Final > 1) /\ (AuthAdded => Final > 1)
    BY <1>1 DEF TableHolds
  <2>3. /\ Unsent.route = 1 /\ Unsent.handler = 1 /\ Unsent.at = "unsent" /\ Unsent.status = Undefined
        /\ Unsent.body = "unread" /\ Undefined = 0
    BY DEF Unsent, Undefined
  <2>4. InTable(Unsent)
    BY <2>2, <2>3, RouteIs DEF InTable
  <2>5. MiddlewareSeen(Unsent) /\ AuthSeen(Unsent) /\ GuardSeen(Unsent) /\ Looking(Unsent)
    BY <2>2, <2>3 DEF MiddlewareSeen, AuthSeen, GuardSeen, Looking, BeforeAll, StaticLooks
  <2>6. FdHolds(Unsent, NoFd)
    BY <2>3 DEF FdHolds
  <2> QED
    BY <2>1, <2>4, <2>5, <2>6 DEF RequestHolds
<1> QED
  BY <1>4, <1>5 DEF ServingIInv

\* Every step of a request and of a deployment keeps the invariant.
LEMMA ServingKept == ASSUME ServingIInv, ServingNext \/ UNCHANGED servingVars PROVE ServingIInv'
<1>1. CASE UNCHANGED servingVars
  BY <1>1, OutsideKeeps DEF servingVars, ServingIInv, ServingTypes
<1>2. CASE ServingNext
  <2>1. ASSUME NEW q \in Requests, Arrive(q) \/ Skip(q) \/ Check(q) \/ Parse(q) \/ Handle(q) PROVE ServingIInv'
    BY <2>1, ArriveKeeps, SkipKeeps, CheckKeepsServing, ParseKeeps, HandleKeeps
  <2>2. ASSUME NEW q \in Requests, Static(q) \/ Look(q) \/ OpenAsset(q) \/ Recheck(q) \/ Restat(q) \/ Reply(q) \/ Drain(q)
        PROVE  ServingIInv'
    BY <2>2, StaticKeeps, LookKeeps, OpenAssetKeeps, RecheckKeeps, ReplyKeeps, DrainKeeps
  <2> QED
    BY <1>2, <2>1, <2>2, DeploymentKeeps DEF ServingNext
<1> QED
  BY <1>1, <1>2

(***************************************************************************)
(* A link that comes and goes.  How often the directory was exchanged since *)
(* a request first looked tells what the request can have open.            *)
(***************************************************************************)
Chased(r, o) ==
  /\ r.since <= diskSwaps
  /\ r.at = "opening" /\ disk.linked => r.since + 1 <= diskSwaps
  /\ r.at = "rechecking" /\ o.file = Outside => r.since + 1 <= diskSwaps /\ (~disk.linked => r.since + 2 <= diskSwaps)
  /\ r.at = "restating" /\ o.file = Outside => r.since + 2 <= diskSwaps /\ (disk.linked => r.since + 3 <= diskSwaps)
  /\ r.at = "answering" /\ o.file = Outside => r.since + 3 <= diskSwaps
  /\ r.file = Outside => r.at = "answered" /\ r.since + 3 <= diskSwaps
ChaseIInv == \A q \in Requests : Chased(rq[q], opened[q])

\* A request that is neither opening a file nor has one to answer with.
Unhurried(r) == r.at \notin {"opening", "rechecking", "restating", "answering"}

\* One request moves to e, and has o open from then on.
Goes(q, e, o) ==
  /\ disk' = disk /\ diskSwaps' = diskSwaps /\ rq' = [rq EXCEPT ![q] = e]
  /\ opened' = [opened EXCEPT ![q] = o] \/ (opened' = opened /\ o = opened[q])

\* A step of one request keeps it if what it leaves does.
LEMMA ChaseGoesOn ==
  ASSUME ServingIInv, ChaseIInv, NEW q \in Requests, NEW e, NEW o, Goes(q, e, o), Chased(e, o)
  PROVE  ChaseIInv'
<1>1. \A p \in Requests : /\ rq'[p] = IF p = q THEN e ELSE rq[p]
                          /\ opened'[p] = IF p = q THEN o ELSE opened[p]
  BY DEF ServingIInv, ServingTypes, Goes
<1>2. disk' = disk /\ diskSwaps' = diskSwaps
  BY DEF Goes
<1> QED
  BY <1>1, <1>2 DEF ChaseIInv, Chased

\* A request that opens nothing needs no more than it had.
LEMMA UnhurriedGoOn ==
  ASSUME ServingIInv, ChaseIInv, NEW q \in Requests, NEW e, NEW o, Goes(q, e, o), rq[q].at # "answered",
         Unhurried(e), e.since \in {0, rq[q].since}, e.file \in 0..MaxVersions \/ e.file = rq[q].file
  PROVE  ChaseIInv'
<1>1. Chased(rq[q], opened[q]) /\ diskSwaps \in Nat
  BY DEF ChaseIInv, ServingIInv, ServingTypes
<1>2. Chased(e, o)
  BY <1>1, HttpAssumption DEF Chased, Unhurried, Outside
<1> QED
  BY <1>2, ChaseGoesOn

\* A handler that declines opens nothing.
LEMMA DecliningGoesOn ==
  ASSUME ServingIInv, ChaseIInv, NEW q \in Requests, OnHandler(q, "static"), NEW code \in {400, 403, 404, 405},
         NEW o, Goes(q, Declines(q, code), o)
  PROVE  ChaseIInv'
<1> DEFINE e == Declines(q, code)
<1>1. code \in Codes
  BY DEF Codes
<1>2. Unhurried(e) /\ e.since \in {0, rq[q].since} /\ e.file = rq[q].file
  <2>1. CASE options.fallthrough
    BY <2>1, PassedIs DEF Declines, Unhurried
  <2>2. CASE ~options.fallthrough
    BY <1>1, <2>2, AnsweredIs DEF Declines, Unhurried
  <2> QED
    BY <2>1, <2>2
<1>3. Goes(q, e, o) /\ rq[q].at # "answered"
  BY DEF OnHandler, At, StaticLooks
<1> HIDE DEF e
<1> QED
  BY <1>2, <1>3, UnhurriedGoOn

\* Requests that walk the table.
LEMMA WalkGoesOn ==
  ASSUME ServingIInv, ChaseIInv, NEW q \in Requests, Arrive(q) \/ Skip(q) \/ Check(q) \/ Parse(q) \/ Handle(q)
  PROVE  ChaseIInv'
<1>1. UNCHANGED <<disk, diskSwaps, opened>> /\ rq[q] \in RequestRecords /\ rq[q].at # "answered"
  BY DEF Arrive, Skip, Check, Parse, Handle, At, RestKept, ServingIInv, ServingTypes
<1>2. ASSUME NEW e, rq' = [rq EXCEPT ![q] = e], Unhurried(e), e.since \in {0, rq[q].since}, e.file \in 0..MaxVersions \/ e.file = rq[q].file
      PROVE  ChaseIInv'
  <2>1. Goes(q, e, opened[q])
    BY <1>1, <1>2 DEF Goes
  <2> QED
    BY <1>1, <1>2, <2>1, UnhurriedGoOn
<1>3. CASE Arrive(q)
  <2>1. PICK m \in {"GET", "HEAD", "POST"}, p \in {"asset", "root", "odd", "api"}, j \in BOOLEAN, t \in 0..MaxVersions :
          rq' = [rq EXCEPT ![q] = [Unsent EXCEPT !.at = "walking", !.method = m, !.path = p, !.json = j, !.tag = t]]
    BY <1>3, ZenonT(60) DEF Arrive
  <2> DEFINE e == [Unsent EXCEPT !.at = "walking", !.method = m, !.path = p, !.json = j, !.tag = t]
  <2>2. e.at = "walking" /\ e.since = 0 /\ e.file \in 0..MaxVersions
    BY HttpAssumption DEF Unsent
  <2>3. rq' = [rq EXCEPT ![q] = e]
    BY <2>1
  <2> HIDE DEF e
  <2> QED
    BY <1>2, <2>2, <2>3 DEF Unhurried
<1>4. CASE Skip(q)
  <2> DEFINE r == rq[q]
             next == [r EXCEPT !.route = @ + 1, !.handler = 1]
             over == Answered(q, Undefined)
  <2>1. r.at = "walking" /\ (rq' = [rq EXCEPT ![q] = over] \/ rq' = [rq EXCEPT ![q] = next])
    BY <1>4 DEF Skip
  <2>2. next.at = r.at /\ next.since = r.since /\ next.file = r.file
    BY <1>1 DEF RequestRecords
  <2>3. over.at = "answered" /\ over.since = r.since /\ over.file = r.file
    BY AnsweredIs DEF Codes
  <2> HIDE DEF next, over
  <2> QED
    BY <1>2, <2>1, <2>2, <2>3 DEF Unhurried
<1>5. CASE Check(q)
  <2>1. PICK name \in {"middleware", "auth", "guard"} :
          /\ At(q, name)
          /\ rq' = [rq EXCEPT ![q] = Passed(q, name)] \/ rq' = [rq EXCEPT ![q] = Answered(q, 401)]
    BY <1>5 DEF Check
  <2>2. OnHandler(q, name) /\ 401 \in Codes
    BY <2>1 DEF OnHandler, Codes
  <2>3. Unhurried(Passed(q, name)) /\ Passed(q, name).file = rq[q].file /\ Passed(q, name).since = rq[q].since
    BY <2>2, PassedIs DEF Unhurried
  <2>4. Unhurried(Answered(q, 401)) /\ Answered(q, 401).file = rq[q].file /\ Answered(q, 401).since = rq[q].since
    BY <2>2, AnsweredIs DEF Unhurried
  <2> QED
    BY <1>2, <2>1, <2>3, <2>4
<1>6. CASE Parse(q)
  <2> DEFINE p == Passed(q, "parse")
             e == [p EXCEPT !.body = "read"]
  <2>1. OnHandler(q, "parse") /\ rq' = [rq EXCEPT ![q] = e]
    BY <1>6 DEF Parse, OnHandler
  <2>2. p \in RequestRecords /\ p.at = "walking" /\ p.since = rq[q].since /\ p.file = rq[q].file
    BY <2>1, PassedIs
  <2> HIDE DEF p
  <2>3. e.at = p.at /\ e.since = p.since /\ e.file = p.file
    BY <2>2 DEF RequestRecords
  <2> HIDE DEF e
  <2> QED
    BY <1>2, <2>1, <2>2, <2>3 DEF Unhurried
<1>7. CASE Handle(q)
  <2>1. PICK code \in Codes : rq' = [rq EXCEPT ![q] = Answered(q, code)]
    BY <1>7 DEF Handle, Codes, Undefined
  <2> DEFINE e == Answered(q, code)
  <2>2. e.at = "answered" /\ e.since = rq[q].since /\ e.file = rq[q].file
    BY AnsweredIs
  <2>3. rq' = [rq EXCEPT ![q] = e]
    BY <2>1
  <2> HIDE DEF e
  <2> QED
    BY <1>2, <2>2, <2>3 DEF Unhurried
<1> QED
  BY <1>3, <1>4, <1>5, <1>6, <1>7

\* The static handler up to the open file: at the last look before it the name led to no link.
LEMMA OpeningGoesOn ==
  ASSUME ServingIInv, ChaseIInv, NEW q \in Requests, Static(q) \/ Look(q) \/ OpenAsset(q)
  PROVE  ChaseIInv'
<1> DEFINE r == rq[q]
<1>1. UNCHANGED <<disk, diskSwaps>> /\ r \in RequestRecords /\ diskSwaps \in Nat /\ Chased(r, opened[q]) /\ r.at # "answered"
  BY DEF At, Static, Look, OpenAsset, RestKept, ServingIInv, ServingTypes, ChaseIInv
<1>2. OnHandler(q, "static")
  BY DEF Static, Look, OpenAsset, OnHandler, StaticLooks
<1>3. ASSUME NEW code \in {400, 403, 404, 405}, rq' = [rq EXCEPT ![q] = Declines(q, code)], opened' = opened
      PROVE  ChaseIInv'
  <2> DEFINE e == Declines(q, code)
  <2>1. rq' = [rq EXCEPT ![q] = e]
    BY <1>3
  <2> HIDE DEF e
  <2>2. Goes(q, e, opened[q])
    BY <1>1, <1>3, <2>1 DEF Goes
  <2> QED
    BY <1>2, <2>2, DecliningGoesOn DEF e
<1>4. CASE Static(q)
  <2> DEFINE look == [r EXCEPT !.at = "looking"]
             code == IF r.tag = pack.hash THEN 304 ELSE 200
             a == Answered(q, code)
             e == [a EXCEPT !.file = pack.content]
  <2>1. opened' = opened /\ r.method \in {"GET", "HEAD", "POST"} /\ r.path \in {"asset", "root", "odd", "api"}
        /\ r.path # "api"
    BY <1>1, <1>2, <1>4, NameTells DEF Static, RequestRecords
  <2>2. \/ \E c \in {400, 403, 404, 405} : rq' = [rq EXCEPT ![q] = Declines(q, c)]
        \/ rq' = [rq EXCEPT ![q] = look]
        \/ rq' = [rq EXCEPT ![q] = e]
    <3>1. CASE r.method = "POST"
      BY <1>4, <3>1 DEF Static
    <3>2. CASE r.method # "POST" /\ r.path = "odd"
      BY <1>4, <3>2 DEF Static
    <3>3. CASE r.method # "POST" /\ r.path = "root"
      BY <1>4, <3>3 DEF Static
    <3>4. CASE r.method # "POST" /\ r.path = "asset" /\ UseLive
      BY <1>4, <3>4 DEF Static
    <3>5. CASE r.method # "POST" /\ r.path = "asset" /\ ~UseLive
      BY <1>4, <3>5, ZenonT(60) DEF Static, FromPackage
    <3> QED
      BY <2>1, <3>1, <3>2, <3>3, <3>4, <3>5
  <2>3. look.at = "looking" /\ look.since = r.since /\ look.file = r.file
    BY <1>1 DEF RequestRecords
  <2>4. code \in Codes /\ pack.content \in 0..MaxVersions
    BY DEF Codes, ServingIInv, ServingTypes, PackRecords
  <2> HIDE DEF code
  <2>5. a \in RequestRecords /\ a.at = "answered" /\ a.since = r.since
    BY <2>4, AnsweredIs
  <2> HIDE DEF a
  <2>6. e.at = "answered" /\ e.since = r.since /\ e.file = pack.content
    BY <2>5 DEF RequestRecords
  <2> HIDE DEF look, e
  <2>7. CASE rq' = [rq EXCEPT ![q] = look]
    <3>1. Goes(q, look, opened[q]) /\ Unhurried(look)
      BY <1>1, <2>1, <2>3, <2>7 DEF Goes, Unhurried
    <3> QED
      BY <1>1, <2>3, <3>1, UnhurriedGoOn
  <2>8. CASE rq' = [rq EXCEPT ![q] = e]
    <3>1. Goes(q, e, opened[q]) /\ Unhurried(e)
      BY <1>1, <2>1, <2>6, <2>8 DEF Goes, Unhurried
    <3> QED
      BY <1>1, <2>4, <2>6, <3>1, UnhurriedGoOn
  <2> QED
    BY <1>3, <2>1, <2>2, <2>7, <2>8
<1>5. CASE Look(q)
  <2> DEFINE on == [r EXCEPT !.at = "resolving"]
             e == [r EXCEPT !.at = "opening", !.since = diskSwaps]
             x == IF ~FileThere THEN Declines(q, 404)
                  ELSE IF disk.linked THEN Declines(q, IF r.at = "looking" THEN 403 ELSE 404)
                  ELSE IF r.at = "looking" THEN on ELSE e
  <2>0. opened' = opened /\ r.at \in {"looking", "resolving"} /\ rq' = [rq EXCEPT ![q] = x]
    BY <1>5 DEF Look
  <2> HIDE DEF on, e
  <2>a. x = Declines(q, 404) \/ x = Declines(q, 403) \/ x = on \/ (~disk.linked /\ r.at = "resolving" /\ x = e)
    BY <2>0
  <2> HIDE DEF x
  <2>1. /\ opened' = opened
        /\ \/ rq' = [rq EXCEPT ![q] = Declines(q, 404)]
           \/ rq' = [rq EXCEPT ![q] = Declines(q, 403)]
           \/ rq' = [rq EXCEPT ![q] = on]
           \/ ~disk.linked /\ r.at = "resolving" /\ rq' = [rq EXCEPT ![q] = e]
    BY <2>0, <2>a
  <2>2. on.at = "resolving" /\ on.since = r.since /\ on.file = r.file
    BY <1>1 DEF RequestRecords, on
  <2>3. e.at = "opening" /\ e.since = diskSwaps /\ e.file = r.file
    BY <1>1 DEF RequestRecords, e
  <2>4. CASE rq' = [rq EXCEPT ![q] = on]
    <3>1. Goes(q, on, opened[q]) /\ Unhurried(on)
      BY <1>1, <2>1, <2>2, <2>4 DEF Goes, Unhurried
    <3> QED
      BY <1>1, <2>2, <3>1, UnhurriedGoOn
  <2>5. CASE ~disk.linked /\ r.at = "resolving" /\ rq' = [rq EXCEPT ![q] = e]
    <3>1. Chased(e, opened[q])
      BY <1>1, <2>3, <2>5 DEF Chased
    <3>2. Goes(q, e, opened[q])
      BY <1>1, <2>1, <2>5 DEF Goes
    <3> QED
      BY <3>1, <3>2, ChaseGoesOn
  <2> QED
    BY <1>3, <2>1, <2>4, <2>5
<1>6. CASE OpenAsset(q)
  <2> DEFINE e == [r EXCEPT !.at = "rechecking"]
             o == [file |-> Seen, owner |-> "handler"]
  <2>1. /\ r.at = "opening"
        /\ \/ rq' = [rq EXCEPT ![q] = e] /\ opened' = [opened EXCEPT ![q] = o]
           \/ rq' = [rq EXCEPT ![q] = Declines(q, 404)] /\ opened' = opened
    BY <1>6 DEF OpenAsset
  <2>2. e.at = "rechecking" /\ e.since = r.since /\ e.file = r.file /\ (o.file = Outside => disk.linked)
    BY <1>1, HttpAssumption DEF RequestRecords, Seen, Outside, ServingIInv, ServingTypes, DiskRecords
  <2> HIDE DEF e, o
  <2>3. Chased(e, o)
    BY <1>1, <2>1, <2>2 DEF Chased
  <2>4. CASE rq' = [rq EXCEPT ![q] = e] /\ opened' = [opened EXCEPT ![q] = o]
    <3>1. Goes(q, e, o)
      BY <1>1, <2>4 DEF Goes
    <3> QED
      BY <2>3, <3>1, ChaseGoesOn
  <2> QED
    BY <1>3, <2>1, <2>4
<1> QED
  BY <1>4, <1>5, <1>6

\* The two looks at the open file: the first sees a link that is there, the second one that is not.
LEMMA LookingGoesOn ==
  ASSUME ServingIInv, ChaseIInv, NEW q \in Requests, Recheck(q) \/ Restat(q)
  PROVE  ChaseIInv'
<1> DEFINE r == rq[q]
           o == opened[q]
<1>1. UNCHANGED <<disk, diskSwaps>> /\ r \in RequestRecords /\ diskSwaps \in Nat /\ Chased(r, o)
  BY DEF Recheck, Restat, RestKept, ServingIInv, ServingTypes, ChaseIInv
<1>2. OnHandler(q, "static")
  BY DEF Recheck, Restat, OnHandler, StaticLooks
<1>3. CASE rq' = [rq EXCEPT ![q] = Declines(q, 404)] /\ opened' = [opened EXCEPT ![q] = NoFd]
  <2> DEFINE e == Declines(q, 404)
  <2>1. rq' = [rq EXCEPT ![q] = e]
    BY <1>3
  <2> HIDE DEF e
  <2>2. Goes(q, e, NoFd)
    BY <1>1, <1>3, <2>1 DEF Goes
  <2> QED
    BY <1>2, <2>2, DecliningGoesOn DEF e
<1>4. ASSUME NEW at \in {"restating", "answering"}, rq' = [rq EXCEPT ![q].at = at], opened' = opened,
             \/ at = "restating" /\ r.at = "rechecking" /\ ~disk.linked
             \/ at = "answering" /\ r.at = "restating" /\ o.file = Seen
      PROVE  ChaseIInv'
  <2> DEFINE e == [r EXCEPT !.at = at]
  <2>1. e.at = at /\ e.since = r.since /\ e.file = r.file /\ rq' = [rq EXCEPT ![q] = e]
    BY <1>1, <1>4 DEF RequestRecords
  <2>2. at = "answering" /\ o.file = Outside => disk.linked
    BY <1>4, HttpAssumption DEF Seen, Outside, ServingIInv, ServingTypes, DiskRecords
  <2> HIDE DEF e
  <2>3. Chased(e, o)
    BY <1>1, <1>4, <2>1, <2>2 DEF Chased
  <2>4. Goes(q, e, o)
    BY <1>1, <1>4, <2>1 DEF Goes
  <2> QED
    BY <2>3, <2>4, ChaseGoesOn
<1>5. CASE Recheck(q)
  BY <1>3, <1>4, <1>5 DEF Recheck
<1>6. CASE Restat(q)
  BY <1>3, <1>4, <1>6 DEF Restat, SameFile
<1> QED
  BY <1>5, <1>6

\* The answer is of the file that is open.
LEMMA ReplyGoesOn ==
  ASSUME ServingIInv, ChaseIInv, NEW q \in Requests, Reply(q) \/ Drain(q)
  PROVE  ChaseIInv'
<1> DEFINE r == rq[q]
           f == opened[q].file
           raised == IF options.catch THEN 500 ELSE Undefined
<1>1. UNCHANGED <<disk, diskSwaps>> /\ r \in RequestRecords /\ diskSwaps \in Nat /\ Chased(r, opened[q])
  BY DEF Reply, Drain, RestKept, ServingIInv, ServingTypes, ChaseIInv
<1>2. \E x : opened' = [opened EXCEPT ![q] = x]
  BY DEF Reply, Drain, ClosedWithoutBody
<1>3. ASSUME NEW e, rq' = [rq EXCEPT ![q] = e], e.at = "answered", e.since = r.since,
             e.file = r.file \/ (e.file = f /\ r.at = "answering")
      PROVE  ChaseIInv'
  <2>1. PICK x : opened' = [opened EXCEPT ![q] = x]
    BY <1>2
  <2>2. Chased(e, x)
    BY <1>1, <1>3 DEF Chased
  <2>3. Goes(q, e, x)
    BY <1>1, <1>3, <2>1 DEF Goes
  <2> QED
    BY <2>2, <2>3, ChaseGoesOn
<1>4. CASE Reply(q)
  <2>1. r.at = "answering"
        /\ \/ \E code \in {200, 304} : \/ rq' = [rq EXCEPT ![q] = [Answered(q, code) EXCEPT !.file = f]]
                                       \/ rq' = [rq EXCEPT ![q] = [Answered(q, code) EXCEPT !.file = f, !.body = "streaming"]]
           \/ rq' = [rq EXCEPT ![q] = Answered(q, raised)]
    BY <1>4 DEF Reply
  <2>2. ASSUME NEW code \in {200, 304},
               \/ rq' = [rq EXCEPT ![q] = [Answered(q, code) EXCEPT !.file = f]]
               \/ rq' = [rq EXCEPT ![q] = [Answered(q, code) EXCEPT !.file = f, !.body = "streaming"]]
        PROVE  ChaseIInv'
    <3> DEFINE a == Answered(q, code)
               plain == [a EXCEPT !.file = f]
               streamed == [a EXCEPT !.file = f, !.body = "streaming"]
    <3>0. code \in Codes
      BY DEF Codes
    <3>1. a \in RequestRecords /\ a.at = "answered" /\ a.since = r.since
      BY <3>0, AnsweredIs
    <3>2. rq' = [rq EXCEPT ![q] = plain] \/ rq' = [rq EXCEPT ![q] = streamed]
      BY <2>2
    <3> HIDE DEF a
    <3>3. /\ plain.at = "answered" /\ plain.since = r.since /\ plain.file = f
          /\ streamed.at = "answered" /\ streamed.since = r.since /\ streamed.file = f
      BY <3>1 DEF RequestRecords
    <3> HIDE DEF plain, streamed, f
    <3> QED
      BY <1>3, <2>1, <3>2, <3>3
  <2>3. CASE rq' = [rq EXCEPT ![q] = Answered(q, raised)]
    <3>1. raised \in Codes
      BY DEF Codes, Undefined
    <3> HIDE DEF raised
    <3>2. Answered(q, raised).at = "answered" /\ Answered(q, raised).since = r.since /\ Answered(q, raised).file = r.file
      BY <3>1, AnsweredIs
    <3> QED
      BY <1>3, <2>3, <3>2
  <2> QED
    BY <2>1, <2>2, <2>3
<1>5. CASE Drain(q)
  <2> DEFINE e == [r EXCEPT !.body = "streamed"]
  <2>1. rq' = [rq EXCEPT ![q] = e] /\ opened[q].owner = "stream"
    BY <1>5 DEF Drain
  <2>2. r.at = "answered"
    BY <2>1 DEF ServingIInv, FdHolds, NoFd
  <2>3. e.at = "answered" /\ e.since = r.since /\ e.file = r.file
    BY <1>1, <2>2 DEF RequestRecords
  <2> HIDE DEF e
  <2> QED
    BY <1>3, <2>1, <2>3
<1> QED
  BY <1>4, <1>5

\* The directory is exchanged, or changes otherwise.
LEMMA ExchangeGoesOn ==
  ASSUME ServingIInv, ChaseIInv, Deploy \/ Manifest \/ Package \/ UNCHANGED servingVars PROVE ChaseIInv'
<1>1. /\ UNCHANGED <<rq, opened>> /\ diskSwaps \in Nat /\ disk \in DiskRecords
      /\ \/ diskSwaps' = diskSwaps /\ disk'.linked = disk.linked
         \/ diskSwaps' = diskSwaps + 1 /\ disk'.linked = ~disk.linked
  BY DEF Deploy, Manifest, Package, servingVars, ServingIInv, ServingTypes, DiskRecords
<1>2. ASSUME NEW q \in Requests PROVE Chased(rq[q], opened[q])'
  <2>1. Chased(rq[q], opened[q]) /\ rq[q] \in RequestRecords
    BY DEF ChaseIInv, ServingIInv, ServingTypes
  <2>2. rq[q].since \in Nat
    BY <2>1 DEF RequestRecords
  <2> QED
    BY <1>1, <2>1, <2>2 DEF Chased
<1> QED
  BY <1>2 DEF ChaseIInv

\* Every step keeps it.
LEMMA ChaseKept == ASSUME ServingIInv, ChaseIInv, ServingNext \/ UNCHANGED servingVars PROVE ChaseIInv'
BY WalkGoesOn, OpeningGoesOn, LookingGoesOn, ReplyGoesOn, ExchangeGoesOn DEF ServingNext

\* No request has begun at first.
LEMMA ChaseStarts == ASSUME HttpInit PROVE ChaseIInv
BY HttpAssumption DEF HttpInit, ChaseIInv, Chased, Unsent, Outside

\* What the three properties of serving ask is part of the invariants.
LEMMA ServingHolds == ASSUME ServingIInv, ChaseIInv PROVE GuardsGoFirst /\ ServedFromTheRoot /\ DescriptorsOwned
<1> SUFFICES ASSUME NEW q \in Requests
             PROVE  /\ options.middleware /\ rq[q].status \in {200, 304, 415} => "middleware" \in rq[q].seen
                    /\ options.auth /\ options.registered /\ rq[q].path = "api" /\ rq[q].status \in {200, 415} => "auth" \in rq[q].seen
                    /\ options.use /\ rq[q].body = "read" => "guard" \in rq[q].seen
                    /\ options.use /\ rq[q].path = "api" /\ rq[q].status = 415 => "guard" \in rq[q].seen
                    /\ rq[q].file = Outside => diskSwaps - rq[q].since >= 3
                    /\ opened[q] # NoFd =>
                         \/ opened[q].owner = "handler" /\ rq[q].at \in {"rechecking", "restating", "answering"}
                         \/ opened[q].owner = "stream" /\ rq[q].at = "answered" /\ rq[q].body = "streaming"
  BY DEF GuardsGoFirst, ServedFromTheRoot, DescriptorsOwned
<1>1. rq[q] \in RequestRecords /\ RequestHolds(rq[q]) /\ FdHolds(rq[q], opened[q])
  BY DEF ServingIInv, ServingTypes
<1>2. MiddlewareSeen(rq[q]) /\ AuthSeen(rq[q]) /\ GuardSeen(rq[q])
  BY <1>1 DEF RequestHolds
<1>3. rq[q].file = Outside => diskSwaps - rq[q].since >= 3
  BY <1>1 DEF ServingIInv, ServingTypes, ChaseIInv, Chased, RequestRecords
<1>4. options.middleware /\ rq[q].status \in {200, 304, 415} => "middleware" \in rq[q].seen
  BY <1>2 DEF MiddlewareSeen, BeforeAll, Undefined
<1>5. options.auth /\ options.registered /\ rq[q].path = "api" /\ rq[q].status \in {200, 415} => "auth" \in rq[q].seen
  BY <1>2 DEF AuthSeen, AuthAdded, BeforeAll, Undefined
<1>6. options.use /\ (rq[q].body = "read" \/ rq[q].status = 415) => "guard" \in rq[q].seen
  BY <1>2 DEF GuardSeen
<1> QED
  BY <1>1, <1>3, <1>4, <1>5, <1>6 DEF FdHolds

(***************************************************************************)
(* HttpRouting: the document.                                              *)
(***************************************************************************)
DocumentMade ==
  [operations |-> {Operation(RewrittenPath(d.path)) : d \in Range(declared)},
   schemas |-> Resolved(UNION {d.refs : d \in Range(declared)})]
DocumentIInv == declared \in Seq(Declarations) /\ document \subseteq {DocumentMade}

\* The order in which endpoints are listed.
LEMMA FirstOfIs ==
  ASSUME declared \in Seq(Declarations), NEW i \in DOMAIN declared
  PROVE  FirstOf(i) \in 1..Len(declared)
<1> DEFINE n == Len(declared)
           T == {k \in 1..i : declared[k].of = declared[i].of}
<1>1. n \in Nat /\ DOMAIN declared = 1..n
  BY LenProperties
<1> HIDE DEF n
<1>2. i \in 1..n /\ i \in Nat
  BY <1>1
<1>3. T \in SUBSET Nat /\ i \in T
  BY <1>2
<1>4. PICK k \in T : \A j \in T : k <= j
  BY <1>3, LeastOf
<1>5. k \in 1..i /\ declared[k].of = declared[i].of /\ \A j \in 1..(k - 1) : declared[j].of # declared[i].of
  <2>1. k \in 1..i /\ declared[k].of = declared[i].of
    OBVIOUS
  <2>2. ASSUME NEW j \in 1..(k - 1), declared[j].of = declared[i].of PROVE FALSE
    BY <1>2, <2>1, <1>4, <2>2
  <2> QED
    BY <2>1, <2>2
<1>6. FirstOf(i) \in 1..i
  BY <1>5 DEF FirstOf
<1> QED
  BY <1>2, <1>6 DEF n

\* Every set of endpoints has a first and a last one, and the last one is the only one.
LEMMA ListedLast ==
  ASSUME declared \in Seq(Declarations), NEW S \in SUBSET DOMAIN declared, S # {}
  PROVE  LastListed(S) \in S /\ \A j \in S \ {LastListed(S)} : Precedes(j, LastListed(S))
<1> DEFINE n == Len(declared)
           F(i) == FirstOf(i)
           T == {F(i) : i \in S}
<1>1. n \in Nat /\ DOMAIN declared = 1..n
  BY LenProperties
<1>2. \A i \in S : F(i) \in 1..n /\ i \in 1..n
  BY <1>1, FirstOfIs
<1> HIDE DEF n
<1>3. T \in SUBSET (0..n) /\ T # {}
  BY <1>1, <1>2
<1>4. PICK m \in T : \A w \in T : w <= m
  BY <1>1, <1>3, GreatestOf
<1> DEFINE U == {i \in S : F(i) = m}
<1>5. U \in SUBSET (0..n) /\ U # {}
  BY <1>2, <1>4
<1>6. PICK x \in U : \A w \in U : w <= x
  BY <1>1, <1>5, GreatestOf
<1>7. ASSUME NEW j \in S \ {x} PROVE Precedes(j, x)
  <2>1. F(x) = m /\ F(j) \in T
    BY <1>6
  <2>2. F(j) <= m /\ F(j) \in 1..n /\ m \in 0..n /\ (F(j) = m => j \in U)
    BY <1>2, <1>3, <1>4, <2>1
  <2>3. F(j) = m => j <= x /\ j # x
    BY <1>6, <2>2
  <2>4. j \in 1..n /\ x \in 1..n
    BY <1>2
  <2> HIDE DEF F
  <2>5. F(j) < F(x) \/ (F(j) = F(x) /\ j < x)
    BY <1>1, <2>1, <2>2, <2>3, <2>4
  <2> QED
    BY <2>5 DEF F, Precedes
<1>8. \E i \in S : \A j \in S \ {i} : Precedes(j, i)
  BY <1>7
<1> QED
  BY <1>8 DEF LastListed

\* The first that is listed comes before every other.
LEMMA ListedFirst ==
  ASSUME declared \in Seq(Declarations), NEW S \in SUBSET DOMAIN declared, S # {}
  PROVE  FirstListed(S) \in S
<1> DEFINE n == Len(declared)
           F(i) == FirstOf(i)
           T == {F(i) : i \in S}
<1>1. n \in Nat /\ DOMAIN declared = 1..n
  BY LenProperties
<1>2. \A i \in S : F(i) \in 1..n /\ i \in 1..n
  BY <1>1, FirstOfIs
<1> HIDE DEF n
<1>3. T \in SUBSET Nat /\ T # {}
  BY <1>1, <1>2
<1>4. PICK m \in T : \A w \in T : m <= w
  BY <1>3, LeastOf
<1> DEFINE U == {i \in S : F(i) = m}
<1>5. U \in SUBSET Nat /\ U # {}
  BY <1>2, <1>4
<1>6. PICK x \in U : \A w \in U : x <= w
  BY <1>5, LeastOf
<1>7. ASSUME NEW j \in S \ {x} PROVE Precedes(x, j)
  <2>1. F(x) = m /\ F(j) \in T
    BY <1>6
  <2>2. m <= F(j) /\ F(j) \in 1..n /\ m \in Nat /\ (F(j) = m => j \in U)
    BY <1>2, <1>3, <1>4, <2>1
  <2>3. F(j) = m => x <= j /\ j # x
    BY <1>6, <2>2
  <2>4. j \in 1..n /\ x \in 1..n
    BY <1>2
  <2> HIDE DEF F
  <2>5. F(x) < F(j) \/ (F(x) = F(j) /\ x < j)
    BY <1>1, <2>1, <2>2, <2>3, <2>4
  <2> QED
    BY <2>5 DEF F, Precedes
<1>8. \E i \in S : \A j \in S \ {i} : Precedes(i, j)
  BY <1>7
<1> QED
  BY <1>8 DEF FirstListed

\* A set of one position is listed last by that position.
LEMMA OneIsLast ==
  ASSUME declared \in Seq(Declarations), NEW i \in DOMAIN declared, NEW j \in DOMAIN declared, Precedes(i, j)
  PROVE  ~Precedes(j, i)
<1> DEFINE n == Len(declared)
           a == FirstOf(i)
           b == FirstOf(j)
<1>1. n \in Nat /\ DOMAIN declared = 1..n
  BY LenProperties
<1>2. a \in 1..n /\ b \in 1..n /\ i \in 1..n /\ j \in 1..n
  BY <1>1, FirstOfIs
<1>3. a < b \/ (a = b /\ i < j)
  BY DEF Precedes
<1> HIDE DEF n, a, b
<1>4. ~(b < a \/ (b = a /\ j < i))
  BY <1>1, <1>2, <1>3
<1> QED
  BY <1>4 DEF Precedes, a, b

\* The operation of a path is that of an endpoint declared for it.
LEMMA OperationIs ==
  ASSUME declared \in Seq(Declarations), NEW d0 \in Range(declared)
  PROVE  LET o == Operation(RewrittenPath(d0.path)) IN
         /\ o.path = RewrittenPath(d0.path)
         /\ \E d \in Range(declared) :
               /\ o.of = d.of /\ RewrittenPath(d.path) = o.path /\ o.inPath = PathParameters(d.path)
               /\ d.lists => o.lists = {d.of}
<1> DEFINE path == RewrittenPath(d0.path)
           raws == {p \in RawPaths : RewrittenPath(p) = path /\ DeclaredAt(p) # {}}
           heads == {FirstListed(DeclaredAt(p)) : p \in raws}
           raw == declared[LastListed(heads)].path
           i == LastListed(DeclaredAt(raw))
           listingAt == {k \in DeclaredAt(raw) : declared[k].lists}
           o == Operation(path)
<1>1. PICK i0 \in DOMAIN declared : d0 = declared[i0]
  BY DEF Range
<1>2. \A k \in DOMAIN declared : declared[k] \in Declarations /\ declared[k] \in Range(declared)
  BY LenProperties, ElementOfSeq DEF Range
<1>3. \A p : DeclaredAt(p) \in SUBSET DOMAIN declared /\ \A k \in DeclaredAt(p) : declared[k].path = p
  BY DEF DeclaredAt
<1>4. d0.path \in raws
  BY <1>1, <1>2 DEF DeclaredAt, Declarations
<1>5. \A p \in raws : FirstListed(DeclaredAt(p)) \in DeclaredAt(p)
  BY <1>3, ListedFirst
<1>6. heads \in SUBSET DOMAIN declared /\ heads # {}
  BY <1>3, <1>4, <1>5
<1>7. LastListed(heads) \in heads
  BY <1>6, ListedLast
<1>8. PICK p \in raws : LastListed(heads) = FirstListed(DeclaredAt(p))
  BY <1>7
<1>9. raw = p
  BY <1>3, <1>5, <1>8
<1>10. raw \in raws /\ DeclaredAt(raw) # {} /\ RewrittenPath(raw) = path
  BY <1>9
<1>11. /\ o.path = path /\ o.of = declared[i].of /\ o.inPath = PathParameters(raw)
       /\ o.lists = IF listingAt = {} THEN {} ELSE {declared[LastListed(listingAt)].of}
  BY DEF Operation
<1> HIDE DEF o, raw, heads, raws, path
<1>12. i \in DeclaredAt(raw) /\ \A j \in DeclaredAt(raw) \ {i} : Precedes(j, i)
  BY <1>3, <1>10, ListedLast
<1>13. i \in DOMAIN declared /\ declared[i].path = raw /\ declared[i] \in Range(declared)
  BY <1>2, <1>3, <1>12
<1> HIDE DEF i
<1>14. ASSUME declared[i].lists PROVE o.lists = {declared[i].of}
  <2>1. i \in listingAt /\ listingAt \in SUBSET DOMAIN declared
    BY <1>3, <1>12, <1>14
  <2> DEFINE k == LastListed(listingAt)
  <2>2. k \in listingAt /\ \A j \in listingAt \ {k} : Precedes(j, k)
    BY <2>1, ListedLast
  <2> HIDE DEF k
  <2>3. k = i
    BY <2>1, <2>2, <1>12, <1>13, OneIsLast
  <2> QED
    BY <1>11, <2>1, <2>3 DEF k
<1> QED
  BY <1>10, <1>11, <1>13, <1>14 DEF o, path

\* What is resolved holds what it was asked for, and what that refers to.
LEMMA ResolvedIs ==
  ASSUME NEW names \in SUBSET Schemas
  PROVE  /\ names \intersect GivenSchemas \subseteq Resolved(names)
         /\ \A s \in Resolved(names) : RefersTo[s] \intersect GivenSchemas \subseteq Resolved(names)
<1>1. names \intersect GivenSchemas \subseteq Resolved(names)
  BY DEF Resolved
<1>2. ASSUME NEW s \in Resolved(names), NEW t \in RefersTo[s] \intersect GivenSchemas PROVE t \in Resolved(names)
  BY DEF Resolved
<1> QED
  BY <1>1, <1>2

\* What is declared while there is no document is all that the document is made of.
LEMMA DocumentKept == ASSUME DocumentIInv, DocumentNext \/ UNCHANGED documentVars PROVE DocumentIInv'
<1>1. CASE UNCHANGED documentVars
  <2>1. declared' = declared /\ document' = document
    BY <1>1 DEF documentVars
  <2>2. DocumentMade' = DocumentMade
    BY <2>1 DEF DocumentMade, Operation, DeclaredAt, LastListed, FirstListed, Precedes, FirstOf, Resolved
  <2> QED
    BY <2>1, <2>2 DEF DocumentIInv
<1>2. CASE Endpoint
  BY <1>2, AppendProperties DEF Endpoint, DocumentIInv
<1>3. CASE Generate
  <2>1. document' = {DocumentMade}
    BY <1>3 DEF Generate, DocumentMade
  <2>3. declared' = declared
    BY <1>3 DEF Generate
  <2>2. DocumentMade' = DocumentMade
    BY <2>3 DEF DocumentMade, Operation, DeclaredAt, LastListed, FirstListed, Precedes, FirstOf, Resolved
  <2> QED
    BY <2>1, <2>2, <2>3 DEF DocumentIInv
<1> QED
  BY <1>1, <1>2, <1>3 DEF DocumentNext

\* The document that Generate makes is complete.
LEMMA DocumentHolds == ASSUME DocumentIInv PROVE DocumentComplete
<1> SUFFICES ASSUME document = {DocumentMade} PROVE DocumentComplete
  BY DEF DocumentIInv, DocumentComplete
<1> DEFINE doc == DocumentMade
<1>0. declared \in Seq(Declarations)
  BY DEF DocumentIInv
<1>1. doc.operations = {Operation(RewrittenPath(d.path)) : d \in Range(declared)}
  BY DEF DocumentMade
<1>2. doc.schemas = Resolved(UNION {d.refs : d \in Range(declared)})
  BY DEF DocumentMade
<1>3. \A d \in Range(declared) : d \in Declarations
  BY <1>0, LenProperties, ElementOfSeq DEF Range
<1>4. \A d \in Range(declared) : Operation(RewrittenPath(d.path)).path = RewrittenPath(d.path)
  BY <1>0, OperationIs
<1>5. {o.path : o \in doc.operations} = {RewrittenPath(d.path) : d \in Range(declared)}
  BY <1>1, <1>4
<1>6. ASSUME NEW o \in doc.operations
      PROVE  \E d \in Range(declared) :
               /\ o.of = d.of /\ RewrittenPath(d.path) = o.path /\ o.inPath = PathParameters(d.path)
               /\ d.lists => o.lists = {d.of}
  <2>1. PICK d0 \in Range(declared) : o = Operation(RewrittenPath(d0.path))
    BY <1>1
  <2> QED
    BY <1>0, <2>1, OperationIs
<1> DEFINE names == UNION {d.refs : d \in Range(declared)}
<1>7. names \in SUBSET Schemas
  BY <1>3 DEF Declarations
<1> HIDE DEF names
<1>8. /\ names \intersect GivenSchemas \subseteq doc.schemas
      /\ \A s \in doc.schemas : RefersTo[s] \intersect GivenSchemas \subseteq doc.schemas
  BY <1>2, <1>7, ResolvedIs DEF names
<1>9. \A d \in Range(declared) : d.refs \intersect GivenSchemas \subseteq doc.schemas
  BY <1>8 DEF names
<1> QED
  BY <1>5, <1>6, <1>8, <1>9 DEF DocumentComplete

(***************************************************************************)
(* The theorem.                                                            *)
(***************************************************************************)
HttpIInv == ServingIInv /\ ChaseIInv /\ DocumentIInv

\* The first states of the routing satisfy both invariants.
LEMMA HttpStarts == ASSUME HttpInit PROVE HttpIInv
<1>1. DocumentIInv
  BY EmptySeq DEF HttpInit, DocumentIInv
<1> QED
  BY <1>1, ServingStarts, ChaseStarts DEF HttpIInv

\* Guards go first, what is served is of the directory unless it was exchanged three times
\* between the looks at it, every descriptor has an owner, and the document has everything that
\* was declared (typed-router.ts:64-67, static-assets.ts:36-77,
\* openapi-runtime.ts:145-167).
THEOREM RoutingHolds == HttpSpec => [](GuardsGoFirst /\ ServedFromTheRoot /\ DescriptorsOwned /\ DocumentComplete)
<1>1. HttpInit => HttpIInv
  BY HttpStarts
<1>2. HttpIInv /\ [HttpNext]_httpVars => HttpIInv'
  BY ServingKept, ChaseKept, DocumentKept DEF HttpIInv, HttpNext, httpVars, servingVars, documentVars
<1>3. HttpIInv => GuardsGoFirst /\ ServedFromTheRoot /\ DescriptorsOwned /\ DocumentComplete
  BY ServingHolds, DocumentHolds DEF HttpIInv
<1> QED
  BY <1>1, <1>2, <1>3, PTL DEF HttpSpec

-----------------------------------------------------------------------------
(***************************************************************************)
(* RpcEndpoints: the batch.                                                *)
(***************************************************************************)
RoundRecords ==
  [member : [BatchCalls -> {"waiting", "queued", "failed", "answered"}], tally : Nat, payload : SUBSET BatchCalls,
   out : SUBSET BatchCalls, sent : BOOLEAN, spoiled : BOOLEAN]
Decided(b) == {c \in BatchCalls : b.member[c] # "waiting"}
\* The batch counts the calls that are decided, and is out once all are.
RoundHolds(b) ==
  /\ b \in RoundRecords
  /\ ~b.spoiled /\ ~b.sent => b.tally = Cardinality(Decided(b)) /\ Decided(b) # BatchCalls
  /\ ~b.spoiled /\ b.sent => Decided(b) = BatchCalls /\ b.out = b.payload

\* What counting a call does.
LEMMA MarkReadyIs ==
  ASSUME NEW b \in RoundRecords, NEW e \in MarkReady(b)
  PROVE  /\ e \in RoundRecords /\ e.tally = b.tally + 1 /\ e.payload = b.payload /\ e.spoiled = b.spoiled
         /\ Decided(e) = Decided(b)
         /\ b.sent => e.sent /\ e.out = b.out
         /\ ~b.sent => (e.sent <=> b.tally + 1 = Cardinality(BatchCalls))
         /\ ~b.sent /\ e.sent => e.out = b.payload
<1> DEFINE counted == [b EXCEPT !.tally = b.tally + 1]
           out == [counted EXCEPT !.sent = TRUE, !.out = counted.payload]
           left == [c \in BatchCalls |-> IF c \in out.payload /\ out.member[c] = "queued" THEN "failed" ELSE out.member[c]]
           broken == [out EXCEPT !.member = left]
<1>1. MarkReady(b) = IF counted.sent \/ ~Due(counted) THEN {counted} ELSE {out, broken}
  BY DEF MarkReady
<1>2. /\ counted \in RoundRecords /\ counted.tally = b.tally + 1 /\ counted.payload = b.payload /\ counted.spoiled = b.spoiled
      /\ counted.member = b.member /\ counted.sent = b.sent /\ counted.out = b.out
  BY DEF RoundRecords
<1> HIDE DEF counted
<1>3. /\ out \in RoundRecords /\ out.tally = b.tally + 1 /\ out.payload = b.payload /\ out.spoiled = b.spoiled
      /\ out.member = b.member /\ out.sent = TRUE /\ out.out = b.payload
  BY <1>2 DEF RoundRecords
<1> HIDE DEF out
<1>4. left \in [BatchCalls -> {"waiting", "queued", "failed", "answered"}] /\ \A c \in BatchCalls : left[c] = "waiting" <=> b.member[c] = "waiting"
  BY <1>3 DEF RoundRecords
<1> HIDE DEF left
<1>5. /\ broken \in RoundRecords /\ broken.tally = b.tally + 1 /\ broken.payload = b.payload /\ broken.spoiled = b.spoiled
      /\ broken.member = left /\ broken.sent = TRUE /\ broken.out = b.payload
  BY <1>3, <1>4 DEF RoundRecords
<1> HIDE DEF broken
<1>6. (e = counted /\ (b.sent \/ b.tally + 1 # Cardinality(BatchCalls))) \/ (e \in {out, broken} /\ ~b.sent /\ b.tally + 1 = Cardinality(BatchCalls))
  BY <1>1, <1>2 DEF Due
<1>7. e \in RoundRecords /\ e.tally = b.tally + 1 /\ e.payload = b.payload /\ e.spoiled = b.spoiled
  BY <1>2, <1>3, <1>5, <1>6
<1>8. Decided(e) = Decided(b)
  BY <1>2, <1>3, <1>4, <1>5, <1>6 DEF Decided
<1>9. /\ b.sent => e.sent /\ e.out = b.out
      /\ ~b.sent => (e.sent <=> b.tally + 1 = Cardinality(BatchCalls))
      /\ ~b.sent /\ e.sent => e.out = b.payload
  BY <1>2, <1>3, <1>5, <1>6
<1> QED
  BY <1>7, <1>8, <1>9

\* A call that was waiting is decided and counted.
LEMMA OneMoreDecided ==
  ASSUME NEW b, RoundHolds(b), NEW c \in BatchCalls, b.member[c] = "waiting",
         NEW d \in RoundRecords, d.tally = b.tally, d.spoiled = b.spoiled, d.sent = b.sent,
         Decided(d) = Decided(b) \cup {c}, NEW e \in MarkReady(d)
  PROVE  RoundHolds(e)
<1>1. /\ e \in RoundRecords /\ e.tally = d.tally + 1 /\ e.payload = d.payload /\ e.spoiled = d.spoiled
      /\ Decided(e) = Decided(d)
      /\ d.sent => e.sent /\ e.out = d.out
      /\ ~d.sent => (e.sent <=> d.tally + 1 = Cardinality(BatchCalls))
      /\ ~d.sent /\ e.sent => e.out = d.payload
  BY MarkReadyIs
<1>2. c \notin Decided(b) /\ Decided(b) \subseteq BatchCalls /\ Decided(d) \subseteq BatchCalls
  BY DEF Decided
<1> SUFFICES ASSUME ~b.spoiled
             PROVE  /\ ~e.sent => e.tally = Cardinality(Decided(e)) /\ Decided(e) # BatchCalls
                    /\ e.sent => Decided(e) = BatchCalls /\ e.out = e.payload
  BY <1>1 DEF RoundHolds
<1>3. ~b.sent /\ b.tally = Cardinality(Decided(b))
  BY <1>2 DEF RoundHolds
<1>4. IsFiniteSet(Decided(b)) /\ IsFiniteSet(Decided(d)) /\ IsFiniteSet(BatchCalls)
  BY RpcEndpointsAssumption, <1>2, FS_Subset
<1>5. Cardinality(Decided(d)) = Cardinality(Decided(b)) + 1
  BY <1>2, <1>4, FS_AddElement
<1>6. e.tally = Cardinality(Decided(e)) /\ (e.sent <=> Cardinality(Decided(e)) = Cardinality(BatchCalls))
  BY <1>1, <1>3, <1>5
<1>7. Cardinality(Decided(d)) = Cardinality(BatchCalls) <=> Decided(d) = BatchCalls
  BY <1>2, <1>4, FS_Subset
<1> QED
  BY <1>1, <1>3, <1>6, <1>7

\* Whatever a call of the batch does, the tally counts those that are decided.
LEMMA BatchKept == ASSUME RoundHolds(round), BatchNext \/ UNCHANGED round PROVE RoundHolds(round')
<1>0. round \in RoundRecords
  BY DEF RoundHolds
<1>1. CASE UNCHANGED round
  BY <1>1
<1> DEFINE As(c, state) == Becomes(round, c, state)
<1>2. ASSUME NEW c \in BatchCalls, NEW state \in {"queued", "failed", "answered"}
      PROVE  /\ As(c, state) \in RoundRecords
             /\ As(c, state).tally = round.tally /\ As(c, state).payload = round.payload /\ As(c, state).out = round.out
             /\ As(c, state).sent = round.sent /\ As(c, state).spoiled = round.spoiled
             /\ Decided(As(c, state)) = Decided(round) \cup {c}
  <2> DEFINE f == [round.member EXCEPT ![c] = state]
             r == round
             d == [r EXCEPT !.member = f]
  <2>1. f \in [BatchCalls -> {"waiting", "queued", "failed", "answered"}] /\ f[c] # "waiting"
        /\ \A k \in BatchCalls \ {c} : f[k] = round.member[k]
    BY <1>0 DEF RoundRecords
  <2>2. As(c, state) = d
    BY DEF Becomes
  <2> HIDE DEF f, As
  <2>3. r \in RoundRecords
    BY <1>0
  <2> HIDE DEF r
  <2>4. /\ d \in RoundRecords /\ d.member = f /\ d.tally = r.tally /\ d.payload = r.payload /\ d.out = r.out
        /\ d.sent = r.sent /\ d.spoiled = r.spoiled
    BY <2>1, <2>3 DEF RoundRecords
  <2> HIDE DEF d
  <2>5. Decided(d) = Decided(round) \cup {c}
    BY <2>1, <2>4 DEF Decided
  <2> QED
    BY <2>2, <2>4, <2>5 DEF r
<1> HIDE DEF As
<1>3. ASSUME NEW c \in BatchCalls, Passes(c) PROVE RoundHolds(round')
  <2> DEFINE a == As(c, "queued")
             d == [a EXCEPT !.payload = a.payload \cup {c}]
  <2>1. round' \in MarkReady(d) /\ round.member[c] = "waiting"
    BY <1>3 DEF Passes, As
  <2>2. a \in RoundRecords /\ a.tally = round.tally /\ a.sent = round.sent /\ a.spoiled = round.spoiled
        /\ Decided(a) = Decided(round) \cup {c}
    BY <1>2
  <2> HIDE DEF a
  <2>3. d \in RoundRecords /\ d.tally = a.tally /\ d.sent = a.sent /\ d.spoiled = a.spoiled /\ d.member = a.member
    BY <2>2 DEF RoundRecords
  <2> HIDE DEF d
  <2>4. Decided(d) = Decided(a)
    BY <2>3 DEF Decided
  <2> QED
    BY <2>1, <2>2, <2>3, <2>4, OneMoreDecided
<1>4. ASSUME NEW c \in BatchCalls, InterceptorFails(c) PROVE RoundHolds(round')
  BY <1>4, <1>2, OneMoreDecided DEF InterceptorFails, As
<1>5. ASSUME NEW c \in BatchCalls, AnswersItself(c) PROVE RoundHolds(round')
  <2> DEFINE a == As(c, "answered")
  <2>1. round' = [a EXCEPT !.spoiled = TRUE]
    BY <1>5 DEF AnswersItself, As
  <2>2. a \in RoundRecords
    BY <1>2
  <2> HIDE DEF a
  <2>3. round' \in RoundRecords /\ round'.spoiled = TRUE
    BY <2>1, <2>2 DEF RoundRecords
  <2> QED
    BY <2>3 DEF RoundHolds
<1>6. ASSUME NEW c \in BatchCalls, EndsEarly(c) PROVE RoundHolds(round')
  <2> DEFINE a == As(c, "failed")
             s == a.spoiled \/ ~round.sent
             d == [a EXCEPT !.spoiled = s]
  <2>1. round' \in MarkReady(d) /\ round.member[c] = "queued"
    BY <1>6 DEF EndsEarly, As
  <2>2. a \in RoundRecords /\ a.payload = round.payload /\ a.out = round.out /\ a.sent = round.sent /\ a.spoiled = round.spoiled
        /\ Decided(a) = Decided(round) \cup {c}
    BY <1>2
  <2>3. s \in BOOLEAN
    OBVIOUS
  <2>4. s <=> a.spoiled \/ ~round.sent
    OBVIOUS
  <2> HIDE DEF a, s
  <2>5. d \in RoundRecords /\ d.payload = a.payload /\ d.out = a.out /\ d.sent = a.sent /\ d.spoiled = s /\ d.member = a.member
    BY <2>2, <2>3 DEF RoundRecords
  <2> HIDE DEF d
  <2>6. Decided(d) = Decided(round)
    BY <2>1, <2>2, <2>5 DEF Decided
  <2>7. /\ round' \in RoundRecords /\ round'.payload = d.payload /\ round'.spoiled = d.spoiled /\ Decided(round') = Decided(d)
        /\ d.sent => round'.sent /\ round'.out = d.out
    BY <2>1, <2>5, MarkReadyIs
  <2> QED
    BY <2>2, <2>4, <2>5, <2>6, <2>7 DEF RoundHolds
<1>7. ASSUME NEW c \in BatchCalls, Replied(c) PROVE RoundHolds(round')
  BY <1>7, <1>2 DEF Replied, As, Decided, RoundHolds
<1> QED
  BY <1>1, <1>3, <1>4, <1>5, <1>6, <1>7 DEF BatchNext

\* The tally reaches the size of the batch when, and only when, no call waits.
LEMMA BatchHolds == ASSUME RoundHolds(round) PROVE BatchGoesOutWhole
BY DEF RoundHolds, Decided, BatchGoesOutWhole, RoundRecords

\* A batch starts with all its calls waiting.
LEMMA NewRoundHolds == RoundHolds(NewRound)
BY FS_EmptySet, RpcEndpointsAssumption DEF NewRound, RoundRecords, Decided, RoundHolds

(***************************************************************************)
(* RpcEndpoints: servers on transports.                                    *)
(***************************************************************************)
ServerOwners == RpcHosts \cup {"all"}
ServerRecords == [owner : ServerOwners, line : Lines, subscribed : BOOLEAN, started : BOOLEAN]
StopOf(stop) == stop[1] \in DOMAIN servers /\ stop[2] \in ServerOwners
ServerTypes ==
  /\ servers \in Seq(ServerRecords) /\ lineOf \in [RpcHosts -> Lines] /\ crossed \in BOOLEAN
  /\ starting \subseteq DOMAIN servers /\ fresh \subseteq DOMAIN servers /\ activeHandles \subseteq DOMAIN servers
  /\ \A stop \in stopping : StopOf(stop)
  /\ handleOf \in [ServerOwners -> {0} \cup DOMAIN servers] /\ handleOf["all"] = 0
HasLine(h) == h \in starting \/ servers[h].started
\* A server that listens is started and reached; a line has one server unless one was started over another.
ServersHold ==
  /\ ServerTypes
  /\ \A h \in DOMAIN servers :
       /\ h \in starting => ~servers[h].started
       /\ servers[h].subscribed => servers[h].started /\ h \in activeHandles \cup fresh
  /\ ~crossed => \A h, k \in DOMAIN servers : servers[h].line = servers[k].line /\ HasLine(h) /\ HasLine(k) => h = k

\* Servers are numbered in the order they were made.
LEMMA ServersDomain == ASSUME ServersHold PROVE DOMAIN servers = 1..Len(servers) /\ Len(servers) \in Nat
  BY LenProperties DEF ServersHold, ServerTypes

\* A step that makes no server.
LEMMA ServersStep ==
  ASSUME ServersHold, servers' \in Seq(ServerRecords), Len(servers') = Len(servers), starting' \subseteq starting,
         \A h \in DOMAIN servers :
           /\ servers'[h].line = servers[h].line
           /\ servers'[h].started => servers[h].started \/ (h \in starting /\ h \notin starting')
           /\ h \in starting' => servers'[h].started = servers[h].started
           /\ servers'[h].subscribed => servers'[h].started /\ h \in activeHandles' \cup fresh',
         crossed' = crossed, lineOf' = lineOf, fresh' \subseteq DOMAIN servers, activeHandles' \subseteq DOMAIN servers,
         \A t \in stopping' : StopOf(t),
         handleOf' \in [ServerOwners -> {0} \cup DOMAIN servers], handleOf'["all"] = 0
  PROVE  ServersHold'
<1>1. DOMAIN servers' = DOMAIN servers
  BY LenProperties, ServersDomain
<1>2. ServerTypes'
  BY <1>1 DEF ServersHold, ServerTypes, StopOf
<1>3. \A h \in DOMAIN servers' :
        /\ h \in starting' => ~servers'[h].started
        /\ servers'[h].subscribed => servers'[h].started /\ h \in activeHandles' \cup fresh'
  BY <1>1 DEF ServersHold
<1>4. \A h \in DOMAIN servers : HasLine(h)' => HasLine(h)
  BY DEF HasLine
<1>5. ~crossed' => \A h, k \in DOMAIN servers' : servers'[h].line = servers'[k].line /\ HasLine(h)' /\ HasLine(k)' => h = k
  BY <1>1, <1>4 DEF ServersHold
<1> QED
  BY <1>2, <1>3, <1>5 DEF ServersHold

\* A server is made for a line nobody has, or over another one's.
LEMMA MakeKeeps ==
  ASSUME ServersHold, NEW owner \in ServerOwners, NEW line \in Lines, Make(owner, line),
         handleOf[owner] # 0 => ~servers[handleOf[owner]].started
  PROVE  ServersHold'
<1> DEFINE n == Len(servers)
           s == Server(owner, line)
<1>1. s \in ServerRecords /\ s.line = line /\ s.started = FALSE /\ s.subscribed = FALSE
  BY DEF Server, ServerRecords
<1>2. /\ servers' = Append(servers, s) /\ starting' = starting \cup {n + 1}
      /\ lineOf' = lineOf /\ fresh' = fresh /\ handleOf' = handleOf /\ activeHandles' = activeHandles /\ stopping' = stopping
  BY DEF Make
<1>m. crossed' = (crossed \/ \E h \in OnLine(line) : h \in starting \/ (servers[h].started /\ handleOf[owner] # h))
  BY DEF Make
<1>3. DOMAIN servers = 1..n /\ n \in Nat /\ servers \in Seq(ServerRecords)
  BY ServersDomain DEF ServersHold, ServerTypes
<1> HIDE DEF s
<1>4. servers' \in Seq(ServerRecords) /\ Len(servers') = n + 1 /\ servers'[n + 1] = s /\ \A h \in 1..n : servers'[h] = servers[h]
  BY <1>1, <1>2, <1>3, AppendProperties
<1>5. DOMAIN servers' = 1..(n + 1)
  BY <1>4, LenProperties
<1> HIDE DEF n
<1>6. DOMAIN servers' = DOMAIN servers \cup {n + 1} /\ n + 1 \notin DOMAIN servers /\ \A h \in DOMAIN servers : servers'[h] = servers[h]
  BY <1>3, <1>4, <1>5
<1>c. crossed' \in BOOLEAN
  BY <1>m DEF ServersHold, ServerTypes
<1>7. ServerTypes'
  BY <1>2, <1>4, <1>6, <1>c DEF ServersHold, ServerTypes, StopOf
<1>8. ASSUME NEW h \in DOMAIN servers'
      PROVE  /\ h \in starting' => ~servers'[h].started
             /\ servers'[h].subscribed => servers'[h].started /\ h \in activeHandles' \cup fresh'
  BY <1>1, <1>4, <1>2, <1>6 DEF ServersHold
<1>9. ASSUME ~crossed', NEW h \in DOMAIN servers, servers[h].line = line PROVE ~HasLine(h)
  <2>1. h \in OnLine(line)
    BY <1>9 DEF OnLine
  <2>2. h \notin starting /\ (servers[h].started => handleOf[owner] = h)
    BY <1>9, <1>m, <2>1
  <2>3. h # 0
    BY <1>3
  <2> QED
    BY <2>2, <2>3 DEF HasLine
<1>10. ASSUME NEW h \in DOMAIN servers PROVE HasLine(h)' <=> HasLine(h)
  BY <1>2, <1>6 DEF HasLine
<1>11. ASSUME ~crossed', NEW h \in DOMAIN servers', NEW k \in DOMAIN servers', servers'[h].line = servers'[k].line,
              HasLine(h)', HasLine(k)'
       PROVE  h = k
  <2>1. ~crossed
    BY <1>11, <1>m
  <2>2. CASE h \in DOMAIN servers /\ k \in DOMAIN servers
    BY <1>6, <1>10, <1>11, <2>1, <2>2 DEF ServersHold
  <2>3. CASE h = n + 1 /\ k \in DOMAIN servers
    BY <1>1, <1>4, <1>6, <1>9, <1>10, <1>11, <2>3
  <2>4. CASE k = n + 1 /\ h \in DOMAIN servers
    BY <1>1, <1>4, <1>6, <1>9, <1>10, <1>11, <2>4
  <2> QED
    BY <1>6, <2>2, <2>3, <2>4
<1> QED
  BY <1>7, <1>8, <1>11 DEF ServersHold

\* A server is made on a line that is free, or crossed says so.
LEMMA StartKeeps == ASSUME ServersHold, (\E s \in RpcHosts : StartRpc(s)) \/ StartRpcServices PROVE ServersHold'
<1>1. ASSUME NEW s \in RpcHosts, StartRpc(s) PROVE ServersHold'
  BY <1>1, MakeKeeps DEF ServersHold, ServerTypes, ServerOwners, StartRpc, NotRunning
<1>2. ASSUME NEW line \in Lines, Make("all", line) PROVE ServersHold'
  BY <1>2, MakeKeeps DEF ServersHold, ServerTypes, ServerOwners
<1> QED
  BY <1>1, <1>2 DEF StartRpcServices

\* A transport that has started has its server subscribed and still to be recorded.
LEMMA SubscribeKeeps == ASSUME ServersHold, NEW h \in starting, SubscribeServer(h) PROVE ServersHold'
<1>0. ServerTypes /\ h \in DOMAIN servers /\ servers \in Seq(ServerRecords) /\ DOMAIN servers = 1..Len(servers)
  BY ServersDomain DEF ServersHold, ServerTypes
<1>1. /\ starting' = starting \ {h} /\ lineOf' = lineOf /\ handleOf' = handleOf /\ activeHandles' = activeHandles
      /\ stopping' = stopping /\ crossed' = crossed
  BY DEF SubscribeServer
<1>2. CASE servers' = servers /\ fresh' = fresh
  BY <1>0, <1>1, <1>2, ServersStep DEF ServersHold, ServerTypes
<1>3. CASE servers' = [servers EXCEPT ![h].subscribed = TRUE, ![h].started = TRUE] /\ fresh' = fresh \cup {h}
  <2> DEFINE r == servers[h]
             e == [r EXCEPT !.subscribed = TRUE, !.started = TRUE]
  <2>1. r \in ServerRecords
    BY <1>0, ElementOfSeq
  <2>2. servers' = [servers EXCEPT ![h] = e]
    BY <1>0, <1>3, <2>1 DEF ServerRecords
  <2> HIDE DEF r
  <2>3. e \in ServerRecords /\ e.line = r.line /\ e.subscribed = TRUE /\ e.started = TRUE
    BY <2>1 DEF ServerRecords
  <2> HIDE DEF e
  <2>4. /\ servers' \in Seq(ServerRecords) /\ Len(servers') = Len(servers)
        /\ \A k \in DOMAIN servers : servers'[k] = IF k = h THEN e ELSE servers[k]
    BY <1>0, <2>2, <2>3, ExceptSeq
  <2>5. \A k \in DOMAIN servers :
           /\ servers'[k].line = servers[k].line
           /\ servers'[k].started => servers[k].started \/ (k \in starting /\ k \notin starting')
           /\ k \in starting' => servers'[k].started = servers[k].started
           /\ servers'[k].subscribed => servers'[k].started /\ k \in activeHandles' \cup fresh'
    BY <1>1, <1>3, <2>3, <2>4 DEF r, ServersHold
  <2> QED
    BY <1>0, <1>1, <1>3, <2>4, <2>5, ServersStep DEF ServerTypes
<1> QED
  BY <1>2, <1>3 DEF SubscribeServer

\* A server that is recorded goes from fresh to activeHandles.
LEMMA RecordKeeps == ASSUME ServersHold, NEW h \in fresh, Record(h) PROVE ServersHold'
BY ServersDomain, ElementOfSeq, ServersStep DEF ServersHold, ServerTypes, Record, Recorded, ServerRecords, ServerOwners

\* Unsubscribing changes nothing else of a server.
LEMMA UnsubscribedIs ==
  ASSUME ServersHold, NEW hs
  PROVE  /\ Unsubscribed(hs) \in Seq(ServerRecords) /\ Len(Unsubscribed(hs)) = Len(servers)
         /\ \A h \in DOMAIN servers : /\ Unsubscribed(hs)[h].line = servers[h].line
                                      /\ Unsubscribed(hs)[h].started = servers[h].started
                                      /\ Unsubscribed(hs)[h].subscribed <=> servers[h].subscribed /\ h \notin hs
<1> DEFINE u == Unsubscribed(hs)
<1>1. DOMAIN servers = 1..Len(servers) /\ Len(servers) \in Nat /\ \A h \in DOMAIN servers : servers[h] \in ServerRecords
  BY ServersDomain, ElementOfSeq DEF ServersHold, ServerTypes
<1>2. ASSUME NEW r \in ServerRecords
      PROVE  LET e == [r EXCEPT !.subscribed = FALSE]
             IN e \in ServerRecords /\ e.line = r.line /\ e.started = r.started /\ e.subscribed = FALSE
  BY DEF ServerRecords
<1>3. u = [h \in DOMAIN servers |-> IF h \in hs THEN [servers[h] EXCEPT !.subscribed = FALSE] ELSE servers[h]]
  BY DEF Unsubscribed
<1> HIDE DEF u
<1>4. ASSUME NEW h \in DOMAIN servers
      PROVE  /\ u[h] \in ServerRecords /\ u[h].line = servers[h].line /\ u[h].started = servers[h].started
             /\ u[h].subscribed <=> servers[h].subscribed /\ h \notin hs
  BY <1>1, <1>2, <1>3
<1>5. u \in [1..Len(servers) -> ServerRecords]
  BY <1>1, <1>3, <1>4
<1>6. u \in Seq(ServerRecords) /\ Len(u) = Len(servers)
  BY <1>1, <1>5, FunctionIsSeq
<1> QED
  BY <1>4, <1>6 DEF u

\* A stop unsubscribes the server before its transport stops, or forgets one that is not started.
LEMMA StopRpcKeeps == ASSUME ServersHold, NEW s \in RpcHosts, StopRpc(s) PROVE ServersHold'
<1> DEFINE h == handleOf[s]
<1>0. ServerTypes /\ h \in DOMAIN servers /\ s \in ServerOwners /\ s # "all"
  BY RpcEndpointsAssumption DEF ServersHold, ServerTypes, StopRpc, ServerOwners
<1>1. lineOf' = lineOf /\ starting' = starting /\ fresh' = fresh /\ crossed' = crossed
  BY DEF StopRpc
<1>2. CASE servers[h].started
  BY <1>2, UnsubscribedIs, <1>0, <1>1, ServersStep DEF StopRpc, ServerTypes, StopOf, ServersHold
<1>3. CASE ~servers[h].started
  BY <1>3, <1>0, <1>1, ServersStep DEF StopRpc, ServerTypes, ServerOwners, ServersHold
<1> QED
  BY <1>2, <1>3

\* All that are started unsubscribe before the set is empty.
LEMMA StopRpcServicesKeeps == ASSUME ServersHold, StopRpcServices PROVE ServersHold'
<1> DEFINE running == {h \in activeHandles : servers[h].started}
<1>0. ServerTypes
  BY DEF ServersHold
<1>1. /\ lineOf' = lineOf /\ starting' = starting /\ fresh' = fresh /\ crossed' = crossed /\ handleOf' = handleOf
      /\ activeHandles' = {} /\ stopping' = stopping \cup {<<h, "all", 1>> : h \in running} /\ servers' = Unsubscribed(running)
  BY DEF StopRpcServices
<1>2. /\ servers' \in Seq(ServerRecords) /\ Len(servers') = Len(servers)
      /\ \A k \in DOMAIN servers : /\ servers'[k].line = servers[k].line
                                   /\ servers'[k].started = servers[k].started
                                   /\ servers'[k].subscribed <=> servers[k].subscribed /\ k \notin running
  BY <1>1, UnsubscribedIs
<1>3. \A t \in stopping' : StopOf(t)
  BY <1>0, <1>1 DEF ServerTypes, ServerOwners, StopOf
<1>4. \A k \in DOMAIN servers : servers'[k].subscribed => servers'[k].started /\ k \in activeHandles' \cup fresh'
  BY <1>1, <1>2 DEF ServersHold
<1> QED
  BY <1>0, <1>1, <1>2, <1>3, <1>4, ServersStep DEF ServerTypes

\* A transport that stops takes the subscriptions of its line with it.
LEMMA TransportStopsKeeps == ASSUME ServersHold, NEW stop \in stopping, TransportStops(stop) PROVE ServersHold'
<1> DEFINE h == stop[1]
           s == stop[2]
           N(k) == [servers[k] EXCEPT !.subscribed = servers[k].subscribed /\ servers[k].line # servers[h].line,
                                      !.started = servers[k].started /\ k # h]
<1>0. ServerTypes /\ h \in DOMAIN servers /\ s \in ServerOwners
  BY DEF ServersHold, ServerTypes, StopOf
<1>1. lineOf' = lineOf /\ starting' = starting /\ fresh' = fresh /\ crossed' = crossed /\ stopping' = stopping \ {stop}
  BY DEF TransportStops
<1>2. CASE servers' = servers /\ handleOf' = handleOf /\ activeHandles' = activeHandles
  BY <1>0, <1>1, <1>2, ServersStep DEF ServerTypes, ServersHold
<1>3. CASE /\ servers' = [k \in DOMAIN servers |->
                [servers[k] EXCEPT !.subscribed = @ /\ servers[k].line # servers[h].line, !.started = @ /\ k # h]]
           /\ IF s = "all" THEN UNCHANGED <<handleOf, activeHandles>>
              ELSE handleOf' = [handleOf EXCEPT ![s] = 0] /\ activeHandles' = activeHandles \ {h}
  <2>1. DOMAIN servers = 1..Len(servers) /\ Len(servers) \in Nat /\ \A k \in DOMAIN servers : servers[k] \in ServerRecords
    BY ServersDomain, ElementOfSeq DEF ServersHold, ServerTypes
  <2>2. ASSUME NEW r \in ServerRecords, NEW a \in BOOLEAN, NEW b \in BOOLEAN
        PROVE  LET e == [r EXCEPT !.subscribed = a, !.started = b]
               IN e \in ServerRecords /\ e.line = r.line /\ e.subscribed = a /\ e.started = b
    BY DEF ServerRecords
  <2>3. ASSUME NEW k \in DOMAIN servers
        PROVE  /\ servers'[k] \in ServerRecords /\ servers'[k].line = servers[k].line
               /\ servers'[k].subscribed <=> servers[k].subscribed /\ servers[k].line # servers[h].line
               /\ servers'[k].started <=> servers[k].started /\ k # h
    <3> DEFINE r == servers[k]
               a == r.subscribed /\ r.line # servers[h].line
               b == r.started /\ k # h
               e == [r EXCEPT !.subscribed = a, !.started = b]
    <3>1. servers'[k] = e
      BY <1>3, <2>1 DEF ServerRecords
    <3>2. a \in BOOLEAN /\ b \in BOOLEAN /\ r \in ServerRecords
      BY <2>1
    <3>3. a <=> r.subscribed /\ r.line # servers[h].line
      OBVIOUS
    <3>4. b <=> r.started /\ k # h
      OBVIOUS
    <3> HIDE DEF a, b, r
    <3>5. e \in ServerRecords /\ e.line = r.line /\ e.subscribed = a /\ e.started = b
      BY <2>2, <3>2, ZenonT(60)
    <3> HIDE DEF e
    <3> QED
      BY <3>1, <3>3, <3>4, <3>5 DEF r
  <2>4. servers' \in [1..Len(servers) -> ServerRecords]
    BY <1>3, <2>1, <2>3
  <2>5. servers' \in Seq(ServerRecords) /\ Len(servers') = Len(servers)
    BY <2>1, <2>4, FunctionIsSeq
  <2>6. handleOf' \in [ServerOwners -> {0} \cup DOMAIN servers] /\ handleOf'["all"] = 0 /\ activeHandles' \subseteq activeHandles
        /\ activeHandles \ {h} \subseteq activeHandles'
    BY <1>0, <1>3 DEF ServerTypes, ServerOwners
  <2>7. \A k \in DOMAIN servers :
           /\ servers'[k].line = servers[k].line
           /\ servers'[k].started => servers[k].started \/ (k \in starting /\ k \notin starting')
           /\ k \in starting' => servers'[k].started = servers[k].started
           /\ servers'[k].subscribed => servers'[k].started /\ k \in activeHandles' \cup fresh'
    BY <1>1, <2>1, <2>3, <2>6 DEF ServersHold, ServerRecords
  <2>8. \A t \in stopping' : StopOf(t) /\ activeHandles' \subseteq DOMAIN servers
    BY <1>0, <1>1, <2>6 DEF ServerTypes
  <2> QED
    BY <1>0, <1>1, <2>5, <2>6, <2>7, <2>8, ServersStep DEF ServerTypes
<1> QED
  BY <1>2, <1>3 DEF TransportStops

\* Every step of the servers keeps the invariant.
LEMMA ServersKept == ASSUME ServersHold, ServersNext \/ UNCHANGED serverVars PROVE ServersHold'
<1>1. CASE UNCHANGED serverVars
  BY <1>1 DEF serverVars, ServersHold, ServerTypes, HasLine, StopOf
<1>2. CASE ServersNext
  BY <1>2, StartKeeps, StopRpcKeeps, StopRpcServicesKeeps, SubscribeKeeps, RecordKeeps, TransportStopsKeeps DEF ServersNext
<1> QED
  BY <1>1, <1>2

\* What listens is reached, and a line that was never crossed has one server.
LEMMA ServersAreReached == ASSUME ServersHold PROVE ServersReached
<1>1. \A h \in DOMAIN servers : servers[h].subscribed => h \in activeHandles \cup fresh
  BY DEF ServersHold
<1>2. ASSUME ~crossed, NEW line \in Lines PROVE Cardinality({h \in OnLine(line) : servers[h].subscribed}) <= 1
  <2> DEFINE T == {h \in OnLine(line) : servers[h].subscribed}
  <2>1. \A h, k \in T : h = k
    BY <1>2 DEF ServersHold, HasLine, OnLine
  <2>2. T = {} \/ \E h : T = {h}
    BY <2>1
  <2> HIDE DEF T
  <2>3. Cardinality({}) = 0 /\ \A h : Cardinality({h}) = 1
    BY FS_EmptySet, FS_Singleton
  <2>4. Cardinality(T) = 0 \/ Cardinality(T) = 1
    BY <2>2, <2>3
  <2>5. Cardinality(T) <= 1
    BY <2>4
  <2> QED
    BY <2>5 DEF T
<1> QED
  BY <1>1, <1>2 DEF ServersReached

(***************************************************************************)
(* RpcEndpoints: one gRPC call.                                            *)
(***************************************************************************)
Frames == {"next", "result", "complete", "error", "failure"} \X {"", "invalid params", "method not found", "server error"}
ExchangeRecords ==
  [kind : {"unary", "server", "client", "bidi"}, step : {"called", "chain", "items", "ended", "refused"}, index : Nat,
   calls : [1 .. Interceptors -> Nat], invoked : Nat, taken : Nat, frames : Seq(Frames), listening : BOOLEAN]
\* The exchange has not come to its end.
Goings(x) == x.step \notin {"ended", "refused"}
\* A frame that ends is the last, or the last but one where it was refused.
EndsHere(x, k) ==
  \/ k = Len(x.frames)
  \/ /\ x.step = "refused" /\ k = Len(x.frames) - 1
     /\ x.frames[k][1] \in {"complete", "result"} /\ x.frames[k + 1][1] \in {"error", "failure"}
\* The handler is invoked when the interceptors are through, and nothing but items was shown before the end.
ExchangeHolds(x) ==
  /\ x \in ExchangeRecords
  /\ x.index <= Interceptors + 1 /\ x.invoked <= 1 /\ (x.invoked = 1 => x.index = Interceptors + 1)
  /\ x.step = "called" => x.index = 0
  /\ \A k \in 1 .. Len(x.frames) : x.frames[k][1] # "next" => ~Goings(x) /\ EndsHere(x, k)

\* What was shown, and what was shown last.
LEMMA ShownIs ==
  ASSUME NEW x, ExchangeHolds(x), Goings(x), NEW f \in Frames
  PROVE  LET s == Shown(x, f) IN
         /\ s \in ExchangeRecords /\ s.index = x.index /\ s.invoked = x.invoked /\ s.step = x.step
         /\ \A k \in 1 .. Len(s.frames) : s.frames[k][1] # "next" => k = Len(s.frames) /\ f[1] # "next"
<1> DEFINE fs == IF x.listening THEN Append(x.frames, f) ELSE x.frames
           s == Shown(x, f)
           e == [x EXCEPT !.frames = fs]
<1>1. x \in ExchangeRecords /\ x.frames \in Seq(Frames)
  BY DEF ExchangeHolds, ExchangeRecords
<1>2. s = e
  BY <1>1 DEF Shown, ExchangeRecords
<1>3. fs \in Seq(Frames) /\ \A k \in 1 .. Len(fs) : fs[k][1] # "next" => k = Len(fs) /\ f[1] # "next"
  <2>1. CASE x.listening
    <3> DEFINE n == Len(x.frames)
    <3>1. n \in Nat
      BY <1>1, LenProperties
    <3>2. fs = Append(x.frames, f)
      BY <2>1
    <3> HIDE DEF fs
    <3>3. fs \in Seq(Frames) /\ Len(fs) = n + 1 /\ fs[n + 1] = f /\ \A k \in 1..n : fs[k] = x.frames[k]
      BY <1>1, <3>2, AppendProperties
    <3>4. \A k \in 1..n : x.frames[k][1] = "next"
      BY DEF ExchangeHolds
    <3> HIDE DEF n
    <3> QED
      BY <3>1, <3>3, <3>4
  <2>2. CASE ~x.listening
    BY <1>1, <2>2 DEF ExchangeHolds
  <2> QED
    BY <2>1, <2>2
<1> HIDE DEF fs, s
<1>4. /\ e \in ExchangeRecords /\ e.index = x.index /\ e.invoked = x.invoked /\ e.step = x.step /\ e.frames = fs
  BY <1>1, <1>3 DEF ExchangeRecords
<1> HIDE DEF e
<1> QED
  BY <1>2, <1>3, <1>4 DEF s

\* A call that ends with a frame.
EndedWith(x, f) == [Shown(x, f) EXCEPT !.step = "ended"]
\* An exchange that ends with a frame has that frame last.
LEMMA ClosedHolds ==
  ASSUME NEW x, ExchangeHolds(x), Goings(x), NEW f \in Frames
  PROVE  ExchangeHolds(EndedWith(x, f))
<1> DEFINE s == Shown(x, f)
           e == EndedWith(x, f)
<1>1. /\ s \in ExchangeRecords /\ s.index = x.index /\ s.invoked = x.invoked
      /\ \A k \in 1 .. Len(s.frames) : s.frames[k][1] # "next" => k = Len(s.frames)
  BY ShownIs
<1>2. e = [s EXCEPT !.step = "ended"]
  BY DEF EndedWith
<1> HIDE DEF s, e
<1>3. e \in ExchangeRecords /\ e.index = s.index /\ e.invoked = s.invoked /\ e.step = "ended" /\ e.frames = s.frames
  BY <1>1, <1>2 DEF ExchangeRecords
<1> QED
  BY <1>1, <1>3 DEF ExchangeHolds, Goings, EndsHere, e

\* Whatever the interceptors and the handler do, an exchange keeps its shape.
LEMMA ExchangeKept == ASSUME ExchangeHolds(exchange), RouteNext \/ UNCHANGED exchange PROVE ExchangeHolds(exchange')
<1> DEFINE x == exchange
<1>0. x \in ExchangeRecords /\ Interceptors \in Nat
  BY RpcEndpointsAssumption DEF ExchangeHolds
<1>1. CASE UNCHANGED exchange
  BY <1>1
<1>2. ASSUME NEW f \in Frames, Goings(x), exchange' = EndedWith(x, f) PROVE ExchangeHolds(exchange')
  BY <1>2, ClosedHolds
<1>3. \A is \in {"next", "result", "complete", "error", "failure"}, text \in {"", "invalid params", "method not found", "server error"} :
        <<is, text>> \in Frames
  BY DEF Frames
<1>4. \A code : JsonRpcCode(code) \in {"", "invalid params", "method not found", "server error"}
  BY DEF JsonRpcCode
<1>5. ASSUME NEW code, Goings(x), exchange' = Raised(x, code) PROVE ExchangeHolds(exchange')
  <2> DEFINE is == IF ServerStreams(x) THEN "error" ELSE "failure"
  <2>1. is \in {"next", "result", "complete", "error", "failure"}
    OBVIOUS
  <2>2. exchange' = EndedWith(x, <<is, JsonRpcCode(code)>>)
    BY <1>5 DEF Raised, EndedWith
  <2> HIDE DEF is
  <2>3. <<is, JsonRpcCode(code)>> \in Frames
    BY <1>3, <1>4, <2>1
  <2> QED
    BY <1>2, <1>5, <2>2, <2>3
<1>6. ASSUME NEW is \in {"result", "complete"}, Goings(x), exchange' = Closing(x, <<is, "">>) PROVE ExchangeHolds(exchange')
  BY <1>6, <1>3, <1>2 DEF Closing, EndedWith
<1>7. CASE EnterRoute
  <2>1. CASE exchange' = [x EXCEPT !.step = "chain", !.index = 1]
    <3> DEFINE e == [x EXCEPT !.step = "chain", !.index = 1]
    <3>1. e \in ExchangeRecords /\ e.index = 1 /\ e.invoked = x.invoked /\ e.step = "chain" /\ e.frames = x.frames
      BY <1>0 DEF ExchangeRecords
    <3>2. x.index = 0 /\ x.step = "called" /\ x.invoked = 0
      BY <1>0, <1>7 DEF EnterRoute, ExchangeHolds, ExchangeRecords
    <3> HIDE DEF e
    <3>3. ExchangeHolds(e)
      BY <1>0, <3>1, <3>2 DEF ExchangeHolds, Goings, EndsHere
    <3> QED
      BY <2>1, <3>3 DEF e
  <2>2. CASE exchange' = [Shown(exchange, <<"failure", JsonRpcCode("not_found")>>) EXCEPT !.step = "ended"]
    BY <1>7, <2>2, <1>3, <1>4, <1>2 DEF EnterRoute, EndedWith, Goings, EndsHere
  <2>3. CASE exchange' = Raised(exchange, "internal")
    BY <1>5, <1>7, <2>3 DEF EnterRoute, Goings, EndsHere
  <2> QED
    BY <1>7, <2>1, <2>2, <2>3 DEF EnterRoute
<1>8. ASSUME NEW i \in 1 .. Interceptors, NextCalled(i) PROVE ExchangeHolds(exchange')
  <2> DEFINE next == i + 1
             cs == [x.calls EXCEPT ![i] = x.calls[i] + 1]
             called == [x EXCEPT !.calls = cs]
             through == [called EXCEPT !.index = next, !.invoked = called.invoked + 1]
             further == [called EXCEPT !.index = next]
  <2>1. x.step = "chain" /\ i <= x.index /\ i \in Nat /\ x.index \in Nat /\ x.index <= Interceptors + 1
    BY <1>0, <1>8 DEF NextCalled, ExchangeHolds, ExchangeRecords
  <2>2. exchange' = IF next <= x.index THEN called ELSE IF next > Interceptors THEN through ELSE further
    BY <1>0, <1>8 DEF NextCalled, Entered, ExchangeRecords
  <2>3. cs \in [1 .. Interceptors -> Nat]
    BY <1>0 DEF ExchangeRecords
  <2> HIDE DEF cs
  <2>4. called \in ExchangeRecords /\ called.index = x.index /\ called.invoked = x.invoked /\ called.step = x.step /\ called.frames = x.frames
    BY <1>0, <2>3 DEF ExchangeRecords
  <2> HIDE DEF called
  <2>5. next \in Nat /\ called.invoked + 1 \in Nat
    BY <2>1, <2>4 DEF ExchangeRecords
  <2> DEFINE v == called.invoked + 1
  <2> HIDE DEF next, v
  <2>6. /\ through \in ExchangeRecords /\ through.index = next /\ through.invoked = v /\ through.step = x.step
        /\ through.frames = x.frames
    BY <2>4, <2>5 DEF ExchangeRecords, v
  <2>7. /\ further \in ExchangeRecords /\ further.index = next /\ further.invoked = x.invoked /\ further.step = x.step
        /\ further.frames = x.frames
    BY <2>4, <2>5 DEF ExchangeRecords
  <2> HIDE DEF through, further
  <2>8. CASE next <= x.index
    BY <2>1, <2>2, <2>4, <2>8 DEF ExchangeHolds, Goings, EndsHere
  <2>9. CASE ~(next <= x.index) /\ next > Interceptors
    <3>1. next = Interceptors + 1 /\ x.index # Interceptors + 1
      BY <1>0, <2>1, <2>9 DEF next
    <3>2. x.invoked = 0 /\ v = 1
      BY <1>0, <2>4, <3>1 DEF ExchangeHolds, ExchangeRecords, v
    <3> QED
      BY <1>0, <2>1, <2>2, <2>6, <2>9, <3>1, <3>2 DEF ExchangeHolds, Goings, EndsHere
  <2>10. CASE ~(next <= x.index) /\ ~(next > Interceptors)
    <3>1. next <= Interceptors /\ next # Interceptors + 1 /\ x.index # Interceptors + 1 /\ x.invoked = 0
      BY <1>0, <2>1, <2>10 DEF next, ExchangeHolds, ExchangeRecords
    <3>2. next <= Interceptors + 1
      BY <1>0, <2>5, <3>1
    <3> QED
      BY <1>0, <2>1, <2>2, <2>7, <2>10, <3>1, <3>2 DEF ExchangeHolds, Goings, EndsHere
  <2> QED
    BY <2>8, <2>9, <2>10
<1>9. ASSUME Takes, exchange' = [exchange EXCEPT !.taken = @ + 1] PROVE ExchangeHolds(exchange')
  <2> DEFINE v == x.taken + 1
             e == [x EXCEPT !.taken = v]
  <2>1. v \in Nat /\ exchange' = e
    BY <1>0, <1>9 DEF ExchangeRecords
  <2> HIDE DEF v
  <2>2. e \in ExchangeRecords /\ e.index = x.index /\ e.invoked = x.invoked /\ e.step = x.step /\ e.frames = x.frames
    BY <1>0, <2>1 DEF ExchangeRecords
  <2> HIDE DEF e
  <2> QED
    BY <2>1, <2>2 DEF ExchangeHolds, Goings, EndsHere
<1>10. CASE Iterates
  <2>1. ASSUME x.step = "chain", exchange' = [x EXCEPT !.step = "items"] PROVE ExchangeHolds(exchange')
    <3> DEFINE e == [x EXCEPT !.step = "items"]
    <3>1. e \in ExchangeRecords /\ e.index = x.index /\ e.invoked = x.invoked /\ e.step = "items" /\ e.frames = x.frames
      BY <1>0 DEF ExchangeRecords
    <3> HIDE DEF e
    <3>2. ExchangeHolds(e)
      BY <2>1, <3>1 DEF ExchangeHolds, Goings, EndsHere
    <3> QED
      BY <2>1, <3>2 DEF e
  <2>2. ASSUME x.step = "items", exchange' = Shown(x, <<"next", "">>) PROVE ExchangeHolds(exchange')
    <3> DEFINE f == <<"next", "">>
    <3>1. f \in Frames /\ f[1] = "next" /\ exchange' = Shown(x, f)
      BY <1>3, <2>2
    <3> HIDE DEF f
    <3>2. /\ Shown(x, f) \in ExchangeRecords /\ Shown(x, f).index = x.index /\ Shown(x, f).invoked = x.invoked /\ Shown(x, f).step = x.step
          /\ \A k \in 1 .. Len(Shown(x, f).frames) : Shown(x, f).frames[k][1] = "next"
      BY <2>2, <3>1, ShownIs DEF Goings, EndsHere
    <3> QED
      BY <2>2, <3>1, <3>2 DEF ExchangeHolds
  <2>3. ASSUME x.step = "items", exchange' = Closing(x, <<"complete", "">>) PROVE ExchangeHolds(exchange')
    BY <1>6, <2>3 DEF Goings, EndsHere
  <2> QED
    BY <1>10, <2>1, <2>2, <2>3 DEF Iterates
<1>11. CASE StopGrpc
  <2> DEFINE e == [x EXCEPT !.listening = FALSE]
  <2>1. e \in ExchangeRecords /\ e.index = x.index /\ e.invoked = x.invoked /\ e.step = x.step /\ e.frames = x.frames
    BY <1>0 DEF ExchangeRecords
  <2>2. exchange' = e
    BY <1>11 DEF StopGrpc
  <2> HIDE DEF e
  <2> QED
    BY <2>1, <2>2 DEF ExchangeHolds, Goings, EndsHere
<1>12. CASE UnaryReturns
  BY <1>6, <1>12 DEF UnaryReturns, Goings, EndsHere
<1>13. CASE ClientStreams
  BY <1>6, <1>9, <1>13 DEF ClientStreams, Goings, EndsHere
<1>14. CASE ServerStreamed \/ BidiStreams
  BY <1>9, <1>10, <1>14 DEF ServerStreamed, BidiStreams
<1>15. CASE RouteThrows
  BY <1>5, <1>15 DEF RouteThrows, Goings, EndsHere
<1>16. CASE EndRefused
  <2> DEFINE n == Len(x.frames)
  <2>1. PICK code \in ConnectCodes : exchange' = [Raised(x, code) EXCEPT !.step = "refused"]
    BY <1>16 DEF EndRefused
  <2> DEFINE is == IF ServerStreams(x) THEN "error" ELSE "failure"
             f == <<is, JsonRpcCode(code)>>
             fs == IF x.listening THEN Append(x.frames, f) ELSE x.frames
             e == [x EXCEPT !.frames = fs, !.step = "refused"]
  <2>2. exchange' = e
    BY <1>0, <2>1 DEF Raised, Shown, ExchangeRecords
  <2>3. f \in Frames /\ f[1] \in {"error", "failure"}
    BY <1>3, <1>4
  <2>4. /\ x.step = "ended" /\ x.frames \in Seq(Frames) /\ x.frames # << >> /\ x.frames[n][1] \in {"complete", "result"}
        /\ n \in Nat /\ n # 0
    BY <1>0, <1>16, LenProperties, EmptySeq DEF EndRefused, ExchangeRecords
  <2>5. \A k \in 1 .. n : x.frames[k][1] # "next" => k = n
    BY <2>4 DEF ExchangeHolds, EndsHere
  <2>6. x.listening => Append(x.frames, f) \in Seq(Frames) /\ Len(Append(x.frames, f)) = n + 1
                       /\ Append(x.frames, f)[n + 1] = f /\ \A k \in 1 .. n : Append(x.frames, f)[k] = x.frames[k]
    BY <2>3, <2>4, AppendProperties
  <2> HIDE DEF f, n
  <2>7. /\ fs \in Seq(Frames)
        /\ \A k \in 1 .. Len(fs) : fs[k][1] # "next" =>
             \/ k = Len(fs)
             \/ k = Len(fs) - 1 /\ fs[k][1] \in {"complete", "result"} /\ fs[k + 1][1] \in {"error", "failure"}
    <3>1. CASE x.listening
      <4> DEFINE t == Append(x.frames, f)
      <4>1. /\ t \in Seq(Frames) /\ Len(t) = n + 1 /\ t[n + 1] = f /\ \A k \in 1 .. n : t[k] = x.frames[k]
            /\ fs = t
        BY <2>6, <3>1
      <4> HIDE DEF t, fs
      <4>2. ASSUME NEW k \in 1 .. n + 1, t[k][1] # "next"
            PROVE  k = n + 1 \/ (k = n /\ t[k][1] \in {"complete", "result"} /\ t[k + 1][1] \in {"error", "failure"})
        <5>1. CASE k = n + 1
          BY <5>1
        <5>2. CASE k \in 1 .. n
          <6>1. k = n
            BY <2>5, <4>1, <4>2, <5>2
          <6> QED
            BY <2>3, <2>4, <4>1, <5>2, <6>1
        <5> QED
          BY <2>4, <5>1, <5>2
      <4>3. (n + 1) - 1 = n
        BY <2>4
      <4> QED
        BY <4>1, <4>2, <4>3
    <3>2. CASE ~x.listening
      BY <2>4, <2>5, <3>2 DEF n
    <3> QED
      BY <3>1, <3>2
  <2> HIDE DEF fs
  <2>8. e \in ExchangeRecords /\ e.index = x.index /\ e.invoked = x.invoked /\ e.step = "refused" /\ e.frames = fs
    BY <1>0, <2>7 DEF ExchangeRecords
  <2> HIDE DEF e
  <2>9. ExchangeHolds(e)
    BY <2>4, <2>7, <2>8 DEF ExchangeHolds, Goings, EndsHere
  <2> QED
    BY <2>2, <2>9
<1> QED
  BY <1>1, <1>7, <1>8, <1>11, <1>12, <1>13, <1>14, <1>15, <1>16 DEF RouteNext

\* That shape has one invocation and one end at most.
LEMMA ExchangeIsWhole == ASSUME ExchangeHolds(exchange) PROVE ExchangeWhole
BY LenProperties DEF ExchangeHolds, EndsHere, ExchangeRecords, ExchangeWhole

\* A call starts without frames and without an invocation.
LEMMA NewExchangeHolds == ASSUME NEW kind \in {"unary", "server", "client", "bidi"} PROVE ExchangeHolds(NewExchange(kind))
<1> DEFINE x == NewExchange(kind)
<1>1. << >> \in Seq(Frames) /\ Len(<< >>) = 0
  BY EmptySeq
<1>2. /\ x \in ExchangeRecords /\ x.index = 0 /\ x.invoked = 0 /\ x.frames = << >> /\ x.step = "called"
  BY <1>1 DEF NewExchange, ExchangeRecords
<1> HIDE DEF x
<1>3. ExchangeHolds(x)
  BY <1>1, <1>2, RpcEndpointsAssumption DEF ExchangeHolds
<1> QED
  BY <1>3 DEF x

(***************************************************************************)
(* RpcEndpoints: the push stream.                                          *)
(***************************************************************************)
StreamRecords ==
  [queue : Seq(Nat), waiting : Seq(StreamReaders), over : {"no", "end", "error"}, accepted : Nat, taken : Seq(Nat), blank : SUBSET Nat, swallowed : SUBSET Nat,
   reader : [StreamReaders -> {"reading", "waiting", "told", "left"}]]
\* The items that were accepted: first those that were taken, then those that are queued.
Tiled(d, q, n) ==
  /\ Len(d) + Len(q) = n
  /\ \A i \in 1 .. Len(d) : d[i] = i
  /\ \A i \in 1 .. Len(q) : q[i] = Len(d) + i
\* Readers wait only where nothing is queued, and nobody is told the end before.
StreamHolds(s) ==
  /\ s \in StreamRecords /\ Tiled(s.taken, s.queue, s.accepted) /\ s.swallowed \subseteq s.blank
  /\ s.waiting # << >> => s.queue = << >> /\ s.over = "no"
  /\ (\E r \in StreamReaders : s.reader[r] = "told") => s.over # "no" /\ s.queue = << >>

\* An item is accepted: it is handed to a reader, or queued; later it leaves the queue.
LEMMA TilesOn ==
  ASSUME NEW d \in Seq(Nat), NEW q \in Seq(Nat), NEW n \in Nat, Tiled(d, q, n)
  PROVE  /\ q = << >> => Append(d, n + 1) \in Seq(Nat) /\ Tiled(Append(d, n + 1), q, n + 1)
         /\ Append(q, n + 1) \in Seq(Nat) /\ Tiled(d, Append(q, n + 1), n + 1)
         /\ q # << >> => /\ Append(d, Head(q)) \in Seq(Nat) /\ Tail(q) \in Seq(Nat)
                         /\ Tiled(Append(d, Head(q)), Tail(q), n)
<1> DEFINE a == Len(d)
           b == Len(q)
<1>1. a \in Nat /\ b \in Nat
  BY LenProperties
<1>2. /\ a + b = n
      /\ \A i \in 1 .. a : d[i] = i
      /\ \A i \in 1 .. b : q[i] = a + i
  BY DEF Tiled
<1>3. \A e \in Nat : /\ Append(d, e) \in Seq(Nat) /\ Len(Append(d, e)) = a + 1 /\ Append(d, e)[a + 1] = e
                     /\ \A i \in 1..a : Append(d, e)[i] = d[i]
  BY AppendProperties
<1>4. \A e \in Nat : /\ Append(q, e) \in Seq(Nat) /\ Len(Append(q, e)) = b + 1 /\ Append(q, e)[b + 1] = e
                     /\ \A i \in 1..b : Append(q, e)[i] = q[i]
  BY AppendProperties
<1>5. n + 1 \in Nat
  OBVIOUS
<1>6. q # << >> => /\ Head(q) \in Nat /\ Tail(q) \in Seq(Nat) /\ Len(Tail(q)) = b - 1 /\ b # 0 /\ Head(q) = q[1]
                   /\ \A i \in 1 .. Len(Tail(q)) : Tail(q)[i] = q[i + 1]
  BY EmptySeq, HeadTailProperties
<1>7. ASSUME q = << >> PROVE Tiled(Append(d, n + 1), q, n + 1)
  <2>0. b = 0
    BY <1>7, EmptySeq
  <2> DEFINE t == Append(d, n + 1)
  <2>1. Len(t) = a + 1 /\ t[a + 1] = n + 1 /\ \A i \in 1..a : t[i] = d[i]
    BY <1>3, <1>5
  <2> HIDE DEF t
  <2> DEFINE m == Len(t)
  <2>2. /\ m + b = n + 1
        /\ \A i \in 1 .. m : t[i] = i
        /\ \A i \in 1 .. b : q[i] = m + i
    <3>1. m = a + 1 /\ t[a + 1] = n + 1 /\ \A i \in 1..a : t[i] = d[i]
      BY <2>1
    <3> HIDE DEF m, a, b
    <3>2. m = n + 1 /\ a = n
      BY <1>1, <1>2, <2>0, <3>1
    <3>3. \A i \in 1 .. m : t[i] = i
      BY <1>1, <3>1, <1>2, <3>2
    <3>4. 1 .. b = {}
      BY <2>0
    <3>5. m + b = n + 1
      BY <2>0, <3>2
    <3> QED
      BY <3>3, <3>4, <3>5
  <2> QED
    BY <2>2 DEF Tiled, t
<1>8. Tiled(d, Append(q, n + 1), n + 1)
  <2> DEFINE t == Append(q, n + 1)
             m == Len(t)
  <2>1. m = b + 1 /\ t[b + 1] = n + 1 /\ \A i \in 1..b : t[i] = q[i]
    BY <1>4, <1>5
  <2> HIDE DEF t
  <2>2. /\ a + m = n + 1
        /\ \A i \in 1 .. m : t[i] = a + i
    <3>1. m = b + 1 /\ t[b + 1] = n + 1 /\ \A i \in 1..b : t[i] = q[i]
      BY <2>1
    <3> HIDE DEF m, a, b
    <3>2. a + m = n + 1
      BY <1>1, <1>2, <3>1
    <3>3. ASSUME NEW i \in 1 .. m PROVE t[i] = a + i
      <4>1. i \in 1 .. b \/ i = b + 1
        BY <1>1, <3>1
      <4>2. a + (b + 1) = n + 1
        BY <1>1, <1>2
      <4> QED
        BY <1>2, <3>1, <4>1, <4>2
    <3> QED
      BY <3>2, <3>3
  <2> QED
    BY <1>2, <2>2 DEF Tiled, t
<1>9. ASSUME q # << >> PROVE Tiled(Append(d, Head(q)), Tail(q), n)
  <2> DEFINE t == Append(d, Head(q))
             u == Tail(q)
             m == Len(t)
             k == Len(u)
  <2>1. m = a + 1 /\ t[a + 1] = Head(q) /\ \A i \in 1..a : t[i] = d[i]
    BY <1>3, <1>6, <1>9
  <2>2. k = b - 1 /\ b # 0 /\ Head(q) = q[1] /\ \A i \in 1 .. k : u[i] = q[i + 1]
    BY <1>6, <1>9
  <2> HIDE DEF t, u
  <2>3. /\ m + k = n
        /\ \A i \in 1 .. m : t[i] = i
        /\ \A i \in 1 .. k : u[i] = m + i
    <3> DEFINE h == Head(q)
    <3>1. /\ m = a + 1 /\ t[a + 1] = h /\ \A i \in 1..a : t[i] = d[i]
          /\ k = b - 1 /\ b # 0 /\ h = q[1] /\ \A i \in 1 .. k : u[i] = q[i + 1]
      BY <2>1, <2>2
    <3> HIDE DEF m, k, a, b, h
    <3>2. h = a + 1
      BY <1>1, <1>2, <3>1
    <3>3. m + k = n
      BY <1>1, <1>2, <3>1
    <3>4. \A i \in 1 .. m : t[i] = i
      BY <1>1, <1>2, <3>1, <3>2
    <3>5. \A i \in 1 .. k : u[i] = m + i
      BY <1>1, <1>2, <3>1
    <3> QED
      BY <3>3, <3>4, <3>5
  <2> QED
    BY <2>3 DEF Tiled, t, u
<1> QED
  BY <1>3, <1>4, <1>5, <1>6, <1>7, <1>8, <1>9

\* The stream that ends.
LEMMA OverHolds ==
  ASSUME NEW s, StreamHolds(s), NEW how \in {"end", "error"}
  PROVE  LET e == Over(s, how) IN StreamHolds(e) /\ e.over # "no"
<1>0. s \in StreamRecords
  BY DEF StreamHolds
<1>1. CASE s.over # "no"
  BY <1>1 DEF Over
<1>2. CASE s.over = "no"
  <2> DEFINE told == Told(s)
             e == [s EXCEPT !.over = how, !.waiting = << >>, !.reader = told]
  <2>1. Over(s, how) = e
    BY <1>2 DEF Over
  <2>2. /\ told \in [StreamReaders -> {"reading", "waiting", "told", "left"}]
        /\ (\E r \in StreamReaders : told[r] = "told") => s.waiting # << >> \/ \E r \in StreamReaders : s.reader[r] = "told"
    BY <1>0 DEF Told, StreamRecords
  <2>3. << >> \in Seq(StreamReaders)
    BY EmptySeq
  <2> HIDE DEF told
  <2>4. /\ e \in StreamRecords /\ e.over = how /\ e.waiting = << >> /\ e.reader = told /\ e.queue = s.queue
        /\ e.taken = s.taken /\ e.accepted = s.accepted /\ e.blank = s.blank /\ e.swallowed = s.swallowed
    BY <1>0, <2>2, <2>3 DEF StreamRecords
  <2> HIDE DEF e
  <2>5. StreamHolds(e)
    BY <2>2, <2>4 DEF StreamHolds
  <2> QED
    BY <2>1, <2>4, <2>5
<1> QED
  BY <1>0, <1>1, <1>2 DEF StreamRecords

\* Whatever is pushed, read or ended, the items tile what was accepted.
LEMMA StreamKept == ASSUME StreamHolds(pushStream), ReaderNext \/ UNCHANGED pushStream PROVE StreamHolds(pushStream')
<1> DEFINE s == pushStream
           n == s.accepted + 1
<1>0. /\ s \in StreamRecords /\ Tiled(s.taken, s.queue, s.accepted) /\ s.taken \in Seq(Nat) /\ s.queue \in Seq(Nat)
      /\ s.accepted \in Nat /\ n \in Nat /\ s.waiting \in Seq(StreamReaders)
  BY DEF StreamHolds, StreamRecords
<1>1. CASE UNCHANGED pushStream
  BY <1>1
<1>2. CASE Push
  <2>1. s.over = "no"
    BY <1>2 DEF Push
  <2>a. PICK undefined \in {{}, {n}} :
           pushStream' = IF s.waiting # << >>
                         THEN [s EXCEPT !.accepted = n, !.blank = @ \union undefined, !.taken = Append(@, n),
                                        !.waiting = Tail(@), !.reader[Head(s.waiting)] = "reading"]
                         ELSE [s EXCEPT !.accepted = n, !.blank = @ \union undefined, !.queue = Append(@, n)]
    BY <1>2 DEF Push
  <2> DEFINE bl == s.blank \union undefined
  <2>b. bl \in SUBSET Nat /\ s.swallowed \subseteq bl
    BY <1>0 DEF StreamHolds, StreamRecords
  <2>2. CASE s.waiting # << >>
    <3> DEFINE f == [s.reader EXCEPT ![Head(s.waiting)] = "reading"]
               w == Tail(s.waiting)
               d == Append(s.taken, n)
               e == [s EXCEPT !.accepted = n, !.blank = bl, !.taken = d, !.waiting = w, !.reader = f]
    <3>1. pushStream' = e
      BY <1>0, <2>a, <2>2 DEF StreamRecords
    <3>2. s.queue = << >>
      BY <2>2 DEF StreamHolds
    <3>3. f \in [StreamReaders -> {"reading", "waiting", "told", "left"}]
          /\ \A r \in StreamReaders : f[r] = "told" => s.reader[r] = "told"
      BY <1>0 DEF StreamRecords
    <3>4. w \in Seq(StreamReaders)
      BY <1>0, <2>2, HeadTailProperties
    <3>5. d \in Seq(Nat) /\ Tiled(d, s.queue, n)
      BY <1>0, <3>2, TilesOn
    <3> HIDE DEF f, w, d, n, bl
    <3>6. e \in StreamRecords
      BY <1>0, <2>b, <3>3, <3>4, <3>5 DEF StreamRecords
    <3>7. e.blank = bl /\ e.swallowed = s.swallowed /\ e.over = s.over /\ e.waiting = w /\ e.reader = f /\ e.queue = s.queue /\ e.taken = d /\ e.accepted = n
      BY <1>0 DEF StreamRecords
    <3> HIDE DEF e
    <3>8. StreamHolds(e)
      BY <2>1, <2>b, <3>2, <3>3, <3>5, <3>6, <3>7 DEF StreamHolds
    <3> QED
      BY <3>1, <3>8
  <2>3. CASE s.waiting = << >>
    <3> DEFINE q == Append(s.queue, n)
               e == [s EXCEPT !.accepted = n, !.blank = bl, !.queue = q]
    <3>1. pushStream' = e
      BY <1>0, <2>a, <2>3 DEF StreamRecords
    <3>2. q \in Seq(Nat) /\ Tiled(s.taken, q, n)
      BY <1>0, TilesOn
    <3> HIDE DEF q, n, bl
    <3>3. e \in StreamRecords
      BY <1>0, <2>b, <3>2 DEF StreamRecords
    <3>4. e.blank = bl /\ e.swallowed = s.swallowed /\ e.over = s.over /\ e.waiting = s.waiting /\ e.reader = s.reader /\ e.queue = q /\ e.taken = s.taken /\ e.accepted = n
      BY <1>0 DEF StreamRecords
    <3> HIDE DEF e
    <3>5. StreamHolds(e)
      BY <2>1, <2>3, <2>b, <3>2, <3>3, <3>4 DEF StreamHolds
    <3> QED
      BY <3>1, <3>5
  <2> QED
    BY <2>2, <2>3
<1>3. CASE End
  BY <1>3, OverHolds DEF End
<1>4. ASSUME NEW r \in StreamReaders, ReadNext(r) PROVE StreamHolds(pushStream')
  <2>1. CASE EndSeen(s)
    <3> DEFINE f == [s.reader EXCEPT ![r] = "told"]
               e == [s EXCEPT !.reader = f]
    <3>1. pushStream' = e /\ s.queue = << >> /\ s.over # "no"
      BY <1>4, <2>1 DEF ReadNext, EndSeen
    <3>2. f \in [StreamReaders -> {"reading", "waiting", "told", "left"}]
      BY <1>0 DEF StreamRecords
    <3> HIDE DEF f
    <3>3. e \in StreamRecords
      BY <1>0, <3>2 DEF StreamRecords
    <3>4. e.blank = s.blank /\ e.swallowed = s.swallowed /\ e.over = s.over /\ e.waiting = s.waiting /\ e.queue = s.queue /\ e.taken = s.taken /\ e.accepted = s.accepted
      BY <1>0 DEF StreamRecords
    <3> HIDE DEF e
    <3> QED
      BY <1>0, <3>1, <3>3, <3>4 DEF StreamHolds
  <2>2. CASE ~EndSeen(s) /\ s.queue # << >>
    <3> DEFINE q == Tail(s.queue)
               d == Append(s.taken, Head(s.queue))
               sw == s.swallowed \union NotYielded(s)
               e == [s EXCEPT !.queue = q, !.taken = d, !.swallowed = sw]
    <3>1. pushStream' = e
      BY <1>0, <1>4, <2>2 DEF ReadNext, StreamRecords
    <3>2. q \in Seq(Nat) /\ d \in Seq(Nat) /\ Tiled(d, q, s.accepted)
      BY <1>0, <2>2, TilesOn
    <3>3. s.waiting = << >> /\ ~(\E p \in StreamReaders : s.reader[p] = "told")
      BY <2>2 DEF StreamHolds
    <3>a. sw \in SUBSET Nat /\ sw \subseteq s.blank
      BY <1>0 DEF NotYielded, StreamHolds, StreamRecords
    <3> HIDE DEF q, d, sw
    <3>4. e \in StreamRecords
      BY <1>0, <3>2, <3>a DEF StreamRecords
    <3>5. e.blank = s.blank /\ e.swallowed = sw /\ e.over = s.over /\ e.waiting = s.waiting /\ e.reader = s.reader /\ e.queue = q /\ e.taken = d /\ e.accepted = s.accepted
      BY <1>0 DEF StreamRecords
    <3> HIDE DEF e
    <3>6. StreamHolds(e)
      BY <3>2, <3>3, <3>4, <3>5, <3>a DEF StreamHolds
    <3> QED
      BY <3>1, <3>6
  <2>3. CASE ~EndSeen(s) /\ s.queue = << >>
    <3> DEFINE f == [s.reader EXCEPT ![r] = "waiting"]
               w == Append(s.waiting, r)
               e == [s EXCEPT !.reader = f, !.waiting = w]
    <3>1. pushStream' = e /\ s.over = "no"
      BY <1>0, <1>4, <2>3 DEF ReadNext, EndSeen, StreamRecords
    <3>2. f \in [StreamReaders -> {"reading", "waiting", "told", "left"}] /\ \A p \in StreamReaders : f[p] = "told" => s.reader[p] = "told"
      BY <1>0 DEF StreamRecords
    <3>3. w \in Seq(StreamReaders)
      BY <1>0, AppendProperties
    <3> HIDE DEF f, w
    <3>4. e \in StreamRecords
      BY <1>0, <3>2, <3>3 DEF StreamRecords
    <3>5. e.blank = s.blank /\ e.swallowed = s.swallowed /\ e.over = s.over /\ e.reader = f /\ e.queue = s.queue /\ e.taken = s.taken /\ e.accepted = s.accepted
      BY <1>0 DEF StreamRecords
    <3> HIDE DEF e
    <3>6. StreamHolds(e)
      BY <1>0, <2>3, <3>1, <3>2, <3>4, <3>5 DEF StreamHolds
    <3> QED
      BY <3>1, <3>6
  <2> QED
    BY <2>1, <2>2, <2>3
<1>5. ASSUME NEW r \in StreamReaders, Leave(r) PROVE StreamHolds(pushStream')
  <2> DEFINE o == Over(s, "end")
             f == [o.reader EXCEPT ![r] = "left"]
             e == [o EXCEPT !.reader = f]
  <2>1. StreamHolds(o)
    BY OverHolds
  <2>2. o \in StreamRecords /\ pushStream' = [o EXCEPT !.reader[r] = "left"]
    BY <1>5, <2>1 DEF Leave, StreamHolds
  <2> HIDE DEF o
  <2>3. f \in [StreamReaders -> {"reading", "waiting", "told", "left"}] /\ \A p \in StreamReaders : f[p] = "told" => o.reader[p] = "told"
    BY <2>2 DEF StreamRecords
  <2>4. pushStream' = e
    BY <2>2
  <2> HIDE DEF f
  <2>5. e \in StreamRecords
    BY <2>2, <2>3 DEF StreamRecords
  <2>6. e.blank = o.blank /\ e.swallowed = o.swallowed /\ e.over = o.over /\ e.waiting = o.waiting /\ e.reader = f /\ e.queue = o.queue /\ e.taken = o.taken /\ e.accepted = o.accepted
    BY <2>2 DEF StreamRecords
  <2> HIDE DEF e
  <2>7. StreamHolds(e)
    BY <2>1, <2>3, <2>5, <2>6 DEF StreamHolds
  <2> QED
    BY <2>4, <2>7
<1> QED
  BY <1>1, <1>2, <1>3, <1>4, <1>5 DEF ReaderNext

\* Taken and queued items together are all that were accepted, in order.
LEMMA StreamLosesNothing == ASSUME StreamHolds(pushStream) PROVE NothingLost
<1> DEFINE d == pushStream.taken
           q == pushStream.queue
           n == pushStream.accepted
           t == d \o q
<1>1. d \in Seq(Nat) /\ q \in Seq(Nat) /\ n \in Nat /\ Tiled(d, q, n)
  BY DEF StreamHolds, StreamRecords
<1> HIDE DEF d, q, n
<1>2. /\ t \in Seq(Nat) /\ Len(t) = Len(d) + Len(q)
      /\ \A i \in 1 .. Len(d) + Len(q) : t[i] = IF i <= Len(d) THEN d[i] ELSE q[i - Len(d)]
  BY <1>1, ConcatProperties
<1> HIDE DEF t
<1>3. \A i \in 1 .. n : t[i] = i
  <2> DEFINE a == Len(d)
             b == Len(q)
  <2>1. /\ a \in Nat /\ b \in Nat /\ a + b = n
        /\ \A i \in 1 .. a : d[i] = i
        /\ \A i \in 1 .. b : q[i] = a + i
        /\ \A i \in 1 .. a + b : t[i] = IF i <= a THEN d[i] ELSE q[i - a]
    BY <1>1, <1>2, LenProperties DEF Tiled
  <2> HIDE DEF a, b
  <2> SUFFICES ASSUME NEW i \in 1 .. n PROVE t[i] = i
    OBVIOUS
  <2>2. CASE i <= a
    BY <2>1, <2>2
  <2>3. CASE ~(i <= a)
    BY <1>1, <2>1, <2>3
  <2> QED
    BY <2>2, <2>3
<1>4. Len(t) = n
  BY <1>1, <1>2 DEF Tiled
<1>5. t \in [1 .. n -> Nat]
  BY <1>2, <1>4, LenProperties
<1>6. t = [i \in 1 .. n |-> i]
  BY <1>3, <1>5
<1>7. (\E r \in StreamReaders : pushStream.reader[r] = "told") => q = << >>
  BY DEF StreamHolds, q
<1>8. pushStream.swallowed \subseteq pushStream.blank
  BY DEF StreamHolds
<1> QED
  BY <1>6, <1>7, <1>8 DEF NothingLost, t, d, q, n

\* A stream starts empty.
LEMMA NewStreamHolds == StreamHolds(NewStream)
BY EmptySeq DEF NewStream, StreamRecords, Tiled, StreamHolds

(***************************************************************************)
(* RpcEndpoints: messages.                                                 *)
(***************************************************************************)
FieldNames == {"count", "total", "on", "blob", "marks", "inner"}
Carried(m, by) == IF by = "binary" THEN EncodeRpcMessage(m) ELSE RpcMessageToJson(m)
Arrived(m, by, reader) ==
  IF by = "binary" THEN DecodeRpcMessage(SchemaOf(reader), EncodeRpcMessage(m))
  ELSE HydrateRpcMessage(SchemaOf(reader), RpcMessageToJson(m))
\* A letter is what its original makes it.
LetterHolds(l) ==
  \/ l = NoLetter
  \/ \E m \in Originals, by \in {"binary", "json"}, reader \in {"same", "older"} :
       \/ l = [original |-> m, by |-> by, reader |-> reader, carried |-> << >>, arrived |-> << >>, step |-> "written"]
       \/ l = [original |-> m, by |-> by, reader |-> reader, carried |-> Carried(m, by), arrived |-> << >>, step |-> "carried"]
       \/ l = [original |-> m, by |-> by, reader |-> reader, carried |-> Carried(m, by), arrived |-> Arrived(m, by, reader),
               step |-> "arrived"]

\* What the two directions do to one number.
LEMMA ModulusIs ==
  /\ Modulus32 \in Nat \ {0} /\ Modulus64 \in Nat \ {0} /\ Modulus32 = 2 * (Int32Max + 1) /\ Modulus64 = 2 * (Int64Max + 1)
  /\ Int32Max \in Nat /\ Int64Max \in Nat /\ SafeInteger \in Nat /\ SafeInteger <= Int64Max /\ Int32Max <= Int64Max
  /\ \E k \in Nat \ {0} : Modulus64 = k * Modulus32
<1>1. Int32Max \in Nat /\ Int64Max \in Nat /\ SafeInteger \in Nat /\ SafeInteger <= Int64Max
  BY RpcEndpointsAssumption
<1>2. PICK k \in 1 .. Int64Max + 1 : Int64Max + 1 = k * (Int32Max + 1)
  BY RpcEndpointsAssumption
<1>3. k \in Nat \ {0}
  BY <1>1
<1>4. Modulus64 = k * Modulus32
  BY <1>1, <1>2, <1>3 DEF Modulus32, Modulus64
<1>5. k * (Int32Max + 1) >= Int32Max + 1
  BY <1>1, <1>3
<1>6. Int32Max <= Int64Max
  BY <1>1, <1>2, <1>5
<1>7. Modulus32 \in Nat \ {0} /\ Modulus64 \in Nat \ {0}
  BY <1>1 DEF Modulus32, Modulus64
<1> QED
  BY <1>1, <1>3, <1>4, <1>6, <1>7 DEF Modulus32, Modulus64

\* An int32, sent as 64 bits, is read back with its sign from the lower 32.
LEMMA Int32Survives == ASSUME NEW n \in -Int32Max - 1 .. Int32Max PROVE AsInt32(n % Modulus64) = Number(n)
<1>0. /\ Modulus32 \in Nat \ {0} /\ Modulus64 \in Nat \ {0} /\ Modulus32 = 2 * (Int32Max + 1) /\ Modulus64 = 2 * (Int64Max + 1)
      /\ Int32Max \in Nat /\ Int64Max \in Nat /\ Int32Max <= Int64Max /\ \E k \in Nat \ {0} : Modulus64 = k * Modulus32
  BY ModulusIs
<1> DEFINE M == Modulus32
           W == Modulus64
           raw == n % W
           low == raw % M
<1> HIDE DEF M, W
<1>1. n \in Int /\ -Int32Max - 1 <= n /\ n <= Int32Max
  BY <1>0
<1>4. AsInt32(raw) = Number(IF low > Int32Max THEN low - M ELSE low)
  BY DEF AsInt32, M
<1>2. ASSUME n >= 0 PROVE AsInt32(raw) = Number(n)
  <2>1. n \in 0 .. W - 1 /\ n \in 0 .. M - 1
    BY <1>0, <1>1, <1>2 DEF M, W
  <2>2. raw = n
    BY <1>0, <2>1, SmallModulus DEF W
  <2>3. n % M = n
    BY <1>0, <2>1, SmallModulus DEF M
  <2>4. low = n
    BY <2>2, <2>3
  <2> QED
    <3> HIDE DEF low
    <3>1. ~(low > Int32Max)
      BY <1>0, <1>1, <2>4
    <3>2. (IF low > Int32Max THEN low - M ELSE low) = n
      BY <2>4, <3>1
    <3> QED
      BY <1>4, <3>2
<1>3. ASSUME n < 0 PROVE AsInt32(raw) = Number(n)
  <2>1. n + W \in 0 .. W - 1 /\ n + M \in 0 .. M - 1
    BY <1>0, <1>1, <1>3 DEF M, W
  <2>2. raw = n + W
    BY <1>0, <2>1, SmallModulus, <1>1 DEF W
  <2>3. PICK k \in Nat \ {0} : W = k * M
    BY <1>0 DEF M, W
  <2>4. ((k - 1) * M + (n + M)) % M = n + M
    <3> DEFINE r == n + M
    <3>1. k - 1 \in Int /\ r \in 0 .. M - 1 /\ M \in Nat \ {0}
      BY <1>0, <2>1 DEF M
    <3> HIDE DEF r
    <3>2. ((k - 1) * M + r) % M = r
      BY <3>1, SmallModulus
    <3> QED
      BY <3>2 DEF r
  <2>5. (k - 1) * M + (n + M) = n + W
    BY <1>0, <1>1, <2>3 DEF M
  <2>6. low = n + M
    BY <2>2, <2>4, <2>5
  <2>7. n + M > Int32Max /\ (n + M) - M = n
    BY <1>0, <1>1 DEF M
  <2> QED
    <3> HIDE DEF low
    <3>1. low > Int32Max /\ low - M = n
      BY <2>6, <2>7
    <3>2. (IF low > Int32Max THEN low - M ELSE low) = n
      BY <3>1
    <3> QED
      BY <1>4, <3>2
<1>5. AsInt32(raw) = Number(n)
  BY <1>1, <1>2, <1>3
<1> QED
  BY <1>5 DEF W

\* A number that is not negative is sent as it is.
LEMMA PositiveSurvives == ASSUME NEW n \in 0 .. Int64Max PROVE n % Modulus64 = n
BY ModulusIs, SmallModulus

\* The schema, and where a field is on the wire.
LEMMA SchemaIs ==
  /\ DOMAIN FullSchema = FieldNames
  /\ FullSchema["count"] = WireField(1, "int32", FALSE) /\ FullSchema["total"] = WireField(2, "int64", FALSE)
  /\ FullSchema["on"] = WireField(3, "bool", FALSE) /\ FullSchema["blob"] = WireField(4, "bytes", FALSE)
  /\ FullSchema["marks"] = WireField(5, "int32", TRUE) /\ FullSchema["inner"] = WireField(6, "inner", FALSE)
  BY DEF FullSchema, FieldNames

\* What a reader knows of a field is what the writer knows.
LEMMA FieldIs ==
  ASSUME NEW reader \in {"same", "older"}
  PROVE  /\ DOMAIN SchemaOf(reader) \subseteq FieldNames
         /\ \A p \in DOMAIN SchemaOf(reader) : SchemaOf(reader)[p] = FullSchema[p]
  BY SchemaIs DEF SchemaOf, OlderSchema

\* The occurrences of a field are found under its number.
LEMMA OnTheWire ==
  ASSUME NEW m, NEW p \in FieldNames
  PROVE  EncodeRpcMessage(m)[FullSchema[p].number] =
           IF m[p] = Unset THEN << >>
           ELSE IF FullSchema[p].repeated THEN [k \in DOMAIN m[p].of |-> EncodeOne(FullSchema[p].type, m[p].of[k])]
           ELSE <<EncodeOne(FullSchema[p].type, m[p])>>
<1> DEFINE n == FullSchema[p].number
           Home == CHOOSE q \in DOMAIN FullSchema : FullSchema[q].number = n
<1>1. /\ FullSchema["count"].number = 1 /\ FullSchema["total"].number = 2 /\ FullSchema["on"].number = 3
      /\ FullSchema["blob"].number = 4 /\ FullSchema["marks"].number = 5 /\ FullSchema["inner"].number = 6
  BY SchemaIs DEF WireField
<1>2. n \in 1 .. 6
  BY <1>1 DEF FieldNames
<1>3. \A q \in FieldNames : FullSchema[q].number = n => q = p
  BY <1>1 DEF FieldNames
<1>4. Home = p
  BY <1>3, SchemaIs
<1>5. EncodeRpcMessage(m)[n] =
           IF m[Home] = Unset THEN << >>
           ELSE IF FullSchema[Home].repeated THEN [k \in DOMAIN m[Home].of |-> EncodeOne(FullSchema[Home].type, m[Home].of[k])]
           ELSE <<EncodeOne(FullSchema[Home].type, m[Home])>>
  BY <1>2 DEF EncodeRpcMessage
<1> HIDE DEF Home, n
<1>6. EncodeRpcMessage(m)[n] =
           IF m[p] = Unset THEN << >>
           ELSE IF FullSchema[p].repeated THEN [k \in DOMAIN m[p].of |-> EncodeOne(FullSchema[p].type, m[p].of[k])]
           ELSE <<EncodeOne(FullSchema[p].type, m[p])>>
  BY <1>4, <1>5
<1> QED
  BY <1>6 DEF n

\* The fields of an original.
LEMMA OriginalIs ==
  ASSUME NEW m \in Originals
  PROVE  /\ DOMAIN m = FieldNames
         /\ m["count"] = Unset \/ \E n \in -Int32Max - 1 .. Int32Max : m["count"] = Number(n)
         /\ \/ m["total"] = Unset \/ \E n \in -1 .. SafeInteger : m["total"] = Number(n)
            \/ \E n \in SafeInteger + 1 .. Int64Max : m["total"] = BigInt(n)
         /\ m["on"] = [is |-> "flag", n |-> 1]
         /\ m["blob"] = Unset \/ m["blob"] = [is |-> "bytes", n |-> 1]
         /\ m["marks"] = Unset \/ m["marks"] = ListOf(<< >>) \/ m["marks"] = ListOf(<<Number(0), Number(-1)>>)
         /\ m["inner"] = Unset \/ m["inner"] = NestedIn([count |-> Unset]) \/ m["inner"] = NestedIn([count |-> Number(-1)])
BY DEF Originals, FieldNames, Int32s, Int64s

\* What a reader makes of the occurrences of a field.
Occurrences(m, p) ==
  IF m[p] = Unset THEN << >>
  ELSE IF FullSchema[p].repeated THEN [k \in DOMAIN m[p].of |-> EncodeOne(FullSchema[p].type, m[p].of[k])]
  ELSE <<EncodeOne(FullSchema[p].type, m[p])>>
ValuesOf(p, o) == [k \in DOMAIN o |-> DecodeOne(FullSchema[p].type, o[k])]
ReadFrom(p, o) ==
  IF ValuesOf(p, o) = << >> THEN Unset
  ELSE IF FullSchema[p].repeated THEN ListOf(ValuesOf(p, o)) ELSE ValuesOf(p, o)[Len(ValuesOf(p, o))]

\* A field is read from its own occurrences.
LEMMA Decoded ==
  ASSUME NEW m, NEW reader \in {"same", "older"}, NEW p \in DOMAIN SchemaOf(reader)
  PROVE  DecodeRpcMessage(SchemaOf(reader), EncodeRpcMessage(m))[p] = ReadFrom(p, Occurrences(m, p))
<1>1. SchemaOf(reader)[p] = FullSchema[p] /\ p \in FieldNames
  BY FieldIs
<1>2. EncodeRpcMessage(m)[FullSchema[p].number] = Occurrences(m, p)
  BY <1>1, OnTheWire DEF Occurrences
<1> DEFINE w == EncodeRpcMessage(m)
           o == Occurrences(m, p)
           f == FullSchema[p]
           g == SchemaOf(reader)[p]
           values == [k \in DOMAIN w[g.number] |-> DecodeOne(g.type, w[g.number][k])]
<1>3. DecodeRpcMessage(SchemaOf(reader), w)[p] =
        IF values = << >> THEN Unset ELSE IF g.repeated THEN ListOf(values) ELSE values[Len(values)]
  BY DEF DecodeRpcMessage
<1>4. g = f /\ w[f.number] = o
  BY <1>1, <1>2
<1> HIDE DEF w, o, g, f
<1>5. values = [k \in DOMAIN o |-> DecodeOne(f.type, o[k])]
  BY <1>4
<1>6. values = ValuesOf(p, o)
  BY <1>5 DEF ValuesOf, f
<1> HIDE DEF values
<1>7. DecodeRpcMessage(SchemaOf(reader), w)[p] = ReadFrom(p, o)
  BY <1>3, <1>4, <1>6 DEF ReadFrom, f
<1> QED
  BY <1>7 DEF w, o

\* Nothing on the wire is read as nothing, one occurrence as itself.
LEMMA NothingRead == ASSUME NEW p, NEW o, DOMAIN o = {} PROVE ReadFrom(p, o) = Unset
BY DEF ValuesOf, ReadFrom

\* A field that is not repeated is read from its one occurrence.
LEMMA OneRead ==
  ASSUME NEW p, NEW e, FullSchema[p].repeated = FALSE
  PROVE  ReadFrom(p, <<e>>) = DecodeOne(FullSchema[p].type, e)
<1> DEFINE d == DecodeOne(FullSchema[p].type, e)
           v == ValuesOf(p, <<e>>)
<1>1. v = [k \in {1} |-> DecodeOne(FullSchema[p].type, <<e>>[k])]
  BY DEF ValuesOf
<1>2. DOMAIN v = 1 .. 1 /\ v[1] = d
  BY <1>1
<1>3. v = <<d>>
  <2>1. v = [k \in 1 .. 1 |-> v[k]]
    BY <1>1
  <2> HIDE DEF v, d
  <2>2. <<d>> = [k \in 1 .. 1 |-> v[k]]
    BY <1>2
  <2> QED
    BY <2>1, <2>2
<1> HIDE DEF v, d
<1>4. v # << >> /\ Len(v) = 1
  BY <1>3
<1>5. ReadFrom(p, <<e>>) = d
  BY <1>2, <1>4 DEF ReadFrom, v
<1> QED
  BY <1>5 DEF d

\* One value there and back.
LEMMA ValueSurvives ==
  /\ \A n \in -Int32Max - 1 .. Int32Max : DecodeOne("int32", EncodeOne("int32", Number(n))) = Number(n)
  /\ \A n \in 0 .. SafeInteger : DecodeOne("int64", EncodeOne("int64", Number(n))) = Number(n)
  /\ \A n \in SafeInteger + 1 .. Int64Max : DecodeOne("int64", EncodeOne("int64", BigInt(n))) = BigInt(n)
  /\ DecodeOne("bool", EncodeOne("bool", [is |-> "flag", n |-> 1])) = [is |-> "flag", n |-> 1]
  /\ DecodeOne("bytes", EncodeOne("bytes", [is |-> "bytes", n |-> 1])) = [is |-> "bytes", n |-> 1]
<1>0. SafeInteger \in Nat /\ Int64Max \in Nat /\ SafeInteger <= Int64Max /\ Int32Max \in Nat
  BY ModulusIs
<1>1. \A type \in {"int32", "int64", "bool"} : \A v : EncodeOne(type, v) = [wire |-> 0, n |-> v.n % Modulus64]
  BY DEF EncodeOne
<1>2. \A x : /\ DecodeOne("int32", [wire |-> 0, n |-> x]) = AsInt32(x)
             /\ DecodeOne("int64", [wire |-> 0, n |-> x]) = AsInt64(x)
             /\ DecodeOne("bool", [wire |-> 0, n |-> x]) = [is |-> "flag", n |-> IF x # 0 THEN 1 ELSE 0]
             /\ DecodeOne("bytes", [wire |-> 2, n |-> x]) = [is |-> "bytes", n |-> x]
  BY DEF DecodeOne
<1>3. ASSUME NEW n \in -Int32Max - 1 .. Int32Max PROVE DecodeOne("int32", EncodeOne("int32", Number(n))) = Number(n)
  BY <1>1, <1>2, Int32Survives DEF Number
<1>4. ASSUME NEW n \in 0 .. SafeInteger PROVE DecodeOne("int64", EncodeOne("int64", Number(n))) = Number(n)
  BY <1>0, PositiveSurvives, <1>1, <1>2 DEF Number, AsInt64
<1>5. ASSUME NEW n \in SafeInteger + 1 .. Int64Max PROVE DecodeOne("int64", EncodeOne("int64", BigInt(n))) = BigInt(n)
  BY <1>0, PositiveSurvives, <1>1, <1>2 DEF BigInt, AsInt64
<1>6. DecodeOne("bool", EncodeOne("bool", [is |-> "flag", n |-> 1])) = [is |-> "flag", n |-> 1]
  BY ModulusIs, SmallModulus, <1>1, <1>2
<1>7. DecodeOne("bytes", EncodeOne("bytes", [is |-> "bytes", n |-> 1])) = [is |-> "bytes", n |-> 1]
  BY <1>2 DEF EncodeOne
<1> QED
  BY <1>3, <1>4, <1>5, <1>6, <1>7

\* A nested message goes there and back.
LEMMA NestedSurvives ==
  ASSUME NEW m \in {[count |-> Unset], [count |-> Number(-1)]}
  PROVE  DecodeOne("inner", EncodeOne("inner", NestedIn(m))) = NestedIn(m)
<1>1. EncodeOne("inner", NestedIn(m)) = [wire |-> 2, in |-> EncodeNested(m)]
  BY DEF EncodeOne, NestedIn
<1>2. \A x : DecodeOne("inner", [wire |-> 2, in |-> x]) = NestedIn(DecodeNested(x))
  BY DEF DecodeOne
<1>3. DecodeNested(EncodeNested(m)) = m
  <2>1. EncodeNested(m)[1] = IF m.count = Unset THEN << >> ELSE <<[wire |-> 0, n |-> m.count.n % Modulus64]>>
    BY DEF EncodeNested
  <2>2. CASE m = [count |-> Unset]
    BY <2>1, <2>2 DEF DecodeNested
  <2>3. CASE m = [count |-> Number(-1)]
    <3>1. Number(-1) # Unset
      BY DEF Number, Unset
    <3>2. m.count # Unset /\ m.count.n = -1
      BY <2>3, <3>1 DEF Number
    <3>3. EncodeNested(m)[1] = <<[wire |-> 0, n |-> -1 % Modulus64]>>
      BY <2>1, <3>2
    <3>4. DecodeNested(EncodeNested(m)) = [count |-> AsInt32(-1 % Modulus64)]
      <4> DEFINE e == [wire |-> 0, n |-> -1 % Modulus64]
      <4>1. EncodeNested(m)[1] # << >> /\ EncodeNested(m)[1][1] = e
        BY <3>3
      <4>2. e.n = -1 % Modulus64
        OBVIOUS
      <4> QED
        BY <4>1, <4>2 DEF DecodeNested
    <3>5. -1 \in -Int32Max - 1 .. Int32Max
      BY ModulusIs
    <3> QED
      BY <2>3, <3>4, <3>5, Int32Survives
  <2> QED
    BY <2>2, <2>3
<1> QED
  BY <1>1, <1>2, <1>3

\* v, a field of an original, arrives as w, or is one of what a format cannot carry.
FieldSurvives(by, p, v, w) ==
  \/ w = v
  \/ by = "binary" /\ p = "total" /\ v.is = "number" /\ v.n < 0
  \/ by = "binary" /\ v = ListOf(<< >>) /\ w = Unset
  \/ by = "json" /\ v.is = "bigint"

\* Protobuf loses negative int64s and empty lists of an original, and nothing else.
LEMMA BinarySurvives ==
  ASSUME NEW m \in Originals, NEW reader \in {"same", "older"}, NEW p \in DOMAIN SchemaOf(reader)
  PROVE  FieldSurvives("binary", p, m[p], DecodeRpcMessage(SchemaOf(reader), EncodeRpcMessage(m))[p])
<1> DEFINE o == Occurrences(m, p)
           f == FullSchema[p]
<1>1. p \in FieldNames
  BY FieldIs
<1>2. SUFFICES FieldSurvives("binary", p, m[p], ReadFrom(p, o))
  BY Decoded
<1>3. ASSUME m[p] = Unset PROVE FieldSurvives("binary", p, m[p], ReadFrom(p, o))
  BY <1>3, NothingRead DEF Occurrences, FieldSurvives
<1>4. ASSUME m[p] # Unset, f.repeated = FALSE PROVE ReadFrom(p, o) = DecodeOne(f.type, EncodeOne(f.type, m[p]))
  BY <1>4, OneRead DEF Occurrences
<1> HIDE DEF o
<1>5. /\ FullSchema["count"].repeated = FALSE /\ FullSchema["count"].type = "int32"
      /\ FullSchema["total"].repeated = FALSE /\ FullSchema["total"].type = "int64"
      /\ FullSchema["on"].repeated = FALSE /\ FullSchema["on"].type = "bool"
      /\ FullSchema["blob"].repeated = FALSE /\ FullSchema["blob"].type = "bytes"
      /\ FullSchema["inner"].repeated = FALSE /\ FullSchema["inner"].type = "inner"
      /\ FullSchema["marks"].repeated = TRUE /\ FullSchema["marks"].type = "int32"
  BY SchemaIs DEF WireField
<1>6. ASSUME p = "count", m[p] # Unset PROVE ReadFrom(p, o) = m[p]
  BY <1>6, OriginalIs, <1>4, <1>5, ValueSurvives
<1>7. ASSUME p = "total", m[p] # Unset PROVE FieldSurvives("binary", p, m[p], ReadFrom(p, o))
  <2>1. \/ \E n \in -1 .. SafeInteger : m[p] = Number(n)
        \/ \E n \in SafeInteger + 1 .. Int64Max : m[p] = BigInt(n)
    BY <1>7, OriginalIs
  <2>2. ReadFrom(p, o) = DecodeOne("int64", EncodeOne("int64", m[p]))
    BY <1>4, <1>5, <1>7
  <2>3. ASSUME NEW n \in -1 .. SafeInteger, m[p] = Number(n) PROVE FieldSurvives("binary", p, m[p], ReadFrom(p, o))
    <3>1. CASE n < 0
      BY <2>3, <3>1, <1>7 DEF Number, FieldSurvives
    <3>2. CASE n >= 0
      BY <3>2, ModulusIs, <2>2, <2>3, ValueSurvives DEF FieldSurvives
    <3> QED
      BY <3>1, <3>2, ModulusIs
  <2>4. ASSUME NEW n \in SafeInteger + 1 .. Int64Max, m[p] = BigInt(n)
        PROVE FieldSurvives("binary", p, m[p], ReadFrom(p, o))
    BY <2>2, <2>4, ValueSurvives DEF FieldSurvives
  <2> QED
    BY <2>1, <2>3, <2>4
<1>8. ASSUME p = "on" PROVE ReadFrom(p, o) = m[p]
  <2>1. m[p] = [is |-> "flag", n |-> 1] /\ m[p] # Unset
    BY <1>8, OriginalIs DEF Unset
  <2> QED
    BY <1>4, <1>5, <1>8, <2>1, ValueSurvives
<1>9. ASSUME p = "blob", m[p] # Unset PROVE ReadFrom(p, o) = m[p]
  BY <1>9, OriginalIs, <1>4, <1>5, ValueSurvives
<1>10. ASSUME p = "inner", m[p] # Unset PROVE ReadFrom(p, o) = m[p]
  BY <1>10, OriginalIs, <1>4, <1>5, NestedSurvives
<1>11. ASSUME p = "marks", m[p] # Unset PROVE FieldSurvives("binary", p, m[p], ReadFrom(p, o))
  <2>1. o = [k \in DOMAIN m[p].of |-> EncodeOne("int32", m[p].of[k])]
    BY <1>5, <1>11 DEF Occurrences, o
  <2>2. m[p] = ListOf(<< >>) \/ m[p] = ListOf(<<Number(0), Number(-1)>>)
    BY <1>11, OriginalIs
  <2>3. CASE m[p] = ListOf(<< >>)
    BY <2>3, <2>1, NothingRead DEF ListOf, FieldSurvives
  <2>4. CASE m[p] = ListOf(<<Number(0), Number(-1)>>)
    <3> DEFINE s == <<Number(0), Number(-1)>>
    <3>1. m[p].of = s
      BY <2>4 DEF ListOf
    <3>2. s[1] = Number(0) /\ s[2] = Number(-1) /\ DOMAIN s = 1 .. 2 /\ s = [k \in 1 .. 2 |-> s[k]] /\ s # << >>
      OBVIOUS
    <3> HIDE DEF s
    <3>3. 0 \in -Int32Max - 1 .. Int32Max /\ -1 \in -Int32Max - 1 .. Int32Max
      BY ModulusIs
    <3>4. \A k \in 1 .. 2 : DecodeOne("int32", EncodeOne("int32", s[k])) = s[k]
      BY <3>2, <3>3, ValueSurvives
    <3>5. o = [k \in 1 .. 2 |-> EncodeOne("int32", s[k])]
      BY <2>1, <3>1, <3>2
    <3>6. ValuesOf(p, o) = [k \in DOMAIN o |-> DecodeOne("int32", o[k])]
      BY <1>5, <1>11 DEF ValuesOf
    <3>7. DOMAIN o = 1 .. 2 /\ \A k \in 1 .. 2 : o[k] = EncodeOne("int32", s[k])
      BY <3>5
    <3>8. ValuesOf(p, o) = [k \in 1 .. 2 |-> DecodeOne("int32", EncodeOne("int32", s[k]))]
      BY <3>6, <3>7
    <3>9. ValuesOf(p, o) = s
      BY <3>2, <3>4, <3>8
    <3>10. ReadFrom(p, o) = ListOf(s)
      BY <1>5, <1>11, <3>2, <3>9 DEF ReadFrom
    <3>11. ReadFrom(p, o) = m[p]
      BY <2>4, <3>10 DEF s
    <3> QED
      BY <3>11 DEF FieldSurvives
  <2> QED
    BY <2>2, <2>3, <2>4
<1> QED
  <2>1. p = "count" \/ p = "total" \/ p = "on" \/ p = "blob" \/ p = "marks" \/ p = "inner"
    BY <1>1 DEF FieldNames
  <2>2. ReadFrom(p, o) = m[p] => FieldSurvives("binary", p, m[p], ReadFrom(p, o))
    BY DEF FieldSurvives
  <2> QED
    BY <1>3, <1>6, <1>7, <1>8, <1>9, <1>10, <1>11, <2>1, <2>2

\* JSON loses bigints of an original, and nothing else.
LEMMA JsonSurvives ==
  ASSUME NEW m \in Originals, NEW reader \in {"same", "older"}, NEW p \in DOMAIN SchemaOf(reader)
  PROVE  FieldSurvives("json", p, m[p], HydrateRpcMessage(SchemaOf(reader), RpcMessageToJson(m))[p])
<1> DEFINE j == RpcMessageToJson(m)
           h == HydrateRpcMessage(SchemaOf(reader), j)[p]
<1>1. p \in FieldNames /\ DOMAIN m = FieldNames /\ SchemaOf(reader)[p] = FullSchema[p]
  BY FieldIs, OriginalIs
<1>2. j[p] = IF m[p].is = "list" THEN ListOf([k \in DOMAIN m[p].of |-> JsonOne(m[p].of[k])]) ELSE JsonOne(m[p])
  BY <1>1 DEF RpcMessageToJson
<1> HIDE DEF j
<1>3. h = IF SchemaOf(reader)[p].type = "bytes" /\ j[p].is = "base64" THEN [is |-> "bytes", n |-> j[p].n] ELSE j[p]
  BY DEF HydrateRpcMessage
<1>4. h = IF FullSchema[p].type = "bytes" /\ j[p].is = "base64" THEN [is |-> "bytes", n |-> j[p].n] ELSE j[p]
  BY <1>1, <1>3
<1> HIDE DEF h
<1>5. /\ FullSchema["count"].type = "int32" /\ FullSchema["total"].type = "int64" /\ FullSchema["on"].type = "bool"
      /\ FullSchema["blob"].type = "bytes" /\ FullSchema["inner"].type = "inner" /\ FullSchema["marks"].type = "int32"
  BY SchemaIs DEF WireField
<1>6. ASSUME m[p].is \notin {"list", "bytes", "bigint", "base64"} PROVE h = m[p]
  BY <1>2, <1>6, <1>4 DEF JsonOne
<1>7. \A n : Number(n).is = "number" /\ BigInt(n).is = "bigint"
  BY DEF Number, BigInt
<1>8. Unset.is = "absent" /\ \A x : NestedIn(x).is = "message" /\ ListOf(x).is = "list"
  BY DEF Unset, NestedIn, ListOf
<1>9. ASSUME p = "blob", m[p] = [is |-> "bytes", n |-> 1] PROVE h = m[p]
  BY <1>9, <1>2, <1>4, <1>5 DEF JsonOne
<1>10. ASSUME p = "marks", m[p] # Unset PROVE h = m[p]
  <2>1. PICK s \in {<< >>, <<Number(0), Number(-1)>>} : m[p] = ListOf(s)
    BY <1>10, OriginalIs
  <2>2. m[p].is = "list" /\ m[p].of = s
    BY <2>1 DEF ListOf
  <2>3. \A n : JsonOne(Number(n)) = Number(n)
    BY <1>7 DEF JsonOne
  <2>4. [k \in DOMAIN s |-> JsonOne(s[k])] = s
    <3>1. CASE s = << >>
      BY <3>1
    <3>2. CASE s = <<Number(0), Number(-1)>>
      BY <3>2, <2>3
    <3> QED
      BY <3>1, <3>2
  <2>5. j[p] = m[p]
    BY <1>2, <2>1, <2>2, <2>4
  <2> QED
    BY <1>4, <1>5, <1>10, <2>5
<1>11. p = "count" \/ p = "total" \/ p = "on" \/ p = "blob" \/ p = "marks" \/ p = "inner"
  BY <1>1 DEF FieldNames
<1>12. ASSUME m[p] = Unset PROVE h = m[p]
  BY <1>6, <1>8, <1>12
<1>13. ASSUME p = "count" PROVE h = m[p]
  BY <1>7, <1>13, OriginalIs, <1>6, <1>12
<1>14. ASSUME p = "total" PROVE h = m[p] \/ m[p].is = "bigint"
  BY <1>7, <1>14, OriginalIs, <1>6, <1>12
<1>15. ASSUME p = "on" PROVE h = m[p]
  BY <1>15, OriginalIs, <1>6
<1>16. ASSUME p = "inner" PROVE h = m[p]
  BY <1>8, <1>16, OriginalIs, <1>6, <1>12
<1>17. ASSUME p = "blob" PROVE h = m[p]
  BY <1>9, <1>12, <1>17, OriginalIs
<1>18. ASSUME p = "marks" PROVE h = m[p]
  BY <1>10, <1>12, <1>18
<1>19. h = m[p] \/ m[p].is = "bigint"
  BY <1>11, <1>13, <1>14, <1>15, <1>16, <1>17, <1>18
<1>20. FieldSurvives("json", p, m[p], h)
  BY <1>19 DEF FieldSurvives
<1> QED
  BY <1>20 DEF h, j

\* Every letter that arrives has gone one of the two ways.
LEMMA LettersSurvive == ASSUME LetterHolds(letter) PROVE MessagesSurvive
<1> SUFFICES ASSUME letter.step = "arrived", NEW q \in DOMAIN letter.arrived
             PROVE  FieldSurvives(letter.by, q, letter.original[q], letter.arrived[q])
  BY DEF MessagesSurvive, FieldSurvives
<1>1. letter # NoLetter
  BY DEF NoLetter
<1>2. PICK m \in Originals, by \in {"binary", "json"}, reader \in {"same", "older"} :
         letter = [original |-> m, by |-> by, reader |-> reader, carried |-> Carried(m, by),
                   arrived |-> Arrived(m, by, reader), step |-> "arrived"]
  BY <1>1 DEF LetterHolds
<1>3. letter.by = by /\ letter.original = m /\ letter.arrived = Arrived(m, by, reader)
  BY <1>2
<1>4. DOMAIN Arrived(m, by, reader) = DOMAIN SchemaOf(reader)
  BY DEF Arrived, DecodeRpcMessage, HydrateRpcMessage
<1>5. CASE by = "binary"
  BY <1>3, <1>4, <1>5, BinarySurvives DEF Arrived
<1>6. CASE by = "json"
  BY <1>3, <1>4, <1>6, JsonSurvives DEF Arrived
<1> QED
  BY <1>5, <1>6

\* A letter is carried and arrives as its original makes it.
LEMMA LetterKept == ASSUME LetterHolds(letter), LetterNext \/ UNCHANGED letter PROVE LetterHolds(letter')
<1>1. CASE UNCHANGED letter
  BY <1>1 DEF LetterHolds
<1>2. ASSUME Carry PROVE LetterHolds(letter')
  <2>1. letter.step = "written"
    BY <1>2 DEF Carry
  <2>2. PICK m \in Originals, by \in {"binary", "json"}, reader \in {"same", "older"} :
           letter = [original |-> m, by |-> by, reader |-> reader, carried |-> << >>, arrived |-> << >>, step |-> "written"]
    BY <2>1 DEF LetterHolds, NoLetter
  <2>3. letter.by = by /\ letter.original = m
    BY <2>2
  <2>4. letter' = [letter EXCEPT !.step = "carried", !.carried = Carried(m, by)]
    BY <1>2, <2>3 DEF Carry, Carried
  <2>5. letter' = [original |-> m, by |-> by, reader |-> reader, carried |-> Carried(m, by), arrived |-> << >>, step |-> "carried"]
    BY <2>2, <2>4
  <2> QED
    BY <2>5 DEF LetterHolds
<1>3. ASSUME LetterArrives PROVE LetterHolds(letter')
  <2>1. letter.step = "carried"
    BY <1>3 DEF LetterArrives
  <2>2. PICK m \in Originals, by \in {"binary", "json"}, reader \in {"same", "older"} :
           letter = [original |-> m, by |-> by, reader |-> reader, carried |-> Carried(m, by), arrived |-> << >>, step |-> "carried"]
    BY <2>1 DEF LetterHolds, NoLetter
  <2>3. letter.by = by /\ letter.original = m /\ letter.reader = reader /\ letter.carried = Carried(m, by)
    BY <2>2
  <2>4. letter' = [letter EXCEPT !.step = "arrived", !.arrived = Arrived(m, by, reader)]
    BY <1>3, <2>3 DEF LetterArrives, Carried, Arrived
  <2>5. letter' = [original |-> m, by |-> by, reader |-> reader, carried |-> Carried(m, by),
                   arrived |-> Arrived(m, by, reader), step |-> "arrived"]
    BY <2>2, <2>4
  <2> QED
    BY <2>5 DEF LetterHolds
<1> QED
  BY <1>1, <1>2, <1>3 DEF LetterNext

(***************************************************************************)
(* The theorem.                                                            *)
(***************************************************************************)
RpcIInv ==
  /\ RoundHolds(round) /\ LetterHolds(letter) /\ ServersHold /\ ExchangeHolds(exchange) /\ StreamHolds(pushStream)

\* Without servers there is nothing to reach.
LEMMA ServersStart ==
  ASSUME servers = << >>, starting = {}, fresh = {}, activeHandles = {}, stopping = {}, crossed = FALSE,
         lineOf \in [RpcHosts -> Lines], handleOf = [s \in RpcHosts \union {"all"} |-> 0]
  PROVE  ServersHold
<1>1. servers \in Seq(ServerRecords) /\ DOMAIN servers = {}
  BY EmptySeq
<1>2. handleOf \in [ServerOwners -> {0} \union DOMAIN servers] /\ handleOf["all"] = 0
  BY DEF ServerOwners
<1>3. ServerTypes
  BY <1>1, <1>2 DEF ServerTypes
<1> QED
  BY <1>1, <1>3 DEF ServersHold

\* The first states of the endpoints satisfy the invariant of each machine.
LEMMA RpcStarts == ASSUME RpcEndpointsInit PROVE RpcIInv
<1>1. RoundHolds(round)
  BY NewRoundHolds DEF RpcEndpointsInit
<1>2. LetterHolds(letter)
  <2>1. CASE letter = NoLetter
    BY <2>1 DEF LetterHolds
  <2>2. CASE letter \in [original : Originals, by : {"binary", "json"}, reader : {"same", "older"}, carried : {<< >>},
                         arrived : {<< >>}, step : {"written"}]
    <3>1. letter = [original |-> letter.original, by |-> letter.by, reader |-> letter.reader, carried |-> << >>,
                    arrived |-> << >>, step |-> "written"]
      BY <2>2
    <3>2. letter.original \in Originals /\ letter.by \in {"binary", "json"} /\ letter.reader \in {"same", "older"}
      BY <2>2
    <3> DEFINE m == letter.original
               by == letter.by
               reader == letter.reader
    <3> HIDE DEF m, by, reader
    <3>3. /\ m \in Originals /\ by \in {"binary", "json"} /\ reader \in {"same", "older"}
          /\ letter = [original |-> m, by |-> by, reader |-> reader, carried |-> << >>, arrived |-> << >>, step |-> "written"]
      BY <3>1, <3>2 DEF m, by, reader
    <3> QED
      BY <3>3 DEF LetterHolds
  <2>3. letter \in IF endpoint = "wire"
                   THEN [original : Originals, by : {"binary", "json"}, reader : {"same", "older"}, carried : {<< >>},
                         arrived : {<< >>}, step : {"written"}]
                   ELSE {NoLetter}
    BY DEF RpcEndpointsInit
  <2> QED
    BY <2>1, <2>2, <2>3
<1>3. ServersHold
  <2>1. lineOf \in [RpcHosts -> Lines]
    BY DEF RpcEndpointsInit, Lines
  <2> QED
    BY <2>1, ServersStart DEF RpcEndpointsInit
<1>4. ExchangeHolds(exchange)
  BY NewExchangeHolds DEF RpcEndpointsInit
<1>5. StreamHolds(pushStream)
  BY NewStreamHolds DEF RpcEndpointsInit
<1> QED
  BY <1>1, <1>2, <1>3, <1>4, <1>5 DEF RpcIInv

\* One machine moves at a time, and keeps its own invariant.
LEMMA RpcKept == ASSUME RpcIInv, RpcEndpointsNext \/ UNCHANGED endpointVars PROVE RpcIInv'
<1>1. BatchNext \/ UNCHANGED round
  BY DEF RpcEndpointsNext, endpointVars
<1>2. LetterNext \/ UNCHANGED letter
  BY DEF RpcEndpointsNext, endpointVars
<1>3. ServersNext \/ UNCHANGED serverVars
  BY DEF RpcEndpointsNext, endpointVars, serverVars
<1>4. RouteNext \/ UNCHANGED exchange
  BY DEF RpcEndpointsNext, endpointVars
<1>5. ReaderNext \/ UNCHANGED pushStream
  BY DEF RpcEndpointsNext, endpointVars
<1>6. ServersHold'
  BY <1>3, ServersKept DEF RpcIInv
<1>7. RoundHolds(round') /\ LetterHolds(letter') /\ ExchangeHolds(exchange') /\ StreamHolds(pushStream')
  BY <1>1, <1>2, <1>4, <1>5, BatchKept, LetterKept, ExchangeKept, StreamKept DEF RpcIInv
<1>8. RoundHolds(round)' /\ LetterHolds(letter)' /\ ExchangeHolds(exchange)' /\ StreamHolds(pushStream)'
  BY <1>7 DEF RoundHolds, LetterHolds, ExchangeHolds, StreamHolds
<1> QED
  BY <1>6, <1>8 DEF RpcIInv

\* The invariants of the five machines say what the properties ask.
LEMMA RpcHolds ==
  ASSUME RpcIInv PROVE BatchGoesOutWhole /\ MessagesSurvive /\ ServersReached /\ ExchangeWhole /\ NothingLost
  BY BatchHolds, LettersSurvive, ServersAreReached, ExchangeIsWhole, StreamLosesNothing DEF RpcIInv

\* The two ends of rpc (client.ts:41-108, 640-694; schema/messages.ts:87-238; decorators.ts:203-332;
\* adapters/grpc.ts:61-314), however many calls, hosts, readers and interceptors there are.
THEOREM EndpointsHold ==
  RpcEndpointsSpec => [](BatchGoesOutWhole /\ MessagesSurvive /\ ServersReached /\ ExchangeWhole /\ NothingLost)
<1>1. RpcEndpointsInit => RpcIInv
  BY RpcStarts
<1>2. RpcIInv /\ [RpcEndpointsNext]_endpointVars => RpcIInv'
  BY RpcKept
<1>3. RpcIInv => BatchGoesOutWhole /\ MessagesSurvive /\ ServersReached /\ ExchangeWhole /\ NothingLost
  BY RpcHolds
<1> QED
  BY <1>1, <1>2, <1>3, PTL DEF RpcEndpointsSpec

(***************************************************************************)
(* TypeGraph: a graph that is built is the one of its slice, and every      *)
(* property is of what the program declares.                                *)
(***************************************************************************)
ProgramIs ==
  /\ home \in [Types -> AllContexts] /\ interfaceHome \in AllContexts /\ boundary \subseteq Types
GraphIs(S) ==
  \/ graphs[S] = NotBuilt
  \/ graphs[S] = FailedGraph /\ BuildFails(S)
  \/ graphs[S] = Graph(S) /\ ~BuildFails(S)
GraphIInv ==
  /\ ProgramIs
  /\ DOMAIN graphs = Selections
  /\ \A S \in Selections : GraphIs(S)

\* What tells names apart is what they begin with.
LEMMA NamesAre ==
  /\ \A t : Type(t)[1] = "type" /\ Type(t)[2] = t
  /\ \A t : ConnectionOver(t)[1] = "connection" /\ ConnectionOver(t)[2] = t
  /\ \A t : EdgeOf(t)[1] = "edge" /\ EdgeOf(t)[2] = t
  /\ \A c : Portal(c)[1] = "portal" /\ Portal(c)[2] = c
  /\ Union[1] = "union" /\ Interface[1] = "interface" /\ PageInfo[1] = "PageInfo"
  /\ KeyField[1] = "key" /\ NameField[1] = "name"
  /\ \A r \in Roots : r[1] \in {"Query", "Mutation"}
BY DEF Type, ConnectionOver, EdgeOf, Portal, Union, Interface, PageInfo, KeyField, NameField, Roots

LEMMA ReturnsIs ==
  \A owner, ref, context : /\ Returns(owner, ref, context).owner = owner
                           /\ Returns(owner, ref, context).ref = ref
                           /\ Returns(owner, ref, context).context = context
BY DEF Returns

\* What a declaration may refer to.
LEMMA DeclaredIs ==
  \A owner : \A r \in Declared(owner) :
    r = Union \/ r = Interface \/ \E t \in Types : r = Type(t) \/ r = ConnectionOver(t)
BY DEF Declared, References

\* The fields of each pass, one at a time.
LEMMA OwnField ==
  ASSUME NEW S, NEW f
  PROVE  f \in OwnFields(S) <=>
           \E t, r : /\ f = Returns(Type(t), r, home[t])
                     /\ \/ t \in Owned(S) /\ r \in Declared(Type(t))
                        \/ t \in (Owned(S) \union Stubs(S)) \intersect boundary /\ r = KeyField
<1>1. \A owner : Declared(owner) \subseteq References
  BY DEF Declared
<1>2. ASSUME NEW p \in {q \in Owned(S) \X References : q[2] \in Declared(Type(q[1]))}
      PROVE  p[1] \in Owned(S) /\ p[2] \in Declared(Type(p[1]))
  OBVIOUS
<1>3. ASSUME NEW t \in Owned(S), NEW r \in Declared(Type(t))
      PROVE  Returns(Type(t), r, home[t])
               \in {Returns(Type(p[1]), p[2], home[p[1]]) : p \in {q \in Owned(S) \X References : q[2] \in Declared(Type(q[1]))}}
  <2>1. <<t, r>> \in {q \in Owned(S) \X References : q[2] \in Declared(Type(q[1]))}
    BY <1>1
  <2>2. <<t, r>>[1] = t /\ <<t, r>>[2] = r
    OBVIOUS
  <2> QED
    BY <2>1, <2>2
<1> QED
  BY <1>2, <1>3 DEF OwnFields

LEMMA InterfaceField ==
  ASSUME NEW f
  PROVE  f \in InterfaceFields <=>
           \E r \in Declared(Interface) \union {NameField} : f = Returns(Interface, r, interfaceHome)
BY DEF InterfaceFields

LEMMA InheritedField ==
  ASSUME NEW S, NEW f
  PROVE  f \in Inherited(S) <=>
           \E t \in Implementers \intersect (Owned(S) \union Stubs(S)) : \E r \in Declared(Interface) \union {NameField} :
             /\ f = Returns(Type(t), r, home[t])
             /\ ~\E g \in OwnFields(S) : g.owner = Type(t) /\ g.ref = r
<1> DEFINE inherits(t) == {i \in InterfaceFields : ~\E g \in OwnFields(S) : g.owner = Type(t) /\ g.ref = i.ref}
           here == Implementers \intersect (Owned(S) \union Stubs(S))
<1>1. f \in Inherited(S) <=> \E t \in here : \E i \in inherits(t) : f = Returns(Type(t), i.ref, home[t])
  BY DEF Inherited
<1>2. ASSUME NEW t \in here, NEW i \in inherits(t), f = Returns(Type(t), i.ref, home[t])
      PROVE  \E r \in Declared(Interface) \union {NameField} :
               f = Returns(Type(t), r, home[t]) /\ ~\E g \in OwnFields(S) : g.owner = Type(t) /\ g.ref = r
  BY <1>2, InterfaceField, ReturnsIs
<1>3. ASSUME NEW t \in here, NEW r \in Declared(Interface) \union {NameField}, f = Returns(Type(t), r, home[t]),
             ~\E g \in OwnFields(S) : g.owner = Type(t) /\ g.ref = r
      PROVE  \E i \in inherits(t) : f = Returns(Type(t), i.ref, home[t])
  <2>1. Returns(Interface, r, interfaceHome).ref = r
    BY ReturnsIs
  <2>2. Returns(Interface, r, interfaceHome) \in inherits(t)
    BY <1>3, <2>1, InterfaceField
  <2> QED
    BY <1>3, <2>1, <2>2
<1> HIDE DEF inherits
<1>4. ASSUME NEW t \in here
      PROVE  (\E i \in inherits(t) : f = Returns(Type(t), i.ref, home[t]))
               <=> \E r \in Declared(Interface) \union {NameField} :
                     f = Returns(Type(t), r, home[t]) /\ ~\E g \in OwnFields(S) : g.owner = Type(t) /\ g.ref = r
  BY <1>2, <1>3
<1> QED
  BY <1>1, <1>4

LEMMA ExtendedField ==
  ASSUME NEW S, NEW f
  PROVE  f \in Extended(S) <=>
           \E c \in S : \E t \in Types : \E r \in Declared(Extending(c, t)) :
             t \in Owned(S) \union Stubs(S) /\ f = Returns(Type(t), r, c)
<1>1. f \in Extended(S) <=> \E e \in Extensions(S) : \E r \in Declared(Extending(e[1], e[2])) : f = Returns(Type(e[2]), r, e[1])
  BY DEF Extended
<1>2. ASSUME NEW e \in Extensions(S)
      PROVE  e[1] \in S /\ e[2] \in Types /\ e[2] \in Owned(S) \union Stubs(S)
  BY DEF Extensions
<1>3. ASSUME NEW c \in S, NEW t \in Types, NEW r \in Declared(Extending(c, t)), t \in Owned(S) \union Stubs(S)
      PROVE  <<c, t>> \in Extensions(S) /\ <<c, t>>[1] = c /\ <<c, t>>[2] = t
  BY <1>3 DEF Extensions
<1>4. ASSUME NEW e \in Extensions(S), NEW r \in Declared(Extending(e[1], e[2])), f = Returns(Type(e[2]), r, e[1])
      PROVE  \E c \in S : \E t \in Types : \E q \in Declared(Extending(c, t)) :
               t \in Owned(S) \union Stubs(S) /\ f = Returns(Type(t), q, c)
  BY <1>2, <1>4
<1>5. ASSUME NEW c \in S, NEW t \in Types, NEW r \in Declared(Extending(c, t)),
             t \in Owned(S) \union Stubs(S), f = Returns(Type(t), r, c)
      PROVE  \E e \in Extensions(S) : \E q \in Declared(Extending(e[1], e[2])) : f = Returns(Type(e[2]), q, e[1])
  <2>1. <<c, t>> \in Extensions(S) /\ <<c, t>>[1] = c /\ <<c, t>>[2] = t
    BY <1>3, <1>5
  <2> QED
    BY <1>5, <2>1
<1> QED
  BY <1>1, <1>4, <1>5, Zenon

LEMMA RootField ==
  ASSUME NEW S, NEW f
  PROVE  f \in RootFields(S) <=>
           \/ \E c \in S : \E r \in Declared(Portal(c)) : f = Returns(<<"Query">>, r, c)
           \/ \E t \in Acting \intersect Owned(S) : f = Returns(<<"Mutation">>, Type(t), home[t])
BY DEF RootFields, QueryFields, MutationFields

LEMMA SyntheticField ==
  ASSUME NEW S, NEW f
  PROVE  f \in Synthetic(S) <=>
           \E t \in Paged(S) : \/ f = Returns(ConnectionOver(t), EdgeOf(t), ConnectionContext(t))
                               \/ f = Returns(ConnectionOver(t), PageInfo, ConnectionContext(t))
                               \/ f = Returns(EdgeOf(t), Type(t), ConnectionContext(t))
BY DEF Synthetic

LEMMA ObjectIs ==
  ASSUME NEW S, NEW o
  PROVE  o \in Objects(S) <=>
           \/ \E t \in Owned(S) : o = Type(t)
           \/ o \in Mentioned(S) /\ \E t \in Stubs(S) : o = Type(t)
           \/ \E t \in Paged(S) : o \in {ConnectionOver(t), EdgeOf(t), PageInfo}
BY DEF Objects, Kept, SyntheticObjects

\* Selecting every context leaves no stubs.
LEMMA WholeProgram ==
  ASSUME ProgramIs
  PROVE  /\ Owned(Contexts) = Types /\ Stubs(Contexts) = {} /\ Contexts \in Selections
         /\ \A S : Owned(S) \subseteq Types /\ Stubs(S) \subseteq Types /\ Owned(S) \intersect Stubs(S) = {}
         /\ \A S : Stubs(S) \subseteq boundary
BY DEF ProgramIs, Owned, Stubs, InSelectedContext, AllContexts, Selections

\* Whose fields these are.
LEMMA TypeFieldIs ==
  ASSUME ProgramIs, NEW S, NEW f \in TypeFields(S)
  PROVE  \E t \in Types : f.owner = Type(t) /\ t \in Owned(S) \union Stubs(S)
<1>1. CASE f \in OwnFields(S)
  BY <1>1, OwnField, ReturnsIs, WholeProgram
<1>2. CASE f \in Inherited(S)
  BY <1>2, InheritedField, ReturnsIs, WholeProgram
<1>3. CASE f \in Extended(S)
  BY <1>3, ExtendedField, ReturnsIs
<1> QED
  BY <1>1, <1>2, <1>3 DEF TypeFields

LEMMA SyntheticIs ==
  ASSUME NEW S, NEW f \in Synthetic(S)
  PROVE  \E t \in Paged(S) : f.owner \in {ConnectionOver(t), EdgeOf(t)} /\ f.ref \in {EdgeOf(t), PageInfo, Type(t)}
BY SyntheticField, ReturnsIs

LEMMA RootIs ==
  ASSUME NEW S, NEW f \in RootFields(S)
  PROVE  f.owner \in Roots
BY RootField, ReturnsIs DEF Roots

\* Whatever a slice has, the whole program has: a stub has no field that an interface gives
\* it where the type declares the same field itself.
LEMMA Grows ==
  ASSUME ProgramIs, NEW S \in SUBSET Contexts
  PROVE  /\ OwnFields(S) \subseteq OwnFields(Contexts)
         /\ Inherited(S) \subseteq OwnFields(Contexts) \union Inherited(Contexts)
         /\ Extended(S) \subseteq Extended(Contexts) /\ Extensions(S) \subseteq Extensions(Contexts)
         /\ QueryFields(S) \subseteq QueryFields(Contexts) /\ RootFields(S) \subseteq RootFields(Contexts)
         /\ TypeFields(S) \subseteq TypeFields(Contexts)
<1>1. ASSUME NEW f \in OwnFields(S) PROVE f \in OwnFields(Contexts)
  <2>1. PICK t, r : /\ f = Returns(Type(t), r, home[t])
                    /\ \/ t \in Owned(S) /\ r \in Declared(Type(t))
                       \/ t \in (Owned(S) \union Stubs(S)) \intersect boundary /\ r = KeyField
    BY OwnField
  <2>2. \/ t \in Owned(Contexts) /\ r \in Declared(Type(t))
        \/ t \in (Owned(Contexts) \union Stubs(Contexts)) \intersect boundary /\ r = KeyField
    BY <2>1, WholeProgram
  <2> QED
    BY <2>1, <2>2, OwnField
<1>2. ASSUME NEW f \in Inherited(S) PROVE f \in OwnFields(Contexts) \union Inherited(Contexts)
  <2>1. PICK t \in Implementers \intersect (Owned(S) \union Stubs(S)) :
          \E q \in Declared(Interface) \union {NameField} : f = Returns(Type(t), q, home[t])
    BY InheritedField
  <2>2. PICK r \in Declared(Interface) \union {NameField} : f = Returns(Type(t), r, home[t])
    BY <2>1
  <2>3. t \in Implementers \intersect (Owned(Contexts) \union Stubs(Contexts))
    BY WholeProgram
  <2>4. CASE \E g \in OwnFields(Contexts) : g.owner = Type(t) /\ g.ref = r
    <3>1. PICK g \in OwnFields(Contexts) : g.owner = Type(t) /\ g.ref = r
      BY <2>4
    <3>2. PICK u, q : g = Returns(Type(u), q, home[u])
      BY OwnField
    <3>3. Type(u) = Type(t) /\ q = r
      BY <3>1, <3>2, ReturnsIs
    <3>4. u = t
      BY <3>3, NamesAre
    <3> QED
      BY <2>2, <3>2, <3>3, <3>4
  <2>5. CASE ~\E g \in OwnFields(Contexts) : g.owner = Type(t) /\ g.ref = r
    BY <2>2, <2>3, <2>5, InheritedField
  <2> QED
    BY <2>4, <2>5
<1>3. ASSUME NEW f \in Extended(S) PROVE f \in Extended(Contexts)
  <2>1. PICK c \in S, t \in Types : \E r \in Declared(Extending(c, t)) : f = Returns(Type(t), r, c)
    BY ExtendedField
  <2>2. c \in Contexts /\ t \in Owned(Contexts) \union Stubs(Contexts)
    BY WholeProgram
  <2> QED
    BY <2>1, <2>2, ExtendedField
<1>4. Extensions(S) \subseteq Extensions(Contexts)
  BY WholeProgram DEF Extensions
<1>5. QueryFields(S) \subseteq QueryFields(Contexts)
  BY DEF QueryFields
<1>6. MutationFields(S) \subseteq MutationFields(Contexts)
  BY WholeProgram DEF MutationFields
<1> QED
  BY <1>1, <1>2, <1>3, <1>4, <1>5, <1>6 DEF TypeFields, RootFields

LEMMA GrowsWithPages ==
  ASSUME ProgramIs, NEW S \in SUBSET Contexts
  PROVE  /\ ResolvedTypes(S) \subseteq ResolvedTypes(Contexts)
         /\ Synthetic(S) \subseteq Synthetic(Contexts)
         /\ Objects(S) \subseteq Objects(Contexts)
         /\ EmittedFields(S) \subseteq EmittedFields(Contexts)
<1>1. ResolvedTypes(S) \subseteq ResolvedTypes(Contexts)
  BY Grows DEF ResolvedTypes
<1>2. Paged(S) \subseteq Paged(Contexts)
  BY <1>1 DEF Paged
<1>3. Synthetic(S) \subseteq Synthetic(Contexts)
  BY <1>2, SyntheticField
<1>4. ASSUME NEW o \in Objects(S) PROVE o \in Objects(Contexts)
  <2>1. \/ \E t \in Types : o = Type(t)
        \/ \E t \in Paged(S) : o \in {ConnectionOver(t), EdgeOf(t), PageInfo}
    BY ObjectIs, WholeProgram
  <2> QED
    BY <1>2, <2>1, ObjectIs, WholeProgram
<1>5. EmittedFields(S) \subseteq EmittedFields(Contexts)
  BY <1>3, <1>4, Grows DEF EmittedFields
<1> QED
  BY <1>1, <1>3, <1>4, <1>5

-----------------------------------------------------------------------------
\* No field drawn crosses a boundary: a connection that a field returns is drawn with it.
LEMMA NothingCrosses ==
  ASSUME ProgramIs, NEW S \in Selections, ~BreaksBoundary(S),
         NEW f \in EmittedFields(S), f \notin Synthetic(S), NEW t \in LeadsTo(f.ref),
         Type(t) \in Objects(S), f.context # NoContext, home[t] # NoContext, home[t] # f.context
  PROVE  t \in boundary
<1>1. \A o \in Behind(Objects(S), f.ref) : ~Crosses(f.context, o)
  BY DEF BreaksBoundary
<1>2. ASSUME NEW o \in Behind(Objects(S), f.ref), o = Type(t) \/ o = ConnectionOver(t)
      PROVE  t \in boundary
  <2>1. OwnerContext(o) = home[t] /\ (BoundaryObject(o) => t \in boundary)
    BY <1>2, NamesAre DEF OwnerContext, ConnectionContext, BoundaryObject
  <2> QED
    BY <1>1, <2>1 DEF Crosses
<1>3. t \in Types /\ \/ f.ref = Type(t) \/ f.ref = ConnectionOver(t)
                     \/ f.ref = Union /\ t \in Members
                     \/ f.ref = Interface /\ t \in Implementers
  BY DEF LeadsTo
<1>4. CASE f.ref = ConnectionOver(t)
  <2>1. f.ref \in ResolvedTypes(S)
    BY DEF EmittedFields, ResolvedTypes
  <2>2. t \in Paged(S)
    BY <1>3, <1>4, <2>1 DEF Paged
  <2>3. ConnectionOver(t) \in Objects(S)
    BY <2>2, ObjectIs
  <2> QED
    BY <1>2, <1>4, <2>3 DEF Behind
<1>5. CASE f.ref # ConnectionOver(t)
  <2>1. Type(t) \in Behind(Objects(S), f.ref)
    BY <1>3, <1>5 DEF Behind
  <2> QED
    BY <1>2, <2>1
<1> QED
  BY <1>4, <1>5

LEMMA GraphBuilt ==
  ASSUME GraphIInv, NEW S \in Selections, SliceBuilt(S)
  PROVE  graphs[S] = Graph(S) /\ ~BuildFails(S)
BY DEF GraphIInv, GraphIs, SliceBuilt, NotBuilt, FailedGraph

\* The fields of a graph are those emitted and those of the interface.
LEMMA FieldsOfGraph ==
  ASSUME NEW S
  PROVE  /\ Graph(S).objects = Objects(S) /\ Graph(S).members = UnionMembers(S)
         /\ Graph(S).interface <=> InterfaceEmitted(S)
         /\ Graph(S).entities = EntitiesOf(Objects(S))
         /\ Graph(S).fields = EmittedFields(S) \union (IF InterfaceEmitted(S) THEN InterfaceFields ELSE {})
BY DEF Graph

LEMMA ContextsHold == ASSUME GraphIInv PROVE ContextsAreReal
<1>1. SUFFICES ASSUME NEW S \in Selections, SliceBuilt(S),
                      NEW f \in graphs[S].fields, f.owner \in {Type(t) : t \in Types} \union Roots,
                      NEW t \in LeadsTo(f.ref), Type(t) \in graphs[S].objects,
                      f.context # NoContext, home[t] # NoContext, home[t] # f.context
               PROVE  t \in boundary
  BY DEF ContextsAreReal
<1>2. graphs[S] = Graph(S) /\ ~BreaksBoundary(S) /\ ProgramIs
  BY <1>1, GraphBuilt DEF BuildFails, GraphIInv
<1>3. f.owner[1] \in {"type", "Query", "Mutation"}
  BY <1>1, NamesAre
<1>4. f \notin InterfaceFields
  BY <1>3, InterfaceField, ReturnsIs, NamesAre
<1>5. f \in EmittedFields(S)
  BY <1>2, <1>4, FieldsOfGraph
<1>6. f \notin Synthetic(S)
  BY <1>3, SyntheticIs, NamesAre
<1>7. Type(t) \in Objects(S)
  BY <1>1, <1>2, FieldsOfGraph
<1> QED
  BY <1>1, <1>2, <1>5, <1>6, <1>7, NothingCrosses

\* What is mentioned is closed: what a field mentions of an owner that is no stub, or a stub
\* that is mentioned, is mentioned.
LEMMA MentionedIs ==
  ASSUME NEW S, NEW f \in TypeFields(S) \union Synthetic(S) \union InterfaceFields \union RootFields(S),
         f.owner \notin {Type(t) : t \in Stubs(S)} \/ f.owner \in Mentioned(S)
  PROVE  f.ref \in Mentioned(S)
<1> DEFINE stubs == {Type(t) : t \in Stubs(S)}
           all == TypeFields(S) \union Synthetic(S) \union InterfaceFields \union RootFields(S)
           MentionedFrom(reached) == {g.ref : g \in {h \in all : h.owner \notin stubs \/ h.owner \in reached}}
           closed(reached) == MentionedFrom(reached) \intersect stubs \subseteq reached
           least == {o \in stubs : \A reached \in SUBSET stubs : closed(reached) => o \in reached}
<1>1. Mentioned(S) = MentionedFrom(least)
  BY DEF Mentioned
<1>2. \A x, y : x \subseteq y => MentionedFrom(x) \subseteq MentionedFrom(y)
  OBVIOUS
<1>3. ASSUME NEW o \in MentionedFrom(least) \intersect stubs PROVE o \in least
  <2>1. ASSUME NEW reached \in SUBSET stubs, closed(reached) PROVE o \in reached
    <3>1. least \subseteq reached
      BY <2>1
    <3>2. MentionedFrom(least) \subseteq MentionedFrom(reached)
      BY <1>2, <3>1
    <3> QED
      BY <2>1, <3>2
  <2> QED
    BY <2>1
<1>4. f.owner \notin stubs \/ f.owner \in least
  BY <1>1, <1>3
<1>5. f.ref \in MentionedFrom(least)
  BY <1>4
<1> QED
  BY <1>1, <1>5

\* A type that a field of the graph returns is in the graph.
LEMMA ReturnsAType ==
  ASSUME ProgramIs, NEW S, NEW t \in Owned(S) \union Stubs(S),
         NEW f \in TypeFields(S) \union Synthetic(S) \union InterfaceFields \union RootFields(S),
         f.owner \in Objects(S) \/ f.owner[1] # "type", f.ref = Type(t)
  PROVE  Type(t) \in Objects(S)
<1>1. CASE t \in Owned(S)
  BY <1>1, ObjectIs
<1>2. CASE t \in Stubs(S)
  <2>1. f.owner \notin {Type(u) : u \in Stubs(S)} \/ f.owner \in Mentioned(S)
    <3>1. ASSUME NEW u \in Stubs(S), f.owner = Type(u) PROVE f.owner \in Mentioned(S)
      <4>1. f.owner \in Objects(S) /\ f.owner[1] = "type"
        BY <3>1, NamesAre
      <4>2. \A v \in Owned(S) : f.owner # Type(v)
        BY <3>1, NamesAre, WholeProgram
      <4>3. \A v : f.owner \notin {ConnectionOver(v), EdgeOf(v), PageInfo}
        BY <4>1, NamesAre
      <4> QED
        BY <4>1, <4>2, <4>3, ObjectIs
    <3> QED
      BY <3>1
  <2>2. Type(t) \in Mentioned(S)
    BY <2>1, MentionedIs
  <2> QED
    BY <1>2, <2>2, ObjectIs
<1> QED
  BY <1>1, <1>2

LEMMA NamesHold == ASSUME GraphIInv PROVE NamesWhatItHas
<1>1. SUFFICES ASSUME NEW S \in Selections, SliceBuilt(S),
                      ~(Union \in ResolvedTypes(S) /\ Members \intersect Stubs(S) # {})
               PROVE  Assembles(graphs[S])
  BY DEF NamesWhatItHas
<1> DEFINE known == Owned(S) \union Stubs(S)
<1>2. graphs[S] = Graph(S) /\ ~BuildFails(S) /\ ProgramIs
  BY <1>1, GraphBuilt DEF GraphIInv
<1>3. \A ref \in ResolvedTypes(S) : RefResolves(S, ref)
  BY <1>2 DEF BuildFails
<1>4. Union \in ResolvedTypes(S) => Members # {} /\ Members \subseteq Owned(S)
  BY <1>1, <1>3 DEF RefResolves
<1>5. UnionMembers(S) \subseteq Objects(S)
  BY <1>4, ObjectIs DEF UnionMembers
<1>6. ASSUME NEW t \in Paged(S) PROVE t \in known /\ {ConnectionOver(t), EdgeOf(t), PageInfo} \subseteq Objects(S)
  <2>1. ConnectionOver(t) \in ResolvedTypes(S)
    BY DEF Paged
  <2>2. t \in known
    BY <1>3, <2>1, NamesAre DEF RefResolves
  <2> QED
    BY <2>2, ObjectIs
<1>7. ASSUME NEW f \in Graph(S).fields
      PROVE  f.ref \in Objects(S) \union {KeyField, NameField} \union (IF InterfaceEmitted(S) THEN {Interface} ELSE {})
                         \union (IF UnionMembers(S) # {} THEN {Union} ELSE {})
  <2>1. f \in EmittedFields(S) \/ (f \in InterfaceFields /\ InterfaceEmitted(S))
    BY FieldsOfGraph
  <2>2. CASE f \in Synthetic(S)
    <3>1. PICK t \in Paged(S) : f.owner \in {ConnectionOver(t), EdgeOf(t)} /\ f.ref \in {EdgeOf(t), PageInfo, Type(t)}
      BY <2>2, SyntheticIs
    <3>2. f.owner \in Objects(S) \/ f.owner[1] # "type"
      BY <1>6, <3>1
    <3>3. f.ref = Type(t) => Type(t) \in Objects(S)
      BY <1>2, <1>6, <2>2, <3>2, ReturnsAType
    <3> QED
      BY <1>6, <3>1, <3>3
  <2>3. CASE f \notin Synthetic(S)
    <3>1. f \in TypeFields(S) \union InterfaceFields \union RootFields(S) /\ f.ref \in ResolvedTypes(S)
      BY <2>1, <2>3 DEF EmittedFields, ResolvedTypes
    <3>2. f.owner \in Objects(S) \/ f.owner[1] # "type"
      BY <2>1, <2>3, RootIs, InterfaceField, ReturnsIs, NamesAre DEF EmittedFields
    <3>3. \/ f.ref \in {Union, Interface, KeyField, NameField}
          \/ \E t \in Types : f.ref = Type(t) \/ f.ref = ConnectionOver(t)
      <4>1. CASE f \in OwnFields(S)
        BY <4>1, OwnField, ReturnsIs, DeclaredIs
      <4>2. CASE f \in Inherited(S)
        BY <4>2, InheritedField, ReturnsIs, DeclaredIs
      <4>3. CASE f \in Extended(S)
        BY <4>3, ExtendedField, ReturnsIs, DeclaredIs
      <4>4. CASE f \in InterfaceFields
        BY <4>4, InterfaceField, ReturnsIs, DeclaredIs
      <4>5. CASE f \in RootFields(S)
        <5>1. \A t \in Owned(S) : t \in Types
          BY DEF Owned
        <5> QED
          BY <4>5, <5>1, RootField, ReturnsIs, DeclaredIs
      <4> QED
        BY <3>1, <4>1, <4>2, <4>3, <4>4, <4>5 DEF TypeFields
    <3>4. CASE f.ref = Union
      BY <1>4, <3>1, <3>4 DEF UnionMembers
    <3>5. CASE f.ref = Interface
      <4>1. InterfaceEmitted(S)
        BY <2>1, <3>5 DEF InterfaceEmitted
      <4> QED
        BY <3>5, <4>1
    <3>6. ASSUME NEW t \in Types, f.ref = Type(t) PROVE f.ref \in Objects(S)
      <4>1. t \in known
        BY <1>3, <3>1, <3>6, NamesAre DEF RefResolves
      <4> QED
        BY <1>2, <3>1, <3>2, <3>6, <4>1, ReturnsAType
    <3>7. ASSUME NEW t \in Types, f.ref = ConnectionOver(t) PROVE f.ref \in Objects(S)
      <4>1. t \in Paged(S)
        BY <3>1, <3>7 DEF Paged
      <4> QED
        BY <1>6, <3>7, <4>1
    <3> QED
      BY <3>3, <3>4, <3>5, <3>6, <3>7
  <2> QED
    BY <2>2, <2>3
<1> QED
  BY <1>2, <1>5, <1>7, FieldsOfGraph DEF Assembles

LEMMA SlicesHold == ASSUME GraphIInv PROVE SlicesAddUp
<1> DEFINE TypesIn(S) == {f \in graphs[S].fields : f.owner \in {Type(t) : t \in Types}}
           whole == TypesIn(Contexts)
<1>1. SUFFICES ASSUME SliceBuilt(Contexts)
               PROVE  /\ \A S \in Slices : SliceBuilt(S) =>
                           /\ TypesIn(S) \subseteq whole
                           /\ {f \in whole : home[f.owner[2]] \in S /\ f.context = home[f.owner[2]]} \subseteq graphs[S].fields
                      /\ \A S, R \in Slices : S # R /\ SliceBuilt(S) /\ SliceBuilt(R) =>
                           \A t \in Types : Type(t) \in graphs[S].objects \intersect graphs[R].objects /\ home[t] # NoContext =>
                             Type(t) \in graphs[S].entities \intersect graphs[R].entities
  BY DEF SlicesAddUp
<1>2. ProgramIs /\ Contexts \in Selections /\ Slices \subseteq Selections /\ \A S \in Selections : S \subseteq Contexts
  BY WholeProgram DEF GraphIInv, Slices, Selections
<1>3. ASSUME NEW S \in Selections, SliceBuilt(S), NEW f
      PROVE  f \in TypesIn(S) <=> f \in TypeFields(S) /\ f.owner \in Objects(S)
  <2>1. graphs[S].fields = EmittedFields(S) \union (IF InterfaceEmitted(S) THEN InterfaceFields ELSE {})
    BY <1>3, GraphBuilt, FieldsOfGraph
  <2>2. ASSUME NEW t \in Types, f.owner = Type(t)
        PROVE  f \notin InterfaceFields /\ f \notin Synthetic(S) /\ f \notin RootFields(S)
    <3>1. f.owner[1] = "type"
      BY <2>2, NamesAre
    <3> QED
      BY <3>1, InterfaceField, SyntheticIs, RootIs, ReturnsIs, NamesAre
  <2>3. f \in TypeFields(S) => \E t \in Types : f.owner = Type(t)
    BY <1>2, TypeFieldIs
  <2> QED
    BY <2>1, <2>2, <2>3 DEF EmittedFields
<1>4. \A t \in Types : Type(t) \in Objects(Contexts)
  BY <1>2, WholeProgram, ObjectIs
<1>5. ASSUME NEW S \in Slices, SliceBuilt(S) PROVE TypesIn(S) \subseteq whole
  <2>1. ASSUME NEW f \in TypesIn(S) PROVE f \in whole
    <3>1. f \in TypeFields(S) /\ S \in SUBSET Contexts
      BY <1>2, <1>3, <1>5
    <3>2. f \in TypeFields(Contexts) /\ f.owner \in Objects(Contexts)
      BY <1>2, <1>4, <3>1, Grows, TypeFieldIs
    <3> QED
      BY <1>1, <1>2, <1>3, <3>2
  <2> QED
    BY <2>1
<1>6. ASSUME NEW S \in Slices, SliceBuilt(S), NEW f \in whole, home[f.owner[2]] \in S, f.context = home[f.owner[2]]
      PROVE  f \in graphs[S].fields
  <2>1. f \in TypeFields(Contexts) /\ S \in SUBSET Contexts
    BY <1>1, <1>2, <1>3
  <2>2. PICK t \in Types : f.owner = Type(t)
    BY <1>2, <2>1, TypeFieldIs
  <2>3. f.owner[2] = t /\ t \in Owned(S) /\ home[t] \in S /\ f.context = home[t]
    BY <1>6, <2>2, NamesAre DEF Owned, InSelectedContext
  <2>4. f \in TypeFields(S)
    <3>1. CASE f \in OwnFields(Contexts)
      <4>1. PICK u, r : /\ f = Returns(Type(u), r, home[u])
                        /\ r \in Declared(Type(u)) \/ (u \in boundary /\ r = KeyField)
        BY <3>1, OwnField
      <4>2. u = t
        BY <2>2, <4>1, ReturnsIs, NamesAre
      <4>3. f \in OwnFields(S)
        BY <2>3, <4>1, <4>2, OwnField
      <4> QED
        BY <4>3 DEF TypeFields
    <3>2. CASE f \in Inherited(Contexts)
      <4>1. PICK u \in Implementers : \E q \in Declared(Interface) \union {NameField} :
              /\ f = Returns(Type(u), q, home[u])
              /\ ~\E g \in OwnFields(Contexts) : g.owner = Type(u) /\ g.ref = q
        BY <3>2, InheritedField
      <4>2. PICK r \in Declared(Interface) \union {NameField} :
              /\ f = Returns(Type(u), r, home[u])
              /\ ~\E g \in OwnFields(Contexts) : g.owner = Type(u) /\ g.ref = r
        BY <4>1
      <4>3. u = t
        BY <2>2, <4>2, ReturnsIs, NamesAre
      <4>4. ~\E g \in OwnFields(S) : g.owner = Type(u) /\ g.ref = r
        BY <1>2, <2>1, <4>2, Grows
      <4>5. f \in Inherited(S)
        BY <2>3, <4>2, <4>3, <4>4, InheritedField
      <4> QED
        BY <4>5 DEF TypeFields
    <3>3. CASE f \in Extended(Contexts)
      <4>1. PICK c \in Contexts, u \in Types : \E r \in Declared(Extending(c, u)) : f = Returns(Type(u), r, c)
        BY <3>3, ExtendedField
      <4>2. u = t /\ c = home[t]
        BY <2>2, <2>3, <4>1, ReturnsIs, NamesAre
      <4>3. f \in Extended(S)
        BY <2>3, <4>1, <4>2, ExtendedField
      <4> QED
        BY <4>3 DEF TypeFields
    <3> QED
      BY <2>1, <3>1, <3>2, <3>3 DEF TypeFields
  <2>5. f.owner \in Objects(S)
    BY <2>2, <2>3, ObjectIs
  <2> QED
    BY <1>2, <1>3, <1>6, <2>4, <2>5
<1>7. ASSUME NEW S \in Slices, NEW R \in Slices, S # R, SliceBuilt(S), SliceBuilt(R), NEW t \in Types,
             Type(t) \in graphs[S].objects \intersect graphs[R].objects, home[t] # NoContext
      PROVE  Type(t) \in graphs[S].entities \intersect graphs[R].entities
  <2>1. ASSUME NEW Q \in Slices, SliceBuilt(Q)
        PROVE  graphs[Q].objects = Objects(Q) /\ graphs[Q].entities = EntitiesOf(Objects(Q))
    BY <1>2, <2>1, GraphBuilt, FieldsOfGraph
  <2>2. ASSUME NEW Q \in Slices, Type(t) \in Objects(Q), t \notin boundary PROVE home[t] \in Q
    <3>1. \A u : Type(t) \notin {ConnectionOver(u), EdgeOf(u), PageInfo}
      BY NamesAre
    <3>2. PICK u \in Owned(Q) \union Stubs(Q) : Type(t) = Type(u)
      BY <2>2, <3>1, ObjectIs
    <3>3. u = t
      BY <3>2, NamesAre
    <3> QED
      BY <1>2, <1>7, <2>2, <3>3, WholeProgram DEF Owned, InSelectedContext
  <2>3. t \in boundary
    <3>1. PICK c, d : S = {c} /\ R = {d}
      BY DEF Slices, Selections
    <3>2. Type(t) \in Objects(S) /\ Type(t) \in Objects(R)
      BY <1>7, <2>1
    <3> QED
      BY <1>7, <2>2, <3>1, <3>2
  <2> QED
    BY <1>7, <2>1, <2>3, NamesAre DEF EntitiesOf
<1> QED
  BY <1>5, <1>6, <1>7

\* What a slice cannot resolve where the whole program can is closed to it, and named by what
\* every slice has.
LEMMA BuildsHold == ASSUME GraphIInv PROVE SlicesBuild
<1>1. SUFFICES ASSUME NEW S \in Slices, SliceBuilt(Contexts), graphs[S] = FailedGraph,
                      \A t \in (Types \ boundary) \ Owned(S) :
                        \A owner \in {Interface, Union} \union {Type(u) : u \in {v \in Types : home[v] = NoContext}} :
                          \A ref \in Declared(owner) : t \notin LeadsTo(ref)
               PROVE  FALSE
  BY DEF SlicesBuild
<1>2. ProgramIs /\ Contexts \in Selections /\ S \in Selections /\ S \subseteq Contexts
  BY WholeProgram DEF GraphIInv, Slices, Selections
<1>3. BuildFails(S)
  BY <1>1, <1>2 DEF GraphIInv, GraphIs, FailedGraph, NotBuilt, Graph
<1>4. ~BuildFails(Contexts)
  BY <1>1, <1>2, GraphBuilt
<1>5. \A t \in Types : Type(t) \in Objects(Contexts) /\ (t \notin Owned(S) \union Stubs(S) => t \notin boundary)
  BY <1>2, WholeProgram, ObjectIs DEF Stubs
<1>6. \A ref \in ResolvedTypes(S) : RefResolves(Contexts, ref)
  BY <1>2, <1>4, GrowsWithPages DEF BuildFails
\* a field of the slice's own contexts leads nowhere that is closed to the slice
<1>7. ASSUME NEW f \in EmittedFields(Contexts), f \notin Synthetic(Contexts), f.context \in S,
             NEW t \in LeadsTo(f.ref)
      PROVE  t \in Owned(S) \union Stubs(S)
  <2>1. SUFFICES ASSUME t \notin Owned(S) \union Stubs(S) PROVE FALSE
    OBVIOUS
  <2>2. t \in Types /\ t \notin boundary
    BY <1>5, <2>1 DEF LeadsTo
  <2>3. home[t] # NoContext /\ home[t] # f.context /\ f.context # NoContext
    BY <1>2, <1>7, <2>1, <2>2, TypeGraphAssumption DEF Owned, InSelectedContext
  <2> QED
    BY <1>2, <1>4, <1>5, <1>7, <2>2, <2>3, NothingCrosses DEF BuildFails
<1>8. ASSUME NEW f \in TypeFields(Contexts) PROVE f \in EmittedFields(Contexts) /\ f \notin Synthetic(Contexts)
  <2>1. PICK t \in Types : f.owner = Type(t)
    BY <1>2, TypeFieldIs
  <2>2. f.owner \in Objects(Contexts) /\ f.owner[1] = "type"
    BY <1>5, <2>1, NamesAre
  <2> QED
    BY <2>2, SyntheticIs, NamesAre DEF EmittedFields
<1>9. ASSUME NEW f \in RootFields(Contexts) PROVE f \in EmittedFields(Contexts) /\ f \notin Synthetic(Contexts)
  BY RootIs, SyntheticIs, NamesAre DEF EmittedFields
<1>10. ASSUME NEW ref \in ResolvedTypes(S), NEW t \in Types, ref = Type(t) \/ ref = ConnectionOver(t)
       PROVE  t \in Owned(S) \union Stubs(S)
  <2>1. t \in LeadsTo(ref) /\ ref # NameField /\ ref # KeyField
    BY <1>10, NamesAre DEF LeadsTo
  <2>2. ASSUME ref \in Declared(Interface) PROVE t \in Owned(S) \union Stubs(S)
    BY <1>1, <1>5, <2>1, <2>2
  <2>3. PICK f \in TypeFields(S) \union InterfaceFields \union RootFields(S) : f.ref = ref
    BY DEF ResolvedTypes
  <2>4. CASE f \in OwnFields(S)
    <3>1. PICK u \in Owned(S) : ref \in Declared(Type(u)) /\ f.context = home[u]
      BY <2>1, <2>3, <2>4, OwnField, ReturnsIs
    <3>2. CASE home[u] = NoContext
      <4>1. Type(u) \in {Type(v) : v \in {w \in Types : home[w] = NoContext}}
        BY <3>2 DEF Owned
      <4> QED
        BY <1>1, <1>5, <2>1, <3>1, <4>1
    <3>3. CASE home[u] # NoContext
      <4>1. f.context \in S
        BY <3>1, <3>3 DEF Owned, InSelectedContext
      <4>2. f \in TypeFields(Contexts)
        BY <1>2, <2>4, Grows DEF TypeFields
      <4> QED
        BY <1>7, <1>8, <2>1, <2>3, <4>1, <4>2
    <3> QED
      BY <3>2, <3>3
  <2>5. CASE f \in Inherited(S)
    BY <2>1, <2>2, <2>3, <2>5, InheritedField, ReturnsIs
  <2>6. CASE f \in Extended(S)
    <3>1. f.context \in S
      BY <2>6, ExtendedField, ReturnsIs
    <3>2. f \in TypeFields(Contexts)
      BY <1>2, <2>6, Grows DEF TypeFields
    <3> QED
      BY <1>7, <1>8, <2>1, <2>3, <3>1, <3>2
  <2>7. CASE f \in InterfaceFields
    BY <2>1, <2>2, <2>3, <2>7, InterfaceField, ReturnsIs
  <2>8. CASE f \in RootFields(S)
    <3>1. CASE \E c \in S : \E r \in Declared(Portal(c)) : f = Returns(<<"Query">>, r, c)
      <4>1. f.context \in S
        BY <3>1, ReturnsIs
      <4>2. f \in RootFields(Contexts)
        BY <1>2, <2>8, Grows
      <4> QED
        BY <1>7, <1>9, <2>1, <2>3, <4>1, <4>2
    <3>2. CASE \E u \in Acting \intersect Owned(S) : f = Returns(<<"Mutation">>, Type(u), home[u])
      BY <1>10, <2>3, <3>2, ReturnsIs, NamesAre
    <3> QED
      BY <2>8, <3>1, <3>2, RootField
  <2> QED
    BY <2>3, <2>4, <2>5, <2>6, <2>7, <2>8 DEF TypeFields
<1>11. ASSUME NEW ref \in ResolvedTypes(S) PROVE RefResolves(S, ref)
  <2>1. ref[1] \in {"type", "connection"} => \E t \in Types : ref = Type(t) \/ ref = ConnectionOver(t)
    <3>1. PICK f \in TypeFields(S) \union InterfaceFields \union RootFields(S) : f.ref = ref
      BY DEF ResolvedTypes
    <3>2. ref \in {KeyField, NameField} \/ (\E owner : ref \in Declared(owner)) \/ \E t \in Types : ref = Type(t)
      <4>1. \A t \in Owned(S) : t \in Types
        BY DEF Owned
      <4> QED
        BY <3>1, <4>1, OwnField, InheritedField, ExtendedField, InterfaceField, RootField, ReturnsIs DEF TypeFields
    <3> QED
      BY <3>2, DeclaredIs, NamesAre
  <2>2. ref[1] \in {"type", "connection"} => ref[2] \in Owned(S) \union Stubs(S)
    BY <1>10, <2>1, NamesAre
  <2>3. ASSUME ref = Union PROVE Members # {} /\ Members \subseteq Owned(S) \union Stubs(S)
    <3>1. Members # {}
      BY <1>6, <2>3 DEF RefResolves
    <3>2. ASSUME NEW t \in Members PROVE t \in Owned(S) \union Stubs(S)
      <4>1. t \in Types /\ Type(t) \in Declared(Union) /\ t \in LeadsTo(Type(t))
        BY DEF Members, Declared, References, LeadsTo
      <4> QED
        BY <1>1, <1>5, <4>1
    <3> QED
      BY <3>1, <3>2
  <2> QED
    BY <2>2, <2>3 DEF RefResolves
<1>12. ~Trespasses(S)
  BY <1>2, <1>4, Grows DEF BuildFails, Trespasses
<1>13. ~Redeclared(S)
  BY <1>2, <1>4, Grows DEF BuildFails, Redeclared
<1>14. ~DeclaredTwice(S)
  BY <1>2, <1>4, Grows DEF BuildFails, DeclaredTwice
<1>15. ~ActsWithoutKey(S)
  BY <1>2, <1>4, WholeProgram DEF BuildFails, ActsWithoutKey
<1>16. ~BreaksBoundary(S)
  <2>1. Objects(S) \subseteq Objects(Contexts) /\ EmittedFields(S) \subseteq EmittedFields(Contexts)
    BY <1>2, GrowsWithPages
  <2>2. \A ref : Behind(Objects(S), ref) \subseteq Behind(Objects(Contexts), ref)
    BY <2>1 DEF Behind
  <2> QED
    BY <1>4, <2>1, <2>2 DEF BuildFails, BreaksBoundary
<1> QED
  BY <1>3, <1>11, <1>12, <1>13, <1>14, <1>15, <1>16 DEF BuildFails

-----------------------------------------------------------------------------
LEMMA GraphStarts == ASSUME TypeGraphInit PROVE GraphIInv
BY DEF TypeGraphInit, GraphIInv, ProgramIs, GraphIs

\* What a build makes of a slice depends on the declarations alone.
LEMMA BuildsAlike ==
  ASSUME home' = home, interfaceHome' = interfaceHome, boundary' = boundary, declarations' = declarations, NEW S
  PROVE  (BuildFails(S)' <=> BuildFails(S)) /\ Graph(S)' = Graph(S)
<1>1. /\ \A owner : Declared(owner)' = Declared(owner)
      /\ Members' = Members /\ Implementers' = Implementers /\ Acting' = Acting
      /\ Owned(S)' = Owned(S) /\ Stubs(S)' = Stubs(S)
  BY DEF Declared, Members, Implementers, Acting, Owned, Stubs, InSelectedContext
<1>2. OwnFields(S)' = OwnFields(S) /\ InterfaceFields' = InterfaceFields
  BY <1>1 DEF OwnFields, InterfaceFields
<1>3. Inherited(S)' = Inherited(S)
  BY <1>1, <1>2 DEF Inherited
<1>4. Extensions(S)' = Extensions(S)
  BY <1>1 DEF Extensions
<1>5. Extended(S)' = Extended(S)
  BY <1>1, <1>4 DEF Extended
<1>6. TypeFields(S)' = TypeFields(S)
  BY <1>2, <1>3, <1>5 DEF TypeFields
<1>7. QueryFields(S)' = QueryFields(S) /\ MutationFields(S)' = MutationFields(S)
  BY <1>1 DEF QueryFields, MutationFields
<1>8. RootFields(S)' = RootFields(S)
  BY <1>7 DEF RootFields
<1>9. ResolvedTypes(S)' = ResolvedTypes(S)
  BY <1>2, <1>6, <1>8 DEF ResolvedTypes
<1>10. Paged(S)' = Paged(S)
  BY <1>9 DEF Paged
<1>11. Synthetic(S)' = Synthetic(S) /\ SyntheticObjects(S)' = SyntheticObjects(S)
  BY <1>10 DEF Synthetic, SyntheticObjects, ConnectionContext
<1>12. Mentioned(S)' = Mentioned(S)
  BY <1>1, <1>2, <1>6, <1>8, <1>11 DEF Mentioned
<1>13. Kept(S)' = Kept(S)
  BY <1>1, <1>12 DEF Kept
<1>14. Objects(S)' = Objects(S)
  BY <1>11, <1>13 DEF Objects
<1>15. EmittedFields(S)' = EmittedFields(S)
  BY <1>6, <1>8, <1>11, <1>14 DEF EmittedFields
<1>16. BreaksBoundary(S)' <=> BreaksBoundary(S)
  <2>1. \A drawn, ref : Behind(drawn, ref)' = Behind(drawn, ref)
    BY <1>1 DEF Behind
  <2>2. \A from, o : Crosses(from, o)' <=> Crosses(from, o)
    BY DEF Crosses, OwnerContext, ConnectionContext, BoundaryObject
  <2> QED
    BY <1>14, <1>15, <2>1, <2>2 DEF BreaksBoundary
<1>17. \A ref : RefResolves(S, ref)' <=> RefResolves(S, ref)
  BY <1>1 DEF RefResolves
<1>18. (Trespasses(S)' <=> Trespasses(S)) /\ (ActsWithoutKey(S)' <=> ActsWithoutKey(S))
  BY <1>1, <1>4 DEF Trespasses, ActsWithoutKey
<1>19. (Redeclared(S)' <=> Redeclared(S)) /\ (DeclaredTwice(S)' <=> DeclaredTwice(S))
  BY <1>2, <1>3, <1>5, <1>7 DEF Redeclared, DeclaredTwice
<1>20. BuildFails(S)' <=> BuildFails(S)
  BY <1>9, <1>16, <1>17, <1>18, <1>19 DEF BuildFails
<1>21. InterfaceEmitted(S)' = InterfaceEmitted(S) /\ UnionMembers(S)' = UnionMembers(S)
  BY <1>1, <1>2, <1>9, <1>15 DEF InterfaceEmitted, UnionMembers
<1>22. RepresentedContexts(S)' = RepresentedContexts(S) /\ EntitiesOf(Objects(S))' = EntitiesOf(Objects(S))
  BY <1>1, <1>14 DEF RepresentedContexts, EntitiesOf, OwnerContext, ConnectionContext
<1>23. Graph(S)' = Graph(S)
  BY <1>2, <1>14, <1>15, <1>21, <1>22 DEF Graph
<1> QED
  BY <1>20, <1>23

LEMMA GraphKept == ASSUME GraphIInv, [TypeGraphNext]_graphVars PROVE GraphIInv'
<1>1. home' = home /\ interfaceHome' = interfaceHome /\ boundary' = boundary /\ declarations' = declarations
  BY DEF TypeGraphNext, Build, graphVars
<1>2. \A R : (BuildFails(R)' <=> BuildFails(R)) /\ Graph(R)' = Graph(R)
  BY <1>1, BuildsAlike
<1>3. CASE UNCHANGED graphVars
  BY <1>1, <1>2, <1>3 DEF graphVars, GraphIInv, ProgramIs, GraphIs
<1>4. ASSUME NEW S \in Selections, Build(S) PROVE GraphIInv'
  <2>1. graphs' = [graphs EXCEPT ![S] = IF BuildFails(S) THEN FailedGraph ELSE Graph(S)]
    BY <1>4 DEF Build
  <2> QED
    BY <1>1, <1>2, <2>1 DEF GraphIInv, ProgramIs, GraphIs
<1> QED
  BY <1>3, <1>4 DEF TypeGraphNext

\* The graphs of a program and of its contexts: boundaries hold in each, each names what it
\* has, and the slices add up to the program (type-graph.ts).
THEOREM TypeGraphHolds ==
  TypeGraphSpec => [](ContextsAreReal /\ NamesWhatItHas /\ SlicesAddUp /\ SlicesBuild)
<1>1. TypeGraphInit => GraphIInv
  BY GraphStarts
<1>2. GraphIInv /\ [TypeGraphNext]_graphVars => GraphIInv'
  BY GraphKept
<1>3. GraphIInv => ContextsAreReal /\ NamesWhatItHas /\ SlicesAddUp /\ SlicesBuild
  BY ContextsHold, NamesHold, SlicesHold, BuildsHold
<1> QED
  BY <1>1, <1>2, <1>3, PTL DEF TypeGraphSpec

(***************************************************************************)
(* GraphqlExecution: what a query costs bounds what it executes.            *)
(***************************************************************************)
Bounded(chains, cost) ==
  /\ IsFiniteSet(chains) /\ cost \in [depth : Nat, complexity : Nat]
  /\ Cardinality(chains) <= cost.complexity
  /\ \A c \in chains : c \in Seq(Nat \X Nat) /\ Len(c) <= cost.depth
ItemsOf(doc, b) == 1..Len(doc[b])

\* The items of a document lead to blocks further on.
LEMMA DocumentsAre ==
  ASSUME NEW doc \in Documents, NEW b \in 1..3
  PROVE  /\ Len(doc[b]) \in 1..2
         /\ \A i \in ItemsOf(doc, b) : /\ doc[b][i].kind \in {"field", "inline", "spread"}
                                       /\ doc[b][i].to = 0 \/ doc[b][i].to \in (b + 1)..3
<1>1. doc[b] \in Bodies(b)
  BY DEF Documents
<1>2. PICK n \in 1..2 : doc[b] \in [1..n -> Items(b)]
  BY <1>1 DEF Bodies
<1>3. Len(doc[b]) = n
  BY <1>2
<1>4. \A item \in Items(b) : item.kind \in {"field", "inline", "spread"} /\ (item.to = 0 \/ item.to \in (b + 1)..3)
  BY DEF Items, Leaf
<1> QED
  BY <1>2, <1>3, <1>4 DEF ItemsOf

\* The two recursions have a solution: each block only asks for those after it.
BlockCost(doc, cost, b) == Together([i \in 1..Len(doc[b]) |-> ItemCost(doc[b][i], cost[doc[b][i].to])])
LEMMA CostsAre ==
  ASSUME NEW doc \in Documents
  PROVE  /\ BlockCosts(doc)[0] = NoCost
         /\ \A b \in 1..3 : BlockCosts(doc)[b] = BlockCost(doc, BlockCosts(doc), b)
<1> DEFINE is(f) == f = [b \in 0..3 |-> IF b = 0 THEN NoCost
                                        ELSE Together([i \in 1..Len(doc[b]) |-> ItemCost(doc[b][i], f[doc[b][i].to])])]
           f0 == [b \in 0..3 |-> NoCost]
           f3 == [f0 EXCEPT ![3] = BlockCost(doc, f0, 3)]
           f2 == [f3 EXCEPT ![2] = BlockCost(doc, f3, 2)]
           f1 == [f2 EXCEPT ![1] = BlockCost(doc, f2, 1)]
<1>1. ASSUME NEW f, NEW g, NEW b \in 1..3, f[0] = g[0], \A d \in (b + 1)..3 : f[d] = g[d]
      PROVE  BlockCost(doc, f, b) = BlockCost(doc, g, b)
  <2>1. \A i \in 1..Len(doc[b]) : f[doc[b][i].to] = g[doc[b][i].to]
    BY <1>1, DocumentsAre DEF ItemsOf
  <2> QED
    BY <2>1 DEF BlockCost
<1>2. /\ f1 = [b \in 0..3 |-> f1[b]] /\ f1[0] = NoCost /\ f2[0] = NoCost /\ f3[0] = NoCost /\ f0[0] = NoCost
      /\ f1[1] = BlockCost(doc, f2, 1) /\ f1[2] = f2[2] /\ f1[3] = f2[3]
      /\ f2[2] = BlockCost(doc, f3, 2) /\ f2[3] = f3[3] /\ f3[3] = BlockCost(doc, f0, 3)
  <2>1. f0[0] = NoCost /\ DOMAIN f0 = 0..3
    OBVIOUS
  <2> HIDE DEF f0
  <2>2. f3[0] = NoCost /\ f3[3] = BlockCost(doc, f0, 3) /\ DOMAIN f3 = 0..3
    BY <2>1
  <2> HIDE DEF f3
  <2>3. f2[0] = NoCost /\ f2[2] = BlockCost(doc, f3, 2) /\ f2[3] = f3[3] /\ DOMAIN f2 = 0..3
    BY <2>2
  <2> HIDE DEF f2
  <2>4. f1[0] = NoCost /\ f1[1] = BlockCost(doc, f2, 1) /\ f1[2] = f2[2] /\ f1[3] = f2[3]
    BY <2>3
  <2>5. f1 = [b \in 0..3 |-> f1[b]]
    BY <2>3
  <2> QED
    BY <2>1, <2>2, <2>3, <2>4, <2>5
<1> HIDE DEF f1, f2, f3, f0
<1>3. f1[1] = BlockCost(doc, f1, 1) /\ f1[2] = BlockCost(doc, f1, 2) /\ f1[3] = BlockCost(doc, f1, 3)
  BY <1>1, <1>2
<1>4. is(f1)
  <2>1. \A b \in 0..3 : f1[b] = IF b = 0 THEN NoCost ELSE BlockCost(doc, f1, b)
    BY <1>2, <1>3
  <2>2. f1 = [b \in 0..3 |-> IF b = 0 THEN NoCost ELSE BlockCost(doc, f1, b)]
    BY <1>2, <2>1
  <2> QED
    BY <2>2 DEF BlockCost
<1>5. is(BlockCosts(doc))
  <2>1. BlockCosts(doc) = CHOOSE f : is(f)
    BY DEF BlockCosts
  <2> HIDE DEF is
  <2> QED
    BY <1>4, <2>1
<1>6. ASSUME NEW f, is(f) PROVE f[0] = NoCost /\ \A b \in 1..3 : f[b] = BlockCost(doc, f, b)
  <2>1. \A b \in 0..3 : f[b] = IF b = 0 THEN NoCost ELSE BlockCost(doc, f, b)
    BY <1>6 DEF BlockCost
  <2> QED
    BY <2>1
<1> HIDE DEF is
<1> QED
  BY <1>5, <1>6

BlockChain(doc, chains, b) == UNION {ItemChains(<<b, i>>, doc[b][i], chains[doc[b][i].to]) : i \in 1..Len(doc[b])}
LEMMA ChainsAre ==
  ASSUME NEW doc \in Documents
  PROVE  /\ BlockChains(doc)[0] = {}
         /\ \A b \in 1..3 : BlockChains(doc)[b] = BlockChain(doc, BlockChains(doc), b)
<1> DEFINE is(f) == f = [b \in 0..3 |-> IF b = 0 THEN {}
                                        ELSE UNION {ItemChains(<<b, i>>, doc[b][i], f[doc[b][i].to]) : i \in 1..Len(doc[b])}]
           f0 == [b \in 0..3 |-> {}]
           f3 == [f0 EXCEPT ![3] = BlockChain(doc, f0, 3)]
           f2 == [f3 EXCEPT ![2] = BlockChain(doc, f3, 2)]
           f1 == [f2 EXCEPT ![1] = BlockChain(doc, f2, 1)]
<1>1. ASSUME NEW f, NEW g, NEW b \in 1..3, f[0] = g[0], \A d \in (b + 1)..3 : f[d] = g[d]
      PROVE  BlockChain(doc, f, b) = BlockChain(doc, g, b)
  <2>1. \A i \in 1..Len(doc[b]) : f[doc[b][i].to] = g[doc[b][i].to]
    BY <1>1, DocumentsAre DEF ItemsOf
  <2> QED
    BY <2>1 DEF BlockChain
<1>2. /\ f1 = [b \in 0..3 |-> f1[b]] /\ f1[0] = {} /\ f2[0] = {} /\ f3[0] = {} /\ f0[0] = {}
      /\ f1[1] = BlockChain(doc, f2, 1) /\ f1[2] = f2[2] /\ f1[3] = f2[3]
      /\ f2[2] = BlockChain(doc, f3, 2) /\ f2[3] = f3[3] /\ f3[3] = BlockChain(doc, f0, 3)
  <2>1. f0[0] = {} /\ DOMAIN f0 = 0..3
    OBVIOUS
  <2> HIDE DEF f0
  <2>2. f3[0] = {} /\ f3[3] = BlockChain(doc, f0, 3) /\ DOMAIN f3 = 0..3
    BY <2>1
  <2> HIDE DEF f3
  <2>3. f2[0] = {} /\ f2[2] = BlockChain(doc, f3, 2) /\ f2[3] = f3[3] /\ DOMAIN f2 = 0..3
    BY <2>2
  <2> HIDE DEF f2
  <2>4. f1[0] = {} /\ f1[1] = BlockChain(doc, f2, 1) /\ f1[2] = f2[2] /\ f1[3] = f2[3]
    BY <2>3
  <2>5. f1 = [b \in 0..3 |-> f1[b]]
    BY <2>3
  <2> QED
    BY <2>1, <2>2, <2>3, <2>4, <2>5
<1> HIDE DEF f1, f2, f3, f0
<1>3. f1[1] = BlockChain(doc, f1, 1) /\ f1[2] = BlockChain(doc, f1, 2) /\ f1[3] = BlockChain(doc, f1, 3)
  BY <1>1, <1>2
<1>4. is(f1)
  <2>1. \A b \in 1..3 : f1[b] = BlockChain(doc, f1, b)
    BY <1>3
  <2>2. \A b \in 0..3 : f1[b] = IF b = 0 THEN {} ELSE BlockChain(doc, f1, b)
    BY <1>2, <2>1
  <2>3. f1 = [b \in 0..3 |-> IF b = 0 THEN {} ELSE BlockChain(doc, f1, b)]
    BY <1>2, <2>2
  <2> QED
    BY <2>3 DEF BlockChain
<1>5. is(BlockChains(doc))
  <2>1. BlockChains(doc) = CHOOSE f : is(f)
    BY DEF BlockChains
  <2> HIDE DEF is
  <2> QED
    BY <1>4, <2>1
<1>6. ASSUME NEW f, is(f) PROVE f[0] = {} /\ \A b \in 1..3 : f[b] = BlockChain(doc, f, b)
  <2>1. \A b \in 0..3 : f[b] = IF b = 0 THEN {} ELSE BlockChain(doc, f, b)
    BY <1>6 DEF BlockChain
  <2> QED
    BY <2>1
<1> HIDE DEF is
<1> QED
  BY <1>5, <1>6

\* A field is one more than what is below it, and one deeper.
LEMMA ItemBounded ==
  ASSUME NEW at \in Nat \X Nat, NEW item, item.kind \in {"field", "inline", "spread"}, NEW chains, NEW cost, Bounded(chains, cost)
  PROVE  Bounded(ItemChains(at, item, chains), ItemCost(item, cost))
<1>1. CASE item.kind # "field"
  BY <1>1 DEF ItemChains, ItemCost, SpreadCost
<1>2. CASE item.kind = "field"
  <2> DEFINE longer == {<<at>> \o c : c \in chains}
             f == [c \in chains |-> <<at>> \o c]
  <2>1. f \in Surjection(chains, longer)
    BY DEF Surjection
  <2>2. IsFiniteSet(longer) /\ Cardinality(longer) <= Cardinality(chains)
    BY <2>1, FS_Surjection DEF Bounded
  <2>3. \A c \in longer : c \in Seq(Nat \X Nat) /\ Len(c) <= cost.depth + 1
    <3>1. ASSUME NEW c \in chains PROVE <<at>> \o c \in Seq(Nat \X Nat) /\ Len(<<at>> \o c) <= cost.depth + 1
      <4>1. c \in Seq(Nat \X Nat) /\ Len(c) <= cost.depth /\ cost.depth \in Nat /\ <<at>> \in Seq(Nat \X Nat) /\ Len(<<at>>) = 1
        BY DEF Bounded
      <4>2. <<at>> \o c \in Seq(Nat \X Nat) /\ Len(<<at>> \o c) = 1 + Len(c)
        BY <4>1, ConcatProperties
      <4> QED
        BY <4>1, <4>2
    <3> QED
      BY <3>1
  <2>4. <<at>> \in Seq(Nat \X Nat) /\ Len(<<at>>) <= cost.depth + 1
    BY DEF Bounded
  <2> HIDE DEF longer
  <2>5. /\ IsFiniteSet(longer \union {<<at>>}) /\ Cardinality(longer \union {<<at>>}) <= Cardinality(longer) + 1
    <3>1. Cardinality(longer) \in Nat
      BY <2>2, FS_CardinalityType
    <3>2. /\ IsFiniteSet(longer \union {<<at>>})
          /\ Cardinality(longer \union {<<at>>}) = IF <<at>> \in longer THEN Cardinality(longer) ELSE Cardinality(longer) + 1
      BY <2>2, FS_AddElement
    <3> QED
      BY <3>1, <3>2
  <2>6. ItemChains(at, item, chains) = longer \union {<<at>>}
    BY <1>2 DEF ItemChains, longer
  <2>7. ItemCost(item, cost) = [depth |-> cost.depth + 1, complexity |-> cost.complexity + 1]
    BY <1>2 DEF ItemCost
  <2>8. cost.depth \in Nat /\ cost.complexity \in Nat /\ Cardinality(chains) <= cost.complexity
    BY DEF Bounded
  <2>9. /\ Cardinality(longer) \in Nat /\ Cardinality(chains) \in Nat /\ Cardinality(longer \union {<<at>>}) \in Nat
    BY <2>2, <2>5, FS_CardinalityType DEF Bounded
  <2>10. Cardinality(longer \union {<<at>>}) <= cost.complexity + 1
    BY <2>2, <2>5, <2>8, <2>9
  <2> QED
    BY <2>3, <2>4, <2>5, <2>6, <2>7, <2>8, <2>10 DEF Bounded
<1> QED
  BY <1>1, <1>2

LEMMA TogetherBounded ==
  ASSUME NEW n \in 1..2, NEW chains, NEW costs, costs = [i \in 1..n |-> costs[i]],
         \A i \in 1..n : Bounded(chains[i], costs[i])
  PROVE  Bounded(UNION {chains[i] : i \in 1..n}, Together(costs))
<1>1. Len(costs) = n
  OBVIOUS
<1>2. CASE n = 1
  <2>1. UNION {chains[i] : i \in 1..n} = chains[1]
    BY <1>2
  <2> QED
    BY <1>1, <1>2, <2>1 DEF Together
<1>3. CASE n = 2
  <2> DEFINE a == chains[1]
             b == chains[2]
             x == costs[1]
             y == costs[2]
             both == [depth |-> Greater(x.depth, y.depth), complexity |-> x.complexity + y.complexity]
  <2>1. UNION {chains[i] : i \in 1..n} = a \union b
    BY <1>3
  <2>2. Together(costs) = both
    BY <1>1, <1>3 DEF Together
  <2>3. Bounded(a, x) /\ Bounded(b, y)
    BY <1>3
  <2> HIDE DEF a, b, x, y
  <2>4. /\ IsFiniteSet(a \union b)
        /\ Cardinality(a \union b) = Cardinality(a) + Cardinality(b) - Cardinality(a \cap b)
    BY <2>3, FS_Union DEF Bounded
  <2>5. Cardinality(a \cap b) \in Nat /\ Cardinality(a) \in Nat /\ Cardinality(b) \in Nat
    <3>1. IsFiniteSet(a) /\ IsFiniteSet(b) /\ a \cap b \in SUBSET a
      BY <2>3 DEF Bounded
    <3> QED
      BY <3>1, FS_Subset, FS_CardinalityType
  <2>6. /\ x.depth \in Nat /\ y.depth \in Nat /\ x.complexity \in Nat /\ y.complexity \in Nat
        /\ Cardinality(a) <= x.complexity /\ Cardinality(b) <= y.complexity
    BY <2>3 DEF Bounded
  <2>7. Cardinality(a \union b) <= x.complexity + y.complexity
    BY <2>4, <2>5, <2>6
  <2>8. Greater(x.depth, y.depth) \in Nat /\ x.depth <= Greater(x.depth, y.depth) /\ y.depth <= Greater(x.depth, y.depth)
    BY <2>6 DEF Greater
  <2>9. \A c \in a \union b : c \in Seq(Nat \X Nat) /\ Len(c) <= Greater(x.depth, y.depth)
    BY <2>3, <2>6, <2>8 DEF Bounded
  <2>10. both.depth = Greater(x.depth, y.depth) /\ both.complexity = x.complexity + y.complexity
    OBVIOUS
  <2>11. both \in [depth : Nat, complexity : Nat]
    BY <2>6, <2>8
  <2> HIDE DEF both
  <2>12. Bounded(a \union b, both)
    BY <2>4, <2>7, <2>9, <2>10, <2>11 DEF Bounded
  <2> QED
    BY <2>1, <2>2, <2>12
<1> QED
  BY <1>2, <1>3

LEMMA CostsSuffice == ASSUME NEW doc \in Documents PROVE Bounded(Executions(doc), CostOf(doc))
<1> DEFINE chains == BlockChains(doc)
           cost == BlockCosts(doc)
<1>1. Bounded(chains[0], cost[0])
  <2>1. Bounded({}, NoCost)
    BY FS_EmptySet DEF Bounded, NoCost
  <2> QED
    BY <2>1, CostsAre, ChainsAre
<1>2. ASSUME NEW b \in 1..3, \A d \in (b + 1)..3 : Bounded(chains[d], cost[d]) PROVE Bounded(chains[b], cost[b])
  <2> DEFINE n == Len(doc[b])
             parts == [i \in 1..n |-> ItemChains(<<b, i>>, doc[b][i], chains[doc[b][i].to])]
             costs == [i \in 1..n |-> ItemCost(doc[b][i], cost[doc[b][i].to])]
  <2>1. n \in 1..2
    BY DocumentsAre
  <2>2. ASSUME NEW i \in 1..n PROVE Bounded(parts[i], costs[i])
    <3>1. Bounded(chains[doc[b][i].to], cost[doc[b][i].to]) /\ doc[b][i].kind \in {"field", "inline", "spread"}
      BY <1>1, <1>2, DocumentsAre DEF ItemsOf
    <3>2. <<b, i>> \in Nat \X Nat
      BY <2>1
    <3> QED
      BY <3>1, <3>2, ItemBounded
  <2>3. chains[b] = UNION {parts[i] : i \in 1..n}
    <3>1. \A i \in 1..n : parts[i] = ItemChains(<<b, i>>, doc[b][i], chains[doc[b][i].to])
      OBVIOUS
    <3> HIDE DEF parts
    <3>2. BlockChain(doc, chains, b) = UNION {parts[i] : i \in 1..n}
      BY <3>1 DEF BlockChain
    <3> QED
      BY <3>2, ChainsAre
  <2>4. cost[b] = Together(costs)
    BY CostsAre DEF BlockCost
  <2>5. costs = [i \in 1..n |-> costs[i]] /\ n \in 1..2
    BY <2>1
  <2> HIDE DEF n, parts, costs, chains, cost
  <2>6. Bounded(UNION {parts[i] : i \in 1..n}, Together(costs))
    BY <2>2, <2>5, TogetherBounded
  <2> QED
    BY <2>3, <2>4, <2>6
<1>3. Bounded(chains[3], cost[3])
  BY <1>2
<1>4. Bounded(chains[2], cost[2])
  BY <1>2, <1>3
<1>5. Bounded(chains[1], cost[1])
  <2>1. \A d \in 2..3 : Bounded(chains[d], cost[d])
    BY <1>3, <1>4
  <2> HIDE DEF chains, cost
  <2> QED
    BY <1>2, <2>1
<1> QED
  BY <1>5 DEF Executions, CostOf

AskHolds ==
  /\ asked \in Queries /\ selections \in Documents /\ limits \in [depth : Nat, complexity : Nat]
  /\ stage \in {"context", "executing", "executed"} => HasQuery /\ asked.wellFormed
  /\ stage \in {"executing", "executed"} => Prepared

LEMMA QueriesGo == ASSUME AskHolds, Receive \/ Prepare \/ Execute PROVE AskHolds'
<1>1. asked' = asked /\ selections' = selections /\ limits' = limits
  BY DEF Receive, Prepare, Execute
<1>2. (HasQuery' <=> HasQuery) /\ (Prepared' <=> Prepared)
  BY <1>1 DEF HasQuery, Prepared, Errors
<1>3. stage' \in {"context", "executing", "executed"} => HasQuery /\ asked.wellFormed
  BY DEF AskHolds, Receive, Prepare, Execute
<1>4. stage' \in {"executing", "executed"} => Prepared
  BY DEF AskHolds, Receive, Prepare, Execute
<1> QED
  BY <1>1, <1>2, <1>3, <1>4 DEF AskHolds

LEMMA LimitsAreKept == ASSUME AskHolds PROVE LimitsHold
<1> SUFFICES ASSUME stage \in {"executing", "executed"}
             PROVE  /\ asked.valid /\ HasQuery /\ asked.wellFormed
                    /\ Cardinality(Executions(selections)) <= limits.complexity
                    /\ \A chain \in Executions(selections) : Len(chain) <= limits.depth
  BY DEF LimitsHold
<1> DEFINE cost == CostOf(selections)
           chains == Executions(selections)
<1>1. asked.valid /\ ~(cost.depth > limits.depth) /\ ~(cost.complexity > limits.complexity)
  BY DEF AskHolds, Prepared, Errors
<1>2. Bounded(chains, cost) /\ limits.depth \in Nat /\ limits.complexity \in Nat
  BY CostsSuffice DEF AskHolds
<1> HIDE DEF cost, chains
<1>3. Cardinality(chains) \in Nat /\ cost.complexity \in Nat /\ cost.depth \in Nat
  BY <1>2, FS_CardinalityType DEF Bounded
<1>4. Cardinality(chains) <= limits.complexity
  BY <1>1, <1>2, <1>3 DEF Bounded
<1>5. ASSUME NEW c \in chains PROVE Len(c) <= limits.depth
  <2>1. Len(c) \in Nat /\ Len(c) <= cost.depth
    BY <1>2 DEF Bounded
  <2> QED
    BY <1>1, <1>2, <1>3, <2>1
<1> QED
  BY <1>1, <1>4, <1>5 DEF AskHolds, chains

-----------------------------------------------------------------------------
\* What each representation has come to.
EntitiesHold ==
  /\ family \in [EntityClasses -> EntityClasses] /\ representations \in Seq(EntityClasses)
  /\ loads \in [1..Len(representations) -> [kind : {"failed", "pending", "null", "object"}, class : 0..3]]
  /\ \A i \in 1..Len(representations) : loads[i].kind = "object" =>
       representations[i] \in {1, 2} /\ loads[i].class # 0 /\ Subclass(loads[i].class, representations[i])

LEMMA EntitiesGo == ASSUME EntitiesHold, NEW i \in 1..Len(representations), LoadEntity(i) PROVE EntitiesHold'
<1>1. representations[i] \in EntityClasses
  BY DEF EntitiesHold
<1>2. PICK result \in {Failed, [kind |-> "null", class |-> 0]}
                        \union {[kind |-> "object", class |-> Hydrated(representations[i], k)] : k \in 0..3} :
        /\ representations[i] = 3 => result = Failed
        /\ loads' = [loads EXCEPT ![i] = result]
  BY DEF LoadEntity
<1>3. \A k \in 0..3 : /\ Hydrated(representations[i], k) \in 1..3
                      /\ Subclass(Hydrated(representations[i], k), representations[i])
  BY <1>1 DEF Hydrated, Subclass, EntityClasses
<1>4. /\ result \in [kind : {"failed", "pending", "null", "object"}, class : 0..3]
      /\ result.kind = "object" =>
           representations[i] \in {1, 2} /\ result.class # 0 /\ Subclass(result.class, representations[i])
  <2>1. ASSUME NEW k \in 0..3, result = [kind |-> "object", class |-> Hydrated(representations[i], k)]
        PROVE  representations[i] # 3 /\ result.class \in 1..3 /\ Subclass(result.class, representations[i])
    BY <1>2, <1>3, <2>1 DEF Failed
  <2> QED
    BY <1>1, <1>2, <2>1 DEF Failed, EntityClasses
<1>5. family' = family /\ representations' = representations
  BY DEF LoadEntity
<1>6. \A c, d : Subclass(c, d)' <=> Subclass(c, d)
  BY <1>5 DEF Subclass
<1> QED
  BY <1>2, <1>4, <1>5, <1>6 DEF EntitiesHold

LEMMA EntitiesKeepIt == ASSUME EntitiesHold PROVE EntitiesKeepTheirType
<1> SUFFICES ASSUME NEW i \in 1..Len(loads), loads[i].kind = "object"
             PROVE  /\ loads[i].class # 0 /\ Subclass(loads[i].class, representations[i])
                    /\ TypenameOf(loads[i].class) # 0
                    /\ (\A c \in EntityClasses : family[c] = c) => TypenameOf(loads[i].class) = representations[i]
  BY DEF EntitiesKeepTheirType
<1> DEFINE class == loads[i].class
           r == representations[i]
           first(t) == t \in 1..2 /\ Subclass(class, t) /\ \A u \in 1..2 : Subclass(class, u) => t <= u
<1>1. i \in 1..Len(representations) /\ r \in {1, 2} /\ class \in 1..3 /\ Subclass(class, r)
  BY DEF EntitiesHold
<1>2. TypenameOf(class) = CHOOSE t \in 1..2 : Subclass(class, t) /\ \A u \in 1..2 : Subclass(class, u) => t <= u
  BY <1>1 DEF TypenameOf
<1>3. \E t \in 1..2 : first(t)
  BY <1>1
<1>4. first(TypenameOf(class))
  BY <1>2, <1>3
<1>5. ASSUME \A c \in EntityClasses : family[c] = c PROVE TypenameOf(class) = r
  BY <1>1, <1>4, <1>5 DEF Subclass, EntityClasses
<1> QED
  BY <1>1, <1>4, <1>5

-----------------------------------------------------------------------------
\* The backlog is the last of what was published, and the frames are what came before it.
SubscriptionHolds ==
  /\ generator \in {"unstarted", "opening", "waiting", "yielding", "done"}
  /\ attached \in BOOLEAN /\ returning \in BOOLEAN /\ sseClosed \in BOOLEAN
  /\ publishedSince \in Seq(Nat) /\ backlog \in Seq(Nat) /\ frames \in Seq(Nat)
  /\ (returning => sseClosed)
  /\ generator = "yielding" <=> backlog # << >>
  /\ generator \in {"unstarted", "opening", "done"} => ~attached
  /\ Denied => ~attached /\ publishedSince = << >>
  /\ Len(backlog) <= Len(publishedSince)
  /\ \A i \in 1..Len(backlog) : backlog[i] = Len(publishedSince) - Len(backlog) + i
  /\ \A i \in 1..Len(frames) : frames[i] \in {i, ErrorFrame}
  /\ ~sseClosed => Len(frames) + Len(backlog) = Len(publishedSince)

LEMMA StreamIsFaithful == ASSUME SubscriptionHolds PROVE StreamFaithful
BY DEF SubscriptionHolds, StreamFaithful

\* A frame more is the next event, or the error.
LEMMA FramesGo ==
  ASSUME NEW f \in Nat, Frame(f), sseClosed \in BOOLEAN, frames \in Seq(Nat), \A i \in 1..Len(frames) : frames[i] \in {i, ErrorFrame},
         ~sseClosed => f \in {Len(frames) + 1, ErrorFrame}
  PROVE  /\ frames' \in Seq(Nat) /\ \A i \in 1..Len(frames') : frames'[i] \in {i, ErrorFrame}
         /\ ~sseClosed => Len(frames') = Len(frames) + 1
<1>1. CASE sseClosed
  BY <1>1 DEF Frame
<1>2. CASE ~sseClosed
  BY <1>2 DEF Frame
<1> QED
  BY <1>1, <1>2

LEMMA StreamGoes == ASSUME SubscriptionHolds, Subscribe \/ Open \/ Publish \/ Yield \/ Cancel PROVE SubscriptionHolds'
<1>1. requires' = requires /\ principal' = principal
  BY DEF Subscribe, Open, Publish, Yield, Cancel
<1>2. Denied' <=> Denied
  BY <1>1 DEF Denied
<1>3. CASE Subscribe
  <2>1. attached' \in BOOLEAN /\ (attached' <=> requires = {})
    BY <1>3, Zenon DEF Subscribe, AttachesAtOnce
  <2>2. Denied => requires # {}
    BY DEF Denied
  <2>3. /\ generator' \in {"waiting", "opening"} /\ (generator' = "waiting" <=> requires = {})
        /\ backlog' = backlog /\ backlog = << >>
    BY <1>3 DEF Subscribe, SubscriptionHolds
  <2>4. UNCHANGED <<returning, sseClosed, publishedSince, frames>>
    BY <1>3, Zenon DEF Subscribe
  <2> QED
    BY <1>2, <2>1, <2>2, <2>3, <2>4 DEF SubscriptionHolds
<1>4. CASE Open
  <2>1. backlog = << >> /\ UNCHANGED <<returning, publishedSince>>
    BY <1>4 DEF Open, SubscriptionHolds
  <2>2. CASE Denied
    <3>1. generator' = "done" /\ backlog' = << >> /\ Frame(ErrorFrame)
      BY <1>4, <2>2 DEF Open, Ends
    <3>2. ~attached' /\ attached' \in BOOLEAN /\ sseClosed' /\ sseClosed' \in BOOLEAN
      BY <1>4, <2>2 DEF Open, Ends
    <3>3. frames' \in Seq(Nat) /\ \A i \in 1..Len(frames') : frames'[i] \in {i, ErrorFrame}
      BY <3>1, FramesGo DEF SubscriptionHolds, ErrorFrame
    <3> QED
      BY <1>2, <2>1, <3>1, <3>2, <3>3 DEF SubscriptionHolds
  <2>3. CASE ~Denied
    <3>1. attached' /\ attached' \in BOOLEAN /\ UNCHANGED sseClosed
      BY <1>4, <2>3, Zenon DEF Open
    <3>2. generator' = "waiting" /\ UNCHANGED <<backlog, frames>>
      BY <1>4, <2>3 DEF Open
    <3> QED
      BY <1>2, <2>1, <2>3, <3>1, <3>2 DEF SubscriptionHolds
  <2> QED
    BY <2>2, <2>3
<1>5. CASE Publish
  <2> DEFINE event == Len(publishedSince) + 1
  <2>1. attached /\ attached' \in BOOLEAN /\ UNCHANGED <<returning, sseClosed>>
    BY <1>5, Zenon DEF Publish, SubscriptionHolds
  <2>2. publishedSince' = Append(publishedSince, event) /\ UNCHANGED frames /\ ~Denied /\ generator \in {"waiting", "yielding"}
    BY <1>5, <2>1 DEF Publish, SubscriptionHolds
  <2>3. backlog' = Append(backlog, event) /\ generator' = "yielding"
    <3>1. generator = "waiting" <=> backlog = << >>
      BY <2>2 DEF SubscriptionHolds
    <3>2. CASE backlog = << >>
      BY <1>5, <3>1, <3>2 DEF Publish
    <3>3. CASE backlog # << >>
      BY <1>5, <2>2, <3>1, <3>3 DEF Publish
    <3> QED
      BY <3>2, <3>3
  <2>4. backlog' \in Seq(Nat) /\ Len(backlog') = Len(backlog) + 1 /\ publishedSince' \in Seq(Nat) /\ Len(publishedSince') = event
    BY <2>2, <2>3 DEF SubscriptionHolds
  <2>5. \A i \in 1..Len(backlog') : backlog'[i] = Len(publishedSince') - Len(backlog') + i
    <3>1. /\ Len(backlog) \in Nat /\ Len(publishedSince) \in Nat
          /\ \A i \in 1..Len(backlog) : backlog[i] = Len(publishedSince) - Len(backlog) + i
      BY DEF SubscriptionHolds
    <3>2. (\A i \in 1..Len(backlog) : backlog'[i] = backlog[i]) /\ backlog'[Len(backlog) + 1] = event
      BY <2>3 DEF SubscriptionHolds
    <3>3. Len(publishedSince') - Len(backlog') = Len(publishedSince) - Len(backlog) /\ event = Len(publishedSince) + 1
      BY <2>4, <3>1
    <3> HIDE DEF event
    <3>4. \A i \in 1..Len(backlog) + 1 : backlog'[i] = Len(publishedSince) - Len(backlog) + i
      <4>1. \A i \in 1..Len(backlog) + 1 : i \in 1..Len(backlog) \/ i = Len(backlog) + 1
        BY <3>1
      <4>2. Len(publishedSince) - Len(backlog) + (Len(backlog) + 1) = event
        BY <3>1, <3>3
      <4> QED
        BY <3>1, <3>2, <4>1, <4>2, Zenon
    <3>5. Len(backlog') = Len(backlog) + 1
      BY <2>4
    <3> QED
      BY <3>3, <3>4, <3>5, Zenon
  <2>6. attached'
    BY <1>5, <2>1, Zenon DEF Publish
  <2>7. backlog' # << >> /\ Len(backlog') <= Len(publishedSince')
    BY <2>4 DEF SubscriptionHolds
  <2>8. ~sseClosed => Len(frames) + Len(backlog') = Len(publishedSince')
    BY <2>4 DEF SubscriptionHolds
  <2> QED
    BY <1>2, <2>1, <2>2, <2>3, <2>4, <2>5, <2>6, <2>7, <2>8 DEF SubscriptionHolds
<1>6. CASE Yield
  <2>1. UNCHANGED <<returning, sseClosed>> /\ UNCHANGED publishedSince
    BY <1>6, Zenon DEF Yield
  <2>2. backlog # << >> /\ Len(backlog) \in Nat \ {0} /\ Head(backlog) = backlog[1] /\ Head(backlog) \in Nat
    BY <1>6 DEF Yield, SubscriptionHolds
  <2>3. ~sseClosed => Head(backlog) = Len(frames) + 1
    BY <2>2 DEF SubscriptionHolds
  <2>4. /\ frames' \in Seq(Nat) /\ \A i \in 1..Len(frames') : frames'[i] \in {i, ErrorFrame}
        /\ ~sseClosed => Len(frames') = Len(frames) + 1
    BY <1>6, <2>2, <2>3, FramesGo DEF Yield, SubscriptionHolds
  <2>5. CASE returning
    <3>1. generator' = "done" /\ backlog' = << >> /\ sseClosed
      BY <1>6, <2>5 DEF Yield, Ends, SubscriptionHolds
    <3>2. ~attached' /\ attached' \in BOOLEAN
      BY <1>6, <2>5 DEF Yield, Ends
    <3> QED
      BY <1>2, <2>1, <2>4, <3>1, <3>2 DEF SubscriptionHolds
  <2>6. CASE ~returning
    <3>1. backlog' = Tail(backlog) /\ generator' = (IF Len(backlog) > 1 THEN "yielding" ELSE "waiting")
      BY <1>6, <2>6 DEF Yield
    <3>2. attached' = attached
      BY <1>6, <2>6, Zenon DEF Yield
    <3>3. /\ backlog' \in Seq(Nat) /\ Len(backlog') = Len(backlog) - 1
          /\ \A i \in 1..Len(backlog') : backlog'[i] = backlog[i + 1]
      BY <2>2, <3>1 DEF SubscriptionHolds
    <3>4. \A i \in 1..Len(backlog') : backlog'[i] = Len(publishedSince) - Len(backlog') + i
      <4>1. Len(publishedSince) \in Nat /\ \A i \in 1..Len(backlog) : backlog[i] = Len(publishedSince) - Len(backlog) + i
        BY DEF SubscriptionHolds
      <4> QED
        BY <2>2, <3>3, <4>1
    <3>5. generator' \in {"waiting", "yielding"} /\ (generator' = "yielding" <=> backlog' # << >>)
      <4>1. backlog' # << >> <=> Len(backlog') > 0
        BY <3>3, EmptySeq
      <4> QED
        BY <2>2, <3>1, <3>3, <4>1
    <3>6. Len(backlog') <= Len(publishedSince) /\ (~sseClosed => Len(frames') + Len(backlog') = Len(publishedSince))
      <4>1. Len(backlog) <= Len(publishedSince) /\ Len(publishedSince) \in Nat /\ Len(frames) \in Nat
        BY DEF SubscriptionHolds
      <4>2. Len(backlog) \in Nat \ {0} /\ Len(backlog') = Len(backlog) - 1
        BY <2>2, <3>3
      <4>3. ASSUME ~sseClosed PROVE Len(frames') = Len(frames) + 1 /\ Len(frames) + Len(backlog) = Len(publishedSince)
        BY <2>4, <4>3 DEF SubscriptionHolds
      <4> QED
        BY <4>1, <4>2, <4>3
    <3> QED
      BY <1>2, <2>1, <2>4, <3>2, <3>3, <3>4, <3>5, <3>6 DEF SubscriptionHolds
  <2> QED
    BY <2>5, <2>6
<1>7. CASE Cancel
  <2>1. returning' /\ sseClosed' /\ returning' \in BOOLEAN /\ sseClosed' \in BOOLEAN /\ UNCHANGED attached
    BY <1>7, Zenon DEF Cancel
  <2>2. UNCHANGED <<generator, backlog, publishedSince, frames>>
    BY <1>7 DEF Cancel
  <2> QED
    BY <1>2, <2>1, <2>2 DEF SubscriptionHolds
<1> QED
  BY <1>3, <1>4, <1>5, <1>6, <1>7

-----------------------------------------------------------------------------
\* The pages so far are the first items of the list, or the last ones.
PageHolds ==
  /\ total \in 0..MaxItems /\ visited \in Seq(Nat)
  /\ walk \in [forward : BOOLEAN, size : Nat \ {0}, started : BOOLEAN]
  /\ ~walk.started => visited = << >>
  /\ walk.started /\ walk.forward =>
       /\ window.end \in 0..total /\ (window.next <=> window.end < total) /\ Len(visited) = window.end
       /\ \A i \in 1..Len(visited) : visited[i] = i - 1
  /\ walk.started /\ ~walk.forward =>
       /\ window.start \in 0..total /\ (window.previous <=> window.start > 0) /\ Len(visited) = total - window.start
       /\ \A i \in 1..Len(visited) : visited[i] = window.start + i - 1

\* A page starts where the last one ended, or ends where it started.
LEMMA SlicesFit ==
  ASSUME NEW at \in 0..total, NEW size \in Nat \ {0}, total \in 0..MaxItems, NEW started \in BOOLEAN
  PROVE  /\ (~started => at = 0) =>
              LET w == Slice(IF started THEN at - 1 ELSE NoCursor, NoCursor, size, TRUE) IN
              w.start = at /\ w.end \in at..total /\ (w.next <=> w.end < total)
         /\ (~started => at = total) =>
              LET w == Slice(NoCursor, IF started THEN at ELSE NoCursor, size, FALSE) IN
              w.end = at /\ w.start \in 0..at /\ (w.previous <=> w.start > 0)
<1>0. MaxItems \in Nat
  BY GraphqlAssumption
<1>1. ASSUME ~started => at = 0
      PROVE  LET w == Slice(IF started THEN at - 1 ELSE NoCursor, NoCursor, size, TRUE) IN
             w.start = at /\ w.end \in at..total /\ (w.next <=> w.end < total)
  <2> DEFINE after == IF started THEN at - 1 ELSE NoCursor
             to == Smaller(total, at + size)
  <2>1. (IF after = NoCursor THEN 0 ELSE Smaller(PastCursor(after), total)) = at
    BY <1>0, <1>1 DEF Smaller, PastCursor, NoCursor
  <2>2. Greater(at, total) = total /\ to \in at..total
    BY DEF Greater, Smaller
  <2> HIDE DEF after, to
  <2>3. Slice(after, NoCursor, size, TRUE) = [start |-> at, end |-> to, next |-> to < total, previous |-> at > 0]
    BY <2>1, <2>2, Zenon DEF Slice, to
  <2>4. /\ [start |-> at, end |-> to, next |-> to < total, previous |-> at > 0].start = at
        /\ [start |-> at, end |-> to, next |-> to < total, previous |-> at > 0].end = to
        /\ [start |-> at, end |-> to, next |-> to < total, previous |-> at > 0].next <=> to < total
    OBVIOUS
  <2> QED
    BY <2>2, <2>3, <2>4, Zenon DEF after
<1>2. ASSUME ~started => at = total
      PROVE  LET w == Slice(NoCursor, IF started THEN at ELSE NoCursor, size, FALSE) IN
             w.end = at /\ w.start \in 0..at /\ (w.previous <=> w.start > 0)
  <2> DEFINE before == IF started THEN at ELSE NoCursor
             from == Greater(0, IF at > size THEN at - size ELSE 0)
  <2>1. (IF before = NoCursor THEN total ELSE Smaller(total, before)) = at
    BY <1>0, <1>2 DEF Smaller, NoCursor
  <2>2. Greater(0, at) = at /\ from \in 0..at
    BY DEF Greater
  <2> HIDE DEF before, from
  <2>3. Slice(NoCursor, before, size, FALSE) = [start |-> from, end |-> at, next |-> at < total, previous |-> from > 0]
    BY <2>1, <2>2, Zenon DEF Slice, from
  <2>4. /\ [start |-> from, end |-> at, next |-> at < total, previous |-> from > 0].start = from
        /\ [start |-> from, end |-> at, next |-> at < total, previous |-> from > 0].end = at
        /\ [start |-> from, end |-> at, next |-> at < total, previous |-> from > 0].previous <=> from > 0
    OBVIOUS
  <2> QED
    BY <2>2, <2>3, <2>4, Zenon DEF before
<1> QED
  BY <1>1, <1>2

LEMMA IndicesAre ==
  ASSUME NEW w, w.start \in Nat, w.end \in Nat, w.start <= w.end
  PROVE  /\ Indices(w) \in Seq(Nat) /\ Len(Indices(w)) = w.end - w.start
         /\ \A i \in 1..Len(Indices(w)) : Indices(w)[i] = w.start + i - 1
<1> DEFINE n == w.end - w.start
<1>1. n \in Nat /\ \A i \in 1..n : w.start + i - 1 \in Nat
  OBVIOUS
<1>2. Indices(w) = [i \in 1..n |-> w.start + i - 1]
  BY DEF Indices
<1>3. Indices(w) \in [1..n -> Nat]
  BY <1>1, <1>2
<1> HIDE DEF n
<1>4. Indices(w) \in Seq(Nat) /\ Len(Indices(w)) = n
  BY <1>1, <1>3, FunctionIsSeq
<1> QED
  BY <1>2, <1>4 DEF n

LEMMA CountsOn ==
  ASSUME NEW a \in Nat, NEW s \in Seq(Nat), NEW t \in Seq(Nat),
         \A i \in 1..Len(s) : s[i] = a + i - 1, \A i \in 1..Len(t) : t[i] = a + Len(s) + i - 1
  PROVE  s \o t \in Seq(Nat) /\ Len(s \o t) = Len(s) + Len(t) /\ \A i \in 1..Len(s) + Len(t) : (s \o t)[i] = a + i - 1
<1>1. Len(s) \in Nat /\ Len(t) \in Nat
  BY LenProperties
<1>2. /\ s \o t \in Seq(Nat) /\ Len(s \o t) = Len(s) + Len(t)
      /\ \A i \in 1..Len(s) + Len(t) : (s \o t)[i] = IF i <= Len(s) THEN s[i] ELSE t[i - Len(s)]
  BY ConcatProperties
<1> QED
  BY <1>1, <1>2

LEMMA PagesGo == ASSUME PageHolds, Page PROVE PageHolds'
<1> DEFINE pages == Indices(window')
<1>1. UNCHANGED total /\ walk' = [walk EXCEPT !.started = TRUE] /\ total \in 0..MaxItems /\ visited \in Seq(Nat)
  BY DEF PageHolds, Page
<1>2. walk' \in [forward : BOOLEAN, size : Nat \ {0}, started : BOOLEAN] /\ walk'.started /\ (walk'.forward <=> walk.forward)
  BY <1>1 DEF PageHolds
<1>3. walk.size \in Nat \ {0} /\ walk.started \in BOOLEAN
  BY DEF PageHolds
<1>4. CASE walk.forward
  <2> DEFINE at == IF walk.started THEN window.end ELSE 0
  <2>1. at \in 0..total /\ Len(visited) = at /\ (~walk.started => at = 0) /\ \A i \in 1..Len(visited) : visited[i] = i - 1
    BY <1>4 DEF PageHolds
  <2>2. /\ window' = Slice(IF walk.started THEN at - 1 ELSE NoCursor, NoCursor, walk.size, TRUE)
        /\ visited' = visited \o pages
    BY <1>4, Zenon DEF Page
  <2> HIDE DEF at
  <2>3. window'.start = at /\ window'.end \in at..total /\ (window'.next <=> window'.end < total)
    BY <1>1, <1>3, <2>1, <2>2, SlicesFit, Zenon
  <2>4. /\ pages \in Seq(Nat) /\ Len(pages) = window'.end - at
        /\ \A i \in 1..Len(pages) : pages[i] = at + i - 1
    BY <1>1, <2>1, <2>3, IndicesAre
  <2> HIDE DEF pages
  <2>5. visited' \in Seq(Nat) /\ Len(visited') = window'.end /\ \A i \in 1..Len(visited') : visited'[i] = i - 1
    <3> DEFINE a == 0
    <3>1. a \in Nat /\ \A i \in 1..Len(visited) : visited[i] = a + i - 1
      BY <2>1
    <3>2. \A i \in 1..Len(pages) : pages[i] = a + Len(visited) + i - 1
      BY <2>1, <2>4
    <3>3. a = 0
      OBVIOUS
    <3> HIDE DEF a
    <3>4. /\ visited \o pages \in Seq(Nat) /\ Len(visited \o pages) = Len(visited) + Len(pages)
          /\ \A i \in 1..Len(visited) + Len(pages) : (visited \o pages)[i] = a + i - 1
      BY <1>1, <2>4, <3>1, <3>2, CountsOn, Zenon
    <3>5. Len(visited) + Len(pages) = window'.end
      BY <1>1, <2>1, <2>3, <2>4
    <3>6. /\ visited' \in Seq(Nat) /\ Len(visited') = window'.end
          /\ \A i \in 1..window'.end : visited'[i] = a + i - 1
      BY <2>2, <3>4, <3>5
    <3>7. \A i \in Int : a + i - 1 = i - 1
      BY <3>3
    <3> QED
      BY <3>6, <3>7
  <2>6. window'.end \in 0..total
    BY <1>1, <2>1, <2>3
  <2> QED
    BY <1>1, <1>2, <1>4, <2>3, <2>5, <2>6 DEF PageHolds
<1>5. CASE ~walk.forward
  <2> DEFINE at == IF walk.started THEN window.start ELSE total
  <2>1. /\ at \in 0..total /\ Len(visited) = total - at /\ (~walk.started => at = total)
        /\ \A i \in 1..Len(visited) : visited[i] = at + i - 1
    BY <1>5 DEF PageHolds
  <2>2. /\ window' = Slice(NoCursor, IF walk.started THEN at ELSE NoCursor, walk.size, FALSE)
        /\ visited' = pages \o visited
    BY <1>5, Zenon DEF Page
  <2> HIDE DEF at
  <2>3. window'.end = at /\ window'.start \in 0..at /\ (window'.previous <=> window'.start > 0)
    BY <1>1, <1>3, <2>1, <2>2, SlicesFit, Zenon
  <2>4. /\ pages \in Seq(Nat) /\ Len(pages) = at - window'.start
        /\ \A i \in 1..Len(pages) : pages[i] = window'.start + i - 1
    BY <1>1, <2>1, <2>3, IndicesAre
  <2> HIDE DEF pages
  <2>5. /\ visited' \in Seq(Nat) /\ Len(visited') = total - window'.start
        /\ \A i \in 1..Len(visited') : visited'[i] = window'.start + i - 1
    <3>1. \A i \in 1..Len(visited) : visited[i] = window'.start + Len(pages) + i - 1
      BY <2>1, <2>3, <2>4
    <3> DEFINE a == window'.start
    <3>2. a \in Nat /\ a \in 0..at /\ Len(pages) = at - a /\ a = window'.start
      BY <2>1, <2>3, <2>4
    <3>3. \A i \in 1..Len(pages) : pages[i] = a + i - 1
      BY <2>4
    <3>4. \A i \in 1..Len(visited) : visited[i] = a + Len(pages) + i - 1
      BY <3>1
    <3> HIDE DEF a
    <3>5. /\ pages \o visited \in Seq(Nat) /\ Len(pages \o visited) = Len(pages) + Len(visited)
          /\ \A i \in 1..Len(pages) + Len(visited) : (pages \o visited)[i] = a + i - 1
      BY <1>1, <2>4, <3>2, <3>3, <3>4, CountsOn, Zenon
    <3>6. Len(pages) + Len(visited) = total - a
      BY <1>1, <2>1, <3>2
    <3> QED
      BY <2>2, <3>2, <3>5, <3>6
  <2>6. window'.start \in 0..total
    BY <1>1, <2>1, <2>3
  <2> QED
    BY <1>1, <1>2, <1>5, <2>3, <2>5, <2>6 DEF PageHolds
<1> QED
  BY <1>4, <1>5

LEMMA PagesDoTile == ASSUME PageHolds PROVE PagesTile
<1>1. ASSUME NEW i \in 1..Len(visited), i > 1 PROVE visited[i] = visited[i - 1] + 1
  <2>1. i - 1 \in 1..Len(visited) /\ walk.started
    BY <1>1 DEF PageHolds
  <2>2. PICK a \in Nat : \A j \in 1..Len(visited) : visited[j] = a + j - 1
    <3>1. CASE walk.forward
      <4>1. \A j \in 1..Len(visited) : visited[j] = 0 + j - 1
        BY <2>1, <3>1 DEF PageHolds
      <4> QED
        BY <4>1, 0 \in Nat, Zenon
    <3>2. CASE ~walk.forward
      <4>1. window.start \in 0..total /\ \A j \in 1..Len(visited) : visited[j] = window.start + j - 1
        BY <2>1, <3>2 DEF PageHolds
      <4>2. window.start \in Nat
        BY <4>1 DEF PageHolds
      <4> QED
        BY <4>1, <4>2, Zenon
    <3> QED
      BY <3>1, <3>2
  <2>3. Len(visited) \in Nat
    BY DEF PageHolds
  <2> QED
    BY <1>1, <2>1, <2>2, <2>3
<1>2. ASSUME walk.started, ~(IF walk.forward THEN window.next ELSE window.previous) PROVE Len(visited) = total
  BY <1>2 DEF PageHolds
<1> QED
  BY <1>1, <1>2 DEF PagesTile

-----------------------------------------------------------------------------
\* A key is queued once, before it is asked for, and until it has a result it is queued or in a batch.
Queued(k) == \E i \in 1..Len(loadQueue) : loadQueue[i] = k
AnswersCarried(k) == \E b \in inFlight : \E i \in 1..Len(b) : b[i] = k
LoadHolds ==
  /\ loadQueue \in Seq(LoadKeys) /\ inFlight \subseteq Seq(LoadKeys) /\ asks \in [LoadKeys -> 0..1]
  /\ loadQueue # << >> => scheduled
  /\ \A i, j \in 1..Len(loadQueue) : loadQueue[i] = loadQueue[j] => i = j
  /\ \A k \in LoadKeys : /\ Queued(k) => k \in loadCache /\ asks[k] = 0
                         /\ k \notin loadCache => asks[k] = 0
  /\ DOMAIN loadResult = LoadKeys
  /\ \A k \in LoadKeys : /\ loadResult[k] \in {"none", "pending", "failed", k}
                         /\ loadResult[k] = "pending" => Queued(k) \/ AnswersCarried(k)

LEMMA LoadsAreAnswered == ASSUME LoadHolds PROVE LoadsAnswered
BY DEF LoadHolds, LoadsAnswered, Queued, AnswersCarried

LEMMA LoadsGo ==
  ASSUME LoadHolds, (\E k \in LoadKeys : Load(k)) \/ Dispatch \/ \E b \in inFlight : BatchEnds(b)
  PROVE  LoadHolds'
<1>1. ASSUME NEW k \in LoadKeys, Load(k) PROVE LoadHolds'
  <2>1. loadQueue' = Append(loadQueue, k) /\ k \notin loadCache /\ loadCache' = loadCache \union {k} /\ UNCHANGED <<inFlight, asks>>
    BY <1>1 DEF Load
  <2>2. /\ loadQueue' \in Seq(LoadKeys) /\ Len(loadQueue') = Len(loadQueue) + 1 /\ loadQueue'[Len(loadQueue) + 1] = k
        /\ \A i \in 1..Len(loadQueue) : loadQueue'[i] = loadQueue[i]
        /\ Len(loadQueue) \in Nat
    BY <2>1 DEF LoadHolds
  <2>3. ~Queued(k) /\ asks[k] = 0
    BY <2>1 DEF LoadHolds
  <2>4. \A i, j \in 1..Len(loadQueue') : loadQueue'[i] = loadQueue'[j] => i = j
    BY <2>2, <2>3 DEF LoadHolds, Queued
  <2>5. \A j \in LoadKeys : Queued(j)' <=> (Queued(j) \/ j = k)
    BY <2>2 DEF Queued
  <2>6. \A j \in LoadKeys : (Queued(j)' => j \in loadCache' /\ asks'[j] = 0) /\ (j \notin loadCache' => asks'[j] = 0)
    BY <2>1, <2>3, <2>5 DEF LoadHolds
  <2>7. \A j \in LoadKeys : AnswersCarried(j)' <=> AnswersCarried(j)
    BY <2>1 DEF AnswersCarried
  <2>8. scheduled'
    BY <1>1 DEF Load
  <2>9. DOMAIN loadResult' = LoadKeys /\ \A j \in LoadKeys : loadResult'[j] = IF j = k THEN "pending" ELSE loadResult[j]
    BY <1>1 DEF Load, LoadHolds
  <2>10. \A j \in LoadKeys : /\ loadResult'[j] \in {"none", "pending", "failed", j}
                             /\ loadResult'[j] = "pending" => Queued(j)' \/ AnswersCarried(j)'
    BY <2>5, <2>7, <2>9 DEF LoadHolds
  <2>11. inFlight' \subseteq Seq(LoadKeys) /\ asks' \in [LoadKeys -> 0..1]
    BY <2>1 DEF LoadHolds
  <2> QED
    BY <2>2, <2>4, <2>6, <2>8, <2>9, <2>10, <2>11 DEF LoadHolds
<1>2. CASE Dispatch
  <2> DEFINE at(k) == {i \in 1..Len(loadQueue) : loadQueue[i] = k}
  <2>1. /\ loadQueue' = << >> /\ UNCHANGED <<loadCache, loadResult>>
        /\ inFlight' = IF loadQueue = << >> THEN inFlight ELSE inFlight \union {loadQueue}
    BY <1>2 DEF Dispatch, QueueAfter
  <2>2. asks' = [k \in LoadKeys |-> asks[k] + Cardinality(at(k))]
    BY <1>2, Zenon DEF Dispatch
  <2>3. ASSUME NEW k \in LoadKeys PROVE Cardinality(at(k)) = IF Queued(k) THEN 1 ELSE 0
    <3>1. CASE ~Queued(k)
      <4>1. at(k) = {}
        BY <3>1 DEF Queued
      <4> QED
        BY <3>1, <4>1, FS_EmptySet
    <3>2. CASE Queued(k)
      <4>1. PICK i \in 1..Len(loadQueue) : loadQueue[i] = k
        BY <3>2 DEF Queued
      <4>2. at(k) = {i}
        BY <4>1 DEF LoadHolds
      <4> HIDE DEF at
      <4> QED
        BY <3>2, <4>2, FS_Singleton
    <3> QED
      BY <3>1, <3>2
  <2> HIDE DEF at
  <2>4. asks' \in [LoadKeys -> 0..1] /\ \A k \in LoadKeys : ~Queued(k) => asks'[k] = asks[k]
    <3>1. ASSUME NEW k \in LoadKeys PROVE asks[k] + Cardinality(at(k)) \in 0..1 /\ (~Queued(k) => asks[k] + Cardinality(at(k)) = asks[k])
      BY <2>3 DEF LoadHolds
    <3> QED
      BY <2>2, <3>1
  <2>5. \A k : ~Queued(k)'
    BY <2>1 DEF Queued
  <2>6. \A k \in LoadKeys : (Queued(k) \/ AnswersCarried(k)) => AnswersCarried(k)'
    BY <2>1 DEF Queued, AnswersCarried
  <2>7. loadQueue' \in Seq(LoadKeys) /\ inFlight' \subseteq Seq(LoadKeys) /\ Len(loadQueue') = 0
    BY <2>1 DEF LoadHolds
  <2>8. \A k \in LoadKeys : k \notin loadCache' => asks'[k] = 0
    BY <2>1, <2>4 DEF LoadHolds
  <2> QED
    BY <2>1, <2>4, <2>5, <2>6, <2>7, <2>8 DEF LoadHolds
<1>3. ASSUME NEW batch \in inFlight, BatchEnds(batch) PROVE LoadHolds'
  <2> DEFINE has(k) == \E i \in 1..Len(batch) : batch[i] = k
  <2>1. UNCHANGED <<loadQueue, loadCache, asks>> /\ inFlight' = inFlight \ {batch} /\ (scheduled' <=> scheduled)
    BY <1>3 DEF BatchEnds
  <2>2. PICK missing \in 0..Len(batch) :
          LET results == IF missing = 0 THEN batch
                         ELSE SubSeq(batch, 1, missing - 1) \o SubSeq(batch, missing + 1, Len(batch)) IN
          loadResult' = [k \in LoadKeys |-> IF has(k) THEN Given(batch, results, k) ELSE loadResult[k]]
    BY <1>3, Zenon DEF BatchEnds
  <2> DEFINE results == IF missing = 0 THEN batch
                        ELSE SubSeq(batch, 1, missing - 1) \o SubSeq(batch, missing + 1, Len(batch))
  <2>3. batch \in Seq(LoadKeys) /\ Len(batch) \in Nat
    BY DEF LoadHolds
  <2>4. missing = 0 \/ Len(results) # Len(batch)
    <3> SUFFICES ASSUME missing # 0 PROVE Len(results) # Len(batch)
      OBVIOUS
    <3> DEFINE before == SubSeq(batch, 1, missing - 1)
               after == SubSeq(batch, missing + 1, Len(batch))
    <3>1. before \in Seq(LoadKeys) /\ Len(before) = missing - 1 /\ after \in Seq(LoadKeys) /\ Len(after) = Len(batch) - missing
      BY <2>3
    <3> HIDE DEF before, after
    <3>2. Len(before \o after) = Len(before) + Len(after)
      BY <3>1
    <3>3. Len(before \o after) # Len(batch)
      BY <2>3, <3>1, <3>2
    <3>4. results = before \o after
      BY DEF before, after
    <3> HIDE DEF results
    <3> QED
      BY <3>3, <3>4
  <2>5. ASSUME NEW k \in LoadKeys, has(k) PROVE Given(batch, results, k) \in {"failed", k}
    <3>1. CASE missing = 0
      <4>1. results = batch /\ batch[CHOOSE i \in 1..Len(batch) : batch[i] = k] = k
        BY <2>5, <3>1
      <4> HIDE DEF results
      <4> QED
        BY <4>1 DEF Given
    <3>2. CASE Len(results) # Len(batch)
      <4> HIDE DEF results
      <4> QED
        BY <3>2 DEF Given
    <3> QED
      BY <2>4, <3>1, <3>2
  <2>6. loadResult' = [k \in LoadKeys |-> IF has(k) THEN Given(batch, results, k) ELSE loadResult[k]]
    BY <2>2, Zenon
  <2> HIDE DEF results
  <2>7. \A k \in LoadKeys : /\ loadResult'[k] \in {"none", "pending", "failed", k}
                            /\ loadResult'[k] = "pending" => loadResult[k] = "pending" /\ ~has(k)
    BY <2>5, <2>6, GraphqlAssumption DEF LoadHolds
  <2>8. \A k \in LoadKeys : (Queued(k)' <=> Queued(k)) /\ (AnswersCarried(k) => AnswersCarried(k)' \/ has(k))
    BY <2>1 DEF Queued, AnswersCarried
  <2>9. \A k \in LoadKeys : loadResult'[k] = "pending" => Queued(k)' \/ AnswersCarried(k)'
    BY <2>7, <2>8 DEF LoadHolds
  <2>10. DOMAIN loadResult' = LoadKeys
    BY <2>6
  <2> QED
    BY <2>1, <2>7, <2>8, <2>9, <2>10 DEF LoadHolds
<1> QED
  BY <1>1, <1>2, <1>3

-----------------------------------------------------------------------------
GraphqlIInv == LoadHolds /\ PageHolds /\ SubscriptionHolds /\ AskHolds /\ EntitiesHold

LEMMA GraphqlStarts == GraphqlInit => GraphqlIInv
<1> SUFFICES ASSUME GraphqlInit PROVE GraphqlIInv
  OBVIOUS
<1>1. LoadHolds
  <2>1. loadQueue = << >> /\ loadQueue \in Seq(LoadKeys) /\ Len(loadQueue) = 0
    BY DEF GraphqlInit
  <2> QED
    BY <2>1 DEF GraphqlInit, LoadHolds, Queued
<1>2. PageHolds
  <2>1. walk \in [forward : BOOLEAN, size : 1..MaxItems, started : {FALSE}]
    BY DEF GraphqlInit
  <2>2. ~walk.started /\ walk \in [forward : BOOLEAN, size : Nat \ {0}, started : BOOLEAN]
    <3>1. 1..MaxItems \subseteq Nat \ {0} /\ {FALSE} \subseteq BOOLEAN
      OBVIOUS
    <3>2. walk.started \in {FALSE}
      BY <2>1
    <3>3. walk.started = FALSE
      BY <3>2, Zenon
    <3> QED
      BY <2>1, <3>1, <3>3
  <2>3. total \in 0..MaxItems /\ visited = << >> /\ visited \in Seq(Nat)
    BY DEF GraphqlInit
  <2> QED
    BY <2>2, <2>3 DEF PageHolds
<1>3. SubscriptionHolds
  <2>1. generator = "unstarted" /\ attached = FALSE /\ returning = FALSE /\ sseClosed = FALSE
    BY DEF GraphqlInit
  <2>2. backlog = << >> /\ publishedSince = << >> /\ frames = << >>
    BY DEF GraphqlInit
  <2>3. /\ Len(backlog) = 0 /\ Len(publishedSince) = 0 /\ Len(frames) = 0
        /\ publishedSince \in Seq(Nat) /\ backlog \in Seq(Nat) /\ frames \in Seq(Nat)
    BY <2>2
  <2>4. generator = "unstarted" /\ (generator = "yielding" <=> backlog # << >>)
    BY <2>1, <2>2
  <2>5. ~attached /\ ~returning /\ attached \in BOOLEAN /\ returning \in BOOLEAN /\ sseClosed \in BOOLEAN
    BY <2>1
  <2> QED
    BY <2>2, <2>3, <2>4, <2>5 DEF SubscriptionHolds
<1>4. AskHolds
  <2>1. OneField \in Documents
    <3>1. \A b \in 1..3 : <<Leaf>> \in [1..1 -> Items(b)]
      BY DEF Items
    <3>2. \A b \in 1..3 : <<Leaf>> \in Bodies(b)
      BY <3>1 DEF Bodies
    <3> QED
      BY <3>2 DEF OneField, Documents
  <2>2. PlainQuery \in Queries /\ NoLimits \in [depth : Nat, complexity : Nat]
    BY DEF PlainQuery, Queries, NoLimits
  <2>3. stage = "received"
    BY DEF GraphqlInit, QueryInit
  <2>4. asked \in Queries /\ selections \in Documents /\ limits \in [depth : Nat, complexity : Nat]
    BY <2>1, <2>2 DEF GraphqlInit, QueryInit
  <2> QED
    BY <2>3, <2>4 DEF AskHolds
<1>5. EntitiesHold
  <2>1. CASE part = "entities"
    <3>1. PICK n \in 0..MaxEntities : representations \in [1..n -> EntityClasses]
      BY <2>1 DEF GraphqlInit, EntitiesInit
    <3>2. representations \in Seq(EntityClasses)
      BY <3>1, FunctionIsSeq, GraphqlAssumption
    <3> QED
      BY <2>1, <3>2 DEF GraphqlInit, EntitiesInit, EntitiesHold, Pending
  <2>2. CASE part # "entities"
    <3>1. representations = << >> /\ loads = << >> /\ family = [c \in EntityClasses |-> c]
      BY <2>2 DEF GraphqlInit
    <3>2. Len(representations) = 0 /\ representations \in Seq(EntityClasses) /\ loads = [i \in 1..0 |-> Pending]
      BY <3>1
    <3> QED
      BY <3>1, <3>2 DEF EntitiesHold
  <2> QED
    BY <2>1, <2>2
<1> QED
  BY <1>1, <1>2, <1>3, <1>4, <1>5 DEF GraphqlIInv

LEMMA GraphqlKept == GraphqlIInv /\ [GraphqlNext]_graphqlVars => GraphqlIInv'
<1> SUFFICES ASSUME GraphqlIInv, [GraphqlNext]_graphqlVars PROVE GraphqlIInv'
  OBVIOUS
<1>1. LoadHolds'
  <2>1. UNCHANGED loaderVars \/ (\E k \in LoadKeys : Load(k)) \/ Dispatch \/ \E b \in inFlight : BatchEnds(b)
    BY DEF GraphqlNext, graphqlVars
  <2>2. ASSUME UNCHANGED loaderVars PROVE LoadHolds'
    BY <2>2 DEF GraphqlIInv, loaderVars, LoadHolds, Queued, AnswersCarried
  <2> QED
    BY <2>1, <2>2, LoadsGo DEF GraphqlIInv
<1>2. PageHolds'
  <2>1. UNCHANGED pageVars \/ Page
    BY DEF GraphqlNext, graphqlVars
  <2>2. ASSUME UNCHANGED pageVars PROVE PageHolds'
    BY <2>2 DEF GraphqlIInv, pageVars, PageHolds
  <2> QED
    BY <2>1, <2>2, PagesGo DEF GraphqlIInv
<1>3. SubscriptionHolds'
  <2>1. UNCHANGED streamVars \/ Subscribe \/ Open \/ Publish \/ Yield \/ Cancel
    BY DEF GraphqlNext, graphqlVars
  <2>2. ASSUME UNCHANGED streamVars PROVE SubscriptionHolds'
    BY <2>2 DEF GraphqlIInv, streamVars, SubscriptionHolds, Denied
  <2> QED
    BY <2>1, <2>2, StreamGoes DEF GraphqlIInv
<1>4. AskHolds'
  <2>1. UNCHANGED queryVars \/ Receive \/ Prepare \/ Execute
    BY DEF GraphqlNext, graphqlVars
  <2>2. ASSUME UNCHANGED queryVars PROVE AskHolds'
    BY <2>2 DEF GraphqlIInv, queryVars, AskHolds, HasQuery, Prepared, Errors
  <2> QED
    BY <2>1, <2>2, QueriesGo DEF GraphqlIInv
<1>5. EntitiesHold'
  <2>1. UNCHANGED entityVars \/ \E i \in 1..Len(representations) : LoadEntity(i)
    BY DEF GraphqlNext, graphqlVars
  <2>2. ASSUME UNCHANGED entityVars PROVE EntitiesHold'
    BY <2>2 DEF GraphqlIInv, entityVars, EntitiesHold, Subclass
  <2> QED
    BY <2>1, <2>2, EntitiesGo DEF GraphqlIInv
<1> QED
  BY <1>1, <1>2, <1>3, <1>4, <1>5 DEF GraphqlIInv

LEMMA GraphqlTells == GraphqlIInv => LimitsHold /\ EntitiesKeepTheirType /\ LoadsAnswered /\ PagesTile /\ StreamFaithful
BY LimitsAreKept, EntitiesKeepIt, LoadsAreAnswered, PagesDoTile, StreamIsFaithful DEF GraphqlIInv

\* A query is refused beyond its limits and never executes more than it was charged for, an entity is
\* of the type it was asked as, every load is answered once with its own key's result, pages tile
\* the list they cut up, and a subscription passes on what was published (schema.ts:518-566,
\* federation.ts, dataloader, sse.ts).
THEOREM GraphqlHolds == GraphqlSpec => [](LimitsHold /\ EntitiesKeepTheirType /\ LoadsAnswered /\ PagesTile /\ StreamFaithful)
<1>1. GraphqlSpec => []GraphqlIInv
  BY GraphqlStarts, GraphqlKept, PTL DEF GraphqlSpec
<1> QED
  BY <1>1, GraphqlTells, PTL

(***************************************************************************)
(* The components that are together in MCData, each in a part of its own:  *)
(* what their own Init and Next keep is kept when focus chooses among them.*)
(***************************************************************************)
RequestingIInv == HttpIInv /\ AuthIInv /\ RpcIInv

\* The first states of MCData are first states of the components.
LEMMA RequestingStarts == ASSUME Init PROVE RequestingIInv
BY HttpStarts, AuthFirst, RpcStarts DEF Init, RequestingIInv

\* Whichever component moves, the step is one of its own or leaves its variables alone.
LEMMA RequestingKept == ASSUME RequestingIInv, [Next]_vars PROVE RequestingIInv'
<1>1. ServingNext \/ UNCHANGED servingVars
  BY DEF vars, httpVars, servingVars, Next, Serve
<1>2. DocumentNext \/ UNCHANGED documentVars
  BY DEF vars, httpVars, documentVars, Next
<1>3. [AuthNext]_authVars
  BY DEF vars, Next, SignInOrAsk
<1>4. RpcEndpointsNext \/ UNCHANGED endpointVars
  BY DEF vars, Next
<1>5. HttpIInv'
  BY <1>1, <1>2, ServingKept, ChaseKept, DocumentKept DEF RequestingIInv, HttpIInv
<1>6. AuthIInv'
  BY <1>3, AuthKept DEF RequestingIInv
<1>7. RpcIInv'
  BY <1>4, RpcKept DEF RequestingIInv
<1> QED
  BY <1>5, <1>6, <1>7 DEF RequestingIInv

\* HTTP, the auth routes and the ends of rpc, one after another in any order: guards go first and
\* files are of the root; sign-ins replace sessions and pair their cookies; batches, messages,
\* servers, gRPC calls and pushed items are whole.
THEOREM RequestsHold == Spec => []Requesting
<1>1. Init => RequestingIInv
  BY RequestingStarts
<1>2. RequestingIInv /\ [Next]_vars => RequestingIInv'
  BY RequestingKept
<1>3. RequestingIInv => Requesting
  BY ServingHolds, DocumentHolds, AuthSays, RpcHolds DEF RequestingIInv, HttpIInv, Requesting
<1> QED
  BY <1>1, <1>2, <1>3, PTL DEF Spec

\* Whichever component moves, the three behave as their own specifications say.
LEMMA EachIsItsOwn == Spec => ContainerSpec /\ ContainerEventsSpec /\ BindingsSpec
<1>1. Init => ContainerInit /\ ContainerEventsInit /\ BindingsInit
  BY DEF Init
<1>2. [Next]_vars => [ContainerNext]_containerVars
  BY DEF vars, Next
<1>3. [Next]_vars => [ContainerEventsNext]_eventVars
  BY DEF vars, Next
<1>4. [Next]_vars => [BindingsNext]_bindingVars
  BY DEF vars, Next
<1> QED
  BY <1>1, <1>2, <1>3, <1>4, PTL DEF Spec, ContainerSpec, ContainerEventsSpec, BindingsSpec

\* For any classes, listeners and calendar: what can be built is built and each singleton once, an
\* event reaches a listener once and a call is published as declared; and a cron method runs once at
\* most for each of its minutes, and misses none, where RunsOnSchedule excuses nothing.
THEOREM WiringHolds == Spec => []Wiring
<1>1. ThrowsForCause /\ BuiltOnce /\ CalledOnce /\ CallsPublished /\ RunsOnSchedule => Wiring
  BY DEF Wiring
<1> QED
  BY EachIsItsOwn, ContainerHolds, EventsAreDelivered, TimersKeepTheSchedule, <1>1, PTL

\* Step by step: a property of an object is left undefined for a cause, an emission ends when all
\* who listened throughout were called, and a call over a binding comes to what its report says and
\* speaks for the service that made it.
THEOREM StepsTellHold == Spec => StepsTell
<1>1. UndefinedForCause /\ EmissionsComplete /\ ReportTells /\ SpeaksForItsCaller => StepsTell
  BY DEF StepsTell
<1> QED
  BY EachIsItsOwn, ContainerHolds, EventsAreDelivered, BindingsHold, <1>1, PTL

\* So do the three stores.
LEMMA StoresAreTheirOwn == Spec => RepoSpec /\ BlobSpec /\ HostSpec
<1>1. Init => RepoInit /\ BlobInit /\ HostInit
  BY DEF Init
<1>2. [Next]_vars => [RepoNext]_repoVars
  BY DEF vars, Next
<1>3. [Next]_vars => [BlobNext]_blobVars
  BY DEF vars, Next
<1>4. [Next]_vars => [HostNext]_hostVars
  BY DEF vars, Next
<1> QED
  BY <1>1, <1>2, <1>3, <1>4, PTL DEF Spec, RepoSpec, BlobSpec, HostSpec

\* Repositories, blobs and the databases of hosts, with any entities, swaps, puts, sizes and files:
\* rows account for removals and swaps, and no swap is refused its turn; objects are whole, uploads
\* accounted for, lists complete; values, failures and migrations are what they were. Of the names
\* of queries it takes that each is parsed as it was meant.
THEOREM StorageHolds == NamesReadBack => (Spec => []Storage)
<1> SUFFICES ASSUME NamesReadBack PROVE Spec => []Storage
  OBVIOUS
<1>1. /\ SpelledAsMeant /\ RemovalsAddUp /\ SwapsAddUp /\ SwapsServed
      /\ WholeObjects /\ UploadsAccounted /\ ListedOnce /\ ReadsServed
      /\ ValuesSurvive /\ FloatsSurvive /\ RowsWhole /\ DuplicatesTold /\ OpenedOnce /\ MigrationsFound
      => Storage
  BY DEF Storage
<1>2. RepoSpec => [](SpelledAsMeant /\ RemovalsAddUp /\ SwapsAddUp /\ SwapsServed)
  BY RepositoriesHold
<1> QED
  BY StoresAreTheirOwn, BlobsHold, HostsHold, <1>1, <1>2, PTL

\* And what is declared and served: graphs, queries, policies.
LEMMA ServesItsOwn == Spec => TypeGraphSpec /\ GraphqlSpec /\ PoliciesSpec
<1>1. Init => TypeGraphInit /\ GraphqlInit /\ PoliciesInit
  BY DEF Init
<1>2. [Next]_vars => [TypeGraphNext]_graphVars
  BY DEF vars, Next
<1>3. [Next]_vars => [GraphqlNext]_graphqlVars
  BY DEF vars, Next
<1>4. [Next]_vars => [PoliciesNext]_policyVars
  <2>1. ASSUME UNCHANGED vars PROVE UNCHANGED policyVars
    BY <2>1 DEF vars
  <2>2. ASSUME Next PROVE [PoliciesNext]_policyVars
    <3>1. CASE focus = "registry"
      BY <2>2, <3>1 DEF Next, PoliciesNext
    <3>2. CASE focus = "fields"
      BY <2>2, <3>2 DEF Next, PoliciesNext
    <3>3. CASE focus \notin {"registry", "fields"}
      BY <2>2, <3>3 DEF Next, policyVars, registryVars, fieldVars
    <3> QED
      BY <3>1, <3>2, <3>3
  <2> QED
    BY <2>1, <2>2
<1> QED
  BY <1>1, <1>2, <1>3, <1>4, PTL DEF Spec, TypeGraphSpec, GraphqlSpec, PoliciesSpec

\* What is declared is what is served, for any types and contexts, documents, lists, loads, events,
\* principals and policies: a slice has what its contexts are to have, no query executes more than it
\* was charged for, no load, page or event is lost, and policies mean the same however they are written.
THEOREM FaithfulHolds == Spec => []Faithful
<1>1. /\ ContextsAreReal /\ NamesWhatItHas /\ SlicesAddUp /\ SlicesBuild
      /\ LimitsHold /\ EntitiesKeepTheirType /\ LoadsAnswered /\ PagesTile /\ StreamFaithful
      /\ ReadsBack /\ DenyOutweighs /\ MemberFound /\ NearestRuleApplies /\ EventsChecked
      => Faithful
  BY DEF Faithful
<1> QED
  BY ServesItsOwn, TypeGraphHolds, GraphqlHolds, PoliciesHold, <1>1, PTL
=============================================================================
