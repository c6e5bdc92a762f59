---------------------------- MODULE AuthEndpoints ----------------------------
(***************************************************************************)
(* The auth package in front of HTTP handlers: what registerAuth composes  *)
(* (register.ts), the chain of strategies (chain.ts, strategies/), the     *)
(* guards and the deferred authorization of a route (http/middleware.ts,   *)
(* http/authorization.ts, http/router.ts), CSRF tokens (csrf.ts) and the   *)
(* endpoints that sign in and out (http/routes.ts), called by one browser  *)
(* whose cookie jar takes the answers in whatever order they arrive.       *)
(*                                                                         *)
(* A session is its number; a CSRF token is the number of the session it   *)
(* was minted for (the HMAC of csrf.ts binds it), 0 stands for none.       *)
(***************************************************************************)
EXTENDS Naturals, Sequences

CONSTANTS
    Calls,        \* the calls of the browser
    MaxIssued,    \* bound on the sessions created
    MaxJar        \* bound on the answers that change the jar

VARIABLES
    setup,     \* the options registerAuth was given, and those of the guarded route
    issued,    \* how many sessions were created
    active,    \* the sessions that are in the store and have not ended
    jar,       \* the cookies of the browser: session and CSRF token
    delivered, \* how many answers reached the jar
    bound,     \* whether a policy was bound to the route after it was made
    call       \* each call: what it carries and how far it is

authVars == <<setup, issued, active, jar, delivered, bound, call>>

SignIns == {"login", "register", "passkey", "oauth"}
Guarded == {"page", "act"}            \* a GET and a POST of the application, behind the guard
Kinds == SignIns \cup Guarded \cup {"logout", "whoami", "csrf"}
NoCookies == [session |-> 0, csrf |-> 0]
Idle == [kind |-> "page", at |-> "idle", cookie |-> 0, token |-> 0, sameOrigin |-> TRUE, bearer |-> "none", key |-> "none", strategy |-> 1,
         principal |-> "nobody", sets |-> NoCookies, answer |-> "none", approved |-> FALSE, boundAtStart |-> FALSE, told |-> <<>>]

(***************************************************************************)
(* registerAuth.  CSRF is on unless it is turned off, and then needs the   *)
(* secret; the strategies are the session cookie, bearer tokens when JWTs  *)
(* are configured, and API keys, in this order.                            *)
(***************************************************************************)
Setups == [csrf : BOOLEAN, secret : BOOLEAN, jwt : BOOLEAN, policy : {"route", "deferred", "none"}]
Accepted(s) == s.csrf => s.secret
Strategies == <<"session">> \o (IF setup.jwt THEN <<"bearer">> ELSE <<>>) \o <<"api-key">>

AuthInit ==
    /\ setup \in {s \in Setups : Accepted(s)}
    /\ issued = 0 /\ active = {} /\ delivered = 0
    /\ jar = NoCookies
    /\ bound = FALSE
    /\ call = [c \in Calls |-> Idle]

Unsafe(c) == call[c].kind = "act"
Runs(c, state) == call' = [call EXCEPT ![c].at = state]
\* What an answered call keeps: its answer, and of a login the session it came with.
Ended(c, reply, sets) ==
    LET answered == [Idle EXCEPT !.at = "answered", !.answer = reply, !.sets = sets] IN
    IF call[c].kind = "login" THEN [answered EXCEPT !.kind = "login", !.cookie = call[c].cookie] ELSE answered
Answers(c, reply) == call' = [call EXCEPT ![c] = Ended(c, reply, NoCookies)]

\* A request carries the cookies the browser has; the page may echo the CSRF token, and the request
\* may carry one other credential.
Request(kind, echo, same, bearer, key) ==
    [Idle EXCEPT !.kind = kind, !.cookie = jar.session, !.token = IF echo /\ kind = "act" THEN jar.csrf ELSE 0, !.sameOrigin = same,
                 !.bearer = bearer, !.key = key, !.boundAtStart = bound /\ kind \in Guarded,
                 !.at = IF kind \in Guarded \cup {"whoami"} THEN "guard" ELSE "handler"]
Send(c) ==
    /\ call[c].at = "idle"
    /\ \E kind \in Kinds, echo \in BOOLEAN, same \in BOOLEAN, bearer, key \in {"none", "good", "bad"} :
           /\ kind = "csrf" => setup.csrf
           /\ (kind \notin {"act"}) => echo /\ same
           /\ (kind \notin Guarded \cup {"whoami"}) => bearer = "none"
           /\ (bearer # "none") => key = "none"
           /\ (kind \notin Guarded \cup {"whoami"}) => key = "none"
           /\ call' = [call EXCEPT ![c] = Request(kind, echo, same, bearer, key)]
    /\ UNCHANGED <<setup, issued, active, jar, delivered, bound>>

(***************************************************************************)
(* The chain.  Each strategy answers authenticated, failed or              *)
(* no-credential; the last alone makes the chain go on.                    *)
(***************************************************************************)
\* csrfGuard.verify: reads need no token; the origin is looked at before the token, and the token is
\* the one of the session.
OriginPasses(c) == call[c].sameOrigin
CsrfPasses(c) == ~setup.csrf \/ ~Unsafe(c) \/ (OriginPasses(c) /\ call[c].token # 0 /\ call[c].token = call[c].cookie)
SessionVerdict(c) ==
    IF call[c].cookie = 0 THEN "no-credential"
    ELSE IF call[c].cookie \notin active \/ ~CsrfPasses(c) THEN "failed"
    ELSE "authenticated"
\* An Authorization header of another scheme is no bearer credential; one that does not parse has failed.
BearerVerdict(c) ==
    CASE call[c].bearer = "none" -> "no-credential"
      [] call[c].bearer = "good" -> "authenticated"
      [] call[c].bearer = "bad" -> "failed"
\* An unknown, disabled or expired key has failed, and so has one whose user is gone.
KeyVerdict(c) ==
    CASE call[c].key = "none" -> "no-credential"
      [] call[c].key = "good" -> "authenticated"
      [] call[c].key = "bad" -> "failed"
Verdict(c) ==
    CASE Strategies[call[c].strategy] = "session" -> SessionVerdict(c)
      [] Strategies[call[c].strategy] = "bearer" -> BearerVerdict(c)
      [] Strategies[call[c].strategy] = "api-key" -> KeyVerdict(c)

\* Bug: the chain goes on after a credential was rejected, to whatever else the request carries.
GoesOnUnlessAuthenticated(verdict) == verdict # "authenticated"
GoesOn(verdict) == verdict = "no-credential"

\* One strategy is asked.  A guard that requires a credential refuses a request without one, an
\* optional guard lets it through; both refuse a credential that failed.
Authenticate(c) ==
    /\ call[c].at = "guard"
    /\ LET v == Verdict(c)
           heard == [call[c] EXCEPT !.told = Append(@, v)]
           admitted == [Idle EXCEPT !.kind = call[c].kind, !.at = "authorize", !.told = heard.told,
                                    !.boundAtStart = call[c].boundAtStart] IN
       call' = [call EXCEPT ![c] =
           IF GoesOn(v) /\ call[c].strategy < Len(Strategies) THEN [heard EXCEPT !.strategy = @ + 1]
           ELSE IF v = "authenticated" THEN [admitted EXCEPT !.principal = Strategies[call[c].strategy]]
           ELSE IF v = "no-credential" /\ call[c].kind = "whoami" THEN admitted
           ELSE Ended(c, "refused", NoCookies)]
    /\ UNCHANGED <<setup, issued, active, jar, delivered, bound>>

(***************************************************************************)
(* Authorization: the policy of the route, or one bound to it later, which *)
(* can be bound once and only to a route without its own.  A request finds *)
(* out which when it gets there.                                           *)
(***************************************************************************)
Bind ==
    /\ setup.policy = "deferred" /\ ~bound
    /\ bound' = TRUE
    /\ UNCHANGED <<setup, issued, active, jar, delivered, call>>

\* Bug: whether a policy is bound is looked up when the route is made.
NeverLooks(c) == setup.policy = "route"
HasPolicy(c) == setup.policy = "route" \/ bound

Authorize(c) ==
    /\ call[c].at = "authorize"
    /\ IF call[c].kind \in Guarded /\ HasPolicy(c)
         THEN \/ call' = [call EXCEPT ![c].at = "handler", ![c].approved = TRUE]
              \/ Answers(c, "refused")
         ELSE Runs(c, "handler")
    /\ UNCHANGED <<setup, issued, active, jar, delivered, bound>>

(***************************************************************************)
(* The handlers.                                                           *)
(***************************************************************************)
\* The application's own handlers, /session, and /csrf, which mints a token for an active session.
Handler(c) ==
    /\ call[c].at = "handler"
    /\ \/ /\ call[c].kind \in Guarded \cup {"whoami"}
          /\ Answers(c, "done")
       \/ /\ call[c].kind = "csrf"
          /\ Answers(c, IF call[c].cookie \in active THEN "done" ELSE "refused")
    /\ UNCHANGED <<setup, issued, active, jar, delivered, bound>>

\* A password is checked, for a new user or a known one; only /login then looks for an old session.
CheckPassword(c) ==
    /\ call[c].at = "handler" /\ call[c].kind \in {"login", "register"}
    /\ \/ Runs(c, IF call[c].kind = "login" THEN "revoke" ELSE "create")
       \/ Answers(c, "refused")
    /\ UNCHANGED <<setup, issued, active, jar, delivered, bound>>

\* A passkey assertion under the challenge of the ceremony cookie, and the code of an OAuth callback.
CheckAssertion(c) ==
    /\ call[c].at = "handler" /\ call[c].kind = "passkey"
    /\ Runs(c, "create") \/ Answers(c, "refused")
    /\ UNCHANGED <<setup, issued, active, jar, delivered, bound>>
CheckCode(c) ==
    /\ call[c].at = "handler" /\ call[c].kind = "oauth"
    /\ Runs(c, "create") \/ Answers(c, "refused")
    /\ UNCHANGED <<setup, issued, active, jar, delivered, bound>>

\* Bug: the session the request came with outlives the login.
RevokesNothing(c) == {}
\* /login revokes the session of the cookie it came with, /logout as well.
Revokes(c) == {call[c].cookie}

Revoke(c) ==
    /\ call[c].at = "revoke"
    /\ active' = active \ Revokes(c)
    /\ Runs(c, "create")
    /\ UNCHANGED <<setup, issued, jar, delivered, bound>>

\* issueSession: a new session, its CSRF token, the hook, which may throw, and both cookies.
Create(c) ==
    /\ call[c].at = "create"
    /\ issued < MaxIssued
    /\ issued' = issued + 1
    /\ active' = active \cup {issued + 1}
    /\ \/ call' = [call EXCEPT ![c] = Ended(c, "signed-in", [session |-> issued + 1, csrf |-> IF setup.csrf THEN issued + 1 ELSE 0])]
       \/ Answers(c, "refused")
    /\ UNCHANGED <<setup, jar, delivered, bound>>

\* Bug: only the session cookie is cleared.
SessionCookieCleared == [jar EXCEPT !.session = 0]
BothCleared == NoCookies

Logout(c) ==
    /\ call[c].at = "handler" /\ call[c].kind = "logout"
    /\ active' = active \ {call[c].cookie}
    /\ Answers(c, "signed-out")
    /\ UNCHANGED <<setup, issued, jar, delivered, bound>>

\* A session reaches one of its timeouts.
Expire ==
    /\ \E s \in active : active' = active \ {s}
    /\ UNCHANGED <<setup, issued, jar, delivered, bound, call>>

\* The answer reaches the browser, which takes its cookies, or is lost; the call may be made again.
Deliver(c) ==
    /\ call[c].at = "answered"
    /\ call[c].answer \in {"signed-in", "signed-out"} => delivered < MaxJar
    /\ IF call[c].answer \in {"signed-in", "signed-out"}
         THEN /\ jar' = IF call[c].answer = "signed-in" THEN call[c].sets ELSE BothCleared
              /\ delivered' = delivered + 1
         ELSE UNCHANGED <<jar, delivered>>
    /\ call' = [call EXCEPT ![c] = Idle]
    /\ UNCHANGED <<setup, issued, active, bound>>

Lose(c) ==
    /\ call[c].answer \in {"signed-in", "signed-out"}
    /\ call' = [call EXCEPT ![c] = Idle]
    /\ UNCHANGED <<setup, issued, active, jar, delivered, bound>>

AuthNext ==
    \/ \E c \in Calls : Send(c) \/ Authenticate(c) \/ Authorize(c) \/ Handler(c) \/ CheckPassword(c) \/ CheckAssertion(c) \/ CheckCode(c) \/ Revoke(c) \/ Create(c)
                        \/ Logout(c) \/ Deliver(c) \/ Lose(c)
    \/ Bind \/ Expire

AuthSpec == AuthInit /\ [][AuthNext]_authVars

AuthTypeOK ==
    /\ setup \in Setups /\ issued \in 0..MaxIssued /\ active \subseteq 1..issued
    /\ jar \in [session : 0..issued, csrf : 0..issued]
    /\ \A c \in Calls : /\ call[c].kind \in Kinds
                        /\ call[c].at \in {"idle", "guard", "authorize", "handler", "revoke", "create", "answered"}

(***************************************************************************)
(* Properties.                                                             *)
(***************************************************************************)
\* A credential that was rejected is never made up for: a request is let in as somebody only by a
\* strategy that all before it had nothing to say about, and as nobody only when none had
\* (chain.ts, middleware.ts:74-76).
NeverMadeUpFor ==
    \A c \in Calls : call[c].at \in {"authorize", "handler"} /\ call[c].kind \in Guarded \cup {"whoami"} =>
        /\ \A i \in 1..Len(call[c].told) - 1 : call[c].told[i] = "no-credential"
        /\ call[c].principal = "nobody" => \A i \in DOMAIN call[c].told : call[c].told[i] = "no-credential"

\* Once a login has been answered, the session its request came with is over, whatever else was
\* signed in at the same time (routes.ts:176-181).
LoginReplaces ==
    \A c \in Calls : (call[c].kind = "login" /\ call[c].answer = "signed-in") => call[c].cookie \notin active

\* The CSRF cookie of the browser is always the one of its session cookie, in whatever order the
\* answers of several tabs arrive: what it sends next passes the check (csrf.ts, routes.ts:120-140).
CookiesPaired == setup.csrf => (jar.csrf = jar.session)

\* A policy that was bound before a request was sent has approved it when its handler runs
\* (router.ts:144-156).
PolicyAsked ==
    \A c \in Calls : (call[c].kind \in Guarded /\ call[c].at \in {"handler"} /\ (call[c].boundAtStart \/ setup.policy = "route"))
        => call[c].approved
=============================================================================
