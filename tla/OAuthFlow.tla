------------------------------- MODULE OAuthFlow -------------------------------
(***************************************************************************)
(* An OAuth login from end to end: the client of an application            *)
(* (auth/src/oauth/client.ts) in one browser, the state store both of them *)
(* lean on (providers/memory.ts), and the authorization server             *)
(* (auth/src/oauth/server/server.ts) with its in-memory stores.            *)
(*                                                                         *)
(* A flow is one press of the login button: its state, nonce and code      *)
(* verifier are as unique as the flow itself, and so is the code the server *)
(* issues for it.  The browser may come back with one callback twice, with *)
(* that of another tab, or not at all.                                     *)
(***************************************************************************)
EXTENDS Naturals, FiniteSets

CONSTANTS Flows, Subjects, Scopes, NoFlow,
          AllowedScopes,   \* of the registered client
          MaxGrants        \* bound on the grants of the token endpoint

ASSUME OAuthAssumption ==
  AllowedScopes \subseteq Scopes /\ MaxGrants \in Nat /\ NoFlow \notin Flows

VARIABLES
  entry,      \* the client's state entry of each flow: "none", "put", "expired", "taken"
  cookie,     \* the flow whose state cookie the browser holds
  asked,      \* the scopes each flow asks for
  user,       \* who is logged in at the server, or NoFlow
  consent,    \* consentStore: what each subject agreed to last
  code,       \* authCodeStore, by flow
  callback,   \* callbacks past the state check: the flow and the code they bring
  grants,     \* ghost: what the token endpoint has granted
  tokenStore, \* refresh tokens, by grant: "none", "saved" or "revoked"
  refreshing, \* grants whose refresh token passed the revocation check
  agreed,     \* ghost: everything a subject ever agreed to
  accepted    \* ghost: how many callbacks the client took for each flow

clientVars == <<entry, cookie, asked, callback, accepted>>
serverVars == <<user, consent, code, agreed>>
grantVars == <<grants, tokenStore, refreshing>>
oauthVars == <<clientVars, serverVars, grantVars>>

NoCode == [state |-> "none", by |-> NoFlow, scope |-> {}]
Codes == [state : {"none", "issued", "expired", "consumed"},
          by : Subjects \union {NoFlow}, scope : SUBSET Scopes]
Grants == [n : 1..MaxGrants, flow : Flows, code : Flows, by : Subjects,
           scope : SUBSET Scopes, refreshed : BOOLEAN]

OAuthTypeOK ==
  /\ entry \in [Flows -> {"none", "put", "expired", "taken"}]
  /\ cookie \in Flows \union {NoFlow} /\ asked \in [Flows -> SUBSET Scopes]
  /\ user \in Subjects \union {NoFlow}
  /\ consent \in [Subjects -> SUBSET Scopes] /\ agreed \in [Subjects -> SUBSET Scopes]
  /\ code \in [Flows -> Codes]
  /\ callback \subseteq Flows \X Flows
  /\ grants \subseteq Grants
  /\ tokenStore \in [1..MaxGrants -> {"none", "saved", "revoked"}]
  /\ refreshing \subseteq 1..MaxGrants
  /\ accepted \in [Flows -> Nat]

OAuthInit ==
  /\ entry = [f \in Flows |-> "none"] /\ cookie = NoFlow
  /\ asked = [f \in Flows |-> {}] /\ user = NoFlow
  /\ consent = [s \in Subjects |-> {}] /\ agreed = [s \in Subjects |-> {}]
  /\ code = [f \in Flows |-> NoCode] /\ callback = {}
  /\ grants = {} /\ tokenStore = [g \in 1..MaxGrants |-> "none"]
  /\ refreshing = {} /\ accepted = [f \in Flows |-> 0]

-----------------------------------------------------------------------------
(* The client.                                                             *)

\* authorizationUrl: the entry is put and the one state cookie overwritten.
StartFlow(f, wanted) ==
  /\ entry[f] = "none"
  /\ entry' = [entry EXCEPT ![f] = "put"]
  /\ asked' = [asked EXCEPT ![f] = wanted]
  /\ cookie' = f
  /\ UNCHANGED <<callback, accepted, serverVars, grantVars>>

\* stateTtl passes.
StateExpires(f) == /\ entry[f] = "put"
                   /\ entry' = [entry EXCEPT ![f] = "expired"]
                   /\ UNCHANGED <<cookie, asked, callback, accepted, serverVars, grantVars>>

\* Bug: the entry is read and stays.
LeftBehind(e) == e

\* consume reads and deletes in one turn; an expired entry is deleted too.
Consumed(e) == "taken"

\* callback up to the token request: the browser brings the state of flow f
\* and the code of flow g; the cookie must agree and the entry is consumed.
Callback(f, g) ==
  /\ code[g].state # "none"
  /\ cookie = f /\ entry[f] \in {"put", "expired"}
  /\ entry' = [entry EXCEPT ![f] = Consumed(entry[f])]
  /\ IF entry[f] = "put"
     THEN /\ callback' = callback \union {<<f, g>>}
          /\ accepted' = [accepted EXCEPT ![f] = @ + 1]
     ELSE UNCHANGED <<callback, accepted>>
  /\ UNCHANGED <<cookie, asked, serverVars, grantVars>>

\* The application answers the callback with the cleared state cookie.
ClearCookie == /\ cookie # NoFlow
               /\ \E g \in grants : g.flow = cookie
               /\ cookie' = NoFlow
               /\ UNCHANGED <<entry, asked, callback, accepted, serverVars, grantVars>>

-----------------------------------------------------------------------------
(* The authorization server.                                               *)

LogIn(s) == /\ user # s
            /\ user' = s
            /\ UNCHANGED <<clientVars, consent, code, agreed, grantVars>>

\* Bug: the scopes the subject has not agreed to are not looked at.
NothingMissing(wanted, given) == {}

\* missingScopes.
Missing(wanted, given) == wanted \ given

\* authorize: with somebody logged in, scopes that the client may ask for and
\* none of them missing from the consent, a code is issued; every other request
\* is answered without one.
Authorize(f) ==
  /\ entry[f] # "none" /\ code[f].state = "none"
  /\ asked[f] \subseteq AllowedScopes
  /\ user # NoFlow
  /\ Missing(asked[f], consent[user]) = {}
  /\ code' = [code EXCEPT ![f] = [state |-> "issued", by |-> user, scope |-> asked[f]]]
  /\ UNCHANGED <<clientVars, user, consent, agreed, grantVars>>

\* grantConsent replaces what the subject agreed to before.
GrantConsent(scopes) ==
  /\ user # NoFlow /\ consent[user] # scopes
  /\ consent' = [consent EXCEPT ![user] = scopes]
  /\ agreed' = [agreed EXCEPT ![user] = @ \union scopes]
  /\ UNCHANGED <<clientVars, user, code, grantVars>>

\* codeLifetimeSeconds pass.
CodeExpires(f) == /\ code[f].state = "issued"
                  /\ code' = [code EXCEPT ![f].state = "expired"]
                  /\ UNCHANGED <<clientVars, user, consent, agreed, grantVars>>

\* Bug: any well-formed verifier will do.
VerifierAny(f, g) == TRUE

\* The challenge of the code is that of the flow that sends the verifier.
VerifierMatches(f, g) == f = g

NextGrant == Cardinality(grants) + 1

\* issueTokens, with a refresh token that is saved.
IssueTokens(f, g, s, scope, refreshed) ==
  /\ NextGrant <= MaxGrants
  /\ grants' = grants \union {[n |-> NextGrant, flow |-> f, code |-> g, by |-> s,
                               scope |-> scope, refreshed |-> refreshed]}
  /\ tokenStore' = [tokenStore EXCEPT ![NextGrant] = "saved"]

\* The token request of a callback: the code is consumed first, whatever comes
\* of the checks after it.
TokenByCode(f, g) ==
  /\ <<f, g>> \in callback
  /\ callback' = callback \ {<<f, g>>}
  /\ code' = [code EXCEPT ![g].state = "consumed"]
  /\ IF code[g].state = "issued" /\ VerifierMatches(f, g)
     THEN IssueTokens(f, g, code[g].by, code[g].scope, FALSE)
     ELSE UNCHANGED <<grants, tokenStore>>
  /\ UNCHANGED <<entry, cookie, asked, accepted, user, consent, agreed, refreshing>>

\* The token request was lost on its way, and the client's callback with it.
TokenRequestLost(f, g) ==
  /\ <<f, g>> \in callback
  /\ callback' = callback \ {<<f, g>>}
  /\ UNCHANGED <<entry, cookie, asked, accepted, serverVars, grantVars>>

\* isRevoked: unknown or revoked.
Refused(n) == tokenStore[n] # "saved"

\* handleRefreshTokenGrant up to the check of the store ...
RefreshCheck(n) ==
  /\ n \notin refreshing /\ ~Refused(n)
  /\ refreshing' = refreshing \union {n}
  /\ UNCHANGED <<clientVars, serverVars, grants, tokenStore>>

\* ... and the new tokens, after the signature was verified.  The old refresh
\* token stays valid, and the request may name a scope of its own.
RefreshIssue(n, scope) ==
  /\ n \in refreshing
  /\ refreshing' = refreshing \ {n}
  /\ \E g \in grants : g.n = n /\ IssueTokens(g.flow, g.code, g.by, scope, TRUE)
  /\ UNCHANGED <<clientVars, serverVars>>

\* revoke marks the one token.
RevokeToken(n) == /\ tokenStore[n] = "saved"
                  /\ tokenStore' = [tokenStore EXCEPT ![n] = "revoked"]
                  /\ UNCHANGED <<clientVars, serverVars, grants, refreshing>>

OAuthNext ==
  \/ ClearCookie
  \/ \E s \in Subjects : LogIn(s)
  \/ \E scopes \in SUBSET Scopes : GrantConsent(scopes)
  \/ \E f \in Flows :
       \/ \E wanted \in SUBSET Scopes : StartFlow(f, wanted)
       \/ StateExpires(f) \/ Authorize(f) \/ CodeExpires(f)
       \/ \E g \in Flows : Callback(f, g) \/ TokenByCode(f, g) \/ TokenRequestLost(f, g)
  \/ \E n \in 1..MaxGrants :
       RefreshCheck(n) \/ RevokeToken(n) \/ \E scope \in SUBSET Scopes : RefreshIssue(n, scope)

OAuthSpec == OAuthInit /\ [][OAuthNext]_oauthVars

-----------------------------------------------------------------------------
\* What a code grants goes to the flow it was issued for, once, and never
\* covers a scope its subject did not agree to: with callbacks that come twice,
\* out of turn or from another tab, and consent that changes in between.
GrantsTraceable ==
  \A g, h \in grants :
    ~g.refreshed =>
      /\ g.flow = g.code
      /\ g.scope \subseteq agreed[g.by] \intersect asked[g.flow] \intersect AllowedScopes
      /\ ~h.refreshed /\ h.code = g.code => h = g

\* The client completes a login once per press of the button, however often the
\* browser comes back with the same state (client.ts:304-306).
OneLoginPerFlow == \A f \in Flows : accepted[f] <= 1
=============================================================================
