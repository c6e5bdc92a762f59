---------------------------- MODULE RefreshTokens ----------------------------
(***************************************************************************)
(* Refresh tokens (auth/src/tokens/refresh.ts) over the store of           *)
(* providers/memory.ts, whose operations run in one turn, or that of       *)
(* providers/repo.ts, where every adapter call is awaited: exchanging a    *)
(* token is a compare-and-swap followed by a save, and revoking a family   *)
(* lists its tokens and deletes them one by one.                           *)
(*                                                                         *)
(* Tokens are numbered in the order they are minted, and a family is named *)
(* by its first token.  All belong to one subject.                         *)
(***************************************************************************)
EXTENDS Naturals

CONSTANTS Requests,  \* calls of the service that may be in flight at once
          MaxTokens  \* bound on the tokens minted

ASSUME RefreshAssumption == MaxTokens \in Nat

VARIABLES
  store,      \* "memory" or "repo"
  minted,     \* how many tokens were minted
  family,     \* the family of each token
  record,     \* "none", "live" (rotatedAt undefined) or "spent"
  expired,    \* tokens past their expiresAt
  rtpc,       \* where each request is
  presented,  \* the token it was called with
  next,       \* the successor it minted
  victims,    \* tokens its revocation has listed and not deleted yet
  condemned,  \* the families it revokes
  revoked,    \* ghost: families whose revocation has returned
  overlapped  \* ghost: families a rotation and a revocation were in at once

tokenVars == <<minted, family, record, expired>>
requestVars == <<rtpc, presented, next, victims, condemned>>
refreshVars == <<store, tokenVars, requestVars, revoked, overlapped>>

Tokens == 1..MaxTokens
Of(f) == {t \in Tokens : record[t] # "none" /\ family[t] = f}
Rotating == {"rotate", "lookup", "swap", "save"}

RefreshTypeOK ==
  /\ store \in {"memory", "repo"}
  /\ minted \in 0..MaxTokens
  /\ family \in [Tokens -> Tokens \union {0}]
  /\ record \in [Tokens -> {"none", "live", "spent"}]
  /\ expired \subseteq Tokens
  /\ rtpc \in [Requests -> {"idle", "revoke", "delete"} \union Rotating]
  /\ presented \in [Requests -> Tokens \union {0}]
  /\ next \in [Requests -> Tokens \union {0}]
  /\ victims \in [Requests -> SUBSET Tokens]
  /\ condemned \in [Requests -> SUBSET Tokens]
  /\ revoked \subseteq Tokens /\ overlapped \subseteq Tokens

RefreshInit ==
  /\ store \in {"memory", "repo"}
  /\ minted = 0
  /\ family = [t \in Tokens |-> 0]
  /\ record = [t \in Tokens |-> "none"]
  /\ expired = {}
  /\ rtpc = [q \in Requests |-> "idle"]
  /\ presented = [q \in Requests |-> 0]
  /\ next = [q \in Requests |-> 0]
  /\ victims = [q \in Requests |-> {}]
  /\ condemned = [q \in Requests |-> {}]
  /\ revoked = {} /\ overlapped = {}

-----------------------------------------------------------------------------
\* A new token of family f, by the name of the next number.
Mint(f) == /\ minted < MaxTokens
           /\ minted' = minted + 1
           /\ family' = [family EXCEPT ![minted + 1] = f]

\* Request q has answered, with a token or an error.
Answered(q) == /\ rtpc' = [rtpc EXCEPT ![q] = "idle"]
               /\ presented' = [presented EXCEPT ![q] = 0]
               /\ next' = [next EXCEPT ![q] = 0]
               /\ victims' = [victims EXCEPT ![q] = {}]
               /\ condemned' = [condemned EXCEPT ![q] = {}]

\* burnFamily: the whole family goes.
Burn(q) == /\ rtpc' = [rtpc EXCEPT ![q] = "revoke"]
           /\ condemned' = [condemned EXCEPT ![q] = {family[presented[q]]}]
           /\ next' = [next EXCEPT ![q] = 0]
           /\ UNCHANGED <<presented, victims>>

\* A client may present a token once some request has handed it out.
HandedOut(t) == t \in 1..minted /\ \A q \in Requests : rtpc[q] \in Rotating => next[q] # t

\* issue: a new family, saved in one step. (A caller may name the family, refresh.ts:93;
\* none in the packages does.)
Issue == /\ Mint(minted + 1)
         /\ record' = [record EXCEPT ![minted + 1] = "live"]
         /\ UNCHANGED <<store, expired, requestVars, revoked, overlapped>>

\* rotate up to the call of store.rotate: find, the two checks, the successor.
\* A token that is unknown or expired is refused and nothing changes.
RotateFind(q, t) ==
  /\ rtpc[q] = "idle" /\ HandedOut(t)
  /\ record[t] # "none"
  /\ record[t] = "live" => t \notin expired
  /\ presented' = [presented EXCEPT ![q] = t]
  /\ IF record[t] = "spent"
     THEN   /\ rtpc' = [rtpc EXCEPT ![q] = "revoke"]
            /\ condemned' = [condemned EXCEPT ![q] = {family[t]}]
            /\ UNCHANGED <<minted, family, next>>
     ELSE   /\ Mint(family[t])
            /\ next' = [next EXCEPT ![q] = minted + 1]
            /\ rtpc' = [rtpc EXCEPT ![q] = IF store = "memory" THEN "rotate" ELSE "lookup"]
            /\ UNCHANGED condemned
  /\ UNCHANGED <<store, record, expired, victims, revoked, overlapped>>

\* Bug: the swap does not look whether the token was exchanged meanwhile.
ExchangeableIfThere(t) == record[t] # "none"

\* The condition of the compare-and-swap on rotatedAt.
Exchangeable(t) == record[t] = "live"

\* The old token is spent and its successor live, in one step.
MemoryRotate(q) ==
  LET t == presented[q] IN
  /\ rtpc[q] = "rotate"
  /\ IF Exchangeable(t) /\ t \notin expired
     THEN /\ record' = [record EXCEPT ![t] = "spent", ![next[q]] = "live"]
          /\ Answered(q)
     ELSE /\ IF record[t] = "spent" THEN Burn(q) ELSE Answered(q)
          /\ UNCHANGED record
  /\ UNCHANGED <<store, minted, family, expired, revoked, overlapped>>

\* Families whose listed tokens are being deleted.
BeingDeleted == UNION {condemned[q] : q \in {p \in Requests : rtpc[p] = "delete"}}

\* store.rotate of the repo: findById again.
RepoLookup(q) ==
  LET t == presented[q] IN
  /\ rtpc[q] = "lookup"
  /\ CASE record[t] = "spent" -> Burn(q)
       [] record[t] = "live" /\ t \notin expired ->
            /\ rtpc' = [rtpc EXCEPT ![q] = "swap"]
            /\ UNCHANGED <<presented, next, victims, condemned>>
       [] OTHER -> Answered(q)
  /\ UNCHANGED <<store, tokenVars, revoked, overlapped>>

\* The compare-and-swap; whoever loses it counts as a replay, also when the
\* token is gone.
RepoSwap(q) ==
  LET t == presented[q] IN
  /\ rtpc[q] = "swap"
  /\ IF Exchangeable(t)
     THEN /\ record' = [record EXCEPT ![t] = "spent"]
          /\ rtpc' = [rtpc EXCEPT ![q] = "save"]
          /\ overlapped' = overlapped \union ({family[t]} \intersect BeingDeleted)
          /\ UNCHANGED <<presented, next, victims, condemned>>
     ELSE Burn(q) /\ UNCHANGED <<record, overlapped>>
  /\ UNCHANGED <<store, minted, family, expired, revoked>>

\* The successor is saved by a call of its own.
RepoSave(q) ==
  /\ rtpc[q] = "save"
  /\ record' = [record EXCEPT ![next[q]] = "live"]
  /\ Answered(q)
  /\ UNCHANGED <<store, minted, family, expired, revoked, overlapped>>

\* Bug: only the token that was presented goes, not its family.
CondemnedByOne(q) == {t \in Tokens : record[t] # "none" /\ t = presented[q]}

\* The tokens a revocation finds.
CondemnedBy(q) == {t \in Tokens : record[t] # "none" /\ family[t] \in condemned[q]}

\* revoke: the family of the token, when the token is known.
Revoke(q, t) ==
  /\ rtpc[q] = "idle" /\ HandedOut(t) /\ record[t] # "none"
  /\ presented' = [presented EXCEPT ![q] = t]
  /\ condemned' = [condemned EXCEPT ![q] = {family[t]}]
  /\ rtpc' = [rtpc EXCEPT ![q] = "revoke"]
  /\ UNCHANGED <<store, tokenVars, next, victims, revoked, overlapped>>

\* revokeAllForSubject: every family there is.
RevokeAll(q) ==
  /\ rtpc[q] = "idle"
  /\ condemned' = [condemned EXCEPT ![q] = {family[t] : t \in 1..minted}]
  /\ rtpc' = [rtpc EXCEPT ![q] = "revoke"]
  /\ UNCHANGED <<store, tokenVars, presented, next, victims, revoked, overlapped>>

\* Families with a token that is spent and whose successor is not saved yet.
HalfRotated == {family[presented[q]] : q \in {p \in Requests : rtpc[p] = "save"}}

\* The revocation itself: the memory store deletes in one step, the repo lists.
RevokeFamilies(q) ==
  /\ rtpc[q] = "revoke"
  /\ IF store = "memory" \/ CondemnedBy(q) = {}
     THEN /\ record' = [t \in Tokens |-> IF t \in CondemnedBy(q) THEN "none" ELSE record[t]]
          /\ revoked' = revoked \union condemned[q]
          /\ Answered(q)
          /\ UNCHANGED overlapped
     ELSE /\ victims' = [victims EXCEPT ![q] = CondemnedBy(q)]
          /\ rtpc' = [rtpc EXCEPT ![q] = "delete"]
          /\ overlapped' = overlapped \union (condemned[q] \intersect HalfRotated)
          /\ UNCHANGED <<record, presented, next, condemned, revoked>>
  /\ UNCHANGED <<store, minted, family, expired>>

\* The repo deletes the listed tokens one by one.
DeleteNext(q, t) ==
  /\ rtpc[q] = "delete" /\ t \in victims[q]
  /\ record' = [record EXCEPT ![t] = "none"]
  /\ IF victims[q] = {t}
     THEN /\ revoked' = revoked \union condemned[q]
          /\ Answered(q)
     ELSE /\ victims' = [victims EXCEPT ![q] = @ \ {t}]
          /\ UNCHANGED <<revoked, rtpc, presented, next, condemned>>
  /\ UNCHANGED <<store, minted, family, expired, overlapped>>

\* expiresAt passes.
Expire(t) == /\ t \in (1..minted) \ expired
             /\ expired' = expired \union {t}
             /\ UNCHANGED <<store, minted, family, record, requestVars, revoked, overlapped>>

\* purgeExpired of the memory store.
PurgeExpired ==
  /\ store = "memory" /\ \E t \in expired : record[t] # "none"
  /\ record' = [t \in Tokens |-> IF t \in expired THEN "none" ELSE record[t]]
  /\ UNCHANGED <<store, minted, family, expired, requestVars, revoked, overlapped>>

\* The process that serves a request dies; the repo's tokens stay.
RequestDies(q) ==
  /\ store = "repo" /\ rtpc[q] # "idle"
  /\ Answered(q)
  /\ UNCHANGED <<store, tokenVars, revoked, overlapped>>

RefreshNext ==
  \/ Issue \/ PurgeExpired
  \/ \E t \in Tokens : Expire(t)
  \/ \E q \in Requests :
       \/ \E t \in Tokens : RotateFind(q, t) \/ Revoke(q, t) \/ DeleteNext(q, t)
       \/ MemoryRotate(q) \/ RepoLookup(q) \/ RepoSwap(q) \/ RepoSave(q)
       \/ RevokeAll(q) \/ RevokeFamilies(q) \/ RequestDies(q)

RefreshSpec == RefreshInit /\ [][RefreshNext]_refreshVars

-----------------------------------------------------------------------------
\* However many requests present its tokens, a family has at most one that can
\* still be exchanged: two requests with one token, or a rotation that races a
\* revocation, never fork it (refresh.ts:128-142).
OneLivePerFamily ==
  \A t, u \in Tokens :
    record[t] = "live" /\ record[u] = "live" /\ family[t] = family[u] => t = u

\* A family that was revoked, by a logout or because one of its tokens came
\* back, has nothing left to exchange, ever after: unless, in the repo store
\* alone, one of its tokens was exchanged while the revocation was deleting, or
\* had its successor saved only after the revocation had listed the family.
LogoutSticks ==
  \A f \in revoked : f \in overlapped \/ \A t \in Of(f) : record[t] # "live"

\* The same without the exception, as refresh.ts:169-170 says of a logout.
LogoutLeavesNothing == \A f \in revoked, t \in Tokens : family[t] = f => record[t] # "live"
=============================================================================
