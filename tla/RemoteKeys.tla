------------------------------ MODULE RemoteKeys ------------------------------
(***************************************************************************)
(* The cache of a provider's signing keys (remoteJwks,                     *)
(* auth/src/tokens/jwks.ts); discovery() of oauth/discovery.ts caches the  *)
(* provider's metadata in the same way, without the unknown key ids.       *)
(*                                                                         *)
(* The document is fetched by one request at a time, served while it is    *)
(* fresh, and served stale when the provider is out.  The provider has one *)
(* key at a time, numbered by its rotations.                               *)
(***************************************************************************)
EXTENDS Integers

CONSTANTS Verifiers,   \* calls of getKey that may be in flight at once
          MaxKey,      \* bound on the provider's rotations
          Start, End,  \* the clock runs from Start to End
          CacheTtl, MaxStale, MinRefresh

ASSUME RemoteAssumption ==
  /\ {MaxKey, Start, End, CacheTtl, MaxStale, MinRefresh} \subseteq Nat
  /\ MaxKey > 0 /\ Start <= End
  /\ Start > MaxStale + MinRefresh   \* the clock counts from 1970

VARIABLES
  tick,         \* now()
  published,    \* the provider's key
  reachable,    \* whether the provider answers
  cached,       \* the key of the cached document, 0 without one
  cachedAt,     \* when it counts as fetched
  inFlight,     \* whether a fetch is under way
  lastAttempt,  \* lastRefreshAttempt
  kpc,          \* where each verifier is
  kid,          \* the key id it looks for; 0 is one the provider never had
  got,          \* the key of the document it was given
  fetchedAt     \* ghost: when the cached document really was fetched

cacheVars == <<cached, cachedAt, inFlight, lastAttempt, fetchedAt>>
verifierVars == <<kpc, kid, got>>
remoteVars == <<tick, published, reachable, cacheVars, verifierVars>>

Keys == 1..MaxKey
Clock == Start..End

RemoteTypeOK ==
  /\ tick \in Clock /\ published \in Keys /\ reachable \in BOOLEAN
  /\ cached \in Keys \union {0} /\ cachedAt \in Clock \union {0}
  /\ fetchedAt \in Clock \union {0}
  /\ inFlight \in BOOLEAN /\ lastAttempt \in Clock \union {0}
  /\ kpc \in [Verifiers -> {"idle", "first", "select", "second", "verified", "failed"}]
  /\ kid \in [Verifiers -> Keys \union {0}] /\ got \in [Verifiers -> Keys \union {0}]

RemoteInit ==
  /\ tick = Start /\ published = 1 /\ reachable = TRUE
  /\ cached = 0 /\ cachedAt = 0 /\ inFlight = FALSE /\ lastAttempt = 0 /\ fetchedAt = 0
  /\ kpc = [q \in Verifiers |-> "idle"]
  /\ kid = [q \in Verifiers |-> 0] /\ got = [q \in Verifiers |-> 0]

-----------------------------------------------------------------------------
Fresh == cached # 0 /\ tick - cachedAt < CacheTtl

\* load: joins the fetch under way or starts one.
Load == /\ inFlight' = TRUE
        /\ lastAttempt' = IF inFlight THEN lastAttempt ELSE tick

\* getKey calls get, which answers from a fresh document or waits for load.
GetKey(q, k) ==
  /\ kpc[q] \in {"idle", "verified", "failed"}
  /\ kid' = [kid EXCEPT ![q] = k]
  /\ IF Fresh
     THEN /\ kpc' = [kpc EXCEPT ![q] = "select"]
          /\ got' = [got EXCEPT ![q] = cached]
          /\ UNCHANGED <<inFlight, lastAttempt>>
     ELSE /\ kpc' = [kpc EXCEPT ![q] = "first"]
          /\ got' = [got EXCEPT ![q] = 0]
          /\ Load
  /\ UNCHANGED <<tick, published, reachable, cached, cachedAt, fetchedAt>>

\* select in the document of get; an unknown key id is worth one refresh, which
\* forgets when the document was fetched, unless one was begun shortly before.
Select(q) ==
  /\ kpc[q] = "select"
  /\ IF got[q] # kid[q] /\ tick - lastAttempt > MinRefresh
     THEN /\ kpc' = [kpc EXCEPT ![q] = "second"]
          /\ cachedAt' = 0
          /\ got' = [got EXCEPT ![q] = 0]
          /\ Load
     ELSE /\ kpc' = [kpc EXCEPT ![q] = IF got[q] = kid[q] THEN "verified" ELSE "failed"]
          /\ UNCHANGED <<cachedAt, inFlight, lastAttempt, got>>
  /\ UNCHANGED <<tick, published, reachable, cached, fetchedAt, kid>>

\* The verifiers that wait for the fetch get its document: the first time they
\* still have to look into it, after a refresh they are done with it.
Resume(key) ==
  /\ kpc' = [q \in Verifiers |->
               CASE kpc[q] \in {"first", "second"} /\ key = 0 -> "failed"
                 [] kpc[q] = "first" /\ key # 0 -> "select"
                 [] kpc[q] = "second" /\ key # 0 ->
                      IF key = kid[q] THEN "verified" ELSE "failed"
                 [] OTHER -> kpc[q]]
  /\ got' = [q \in Verifiers |-> IF kpc[q] \in {"first", "second"} THEN key ELSE got[q]]

\* The fetch brings the provider's document.
Fetched ==
  /\ inFlight /\ reachable
  /\ cached' = published /\ cachedAt' = tick /\ fetchedAt' = tick
  /\ inFlight' = FALSE
  /\ Resume(published)
  /\ UNCHANGED <<tick, published, reachable, lastAttempt, kid>>

\* Bug: a document is served during an outage however old it is.
ServableAtAnyAge == cached # 0

\* The document that may be served instead of an error.
Servable == cached # 0 /\ tick - cachedAt < MaxStale

\* The fetch fails or times out: the stale document is served if it may be.
FetchFailed ==
  /\ inFlight /\ ~reachable
  /\ inFlight' = FALSE
  /\ Resume(IF Servable THEN cached ELSE 0)
  /\ UNCHANGED <<tick, published, reachable, cached, cachedAt, lastAttempt, fetchedAt, kid>>

\* refresh called by the application itself.
Refresh == /\ cachedAt' = 0
           /\ Load
           /\ UNCHANGED <<tick, published, reachable, cached, fetchedAt, verifierVars>>

Rotate == /\ published < MaxKey
          /\ published' = published + 1
          /\ UNCHANGED <<tick, reachable, cacheVars, verifierVars>>

Outage == /\ reachable' = ~reachable
          /\ UNCHANGED <<tick, published, cacheVars, verifierVars>>

\* Time passes; the verifiers that have a document go on in the same turn.
TimePasses == /\ tick < End
              /\ \A q \in Verifiers : kpc[q] # "select"
              /\ tick' = tick + 1
              /\ UNCHANGED <<published, reachable, cacheVars, verifierVars>>

RemoteNext ==
  \/ Fetched \/ FetchFailed \/ Refresh \/ Rotate \/ Outage \/ TimePasses
  \/ \E q \in Verifiers : Select(q) \/ \E k \in Keys \union {0} : GetKey(q, k)

RemoteSpec == RemoteInit /\ [][RemoteNext]_remoteVars

-----------------------------------------------------------------------------
\* A verifier that is given a document gets one of this moment, one fetched within
\* the cacheTtlMs, or, while the provider is out, one fetched within the maxStaleMs.
NoKeyPastStale ==
  \A q \in Verifiers : kpc[q] = "select" /\ got[q] = cached =>
    tick = fetchedAt \/ tick - fetchedAt < CacheTtl \/ tick - fetchedAt < MaxStale
=============================================================================
