-------------------------------- MODULE Passkeys --------------------------------
(***************************************************************************)
(* WebAuthn ceremonies of one user (auth/src/webauthn/service.ts and the   *)
(* routes that save what it returns).  A ceremony has a challenge that may *)
(* be consumed once; its response reaches the server any number of times,  *)
(* late, or after that of a later ceremony.  Every registration ceremony   *)
(* that completes makes a credential of its own, named by the ceremony.    *)
(***************************************************************************)
EXTENDS Naturals

CONSTANTS Registrations, Logins,  \* ceremonies of the two kinds
          Handlers,               \* verifications that may be in flight at once
          MaxCount,               \* bound on the authenticators' counters
          NoCeremony

ASSUME PasskeyAssumption ==
  /\ Registrations \intersect Logins = {} /\ NoCeremony \notin Registrations \union Logins
  /\ MaxCount \in Nat

Ceremonies == Registrations \union Logins

VARIABLES
  userStore,   \* "memory" or "repo": how a replaced user handle is remembered
  onClone,     \* "throw" or "warn"
  handle,      \* the user's webauthnUserHandle: the ceremony that minted it
  known,       \* handles under which the store finds the user
  options,     \* where the options of each ceremony are: "none", "minting", "sent"
  givenHandle,       \* the handle each registration sent to its authenticator
  challenge,   \* "none", "put", "expired" or "taken"
  counter,     \* the counter of each credential's authenticator
  response,    \* the assertion that answers each login
  credential,  \* the stored record of each credential
  wpc,         \* where each handler is
  ceremony,    \* what it verifies
  seenCred,    \* the credential as it read it
  acceptedAs   \* ghost: how often each ceremony was accepted

handleVars == <<handle, known, options, givenHandle>>
deviceVars == <<counter, response>>
handlerVars == <<wpc, ceremony, seenCred>>
passkeyVars == <<userStore, onClone, handleVars, challenge, deviceVars, credential,
                 handlerVars, acceptedAs>>

NoCredential == [there |-> FALSE, count |-> 0, version |-> 0]
NoResponse == [by |-> NoCeremony, count |-> 0]
CredentialRecords == [there : BOOLEAN, count : 0..MaxCount, version : Nat]

PasskeyTypeOK ==
  /\ userStore \in {"memory", "repo"} /\ onClone \in {"throw", "warn"}
  /\ handle \in Registrations \union {NoCeremony} /\ known \subseteq Registrations
  /\ options \in [Ceremonies -> {"none", "minting", "sent"}]
  /\ givenHandle \in [Registrations -> Registrations \union {NoCeremony}]
  /\ challenge \in [Ceremonies -> {"none", "put", "expired", "taken"}]
  /\ counter \in [Registrations -> 0..MaxCount]
  /\ response \in [Logins -> [by : Registrations \union {NoCeremony}, count : 0..MaxCount]]
  /\ credential \in [Registrations -> CredentialRecords]
  /\ wpc \in [Handlers -> {"idle", "check", "save", "find", "swap"}]
  /\ ceremony \in [Handlers -> Ceremonies \union {NoCeremony}]
  /\ seenCred \in [Handlers -> CredentialRecords]
  /\ acceptedAs \in [Ceremonies -> Nat]

PasskeyInit ==
  /\ userStore \in {"memory", "repo"} /\ onClone \in {"throw", "warn"}
  /\ handle = NoCeremony /\ known = {}
  /\ options = [k \in Ceremonies |-> "none"]
  /\ givenHandle = [k \in Registrations |-> NoCeremony]
  /\ challenge = [k \in Ceremonies |-> "none"]
  /\ counter = [k \in Registrations |-> 0]
  /\ response = [l \in Logins |-> NoResponse]
  /\ credential = [k \in Registrations |-> NoCredential]
  /\ wpc = [h \in Handlers |-> "idle"]
  /\ ceremony = [h \in Handlers |-> NoCeremony]
  /\ seenCred = [h \in Handlers |-> NoCredential]
  /\ acceptedAs = [k \in Ceremonies |-> 0]

-----------------------------------------------------------------------------
\* generateRegistrationOptions reads the user: without a handle it mints one.
RegistrationOptions(k) ==
  /\ options[k] = "none"
  /\ IF handle = NoCeremony
     THEN /\ options' = [options EXCEPT ![k] = "minting"]
          /\ UNCHANGED <<givenHandle, challenge>>
     ELSE /\ options' = [options EXCEPT ![k] = "sent"]
          /\ givenHandle' = [givenHandle EXCEPT ![k] = handle]
          /\ challenge' = [challenge EXCEPT ![k] = "put"]
  /\ UNCHANGED <<userStore, onClone, handle, known, deviceVars, credential, handlerVars,
                 acceptedAs>>

\* Bug: the index of the memory store forgets the handle it replaces.
KnownAfterForgetful(h) == {h}

\* update: the memory store's index keeps a handle that is replaced, the repo
\* finds the user by the field alone.
KnownAfter(h) == IF userStore = "memory" THEN known \union {h} ELSE {h}

\* The minted handle is stored, and goes out with the challenge.
MintHandle(k) ==
  /\ options[k] = "minting"
  /\ handle' = k
  /\ known' = KnownAfter(k)
  /\ givenHandle' = [givenHandle EXCEPT ![k] = k]
  /\ options' = [options EXCEPT ![k] = "sent"]
  /\ challenge' = [challenge EXCEPT ![k] = "put"]
  /\ UNCHANGED <<userStore, onClone, deviceVars, credential, handlerVars, acceptedAs>>

\* generateAuthenticationOptions.
LoginOptions(l) ==
  /\ options[l] = "none"
  /\ options' = [options EXCEPT ![l] = "sent"]
  /\ challenge' = [challenge EXCEPT ![l] = "put"]
  /\ UNCHANGED <<userStore, onClone, handle, known, givenHandle, deviceVars, credential,
                 handlerVars, acceptedAs>>

\* An authenticator with credential k answers login l, counting the assertion
\* or, as many passkeys do, leaving its counter at zero.
Sign(l, k) ==
  /\ options[l] = "sent" /\ response[l] = NoResponse /\ acceptedAs[k] > 0
  /\ \E n \in {0, counter[k] + 1} :
       /\ n <= MaxCount /\ (n = 0 => counter[k] = 0)
       /\ counter' = [counter EXCEPT ![k] = n]
       /\ response' = [response EXCEPT ![l] = [by |-> k, count |-> n]]
  /\ UNCHANGED <<userStore, onClone, handleVars, challenge, credential, handlerVars,
                 acceptedAs>>

ChallengeExpires(k) ==
  /\ challenge[k] = "put"
  /\ challenge' = [challenge EXCEPT ![k] = "expired"]
  /\ UNCHANGED <<userStore, onClone, handleVars, deviceVars, credential, handlerVars,
                 acceptedAs>>

\* Bug: a challenge is looked at and stays.
ChallengeStays(k) == challenge

\* consume: whoever asks first takes it, expired or not.
ChallengeTaken(k) == [challenge EXCEPT ![k] = "taken"]

\* A response arrives.  Its challenge is consumed before anything is checked; a
\* registration then looks for the credential, a login goes on to read it.
VerifyResponse(h, k) ==
  /\ wpc[h] = "idle" /\ challenge[k] \in {"put", "expired"}
  /\ k \in Logins => response[k] # NoResponse
  /\ challenge' = ChallengeTaken(k)
  /\ IF challenge[k] = "put"
     THEN /\ wpc' = [wpc EXCEPT ![h] = IF k \in Logins THEN "find" ELSE "check"]
          /\ ceremony' = [ceremony EXCEPT ![h] = k]
     ELSE UNCHANGED <<wpc, ceremony>>
  /\ UNCHANGED <<userStore, onClone, handleVars, deviceVars, credential, seenCred, acceptedAs>>

Finished(h) == /\ wpc' = [wpc EXCEPT ![h] = "idle"]
               /\ ceremony' = [ceremony EXCEPT ![h] = NoCeremony]
               /\ seenCred' = [seenCred EXCEPT ![h] = NoCredential]

\* findWebAuthn of a registration: a credential that is stored already is refused
\* (credential_exists).
CheckRegistered(h) ==
  /\ wpc[h] = "check"
  /\ IF credential[ceremony[h]].there
     THEN Finished(h)
     ELSE wpc' = [wpc EXCEPT ![h] = "save"] /\ UNCHANGED <<ceremony, seenCred>>
  /\ UNCHANGED <<userStore, onClone, handleVars, challenge, deviceVars, credential, acceptedAs>>

\* The route saves the credential the service returned, with version 0, and looks at
\* nothing again.
SaveCredential(h) ==
  LET k == ceremony[h] IN
  /\ wpc[h] = "save"
  /\ credential' = [credential EXCEPT ![k] = [there |-> TRUE, count |-> 0, version |-> 0]]
  /\ acceptedAs' = [acceptedAs EXCEPT ![k] = @ + 1]
  /\ Finished(h)
  /\ UNCHANGED <<userStore, onClone, handleVars, challenge, deviceVars>>

\* findWebAuthn; a login that carries a user handle must find the same user.
FindCredential(h) ==
  LET k == response[ceremony[h]].by IN
  /\ wpc[h] = "find"
  /\ \E carriesHandle \in BOOLEAN :
       IF credential[k].there /\ (carriesHandle => givenHandle[k] \in known)
       THEN /\ wpc' = [wpc EXCEPT ![h] = "swap"]
            /\ seenCred' = [seenCred EXCEPT ![h] = credential[k]]
            /\ UNCHANGED ceremony
       ELSE Finished(h)
  /\ UNCHANGED <<userStore, onClone, handleVars, challenge, deviceVars, credential, acceptedAs>>

\* A counter that did not grow, where there is one at all.
Regressed(n, seen) == ~(n = 0 /\ seen.count = 0) /\ n <= seen.count

\* Bug: the counter is written whatever happened since it was read.
UnchangedAlways(k, seen) == credential[k].there

\* The compare-and-swap of updateSignCount is on the version that was read.
UnchangedSince(k, seen) == credential[k].there /\ credential[k].version = seen.version

\* The checks after the signature, and the swap.
UpdateSignCount(h) ==
  LET l == ceremony[h]
      k == response[l].by
      n == response[l].count
  IN
  /\ wpc[h] = "swap"
  /\ IF (Regressed(n, seenCred[h]) => onClone = "warn") /\ UnchangedSince(k, seenCred[h])
     THEN /\ credential' = [credential EXCEPT ![k] = [there |-> TRUE, count |-> n, version |-> @.version + 1]]
          /\ acceptedAs' = [acceptedAs EXCEPT ![l] = @ + 1]
     ELSE UNCHANGED <<credential, acceptedAs>>
  /\ Finished(h)
  /\ UNCHANGED <<userStore, onClone, handleVars, challenge, deviceVars>>

PasskeyNext ==
  \/ \E k \in Registrations : RegistrationOptions(k) \/ MintHandle(k)
  \/ \E l \in Logins : LoginOptions(l) \/ \E k \in Registrations : Sign(l, k)
  \/ \E k \in Ceremonies : ChallengeExpires(k) \/ \E h \in Handlers : VerifyResponse(h, k)
  \/ \E h \in Handlers : CheckRegistered(h) \/ SaveCredential(h) \/ FindCredential(h) \/ UpdateSignCount(h)

PasskeySpec == PasskeyInit /\ [][PasskeyNext]_passkeyVars

-----------------------------------------------------------------------------
\* Of the responses that reach the server in any order, twice or at once, each
\* ceremony is accepted at most once.
AcceptedOnce == \A k \in Ceremonies : acceptedAs[k] <= 1

\* With onClone "throw" the stored counter never falls, so an assertion is
\* never accepted after a later one of the same authenticator.
SignCountGrows ==
  [][\A k \in Registrations :
       onClone = "throw" => credential'[k].count >= credential[k].count]_passkeyVars

\* The handle that a registration gave to its authenticator finds the user,
\* unless, in the repo store, another registration has replaced it.
HandleFindsUser ==
  \A k \in Registrations :
    acceptedAs[k] > 0 => givenHandle[k] \in known \/ (userStore = "repo" /\ handle # givenHandle[k])
=============================================================================
