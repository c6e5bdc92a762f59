-------------------------------- MODULE Accounts --------------------------------
(***************************************************************************)
(* Accounts with a password: PasswordService (auth/src/password.ts), the   *)
(* user and credential stores of providers/memory.ts or providers/repo.ts  *)
(* and the login throttle.  One identifier; the stored hash is named by the *)
(* password it was made from and whether its parameters are current.       *)
(* Hashing takes long, so every other call fits in between.                *)
(***************************************************************************)
EXTENDS Naturals, FiniteSets

CONSTANTS Clients,      \* calls of the service that may be in flight at once
          Passwords,
          MaxAttempts,  \* failures tolerated in a window
          NoPassword

ASSUME AccountAssumption ==
  MaxAttempts \in Nat \ {0} /\ NoPassword \notin Passwords /\ IsFiniteSet(Clients)

VARIABLES
  accountStore,  \* "memory" or "repo"
  accounts,      \* how many users have the identifier
  hash,          \* the credential of the user the identifier finds
  failures,      \* the count of the throttle's bucket
  apc,           \* where each call is
  typed,         \* the password it was given, or is to store
  readHash,      \* the credential it read
  latest,        \* ghost: the password last chosen, by createUser or a change
  racing         \* ghost: passwords of the calls under way when it was saved

callVarsA == <<apc, typed, readHash>>
accountVars == <<accountStore, accounts, hash, failures, callVarsA, latest, racing>>

NoHash == [of |-> NoPassword, current |-> TRUE]
Hashes == [of : Passwords \union {NoPassword}, current : BOOLEAN]

\* How many calls there may be, and how many are in one state.
InParallel == Cardinality(Clients)
InState(state) == Cardinality({c \in Clients : apc[c] = state})

AccountTypeOK ==
  /\ accountStore \in {"memory", "repo"} /\ accounts \in 0..InParallel
  /\ hash \in Hashes /\ failures \in Nat
  /\ apc \in [Clients -> {"idle", "create", "verify", "rehash", "choose"}]
  /\ typed \in [Clients -> Passwords \union {NoPassword}]
  /\ readHash \in [Clients -> Hashes]
  /\ latest \in Passwords \union {NoPassword} /\ racing \subseteq Passwords

AccountInit ==
  /\ accountStore \in {"memory", "repo"} /\ accounts = 0
  /\ hash = NoHash /\ failures = 0
  /\ apc = [c \in Clients |-> "idle"]
  /\ typed = [c \in Clients |-> NoPassword]
  /\ readHash = [c \in Clients |-> NoHash]
  /\ latest = NoPassword /\ racing = {}

-----------------------------------------------------------------------------
To(c, state, pw, h) == /\ apc' = [apc EXCEPT ![c] = state]
                       /\ typed' = [typed EXCEPT ![c] = pw]
                       /\ readHash' = [readHash EXCEPT ![c] = h]
Ends(c) == To(c, "idle", NoPassword, NoHash)

\* createUser: nobody has the identifier ...
CreateUser(c, pw) ==
  /\ apc[c] = "idle" /\ accounts = 0
  /\ To(c, "create", pw, NoHash)
  /\ UNCHANGED <<accountStore, accounts, hash, failures, latest, racing>>

\* Bug: the memory store does not look either.
TakenNever == FALSE

\* create of the memory store throws when the identifier was taken meanwhile;
\* that of the repo saves another user.
Taken == accountStore = "memory" /\ accounts > 0

\* ... the user is created, and then its password stored; that of a second
\* user with the identifier is never looked up.
SaveUser(c) ==
  /\ apc[c] = "create"
  /\ IF Taken
     THEN Ends(c) /\ UNCHANGED accounts
     ELSE /\ accounts' = accounts + 1
          /\ IF accounts = 0 THEN To(c, "choose", typed[c], NoHash) ELSE Ends(c)
  /\ UNCHANGED <<accountStore, hash, failures, latest, racing>>

\* Bug: the throttle is not asked.
AlwaysAllowed == TRUE

\* throttle.check.
Allowed == failures < MaxAttempts

\* login up to the hash comparison: the throttle, the user and the credential.
LoginBegins(c, pw) ==
  /\ apc[c] = "idle" /\ Allowed
  /\ To(c, "verify", pw, hash)
  /\ UNCHANGED <<accountStore, accounts, hash, failures, latest, racing>>

\* Bug: a hash that needs an upgrade counts as a match.
MatchesOld(pw, h) == h.of # NoPassword /\ (pw = h.of \/ ~h.current)

\* hasher.verify, or verifyDummy without a credential.
Matches(pw, h) == h.of # NoPassword /\ pw = h.of

\* A failure counts, a success resets the bucket; then the password is hashed
\* anew if the parameters of the hash that was read are out of date.
LoginEnds(c) ==
  /\ apc[c] = "verify"
  /\ IF Matches(typed[c], readHash[c])
     THEN /\ failures' = 0
          /\ IF readHash[c].current THEN Ends(c) ELSE To(c, "rehash", typed[c], NoHash)
     ELSE failures' = failures + 1 /\ Ends(c)
  /\ UNCHANGED <<accountStore, accounts, hash, latest, racing>>

\* The upgraded hash replaces whatever is stored.
SaveRehash(c) ==
  /\ apc[c] = "rehash"
  /\ hash' = [of |-> typed[c], current |-> TRUE]
  /\ Ends(c)
  /\ UNCHANGED <<accountStore, accounts, failures, latest, racing>>

\* changePassword reads the credential and compares it with the current password.
ChangeBegins(c, pw, nextPw) ==
  /\ apc[c] = "idle" /\ Matches(pw, hash)
  /\ To(c, "choose", nextPw, NoHash)
  /\ UNCHANGED <<accountStore, accounts, hash, failures, latest, racing>>

\* Passwords that calls under way still may store.
UnderWay(c) == {typed[d] : d \in {e \in Clients \ {c} : apc[e] \in {"verify", "rehash", "choose"}}}

\* store, for a new user or a change.
SavePassword(c) ==
  /\ apc[c] = "choose"
  /\ hash' = [of |-> typed[c], current |-> TRUE]
  /\ latest' = typed[c]
  /\ racing' = UnderWay(c)
  /\ Ends(c)
  /\ UNCHANGED <<accountStore, accounts, failures>>

\* The window of the bucket ends.
WindowEnds == /\ failures > 0
              /\ failures' = 0
              /\ UNCHANGED <<accountStore, accounts, hash, callVarsA, latest, racing>>

\* The hasher's parameters are raised by a deployment.
RaiseParameters ==
  /\ hash.of # NoPassword /\ hash.current
  /\ hash' = [hash EXCEPT !.current = FALSE]
  /\ UNCHANGED <<accountStore, accounts, failures, callVarsA, latest, racing>>

\* The process that serves the call dies.
ClientDies(c) == /\ accountStore = "repo" /\ apc[c] # "idle"
                 /\ Ends(c)
                 /\ UNCHANGED <<accountStore, accounts, hash, failures, latest, racing>>

AccountNext ==
  \/ WindowEnds \/ RaiseParameters
  \/ \E c \in Clients :
       \/ \E pw \in Passwords : CreateUser(c, pw) \/ LoginBegins(c, pw)
                                \/ \E other \in Passwords : ChangeBegins(c, pw, other)
       \/ SaveUser(c) \/ LoginEnds(c) \/ SaveRehash(c) \/ SavePassword(c) \/ ClientDies(c)

AccountSpec == AccountInit /\ [][AccountNext]_accountVars

-----------------------------------------------------------------------------
\* Two registrations at once make one account, in the memory store (the repo
\* store leaves it to the database; see README).
OneAccount == accountStore = "memory" => accounts <= 1

\* The stored hash is of the password that was chosen last, unless a call that
\* was under way when that one was saved has stored its own over it: a login
\* that upgrades the hash writes back the password it verified before.
ChosenPasswordStays == hash.of = latest \/ hash.of \in racing

\* Guesses that are compared at once get past the check together, so a window
\* sees at most one more failure than it tolerates for each other call; those
\* that are still compared are within that number already.
AttemptsBounded == failures + InState("verify") < MaxAttempts + InParallel
=============================================================================
