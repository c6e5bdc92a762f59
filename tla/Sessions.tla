------------------------------- MODULE Sessions -------------------------------
(***************************************************************************)
(* Server-side sessions: SessionManager (auth/src/session/manager.ts) over *)
(* the session store of providers/memory.ts, whose operations run in one   *)
(* turn, or that of providers/repo.ts, where touch reads and then saves    *)
(* and deleteBySubject lists and then deletes one by one.                  *)
(*                                                                         *)
(* All sessions belong to one subject.  A login begins a chain of sessions *)
(* that regenerations continue, each under a new id.                       *)
(***************************************************************************)
EXTENDS Naturals

CONSTANTS Callers,      \* calls of the manager that may be in flight at once
          MaxSessions,  \* bound on the sessions created
          MaxClock,     \* bound on the clock
          Absolute, Inactivity, Touch  \* the policy, in ticks; Inactivity 0 is off

ASSUME SessionAssumption ==
  /\ MaxSessions \in Nat /\ MaxClock \in Nat /\ Touch \in Nat
  /\ Absolute \in Nat \ {0} /\ Inactivity \in Nat   \* resolveSessionPolicy

VARIABLES
  sessionStore, \* "memory" or "repo"
  clock,
  sessions,     \* the stored record of each id
  created,      \* how many ids were minted
  spc,          \* where each call is
  subjectOf,    \* the id it was called with
  readAs,       \* what it keeps of the record it read, and when it read it
  doomed,       \* the ids its deleteBySubject still has to delete
  chain,        \* ghost: the login that each id goes back to, and its time
  loggedOut,    \* ghost: ids whose logout has returned
  ended,        \* ghost: chains of which a session was logged out or expired
  broughtBack   \* ghost: ids that a touch saved again after their deletion

callVarsS == <<spc, subjectOf, readAs, doomed>>
ghostsS == <<chain, loggedOut, ended, broughtBack>>
sessionVars == <<sessionStore, clock, sessions, created, callVarsS, ghostsS>>

SessionIds == 1..MaxSessions
NoSession == [live |-> FALSE, auth |-> 0, seen |-> 0, at |-> 0]
Times == 0..MaxClock
Records == [live : BOOLEAN, auth : Times, seen : Times, at : Times]
Busy == {"drop", "touch", "resave", "create", "retire", "delete"}

SessionTypeOK ==
  /\ sessionStore \in {"memory", "repo"} /\ clock \in Times
  /\ sessions \in [SessionIds -> Records] /\ created \in 0..MaxSessions
  /\ spc \in [Callers -> Busy \union {"idle", "active"}]
  /\ subjectOf \in [Callers -> SessionIds \union {0}]
  /\ readAs \in [Callers -> Records]
  /\ doomed \in [Callers -> SUBSET SessionIds]
  /\ chain \in [SessionIds -> [root : SessionIds \union {0}, login : Times]]
  /\ loggedOut \subseteq SessionIds /\ ended \subseteq SessionIds
  /\ broughtBack \subseteq SessionIds

SessionInit ==
  /\ sessionStore \in {"memory", "repo"} /\ clock = 0
  /\ sessions = [s \in SessionIds |-> NoSession] /\ created = 0
  /\ spc = [c \in Callers |-> "idle"]
  /\ subjectOf = [c \in Callers |-> 0]
  /\ readAs = [c \in Callers |-> NoSession]
  /\ doomed = [c \in Callers |-> {}]
  /\ chain = [s \in SessionIds |-> [root |-> 0, login |-> 0]]
  /\ loggedOut = {} /\ ended = {} /\ broughtBack = {}

-----------------------------------------------------------------------------
\* expiryReason: past the absolute limit of its authentication, or idle.
Expired(r) == \/ r.auth + Absolute <= clock
              \/ Inactivity > 0 /\ r.seen + Inactivity <= clock

NewRecord(auth) == [live |-> TRUE, auth |-> auth, seen |-> clock, at |-> 0]

\* What is still needed of the record that was read.
Kept(state, r) ==
  [NoSession EXCEPT !.auth = IF state \in {"touch", "resave", "create"} THEN r.auth ELSE 0,
                    !.at = IF state \in {"touch", "resave", "active"} THEN r.at ELSE 0]

\* The call c goes to state `state` with session s in hand.
Goes(c, state, s, r) == /\ spc' = [spc EXCEPT ![c] = state]
                        /\ subjectOf' = [subjectOf EXCEPT ![c] = s]
                        /\ readAs' = [readAs EXCEPT ![c] = Kept(state, r)]

\* The call is over, and its locals with it.
Returns(c) == Goes(c, "idle", 0, NoSession)

Deleted(S) == [s \in SessionIds |-> IF s \in S THEN NoSession ELSE sessions[s]]

\* create: a login.
Login == /\ created < MaxSessions
         /\ created' = created + 1
         /\ sessions' = [sessions EXCEPT ![created + 1] = NewRecord(clock)]
         /\ chain' = [chain EXCEPT ![created + 1] = [root |-> created + 1, login |-> clock]]
         /\ UNCHANGED <<sessionStore, clock, callVarsS, loggedOut, ended, broughtBack>>

\* resolve: reads, then deletes what has expired or touches what was not seen
\* for the touch interval.  A missing session is answered at once.
Resolve(c, s) ==
  LET r == [sessions[s] EXCEPT !.at = clock] IN
  /\ spc[c] = "idle" /\ s \in 1..created /\ sessions[s].live
  /\ Goes(c, CASE Expired(r) -> "drop"
               [] ~Expired(r) /\ clock - r.seen >= Touch -> "touch"
               [] OTHER -> "active", s, r)
  /\ UNCHANGED <<sessionStore, clock, sessions, created, doomed, ghostsS>>

\* An expired session that resolve or regenerate came upon is deleted.
DropExpired(c) ==
  /\ spc[c] = "drop"
  /\ sessions' = Deleted({subjectOf[c]})
  /\ ended' = ended \union {chain[subjectOf[c]].root}
  /\ Returns(c)
  /\ UNCHANGED <<sessionStore, clock, created, doomed, chain, loggedOut, broughtBack>>

\* Bug: the memory store writes the record back whether it is there or not.
TouchedAlways(s, at) == [live |-> TRUE, auth |-> sessions[s].auth, seen |-> at, at |-> 0]

\* touch of the memory store: only a session that is still there.
Touched(s, at) == IF sessions[s].live THEN [sessions[s] EXCEPT !.seen = at] ELSE sessions[s]

TouchInMemory(c) ==
  /\ spc[c] = "touch" /\ sessionStore = "memory"
  /\ sessions' = [sessions EXCEPT ![subjectOf[c]] = Touched(subjectOf[c], readAs[c].at)]
  /\ Goes(c, "active", subjectOf[c], readAs[c])
  /\ UNCHANGED <<sessionStore, clock, created, doomed, ghostsS>>

\* touch of the repo store: findById ...
TouchFind(c) ==
  /\ spc[c] = "touch" /\ sessionStore = "repo"
  /\ Goes(c, IF sessions[subjectOf[c]].live THEN "resave" ELSE "active", subjectOf[c], readAs[c])
  /\ UNCHANGED <<sessionStore, clock, sessions, created, doomed, ghostsS>>

\* ... and save of what it found, which is there again if it was deleted.
TouchSave(c) ==
  /\ spc[c] = "resave"
  /\ sessions' = [sessions EXCEPT ![subjectOf[c]] =
                    [live |-> TRUE, auth |-> readAs[c].auth, seen |-> readAs[c].at, at |-> 0]]
  /\ broughtBack' = broughtBack \union ({subjectOf[c]} \intersect loggedOut)
  /\ Goes(c, "active", subjectOf[c], readAs[c])
  /\ UNCHANGED <<sessionStore, clock, created, doomed, chain, loggedOut, ended>>

\* The answer of resolve has reached the caller.
Answer(c) == /\ spc[c] = "active"
             /\ Returns(c)
             /\ UNCHANGED <<sessionStore, clock, sessions, created, doomed, ghostsS>>

\* regenerate: reads, and gives up on a session that is missing or expired.
Regenerate(c, s) ==
  LET r == [sessions[s] EXCEPT !.at = clock] IN
  /\ spc[c] = "idle" /\ s \in 1..created /\ sessions[s].live
  /\ Goes(c, IF Expired(r) THEN "drop" ELSE "create", s, r)
  /\ UNCHANGED <<sessionStore, clock, sessions, created, doomed, ghostsS>>

\* Bug: a regenerated session counts as a new authentication.
RenewedAuthNow(r) == clock

\* authTime survives, so the absolute limit does not move.
RenewedAuth(r) == r.auth

\* Bug: the old session is deleted before there is a new one.
CreateAfterDelete(c) ==
  /\ spc[c] = "create" /\ created < MaxSessions
  /\ sessions' = Deleted({subjectOf[c]})
  /\ spc' = [spc EXCEPT ![c] = "retire"]
  /\ UNCHANGED <<sessionStore, clock, created, subjectOf, readAs, doomed, ghostsS>>

\* The new session is created first ...
CreateNext(c) ==
  /\ spc[c] = "create" /\ created < MaxSessions
  /\ created' = created + 1
  /\ sessions' = [sessions EXCEPT ![created + 1] = NewRecord(RenewedAuth(readAs[c]))]
  /\ chain' = [chain EXCEPT ![created + 1] = chain[subjectOf[c]]]
  /\ Goes(c, "retire", subjectOf[c], NoSession)
  /\ UNCHANGED <<sessionStore, clock, doomed, loggedOut, ended, broughtBack>>

\* ... and only then is the old one deleted.
Retire(c) ==
  /\ spc[c] = "retire"
  /\ sessions' = Deleted({subjectOf[c]})
  /\ Returns(c)
  /\ UNCHANGED <<sessionStore, clock, created, doomed, ghostsS>>

\* revoke: one delete.
Revoke1(s) ==
  /\ s \in 1..created
  /\ sessions' = Deleted({s})
  /\ loggedOut' = loggedOut \union {s}
  /\ ended' = ended \union {chain[s].root}
  /\ UNCHANGED <<sessionStore, clock, created, callVarsS, chain, broughtBack>>

\* revokeAllForSubject: the memory store deletes in one step, the repo lists.
RevokeEverywhere(c) ==
  LET there == {s \in SessionIds : sessions[s].live} IN
  /\ spc[c] = "idle" /\ there # {}
  /\ ended' = ended \union {chain[s].root : s \in there}
  /\ IF sessionStore = "memory"
     THEN /\ sessions' = Deleted(there)
          /\ loggedOut' = loggedOut \union there
          /\ UNCHANGED callVarsS
     ELSE /\ doomed' = [doomed EXCEPT ![c] = there]
          /\ spc' = [spc EXCEPT ![c] = "delete"]
          /\ UNCHANGED <<sessions, loggedOut, subjectOf, readAs>>
  /\ UNCHANGED <<sessionStore, clock, created, chain, broughtBack>>

DeleteListed(c, s) ==
  /\ spc[c] = "delete" /\ s \in doomed[c]
  /\ sessions' = Deleted({s})
  /\ loggedOut' = loggedOut \union {s}
  /\ doomed' = [doomed EXCEPT ![c] = @ \ {s}]
  /\ spc' = [spc EXCEPT ![c] = IF doomed[c] = {s} THEN "idle" ELSE "delete"]
  /\ UNCHANGED <<sessionStore, clock, created, subjectOf, readAs, chain, ended, broughtBack>>

\* purgeExpired of the memory store looks at the absolute limit alone.
PurgeSessions ==
  LET old == {s \in SessionIds : sessions[s].live /\ sessions[s].auth + Absolute <= clock} IN
  /\ sessionStore = "memory" /\ old # {}
  /\ sessions' = Deleted(old)
  /\ ended' = ended \union {chain[s].root : s \in old}
  /\ UNCHANGED <<sessionStore, clock, created, callVarsS, chain, loggedOut, broughtBack>>

\* The process that serves the call dies; the repo's sessions stay.
CallDies(c) ==
  /\ sessionStore = "repo" /\ spc[c] \in Busy
  /\ Returns(c)
  /\ doomed' = [doomed EXCEPT ![c] = {}]
  /\ UNCHANGED <<sessionStore, clock, sessions, created, ghostsS>>

Tick == /\ clock < MaxClock
        /\ clock' = clock + 1
        /\ UNCHANGED <<sessionStore, sessions, created, callVarsS, ghostsS>>

SessionNext ==
  \/ Login \/ PurgeSessions \/ Tick
  \/ \E s \in SessionIds : Revoke1(s)
  \/ \E c \in Callers :
       \/ \E s \in SessionIds : Resolve(c, s) \/ Regenerate(c, s) \/ DeleteListed(c, s)
       \/ DropExpired(c) \/ TouchInMemory(c) \/ TouchFind(c) \/ TouchSave(c) \/ Answer(c)
       \/ CreateNext(c) \/ Retire(c) \/ RevokeEverywhere(c) \/ CallDies(c)

SessionSpec == SessionInit /\ [][SessionNext]_sessionVars

-----------------------------------------------------------------------------
\* No chain of touches and regenerations carries a login past its absolute
\* limit: whatever session of it was answered as active was read before the
\* limit counted from the login itself (policy.ts:4-7, manager.ts:84).
AbsoluteCeiling ==
  \A c \in Callers :
    spc[c] = "active" => readAs[c].at < chain[subjectOf[c]].login + Absolute

\* A login is not lost by the manager: until one of its sessions is logged out
\* or expires, one is there, at every step of a regeneration and also when the
\* process dies in the middle of it (manager.ts:164-166).
ChainAlive ==
  \A s \in 1..created :
    \/ chain[s].root \in ended
    \/ \E t \in 1..created : sessions[t].live /\ chain[t].root = chain[s].root

\* A session that was logged out is gone for every later call, although calls
\* that read it before are still under way; only in the repo store may one of
\* these bring it back, by saving what it read in order to touch it.
LoggedOutStaysOut == \A s \in loggedOut : sessions[s].live => s \in broughtBack
=============================================================================
