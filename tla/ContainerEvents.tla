---- MODULE ContainerEvents ----
(***************************************************************************)
(* What the container of di-framework-core does with the decorated methods *)
(* of an instance (container.ts, decorators, cron/decorators.ts). Three    *)
(* parts that share no state: an event handed to its listeners, which may  *)
(* come and go meanwhile; a method whose calls are published and reported  *)
(* as telemetry; and the timer of a method with a cron expression. facet   *)
(* says which of them runs.                                                *)
(***************************************************************************)
EXTENDS Naturals, Sequences, FiniteSets

CONSTANTS Listeners,      \* functions that listen to the event
          MaxOns,         \* subscriptions made
          MaxEmissions,   \* times the event is emitted, by listeners too
          MinutesPerHour, HoursPerDay,
          Almanac,        \* the days in their order, and from the first again
          TurnedBackAt, TurnedBackBy,   \* when local time is put back, and by how many minutes
          Expressions,    \* cron expressions that are declared
          SearchMinutes,  \* minutes a search for the next one looks at
          TimerLimit,     \* the longest delay a timer of the host can have
          MaxClock,       \* minutes a timer is watched for
          MaxRuns         \* runs of the cron method

ASSUME CalendarAssumption ==
  /\ {MinutesPerHour, HoursPerDay} \subseteq Nat \ {0} /\ {SearchMinutes, TimerLimit, TurnedBackAt, TurnedBackBy} \subseteq Nat
  /\ Almanac \in Seq([day : Nat, month : Nat, weekday : Nat]) \ {<< >>}
  /\ TurnedBackBy <= TurnedBackAt

VARIABLES facet,
          entries,      \* the event's set: every subscription in order, with whether it still stands
          emitting,     \* emissions going on, the innermost last
          emitted, ons,
          report,       \* the call of a decorated method
          expression, clock, armed, stopped, runs   \* the cron method

listenerVars == <<entries, emitting, emitted, ons>>
cronTimerVars == <<expression, clock, armed, stopped, runs>>
eventVars == <<facet, listenerVars, report, cronTimerVars>>

-----------------------------------------------------------------------------
\* on, off and emit. forEach of a Set goes by the order of insertion, comes to what is added
\* while it runs, and passes over what has been deleted.

Standing == {i \in 1..Len(entries) : entries[i].stands}
Subscribed(l) == \E i \in Standing : entries[i].listener = l

Innermost == emitting[Len(emitting)]
\* the application makes its calls between emissions, a listener while it runs
MayAct == IF emitting = << >> THEN TRUE ELSE Innermost.runs

On(l) ==
  /\ MayAct /\ ons < MaxOns /\ ons' = ons + 1
  /\ entries' = IF Subscribed(l) THEN entries ELSE Append(entries, [listener |-> l, stands |-> TRUE])
  /\ UNCHANGED <<emitting, emitted>>

Off(l) ==
  /\ MayAct /\ Subscribed(l)
  /\ entries' = [i \in 1..Len(entries) |-> IF entries[i].listener = l THEN [entries[i] EXCEPT !.stands = FALSE] ELSE entries[i]]
  /\ emitting' = [n \in 1..Len(emitting) |-> [emitting[n] EXCEPT !.throughout = @ \ {l}, !.left = @ \union {l}]]
  /\ UNCHANGED <<emitted, ons>>

Emit ==
  /\ MayAct /\ emitted < MaxEmissions /\ emitted' = emitted + 1
  /\ emitting' = IF Standing = {} THEN emitting
                 ELSE Append(emitting, [at |-> 0, runs |-> FALSE, throughout |-> {entries[i].listener : i \in Standing}, left |-> {},
                                        called |-> << >>])
  /\ UNCHANGED <<entries, ons>>

Ahead == {i \in Standing : i > Innermost.at}

\* the next listener is called; what it does is the On, Off and Emit that follow
CallMethod ==
  /\ emitting # << >> /\ Ahead # {}
  /\ LET next == CHOOSE i \in Ahead : \A j \in Ahead : i <= j IN
     emitting' = [emitting EXCEPT ![Len(emitting)].at = next, ![Len(emitting)].runs = TRUE,
                                  ![Len(emitting)].called = Append(@, entries[next].listener)]
  /\ UNCHANGED <<entries, emitted, ons>>

\* Bug: what a listener throws ends the emission.
EndsTheEmission == SubSeq(emitting, 1, Len(emitting) - 1)
\* what a listener throws is logged, and the next one is called
AfterAThrow == [emitting EXCEPT ![Len(emitting)].runs = FALSE]

Throw ==
  /\ emitting # << >> /\ Innermost.runs
  /\ emitting' = AfterAThrow
  /\ UNCHANGED <<entries, emitted, ons>>

\* emit returns to the listener or the application that called it
EndEmission ==
  /\ emitting # << >> /\ Ahead = {}
  /\ emitting' = SubSeq(emitting, 1, Len(emitting) - 1)
  /\ UNCHANGED <<entries, emitted, ons>>

-----------------------------------------------------------------------------
\* A call of a method with @Publisher, @Telemetry or both. Telemetry is wrapped around the
\* method first, the publisher around that. A promise is waited for, another thenable is not.

\* what the decorators keep of a method: a phase that is left out is "after"
Publisher(phase) == IF phase = "omitted" THEN "after" ELSE phase
Telemetry == {TRUE, FALSE}
CallSituations == [phase : {Publisher(p) : p \in {"before", "after", "both", "omitted"}} \union {"unpublished"}, telemetry : Telemetry,
          result : {"value", "promise", "thenable"}, fails : BOOLEAN]
NoReport(made) == [call |-> made, at |-> "idle", events |-> << >>, outcome |-> "none"]

\* Bug: emit lets through what a listener throws.
LetThrough(throws) == throws
\* emit keeps what listeners throw to itself
Escapes(throws) == FALSE

\* emission of one event by a wrapper, whose listener may throw: an emission that throws is
\* caught by the wrapper as if the method had thrown
Reported(kind, throws) ==
  LET kept == Append(report.events, kind) IN
  IF Escapes(throws) THEN [report EXCEPT !.at = "settled", !.events = Append(kept, "error"), !.outcome = "error"]
  ELSE [report EXCEPT !.events = kept]

\* Bug: both means before.
AfterOnly(phase) == phase = "after"
After(phase) == phase \in {"after", "both"}

Settled(made, events) ==
  LET failed == made.fails /\ made.result # "thenable"
      telemetry == IF made.telemetry THEN <<"telemetry">> ELSE << >>
      published == IF made.phase = "unpublished" THEN << >>
                   ELSE IF failed THEN <<"error">>
                   ELSE IF After(made.phase) THEN <<"after">> ELSE << >>
  IN [call |-> made, at |-> "settled", events |-> events \o telemetry \o published, outcome |-> IF failed THEN "error" ELSE "value"]

\* the call, up to what the method returns
InvokeMethod ==
  /\ report.at = "idle"
  /\ \E throws \in BOOLEAN :
     LET begun == IF report.call.phase \in {"before", "both"} THEN Reported("before", throws) ELSE report IN
     report' = IF begun.at = "settled" THEN begun
               ELSE IF report.call.result = "promise" THEN [begun EXCEPT !.at = "pending"]
               ELSE Settled(report.call, begun.events)

\* the promise is settled, and the wrappers' then and catch run, the inner one first
Settle ==
  /\ report.at = "pending"
  /\ report' = Settled(report.call, report.events)

-----------------------------------------------------------------------------
\* @Cron: an expression of fields, and a timer that is set for the next minute that matches.

Forms(min, max) == {[form |-> "any"], [form |-> "step", n |-> 2], [form |-> "list", of |-> {min, max}],
                    [form |-> "range", from |-> max, to |-> max], [form |-> "range", from |-> max + 1, to |-> max + 1]}
\* parseCronField: a step counts from zero, not from the field's least value
ParsedField(f, min, max) ==
  CASE f.form = "any"   -> min..max
    [] f.form = "step"  -> {i \in min..max : i % f.n = 0}
    [] f.form = "list"  -> f.of
    [] f.form = "range" -> f.from..f.to

LeastOfField == [minute |-> 0, hour |-> 0, day |-> 1, month |-> 1, weekday |-> 0]
MostOfField ==
  LET days == {Almanac[i] : i \in 1..Len(Almanac)}
      Most(field) == (CHOOSE d \in days : \A other \in days : other[field] <= d[field])[field]
  IN [minute |-> MinutesPerHour - 1, hour |-> HoursPerDay - 1,
      day |-> Most("day"), month |-> Most("month"), weekday |-> Most("weekday")]

\* what a local minute is, in the calendar
Reading(m) ==
  LET today == Almanac[1 + ((m \div (MinutesPerHour * HoursPerDay)) % Len(Almanac))] IN
  [minute |-> m % MinutesPerHour, hour |-> (m \div MinutesPerHour) % HoursPerDay,
   day |-> today.day, month |-> today.month, weekday |-> today.weekday]
MinuteMatches(m) ==
  \A field \in DOMAIN LeastOfField : Reading(m)[field] \in ParsedField(expression[field], LeastOfField[field], MostOfField[field])

\* the clock goes on, and local time is put back once: some of its minutes come twice
Repeated(t) == t >= TurnedBackAt /\ t < TurnedBackAt + TurnedBackBy
Local(t) == IF t < TurnedBackAt THEN t ELSE t - TurnedBackBy
\* a Date set to a local minute is at the first of the two
Instant(m) == IF m < TurnedBackAt THEN m ELSE m + TurnedBackBy

\* Bug: the search begins with the minute it is.
ThisMinute(now) == now
FirstLooked(now) == now + 1

\* getNextCronTime: the first local minute that matches; there may be none as far as it looks
Upcoming(now) == {m \in FirstLooked(Local(now))..(Local(now) + SearchMinutes) : MinuteMatches(m)}
NextCronTime(now) == LET found == Upcoming(now) IN Instant(CHOOSE m \in found : \A n \in found : m <= n)

\* scheduleNext: a delay the host cannot express makes its timer fire at once, as does one that is
\* over; where the search finds nothing it throws, and no timer is set
NoTimer == [due |-> 0, since |-> 0, set |-> FALSE]
TooFar(now) == NextCronTime(now) - now > TimerLimit
TimerFor(now) == IF Upcoming(now) = {} THEN NoTimer
                 ELSE [due |-> IF TooFar(now) THEN now ELSE NextCronTime(now), since |-> now, set |-> TRUE]

CronInit ==
  /\ expression \in Expressions
  /\ clock = 0 /\ stopped = FALSE /\ runs = << >>
  /\ armed = NoTimer

\* applyCron; the search of an expression that matches nothing throws out of the resolution
Schedule ==
  /\ ~armed.set /\ ~stopped /\ runs = << >> /\ Upcoming(clock) # {}
  /\ armed' = TimerFor(clock)
  /\ UNCHANGED <<expression, clock, stopped, runs>>

Minute ==
  /\ clock < MaxClock /\ clock' = clock + 1
  /\ UNCHANGED <<expression, armed, stopped, runs>>

\* Bug: a method that stops the container's jobs is scheduled again.
RearmedAnyway(stops) == TimerFor(clock)
\* job.stop, called by the method itself, is seen when the next time is looked for; that search may
\* throw out of the timer, which ends the schedule
Rearmed(stops) == IF stops THEN NoTimer ELSE TimerFor(clock)

\* the timer fires, when it is due or later; the method runs, and may stop the container's jobs
Fire ==
  /\ armed.set /\ clock >= armed.due /\ Len(runs) < MaxRuns
  /\ runs' = Append(runs, [at |-> clock, since |-> armed.since])
  /\ \E stops \in BOOLEAN :
       /\ stopped' = stops
       /\ armed' = Rearmed(stops)
  /\ UNCHANGED <<expression, clock>>

StopCronJobs ==
  /\ ~stopped /\ armed.set
  /\ stopped' = TRUE /\ armed' = NoTimer
  /\ UNCHANGED <<expression, clock, runs>>

-----------------------------------------------------------------------------
SomeExpression == [field \in DOMAIN LeastOfField |-> [form |-> "any"]]
SomeCall == [phase |-> "after", telemetry |-> FALSE, result |-> "value", fails |-> FALSE]

ContainerEventsInit ==
  /\ facet \in {"listeners", "calls", "cron"}
  /\ entries = << >> /\ emitting = << >> /\ emitted = 0 /\ ons = 0
  /\ \E made \in (IF facet = "calls" THEN CallSituations ELSE {SomeCall}) : report = NoReport(made)
  /\ IF facet = "cron" THEN CronInit
     ELSE expression = SomeExpression /\ clock = 0 /\ stopped = FALSE /\ runs = << >> /\ armed = NoTimer

ListenersNext ==
  \/ \E l \in Listeners : On(l) \/ Off(l)
  \/ Emit \/ CallMethod \/ Throw \/ EndEmission
CallsNext == InvokeMethod \/ Settle
CronNext == Schedule \/ Minute \/ Fire \/ StopCronJobs

ContainerEventsNext ==
  /\ UNCHANGED facet
  /\ CASE facet = "listeners" -> ListenersNext /\ UNCHANGED <<report, cronTimerVars>>
       [] facet = "calls"     -> CallsNext /\ UNCHANGED <<listenerVars, cronTimerVars>>
       [] facet = "cron"      -> CronNext /\ UNCHANGED <<listenerVars, report>>

ContainerEventsSpec == ContainerEventsInit /\ [][ContainerEventsNext]_eventVars

-----------------------------------------------------------------------------
\* However listeners come, go, throw and emit again while an event is handed out: emit
\* returns only when every listener that was there from beginning to end has been called, and
\* only one that left and came back is called twice (container.ts:490-504).
EmissionsComplete ==
  /\ [][\A n \in 1..Len(emitting) : Len(emitting') < n =>
          emitting[n].throughout \subseteq {emitting[n].called[i] : i \in 1..Len(emitting[n].called)}]_eventVars
CalledOnce ==
  \A n \in 1..Len(emitting) : \A i, j \in 1..Len(emitting[n].called) :
    i # j /\ emitting[n].called[i] = emitting[n].called[j] => emitting[n].called[i] \in emitting[n].left

\* A call that has come to its end has been published as its phase says, with one error if it
\* failed, and reported once; and what its caller gets is what the method did, whatever the
\* listeners do (container.ts:543-601, 809-852).
CallsPublished ==
  LET made == report.call
      times(kind) == Cardinality({i \in 1..Len(report.events) : report.events[i] = kind})
      failed == made.fails /\ made.result # "thenable" IN
  report.at = "settled" =>
    /\ report.outcome = (IF failed THEN "error" ELSE "value")
    /\ times("error") = (IF failed /\ made.phase # "unpublished" THEN 1 ELSE 0)
    /\ times("telemetry") = (IF made.telemetry THEN 1 ELSE 0)
    /\ times("before") = (IF made.phase \in {"before", "both"} THEN 1 ELSE 0)
    /\ times("after") = (IF ~failed /\ made.phase \in {"after", "both"} THEN 1 ELSE 0)

\* A cron method runs once at most for a minute its expression names, in it or late, and no such
\* minute is passed over; after a run the job waits for the next, unless it was stopped or no
\* minute is found; and it waits no more once stopped. Excused is what the host's timers cannot
\* wait for, which they run at once, and the second pass of the minutes that come twice: from there
\* the search begins in the first, which is over (container.ts:157-178, 655-685).
RanWell(run) == \/ \E t \in (run.since + 1)..run.at : MinuteMatches(Local(t))
                \/ TooFar(run.since) \/ Repeated(run.since)
RunsOnSchedule ==
  /\ \A i \in 1..Len(runs) : RanWell(runs[i]) /\ (i > 1 => runs[i].since = runs[i - 1].at)
  /\ armed.set => \A t \in (armed.since + 1)..(armed.due - 1) : MinuteMatches(Local(t)) => Repeated(t)
  /\ runs # << >> /\ ~stopped /\ Upcoming(runs[Len(runs)].at) # {} => armed.set /\ armed.since = runs[Len(runs)].at
  /\ stopped => ~armed.set
====
