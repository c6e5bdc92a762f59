------------------------------ MODULE Application ------------------------------
(***************************************************************************)
(* The life of an ApplicationContext (core/application-context.ts) and the *)
(* cron jobs of its container: components are started one after the other  *)
(* and stopped in reverse, by whoever calls stop, however often and        *)
(* whenever; the timers of the container (core/container.ts) and the       *)
(* external invocations of CronRuntime (core/cron/runtime.ts) run one job. *)
(***************************************************************************)
EXTENDS Naturals, Sequences

CONSTANTS NumComponents,  \* bootstraps, in their order 1..NumComponents
          Stoppers,       \* calls of stop
          Runs,           \* executions of the cron job's method
          Starter         \* the call of start

ASSUME ApplicationAssumption == NumComponents \in Nat /\ Starter \notin Stoppers

Components == 1..NumComponents
Cleaners == Stoppers \union {Starter}

VARIABLES
  context,     \* ContextState
  position,    \* performStart: 0 while beans are made, then the component
  component,   \* "new", "starting", "up", "stopping", "down" or "failed"
  startedList, \* startedComponents
  lpc,         \* where each call is
  holds,       \* the component whose stop it awaits, 0 without one
  broken,      \* cleaners that met an error
  stopPromise, \* the call whose promise stop hands out
  eager,       \* ghost: stops called while the context was starting
  timers,      \* whether the container's timers are armed
  concurrent,  \* allowConcurrent
  guard,       \* the job is in runningJobs
  run          \* each execution: how it was begun and whether it goes on

contextVars == <<context, position, component, startedList>>
stopVars == <<lpc, holds, broken, stopPromise, eager>>
cronVars == <<timers, concurrent, guard, run>>
appVars == <<contextVars, stopVars, cronVars>>

RunStates == {"none", "timed", "guarded", "overdue", "over"}

AppTypeOK ==
  /\ context \in {"new", "starting", "started", "failed", "stopping", "stopped"}
  /\ position \in 0..NumComponents
  /\ component \in [Components -> {"new", "starting", "up", "stopping", "down", "failed"}]
  /\ startedList \in Seq(Components)
  /\ lpc \in [Cleaners -> {"idle", "starting", "wait", "cleanup", "returned", "rejected"}]
  /\ holds \in [Cleaners -> Components \union {0}]
  /\ broken \subseteq Cleaners /\ stopPromise \in Stoppers \union {Starter}
  /\ eager \subseteq Stoppers
  /\ timers \in BOOLEAN /\ concurrent \in BOOLEAN /\ guard \in BOOLEAN
  /\ run \in [Runs -> RunStates]

AppInit ==
  /\ context = "new" /\ position = 0
  /\ component = [b \in Components |-> "new"] /\ startedList = <<>>
  /\ lpc = [c \in Cleaners |-> "idle"] /\ holds = [c \in Cleaners |-> 0]
  /\ broken = {} /\ stopPromise = Starter /\ eager = {}
  /\ timers = FALSE /\ concurrent \in BOOLEAN /\ guard = FALSE
  /\ run = [x \in Runs |-> "none"]

-----------------------------------------------------------------------------
(* start.                                                                  *)

Start == /\ context = "new" /\ lpc[Starter] = "idle"
         /\ context' = "starting"
         /\ lpc' = [lpc EXCEPT ![Starter] = "starting"]
         /\ UNCHANGED <<position, component, startedList, holds, broken, stopPromise, eager,
                        cronVars>>

\* performStart goes on with component b: it is resolved, which arms the timers
\* of its cron methods, and its start is called.  Bean factories come before.
StartNext(b) ==
  /\ lpc[Starter] = "starting" /\ b = position + 1
  /\ \A a \in Components : component[a] # "starting"
  /\ position' = b
  /\ component' = [component EXCEPT ![b] = "starting"]
  /\ timers' = TRUE
  /\ UNCHANGED <<context, startedList, stopVars, concurrent, guard, run>>

\* Bug: a component that is up is not remembered when it is the first.
ListedButFirst(b) == IF startedList = <<>> THEN startedList ELSE Append(startedList, b)

\* startedComponents.push, after the await.
ListedComponents(b) == Append(startedList, b)

StartEnds(b) ==
  /\ lpc[Starter] = "starting" /\ component[b] = "starting"
  /\ component' = [component EXCEPT ![b] = "up"]
  /\ startedList' = ListedComponents(b)
  /\ UNCHANGED <<context, position, stopVars, cronVars>>

Started ==
  /\ lpc[Starter] = "starting" /\ position = NumComponents
  /\ \A b \in Components : component[b] = "up"
  /\ context' = "started"
  /\ lpc' = [lpc EXCEPT ![Starter] = "returned"]
  /\ UNCHANGED <<position, component, startedList, holds, broken, stopPromise, eager, cronVars>>

\* preflight, a factory or a component's start throws: what was started is
\* cleaned up, the component that threw is not.
StartFails ==
  /\ lpc[Starter] = "starting"
  /\ component' = [b \in Components |-> IF component[b] = "starting" THEN "failed" ELSE component[b]]
  /\ lpc' = [lpc EXCEPT ![Starter] = "cleanup"]
  /\ UNCHANGED <<context, position, startedList, holds, broken, stopPromise, eager, cronVars>>

-----------------------------------------------------------------------------
(* stop and the cleanup.                                                   *)

\* stop is called; performStop runs unless the context is stopped or a stop is
\* already under way, and waits for a start that is under way.
Stop(c) ==
  /\ lpc[c] = "idle"
  /\ IF context = "stopped" \/ (context = "stopping" /\ lpc[stopPromise] # "rejected")
     THEN lpc' = [lpc EXCEPT ![c] = "returned"] /\ UNCHANGED <<context, stopPromise, eager>>
     ELSE IF context = "stopping"
     THEN lpc' = [lpc EXCEPT ![c] = "rejected"] /\ UNCHANGED <<context, stopPromise, eager>>
     ELSE /\ stopPromise' = c
          /\ eager' = IF context = "starting" THEN eager \union {c} ELSE eager
          /\ lpc' = [lpc EXCEPT ![c] = CASE context = "starting" -> "wait"
                                         [] context = "started" -> "cleanup"
                                         [] OTHER -> "returned"]
          /\ context' = CASE context = "new" -> "stopped"
                          [] context = "started" -> "stopping"
                          [] OTHER -> context
  /\ UNCHANGED <<position, component, startedList, holds, broken, cronVars>>

\* A stop that awaited the start goes on: it returns when the start failed, and
\* otherwise cleans up, also when another stop already does.
StopGoesOn(c) ==
  /\ lpc[c] = "wait" /\ lpc[Starter] \in {"returned", "rejected"}
  /\ IF context = "failed"
     THEN lpc' = [lpc EXCEPT ![c] = "returned"] /\ UNCHANGED context
     ELSE lpc' = [lpc EXCEPT ![c] = "cleanup"] /\ context' = "stopping"
  /\ UNCHANGED <<position, component, startedList, holds, broken, stopPromise, eager, cronVars>>

\* Bug: the components stop in the order they were started.
PoppedFirst == Head(startedList)

\* pop: the component started last.
Popped == startedList[Len(startedList)]

\* Bug: the component is looked at and left on the list.
AllOfThem == startedList

\* What is left when it has been popped.
TheRest == SubSeq(startedList, 1, Len(startedList) - 1)

\* cleanup takes the next component and calls its stop.
StopNext(c) ==
  /\ lpc[c] = "cleanup" /\ holds[c] = 0 /\ startedList # <<>>
  /\ holds' = [holds EXCEPT ![c] = Popped]
  /\ component' = [component EXCEPT ![Popped] = "stopping"]
  /\ startedList' = TheRest
  /\ UNCHANGED <<context, position, lpc, broken, stopPromise, eager, cronVars>>

\* A component's stop returns, or throws and is remembered.
StopEnds(c, throws) ==
  /\ lpc[c] = "cleanup" /\ holds[c] # 0
  /\ component' = [component EXCEPT ![holds[c]] = "down"]
  /\ holds' = [holds EXCEPT ![c] = 0]
  /\ broken' = IF throws THEN broken \union {c} ELSE broken
  /\ UNCHANGED <<context, position, startedList, lpc, stopPromise, eager, cronVars>>

\* Nothing is left: a failed start keeps its own error; a stop without errors
\* stops the timers, one with an error throws it and leaves the context
\* stopping and the timers armed.
CleanupEnds(c) ==
  /\ lpc[c] = "cleanup" /\ holds[c] = 0 /\ startedList = <<>>
  /\ CASE c = Starter ->
            /\ context' = "failed"
            /\ lpc' = [lpc EXCEPT ![c] = "rejected"]
            /\ UNCHANGED timers
       [] c # Starter /\ c \in broken ->
            /\ lpc' = [lpc EXCEPT ![c] = "rejected"]
            /\ UNCHANGED <<context, timers>>
       [] OTHER ->
            /\ context' = "stopped"
            /\ timers' = FALSE
            /\ lpc' = [lpc EXCEPT ![c] = "returned"]
  /\ UNCHANGED <<position, component, startedList, holds, broken, stopPromise, eager,
                 concurrent, guard, run>>

-----------------------------------------------------------------------------
(* The cron job.                                                           *)

\* A timer calls the method itself, past the guard of CronRuntime.
TimerFires(x) == /\ timers /\ run[x] = "none"
                 /\ run' = [run EXCEPT ![x] = "timed"]
                 /\ UNCHANGED <<contextVars, stopVars, timers, concurrent, guard>>

\* Bug: the guard is not looked at.
NeverRunning == TRUE

\* Whether CronRuntime lets another execution begin.
MayRun == concurrent \/ ~guard

\* invoke: skipped while the job runs, unless concurrent runs are allowed.
InvokeJob(x) == /\ run[x] = "none" /\ MayRun
             /\ run' = [run EXCEPT ![x] = "guarded"]
             /\ guard' = TRUE
             /\ UNCHANGED <<contextVars, stopVars, timers, concurrent>>

\* The timeout of an invocation wins the race: the guard goes, the method stays.
TimesOut(x) == /\ run[x] = "guarded"
               /\ run' = [run EXCEPT ![x] = "overdue"]
               /\ guard' = FALSE
               /\ UNCHANGED <<contextVars, stopVars, timers, concurrent>>

\* The method returns or throws.
RunEnds(x) == /\ run[x] \in {"timed", "guarded", "overdue"}
              /\ run' = [run EXCEPT ![x] = "over"]
              /\ guard' = (guard /\ run[x] # "guarded")
              /\ UNCHANGED <<contextVars, stopVars, timers, concurrent>>

AppStep ==
  \/ Started
  \/ \E b \in Components : StartNext(b) \/ StartEnds(b)
  \/ \E c \in Cleaners : StopNext(c) \/ CleanupEnds(c) \/ \E throws \in BOOLEAN : StopEnds(c, throws)
  \/ \E c \in Stoppers : StopGoesOn(c)

AppNext ==
  \/ AppStep \/ Start \/ StartFails
  \/ \E c \in Stoppers : Stop(c)
  \/ \E x \in Runs : TimerFires(x) \/ InvokeJob(x) \/ TimesOut(x) \/ RunEnds(x)

AppFairness == WF_appVars(AppStep)
AppSpec == AppInit /\ [][AppNext]_appVars /\ AppFairness

-----------------------------------------------------------------------------
\* A component is up only as long as everything started before it is: it starts
\* after they started and its stop is called before theirs, also when a start
\* fails half way or several calls of stop clean up at once.
NestedLifetimes ==
  \A a, b \in Components : a < b /\ component[b] = "up" => component[a] = "up"

\* When stop has made the context stopped, or start has failed, no component is
\* left running and no timer of a stopped context fires again; but a component
\* may still be in its stop when one call of stop came during the start and
\* another one as well, or later: both then clean up at once.
NothingLeftRunning ==
  /\ context = "stopped" => ~timers
  /\ context \in {"stopped", "failed"} =>
       \A b \in Components :
         \/ component[b] \in {"new", "down", "failed"}
         \/ component[b] = "stopping" /\ \E c \in eager, d \in Stoppers : c # d /\ lpc[d] # "idle"

\* Executions that CronRuntime began overlap only after one of them timed out.
GuardedRunsApart ==
  ~concurrent => \A x, y \in Runs : run[x] = "guarded" /\ run[y] = "guarded" => x = y

\* Without allowConcurrent no two executions overlap (cron/types.ts:12-16).
NoOverlap ==
  ~concurrent =>
    \A x, y \in Runs : {run[x], run[y]} \subseteq {"timed", "guarded", "overdue"} => x = y

\* Every call of stop ends, given that components' hooks and a start end.
StopsEnd == \A c \in Stoppers : lpc[c] \in {"wait", "cleanup"} ~> lpc[c] \in {"returned", "rejected"}
=============================================================================
