------------------------------ MODULE MCData ------------------------------
(***************************************************************************)
(* Components that work on data that is theirs: the container and its       *)
(* events, the graphs and the execution of GraphQL, repositories, blobs and *)
(* the databases of hosts, service bindings, HTTP and RPC endpoints, the    *)
(* auth routes and the policies.  As in MCHandlers, focus chooses the one   *)
(* that moves; the others keep one first state.                             *)
(*                                                                          *)
(* Each conjunct of Init that begins with "focus \in" gives a component     *)
(* that does not move its one first state before its own Init lists them    *)
(* all; where the component moves it may leave out first states that differ *)
(* from others in names alone, or in options that do not meet.              *)
(***************************************************************************)
EXTENDS Container, ContainerEvents, TypeGraph, GraphqlExecution, Repositories, BlobStores,
        HostDatabases, ServiceBindings, HttpRouting, AuthEndpoints, Policies, RpcEndpoints

CONSTANTS LeadType, LeadContext, LeadSwapper, LeadCall   \* one of each, for names that can be exchanged

VARIABLE focus

MethodSeq == <<"m1", "m2">>
\* two years of which the first has a day more, as short as they can be
LeapYears ==
  LET Day(d, m, w) == [day |-> d, month |-> m, weekday |-> w] IN
  <<Day(1, 1, 0), Day(1, 2, 1), Day(2, 2, 2), Day(1, 1, 0), Day(1, 2, 1)>>
\* expressions of minutes and hours, and of days
CronExpressions ==
  LET any == {[form |-> "any"]}
      of(minutes, hours, days, months, weekdays) ==
        [minute : minutes, hour : hours, day : days, month : months, weekday : weekdays]
      late == {[form |-> "range", from |-> 1, to |-> 1]}
  IN of(Forms(0, 1), Forms(0, 1), any, any, any) \union of(late, any, Forms(1, 2), Forms(1, 2), any)
     \union of(late, any, any, any, Forms(0, 2))

\* schemas that refer to each other, and to one that is not given
Ring ==
  LET missing == CHOOSE s \in Schemas : TRUE IN
  [x \in Schemas \ {missing} |-> Schemas \ {x}]

Foci == {"container", "events", "graph", "graphql", "repositories", "blobs", "body", "hosts", "bindings",
         "serving", "document", "auth", "registry", "fields", "endpoints"}

(***************************************************************************)
(* First states.                                                            *)
(***************************************************************************)
ThreeEdges ==
  Cardinality({e \in Classes \X Classes : e[2] \in params[e[1]]})
    + Cardinality({e \in Classes \X Classes : e[2] \in props[e[1]]}) > 2
FirstOfContainer ==
  focus = "container" \/ (params = [c \in Classes |-> {}] /\ props = [c \in Classes |-> {}] /\ oddity = <<"none", 1>>)

\* the first type has a context of its own, the others and the interface one or none
FirstOfGraph ==
  IF focus = "graph"
  THEN /\ interfaceHome \in (Contexts \ {LeadContext}) \union {NoContext}
       /\ home = [t \in Types |-> IF t = LeadType THEN LeadContext ELSE interfaceHome]
       /\ boundary \in {{}, {LeadType}, Types} /\ (interfaceHome = NoContext => boundary # Types)
  ELSE home = [t \in Types |-> NoContext] /\ interfaceHome = NoContext /\ boundary = {} /\ declarations = {}

FirstOfGraphql ==
  \/ focus = "graphql"
  \/ part = "loader" /\ total = 0 /\ walk = [forward |-> TRUE, size |-> 1, started |-> FALSE]
       /\ requires = {} /\ principal = {}

OneQuery == CHOOSE q \in Asked : TRUE
FirstOfRepositories ==
  IF focus = "repositories"
  THEN /\ store \in {"memory", "sql"} /\ meant \in Asked \union Deletions
       /\ store = "sql" => meant.orderBy = << >>
       /\ adapterOf \in [Swappers -> {1, 2}] /\ adapterOf[LeadSwapper] = 1
  ELSE store = "memory" /\ meant = OneQuery /\ adapterOf = [s \in Swappers |-> 1]

FirstOfBlobs == focus = "blobs" \/ (adapter = (IF focus = "body" THEN "s3" ELSE "memory") /\ puts = [w \in Puts |-> PutFree(1, 0, 0)])

FirstOfHosts == focus = "hosts" \/ (matter = "query" /\ host = SomeResult)

\* of two files of migrations the second is the plain one
TwoFiles == matter = "files" => 
  /\ ~directory.files[2].downFile /\ directory.files[2].marks \in {"none", "down"}
  /\ directory.manifest = {} \/ directory.files[1].marks = "up and down"

\* the guards of a route, and its place among the others, meet the files a server
\* serves in the order of the table only: options of the one go with one choice of the other
FirstOfHttp ==
  IF focus = "serving"
  THEN /\ options \in Options
       /\ options.registered = (options.auth \/ options.mounts)
       /\ IF options.mounts THEN ~options.use /\ ~options.multipart /\ options.method = "GET" /\ options.catch
          ELSE ~options.fallthrough /\ options.live = "no"
       /\ options.live = "yes" \/ options.fallthrough => ~options.middleware /\ ~options.auth
  ELSE options = [middleware |-> FALSE, mounts |-> FALSE, auth |-> FALSE, registered |-> FALSE, use |-> FALSE,
                  multipart |-> FALSE, method |-> "GET", fallthrough |-> FALSE, live |-> "no", catch |-> TRUE]

FirstOfAuth ==
  IF focus = "auth"
  THEN /\ setup \in Setups
       /\ setup.secret = setup.csrf /\ setup.csrf = (setup.policy = "none")
       /\ setup.jwt = (setup.policy = "route")
  ELSE setup = [csrf |-> FALSE, secret |-> FALSE, jwt |-> FALSE, policy |-> "none"]

FirstOfPolicies ==
  /\ focus = "registry" \/ nameOf = [c \in PolicyClasses |-> 1]
  /\ IF focus = "fields"
     THEN /\ marks \in [1..2 -> Marks]
          /\ \/ marks[2] = NoMark
             \/ user = [signedIn |-> TRUE, strong |-> TRUE, policy |-> "none", fallback |-> "any"]
     ELSE /\ marks = [i \in 1..2 |-> NoMark]
          /\ user = [signedIn |-> FALSE, strong |-> FALSE, policy |-> "none", fallback |-> "none"]

Init ==
  /\ focus \in Foci
  /\ FirstOfContainer /\ ContainerInit /\ (ThreeEdges => oddity[2] = 1)
  /\ (focus = "events" \/ facet = "listeners") /\ ContainerEventsInit
  /\ FirstOfGraph /\ TypeGraphInit
  /\ FirstOfGraphql /\ GraphqlInit
  /\ FirstOfRepositories /\ RepoInit
  /\ FirstOfBlobs /\ BlobInit
  /\ FirstOfHosts /\ HostInit /\ TwoFiles
  /\ BindingsInit
  /\ FirstOfHttp /\ HttpInit
  /\ FirstOfAuth /\ AuthInit
  /\ FirstOfPolicies /\ PoliciesInit
  /\ (focus = "endpoints" \/ endpoint = "batch") /\ RpcEndpointsInit

\* what a deployment changes meets no request where no directory is mounted
Serve == ServingNext /\ (~options.mounts => <<disk, diskSwaps, pack>>' = <<disk, diskSwaps, pack>>)

\* where policies are asked one call is enough; others sign in and out by password
SignInOrAsk ==
  AuthNext /\ \A c \in Calls \ {LeadCall} :
                IF setup.csrf THEN call'[c].kind \in {Idle.kind, "login", "logout"} ELSE issued' <= 1 /\ call'[c] = Idle

Next ==
  /\ UNCHANGED focus
  /\ IF focus = "container" THEN ContainerNext ELSE UNCHANGED containerVars
  /\ IF focus = "events" THEN ContainerEventsNext ELSE UNCHANGED eventVars
  /\ IF focus = "graph" THEN TypeGraphNext ELSE UNCHANGED graphVars
  /\ IF focus = "graphql" THEN GraphqlNext ELSE UNCHANGED graphqlVars
  /\ IF focus = "repositories" THEN RepoNext ELSE UNCHANGED repoVars
  /\ IF focus = "blobs" THEN BlobNext /\ <<body, reads>>' = <<body, reads>>
     ELSE IF focus = "body" THEN BlobNext /\ <<objects, uploads, changes, listing>>' = <<objects, uploads, changes, listing>>
     ELSE UNCHANGED blobVars
  /\ IF focus = "hosts" THEN HostNext ELSE UNCHANGED hostVars
  /\ IF focus = "bindings" THEN BindingsNext ELSE UNCHANGED bindingVars
  /\ IF focus = "serving" THEN Serve ELSE UNCHANGED servingVars
  /\ IF focus = "document" THEN DocumentNext ELSE UNCHANGED documentVars
  /\ IF focus = "auth" THEN SignInOrAsk ELSE UNCHANGED authVars
  /\ IF focus = "registry" THEN RegistryNext ELSE UNCHANGED registryVars
  /\ IF focus = "fields" THEN FieldNext ELSE UNCHANGED fieldVars
  /\ IF focus = "endpoints" THEN RpcEndpointsNext ELSE UNCHANGED endpointVars

vars == <<focus, containerVars, eventVars, graphVars, graphqlVars, repoVars, blobVars, hostVars,
          bindingVars, httpVars, authVars, policyVars, endpointVars>>

Spec == Init /\ [][Next]_vars

(***************************************************************************)
(* Properties.                                                              *)
(***************************************************************************)
\* The container builds what can be built and each singleton once, hands an event to a
\* listener once, publishes a call as declared, and runs a cron method in its minutes.
Wiring ==
  /\ ThrowsForCause /\ BuiltOnce
  /\ CalledOnce /\ CallsPublished /\ RunsOnSchedule

\* What is declared is what is served: contexts, slices and their schemas; a query within its
\* limits, entities of the class that was asked for, every load answered once, pages and
\* streams without a gap; and policies, whichever way they are written down and asked.
Faithful ==
  /\ ContextsAreReal /\ NamesWhatItHas /\ SlicesAddUp /\ SlicesBuild
  /\ LimitsHold /\ EntitiesKeepTheirType /\ LoadsAnswered /\ PagesTile /\ StreamFaithful
  /\ ReadsBack /\ DenyOutweighs /\ MemberFound /\ NearestRuleApplies /\ EventsChecked

\* What is stored is what was asked for, whole, and accounts for what callers were told:
\* rows, removals and swaps, blobs and their uploads, values, failures and migrations.
Storage ==
  /\ SpelledAsMeant /\ RemovalsAddUp /\ SwapsAddUp /\ SwapsServed
  /\ WholeObjects /\ UploadsAccounted /\ ListedOnce /\ ReadsServed
  /\ ValuesSurvive /\ FloatsSurvive /\ RowsWhole /\ DuplicatesTold /\ OpenedOnce /\ MigrationsFound

\* Requests pass their guards first and get files of the root through descriptors that are
\* closed; sessions and their cookies stay paired and policies are asked; batches, messages,
\* servers, gRPC calls and pushed items are whole.
Requesting ==
  /\ GuardsGoFirst /\ ServedFromTheRoot /\ DescriptorsOwned /\ DocumentComplete
  /\ NeverMadeUpFor /\ LoginReplaces /\ CookiesPaired /\ PolicyAsked
  /\ BatchGoesOutWhole /\ MessagesSurvive /\ ServersReached /\ ExchangeWhole /\ NothingLost

\* Steps: a property is left undefined for a cause, an emission returns when all who listened
\* were called, and a call over a binding comes to what its report says, for its caller.
StepsTell == UndefinedForCause /\ EmissionsComplete /\ ReportTells /\ SpeaksForItsCaller
=============================================================================
