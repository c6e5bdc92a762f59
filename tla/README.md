# TLA+ specifications of di-framework

di-framework is a set of TypeScript packages for the Bun runtime around a dependency
injection container: persistent actors, job queues, authentication, repositories with
migrations, an event bridge, sockets, RPC, GraphQL, HTTP, configuration and the build tools
for them. This directory holds its TLA+ specifications, the configurations that
model-check them with TLC, and proofs checked by TLAPS. Paths below are relative to
`src/packages/` unless they say otherwise.

Contents: [inventory](#the-system) · [plan](#plan) · [modules and code](#modules-and-the-code-they-model)
· [runs](#runs-and-bounds) · [fairness](#fairness) · [proofs](#proofs) ·
[what the code does otherwise](#what-the-code-does-otherwise) ·
[what is not modelled](#what-is-not-modelled-or-only-model-checked) · [how to run](#how-to-run)

## The system

### Actors (`di-framework-actors`)

An actor is an object with a durable state, addressed by type and key. Eight parts work
together on one call:

    RemoteActorClient --request--> transport --> ActorRpcDispatcher      other hosts
         ^  retries with one id                      | invoke                |
         +-----------response-------------------<----+                      | acquireOwnership,
                                                      v                      v commit
    reload, deactivate --> ActorRuntime --> ActorMailbox (one per actor)   the same
                               | migrations, activation, method            ownership row
                               v
                           ActorStorage transaction: read state, write, fencing check, record
                               v
                           connection cache (one SQLite handle per actor)
                               v
                           lock file of the actor's database, one per process

| part | state | operations | what makes it hard | what makes it correct |
|---|---|---|---|---|
| runtime and mailbox (`runtime/runtime.ts`, `runtime/mailbox.ts`) | mailboxes, their queues and flags, instances, in-flight requests, migration cache, registrations | `invoke`, `deactivate`, `reload`, `reset`, `clear` | a call awaits some ten times; method timeouts leave the method running; reloads and deactivations take mailboxes and instances from under it | calls of an actor are serialized and act one after the other on committed state; a request id takes effect once; every call is answered; reloads meet no work in progress |
| ownership and fencing (`storage/sqlite.ts`, `storage/memory.ts`, `runtime.ts`) | ownership row (owner, generation, lease), token of each transaction | `acquireOwnership`, `releaseOwnership`, `commit` | leases expire under a running call, takeovers, forced takeovers, crashes | no commit overwrites what its call has not read; a dead owner is succeeded |
| connection cache (`storage/sqlite.ts`) | connections, handles, locks held, transaction counts | `getConnection`, eviction, idle sweep, `closeActor`, `close` | look-ups before awaits, closes that race opens | a handle is open only under its lock; no lock without a handle |
| lock file (`storage/lock.ts`) | files, the pid in each | `acquireActorLock`, release | processes die between any two file operations; recovery races recovery | one live holder; a dead owner's lock is recovered |
| storage of WebAssembly guests (`storage/wasm-sqlite.ts`) | one shared handle per actor, staged changes, ownership row | `begin`, reads and writes, `commit`, `acquireOwnership`, `closeActor`, `close` | transactions that overlap on one handle, closes under them | commits write all of one transaction on the generation it opened under; a transaction reads what it changed |
| distributed client, dispatcher, transport (`distributed/*.ts`) | attempts, pending requests | `invokeRemote`, `dispatch`, `send` | lost and late messages, retries that reach another host | a request executes once and its client is told what was committed |
| actor migrations (`migrations/runner.ts`) | applied versions | `migrate` | failure in the middle | each version once, in order, in a transaction of its own |
| decorators, references, paths, memory storage, development server | metadata; watched files | calls `reload` | | |

### Parts with state over time

| part | state | operations | what makes it hard | what makes it correct |
|---|---|---|---|---|
| queues: SQLite backend, producer, dispatcher (`di-framework-queues`) | rows: status, attempts, availability, lease | `enqueue`, `dequeue`, `complete`, `fail`, `recoverUnacknowledged`, `retryJob` | several workers die anywhere; leases run out under handlers | a retry limit that holds, no two deliveries of one claim, completed means handled, unique live keys, every job settles |
| queues: worker over memory and wasm backends (`worker.ts`, `backend/*.ts`) | timers, jobs in flight, claims | `start`, `stop`, poll, recover | polls that overlap, a stop that does not wait for ever | the loop lives while started, stays within its limit, is quiet once stopped |
| repository migrations (`di-framework-repo/src/migrations`) | lock row, history, schema | `up`, single steps, dry run, `status` | a second runner takes a lock over after `lockTimeoutMs` | one runner unless a lease ran out; recorded means applied; in order |
| transactions of a SQLite handle (`sqlite/sql-database.ts`, `sql-lock.ts`) | promise-chain mutex, open transaction, leases | `query`, `execute`, `transaction` | work created inside a transaction that outlives it | a statement runs in the transaction it was issued in; every task is served |
| refresh tokens, sessions, accounts (`di-framework-auth`) | rows of the stores, cookies, throttle counts | `issue`, `rotate`, `revoke`; `create`, `resolve`, `regenerate`; `register`, `login`, `changePassword` | stores that await between read and write; answers lost; calls abandoned | one live token per family; an absolute ceiling; one account per identifier; attempts counted |
| OAuth, remote keys, passkeys (`di-framework-auth`) | state entries, codes, challenges, cached documents | authorize, callback, token; `getKey`, `refresh`; ceremonies | a response delivered twice, late or to another tab; outages | what answers a challenge is taken once and for what was asked; no key past its stale time |
| auth endpoints, chain, CSRF (`di-framework-auth`) | cookie jar, sessions, pending authorizations | sign in and out, guard, defer | answers in any order | a session and its CSRF cookie stay paired; policies are asked |
| event bridge and broker adapters (`di-framework-events`) | subscriptions, handles, started flags | `$startBridge`, `start`, `stop`, inbound handling | starts and stops over several awaits | every subscription is accounted for and torn down; no echo |
| application context and cron (`di-framework-core`) | phase, started components, timers, guards | `start`, `stop`, invocation with timeout | stop during start, twice, by anybody | components nest in one another's lifetimes; nothing runs after a stop |
| container events, publishers, cron timers (`di-framework-core`) | listener sets, timers | `on`, `off`, `emit`, `clear` | listeners that subscribe, leave and emit from inside | each listener is called once; a cron method runs in its minutes |
| service bindings (`di-framework-core/service-bindings`) | services, grants, mocks, configuration | export, grant, mock, invoke, report | reconfiguration under cached clients | what a report says of a binding is what a call over it meets |
| secure socket, hub (`di-framework-socket`) | session phase, counters, attachment | handshake, sealed frames, hibernate, restore | handlers overlap; datagrams lost, moved, repeated | nothing fails that nobody disturbed; handshakes end |
| GraphQL over a socket (`di-framework-socket`) | map of operations, streams | subscribe, next, complete, close | complete before the stream exists | a cancelled stream is returned; silence after complete |
| RPC calls and endpoints (`di-framework-rpc`) | pending calls and streams, batches, dispatchers | call, stream, `$batch`, `$startRpc`, `$stopRpc` | frames that overtake, timeouts and aborts at each await | items in order and whole; a batch leaves whole; every call ends |
| HTTP (`di-framework-http`) | route table, directory, descriptors | request, deploy, generate | files that change between two system calls | guards go first; a response is a file of the root; descriptors are closed |

### Parts that transform what they are given

| part | what makes it correct |
|---|---|
| container: recursive resolution (`core/container.ts`) | it throws only for a cause; a singleton is built once |
| GraphQL type graph (`graphql/src/type-graph.ts`, `decorators.ts`) | slices of contexts add up to the whole graph and build; a name mentioned is a name defined |
| GraphQL execution (`loader.ts`, `resolvers.ts`, `connection.ts`, `schema.ts`) | pages tile; each load is answered for its key; limits hold; entities keep their type |
| policies (`di-framework-authz`, `auth/src/graphql`) | text reads back as the policy; deny outweighs; the nearest rule applies |
| repositories, query derivation (`repo/src/query-derivation.ts`, adapters) | a method name means what it spells; removals and swaps add up beside writers |
| blob stores (`repo/src/blob`) | objects whole, uploads accounted for, each key listed once |
| databases of the host (`repo/src/postgres.ts`, `sqlite/*.ts`, `migrations/discovery.ts`) | values survive the way there and back, failures are told |

Configuration, cryptography, core decorators, command line tools, code generation, the
compiler plugin and lint rules have no protocol state; `PROJECT.json` lists them with the
reason. The 40 hazards that the properties are for stand there too, each at its line.

## Plan

Done, in this order:

1. The actor core: ownership and fencing, the lock file, the connection cache, the runtime
   with its abstract specification, delivery composed with ownership; the job queue; the
   proofs below.
2. Services that keep promises over time: migrations, transactions, application, sockets,
   RPC calls, with liveness.
3. Handlers that interleave over shared state: the auth package, the event bridge, the
   queue worker, the wasm storage, GraphQL sockets.
4. Components that work on data: container, GraphQL, policies, repositories, blobs, host
   databases, bindings, HTTP, auth and RPC endpoints, against reference definitions.

5. Proofs: every safety property of the actors, the queue, the services, the handlers and
   the data components, the refinement of SerialActor among them.

Left, most important first:

1. An abstract specification of the refresh-token family and one of the migration history,
   implemented by the modules there are.
2. `reset`, `clear` and `resetStorage` of the actor runtime beside running calls; rollbacks
   of migrations.

## Modules and the code they model

Each component has a module, an `MC...` module that gives the constants their instance
where a `.cfg` cannot, and the configurations. Proofs are in `..._proofs` modules, or with the
model where they are few (ActorOwnership, JobQueue). Some MC
modules compose several components that touch none of one another's state: `focus` chooses
the one that moves, the others keep one first state, so that the reachable states are the
sum and not the product of theirs.

### ActorOwnership — `storage/sqlite.ts` 221-294, 613-780; `runtime/runtime.ts` 312-331, 560-581

One actor, its ownership row `own` and the committed state `version` (the number of
transactions applied). A host that runs a call resolves its token (`AcquireToken` with
automatic acquisition, `AdoptToken` from the row without), opens the transaction and reads
the state (`OpenTransaction`), and commits: `StaleOwner` is the comparison inside
`commit`. `Acquire` is `acquireActorOwnership` called by the application, forced or not;
`Tick` lets the lease run down; hosts crash and restart. A host runs one call of the actor
at a time, which is what ActorRuntime shows of the mailbox. Without automatic acquisition
and without a row a commit is not fenced, by design: such a host is looked at only with a
row from the start (`Init`). `ReleaseOwnership` is in `SpecRelease` alone, see below.

### ActorFileLock — `storage/lock.ts`

Path 0 is the lock, path d + 1 the recovery guard of path d. `Create` (O_EXCL) and `Write`
(the pid) are two steps; a process that finds a dead owner goes one level deeper for the
guard, reads again under it (`Reread`), unlinks, creates anew and leaves the guard. Crashes
happen between any two operations. An empty file is evidence of nothing and is never
reclaimed, as in the code. Reuse of a pid by the operating system is not modelled, and the
reads and the unlink of `release` are one step.

### ActorConnections — `storage/sqlite.ts` 304-600, 613-620

A connection is named after the use that opened it. `Hit`, `Miss`, `Evict`/`Evicted`,
`Open`, `OpeningFails`, `FailedCloses` are the pieces of `getConnection` between awaits, a failed
open releasing its lock before it closes its handle; `BeginTransaction`,
`UseCommits`, `UseRollsBack` move the transaction count by actor id, as the code does,
whichever connection is cached by then; `Sweep`/`Swept` and `CloseActor`/`ActorClosed` close
beside them. Every await is a point where anything else may run, although some of the
code's awaits resume in the same turn: the model allows a little more than the code. Which
idle connection is evicted is left open, and any idle connection may be old enough for a
sweep.

### ActorRuntime — `runtime/runtime.ts` 95-129, 300-310, 364-847; `runtime/mailbox.ts`

An action is what the event loop runs between two awaits. A call goes

    idle -> authorizing -> (lookup) -> queued -> preflight -> migrating -> opening
         -> activating -> method -> ok | failed          or: authorizing -> joined

and a mailbox and an instance are named after the call that created them, so that a call
can be seen to hold one that is no longer current. A method is "read the state, write its
successor, return it", so that a lost or repeated update shows in a reply. `TimeOut` fails
the caller and puts the call in `abandoned`: its method runs on (`AbandonedEnds`).
`DrainNext`, `Drained`, `DrainTimesOut`, `ReleaseNext`, `ReleaseInstance`, `RemoveMailbox`
are the stretches of `reload`; `StartDeactivate`, `FinishDeactivate` those of `deactivate`.
The deactivation hook is awaited here even for an actor without an instance, which allows a
little more interleaving than the code. The storage is the file-backed one: closing an
actor invalidates open transactions (`live`).

**SerialActor** is the promise to callers: each answered call acted alone on the committed
state, a request id took effect at most once and its repeats got its response, what failed
left nothing. `KeepsSerialPromise` states that ActorRuntime implements it, with the outcome
of a call mapped from its `pc`.

### ActorDelivery — `distributed/client.ts`, `dispatcher.ts`, `transport.ts` and `runtime.ts` 508-689

Composed with ActorOwnership (`O == INSTANCE ActorOwnership` over the same variables). A
client sends a request under one id to a host the transport chooses, again after each
transport failure up to `MaxRetries`, and gives up at its deadline; messages are delivered
late or never, responses are matched by request id across attempts. A host looks the
request up before the mailbox and again in it (`LookupHit`, `LookupMiss`), only then
resolves its token, opens and commits, with the record of the answer in the same
transaction. Refusals by deadline, policy or backpressure are one action, and any waiting
delivery of a request may share the answer of the one that runs (the in-flight map).
`SpecWithoutGap` adds one assumption, explained below.

### JobQueue — `di-framework-queues/src`: `backend/sqlite.ts`, `worker.ts`, `dispatcher.ts`

Rows as functions of the job; `runs` the deliveries whose acknowledgement is to come.
`CheckKey` and `Insert` are the two statements of `enqueue`; `Dequeue`, `Complete`, `Fail`,
`RecoverStuck`, `RetryJob` one statement or transaction each, with the code's lack of
checks: `complete` and `fail` look at neither the status nor the lease. `CompleteThrows` is
the catch that turns a success whose acknowledgement failed into a failure. Time is the two
flags `due` and `expired`. A `fail` that throws ends the process under Node's default, which
is `Crash`; it is `FailThrows` where the rejection is handled.

### Services over time (MCServices)

- **MigrationRunner** — `repo/src/migrations/runner.ts`, `types.ts`. Runners with the
  migrations of their own deployment. `AcquireLock` is the one transaction of SQLite;
  where isolation is weaker (`immediate` FALSE) `ReadLock` and `WriteLock` are two steps.
  `LockExpires` makes a row old enough to be taken; `Body` is validation, plan, each
  migration with its transaction, and the release.
- **SqlTransactions** — `repo/src/sqlite/sql-database.ts`, `sql-lock.ts`. Tasks on one
  handle, on the view of a transaction or created in its callback. `Joins` and
  `RunDirectly` decide who skips the mutex; the lease of the view (`EndView`) and that of
  the lock (`Release`) end in two steps, and `SlipIn` is what runs between them.
- **Application** — `core/application-context.ts`, the timers of `core/container.ts`,
  `core/cron/runtime.ts`. `StartNext`, `StopNext` go over the components one await at a
  time; `TimerFires` and `InvokeJob` are the two ways into a cron method, only the second
  through the guard, which `TimesOut` lifts while the method runs on.
- **SecureSocket** — `socket/src/security/*.ts`, `adapters/workers/hibernatable.ts`,
  `adapters/node-udp.ts`. `OnFrame` reads the session when a frame arrives, `HandlerStep`
  changes it after the cryptography; `Send` takes the counter and `SealedOut` posts the frame
  once it is encrypted, of several in any order; `Sleep` and `Wake` are hibernation with the snapshot
  of `Persisted`; `Fault` loses, moves and repeats datagrams.
- **RpcCalls** — `rpc/src/client.ts`, `dispatcher.ts`, `adapters/*.ts`. From `Invoke`
  through `Feed`, `Chained`, `StreamFrameIn`, `Answer` to `Settle`, with `GiveUp` for
  timeouts and aborts; the three transports differ in what `Put` does with a payload.

### Handlers over shared state (MCHandlers)

- **RefreshTokens**, **Sessions**, **Accounts** — `auth/src/tokens/refresh.ts`,
  `session/manager.ts`, `password.ts`, each over `providers/memory.ts`, whose operations
  are one step, and `providers/repo.ts`, where every look, swap and save is one (`RepoLookup`,
  `RepoSwap`, `RepoSave`; `TouchFind`, `TouchSave`; `CreateUser`, `SaveUser`). Callers may be
  gone at any await (`RequestDies`, `CallDies`).
- **OAuthFlow** — `auth/src/oauth/client.ts`, `oauth/server/server.ts`. Client, state store
  and server in one model; a flow is its own state, nonce, verifier and code.
- **RemoteKeys** — `auth/src/tokens/jwks.ts`, `oauth/discovery.ts`. `Load` shares one fetch;
  `Select` is the choice by key id with its bounded refresh; the provider rotates and fails.
- **Passkeys** — `auth/src/webauthn/service.ts`. A ceremony's response arrives any number of
  times; `VerifyResponse` up to `SaveCredential` or `UpdateSignCount` are separate steps. Each
  registration is of a credential of its own.
- **EventBridge** — `events/src/bridge.ts`, `decorators.ts`, `adapters/*.ts`. A start attaches
  route by route (`Subscribe`), a stop detaches the list it took (`Stopping`, `Detach`); every
  await of theirs may be rejected (`DetachFails`, `TransportStopFails`).
- **QueueWorker** — `queues/src/worker.ts` over `backend/memory.ts` and `wasm-sqlite.ts`. Timers
  (`PollTimerFires`, `RecoveryTick`), polls in slots, the two statements of the wasm `fail`. A claim
  and the start of its job are two steps, with an await between them over either backend.
- **WasmActorStorage** — `actors/src/storage/wasm-sqlite.ts`. `CommitBegins`/`CommitEnds` around
  the writes, each with its look at the generation (`Stale`); closes and opens beside them. The
  statements between BEGIN and COMMIT are one step: the transaction keeps other writers out, so
  that only the closing of the handle could come between, as it can before. A record of another
  owner that is not of a later generation is `CommitFails`.
- **GraphqlWs** — `socket/src/integrations/graphql-transport-ws.ts`. `SubscribeOp`,
  `Executed`/`StreamReady` and `Listed` are before, during and after the awaits of
  `startOperation`.

### Data (MCData)

- **Container** — `core/container.ts`. The recursion of `resolve` as a stack of frames, each
  factory, constructor parameter and property of which may throw; `BuiltOnce` and
  `ThrowsForCause` speak of graphs of up to three classes with up to three edges.
- **ContainerEvents** — the same file, `decorators/Publisher.ts`, `Telemetry.ts`,
  `cron/decorators.ts`. Emission with listeners that act from inside; calls in every form a
  method can end in; cron expressions over an `Almanac` of local times, whose clock is put back
  once, and the timer that the next minute is given to.
- **TypeGraph** — `graphql/src/type-graph.ts`, `decorators.ts`, `metadata.ts`, `registry.ts`. A
  program is a set of declarations; `Graph` computes what the code assembles for the whole
  or a slice, compared with what the declarations say.
- **GraphqlExecution** — `loader.ts`, `resolvers.ts`, `connection.ts`, `schema.ts`,
  `authorization.ts`. Five parts, `part` says which: loader, pages, subscription, query,
  entities.
- **Policies** — `authz/src/*.ts`, `auth/src/graphql/*.ts`. Declarations by decorators, the
  document compiled from them, its text and the reading of it, evaluation; the guards of
  fields, subscriptions and routes.
- **Repositories** — `repo/src/query-derivation.ts`, `in-memory.ts`, `adapters/*.ts`. A query is
  spelled as words, parsed as the code does and compared with what was meant.
- **BlobStores** — `repo/src/blob`. Puts whole or in parts against an S3 that fails anywhere;
  listings beside changes; a body read twice.
- **HostDatabases** — `repo/src/postgres.ts`, `sqlite/*.ts`, `migrations/discovery.ts`. Values,
  results, failures, opening, files; `matter` says which.
- **ServiceBindings** — `core/service-bindings/*.ts`. A report and the calls that come after.
- **HttpRouting** — `http/src/*.ts`. The table built from options, a request along it, files that
  deployments change between the system calls (`Open`, `Recheck`, `Restat` are one each), the
  OpenAPI document.
- **AuthEndpoints** — `auth/src/register.ts`, `chain.ts`, `csrf.ts`, `strategies/*`, `http/*`. One
  browser with calls under way whose answers arrive in any order.
- **RpcEndpoints** — `rpc/src/client.ts` (`$batch`), `schema/messages.ts`, `decorators.ts`,
  `server.ts`, `adapters/grpc.ts`, `adapters/memory.ts`. Five machines, `endpoint` says which.

## Runs and bounds

| run | module | shows | bounds | distinct states |
|---|---|---|---|---|
| `actor_storage` | MCActorStorage | fencing admits no lost update, tokens mean ownership, a dead owner is succeeded; one live holder of a lock, live locks kept, dead ones recovered | 3 hosts, all or one acquiring by themselves, lease of 1 tick, 3 generations, 2 commits; 4 processes, guards nested 3 deep | 288 930 |
| `ownership_release` | ActorOwnership | `NoLostUpdate` fails with a release | 2 hosts | (violation) |
| `actor_reload` | MCActorRuntime, SpecReload | serialization, timeouts, release, admission and SerialActor | 4 calls of two actors, 2 of them one request, queue of 2, 1 reload of both that drains | 1.81 million |
| `actor_progress` | MCActorRuntime, SpecFair | calls are answered, reloads end | 3 calls, queue of 1, 1 deactivation, 1 reload that fails the queue | 342 000 |
| `delivery` | ActorDelivery, SpecWithoutGap | requests execute once, clients are told what was committed | 2 requests of 2 attempts, 2 hosts, 3 generations, 2 commits | 2.56 million |
| `delivery_gap` | ActorDelivery, Spec | `ExactlyOnce` fails without the assumption | 1 request | (violation) |
| `queue` | MCJobQueue, SpecFair | retry limit, unique claims, completed means handled, jobs settle | 2 jobs of two priorities, 2 workers of concurrency 1, 2 retries, 1 requeue | 130 806 |
| `queue_outlasting` | MCJobQueue, SpecOneProducer | one delivery at a time, completed for good, unique keys | 3 jobs, 2 of them with one key, 2 workers of concurrency 2, 2 retries | 50 348 |
| `services` | MCServices | safety of the five services over time, and that what they begin ends | 2 runners of 2 migrations; 6 tasks of which 3 are created in a transaction; 2 components, 2 callers of stop, 2 runs of a job; 2 frames, 1 fault, 1 sleep; 2 calls, streams of 2 | 220 592 |
| `handlers` | MCHandlers | safety of eleven components whose handlers interleave | see below | 3.42 million |
| `data` | MCData | twelve components against what was declared, asked or stored | see below | 1.26 million |
| `subgraphs` | TypeGraph | `ContributionsKept` fails for a stub that nothing mentions | 2 types, 2 contexts, 1 declaration | (violation) |

A property of the last three passing runs joins what the components state under names of
their own, as `Credentials == OneLivePerFamily /\ LogoutSticks /\ ...`; the module of each
component says what its conjunct means.

Why the bounds are enough to be interesting:

- *Ownership.* A lost update takes one call that reads, one takeover and one commit in
  between; three generations give two takeovers, and a third host makes the ones with a
  takeover of a takeover. `MaxVersion` stops the commits and `MaxGeneration` the
  acquisitions, which is why `Failover` asks for a grant only where the bound leaves one.
- *Lock.* Each death leaves at most one file to recover, so four processes cannot need more
  than three guards.
- *Connections.* Room for one connection makes every miss of a second actor an eviction;
  3 uses of 2 actors, 1 `closeActor`, 1 sweep, 1 other process.
- *Runtime.* Four calls are one that runs, one that waits, one that is rejected or joins and
  one that comes after; a mailbox of two, or one, is full when a call asks. The properties
  about reloads use one reload, of two actors, so that one is released while the other can
  be called again; two reloads break them, see below.
- *Delivery.* Two attempts at two hosts are enough for a request to be at both. `MaxVersion`
  is 2, so the same request could commit twice, or both could once.
- *Queue.* Two retries make the first, an intermediate and the last delivery differ, and one
  requeue lets a job exceed the plain limit by one.
- *Migrations.* Two runners, the second with the first's migrations or fewer, are the least
  for a lock to be taken over from one that is alive. Dry runs and single steps are left to
  the first (`Migrate`): the second need not repeat them.
- *Transactions.* Two transactions, a plain statement, and three tasks created in the
  callback of the first: an awaited transaction, a statement on the view, a transaction that
  outlives it.
- *Sockets.* One fault of one kind; a second frame only from the consumer to the hub
  (`Talk`), whose provider may sleep between the two.
- *Auth.* Two callers and three tokens allow two rotations of one token at once and the
  replay of a third; limits of 3 and 2 ticks make inactivity and the absolute ceiling
  differ; two flows let the callback of one meet the cookie of another.
- *Bridge, worker, stores.* Three bridge calls are a start, an overlapping start and a stop;
  two poll slots are what overlapping polls need; two users of one handle and two terms let
  an owner change inside a transaction.
- *Data.* Two of each name or three where order matters (classes, listeners, loads, calls of
  a batch). Where nothing distinguishes two names the first states fix one of them
  (`LeadType`, `LeadContext`, `LeadSwapper`, `LeadCall`), options that meet no common code are
  not combined (`FirstOfHttp`, `FirstOfAuth`, `FirstOfPolicies`, `TwoFiles`), a third edge
  between classes comes with no more than one way to go wrong (`ThreeEdges`), and
  `SignInOrAsk` and `Serve` leave out steps that cannot meet what the options chose. Numbers are scaled: an
  hour of 3 minutes, integers whose limits keep their order.

`CHECK_DEADLOCK FALSE` stands in all of them: every model has finitely many calls, jobs or
generations, each made once, and stops when they are used up.

Each property of a passing run has mutants in `PROJECT.json`: an operator of the module (its
comment begins with "Bug:") that changes one definition the way a plausible error in the
code would, and under which the property fails. A property of several parts has one for each
part where a run finds it fast; `Progress` has its fastest only, and it fails as well under
`ReleaseOnSuccess` (MigrationRunner), `AllOfThem` (Application), `ConfirmedSilently`
(SecureSocket) and `FailureFrameAlways` (RpcCalls), which take longer.

## Fairness

Fairness is stated over the steps the event loop, the timers and the operating system owe,
never over what callers choose to do.

- *ActorRuntime*: every await of the runtime resumes and a method that no timeout cuts short
  ends. Nothing makes a caller call, a policy refuse, a timeout fire or a drain time out. A
  method that never ends and has no timeout holds its mailbox for ever in the code too.
- *ActorOwnership*: the clock ticks, and a surviving host that keeps asking gets its turn.
  A host that has crashed need not come back.
- *ActorFileLock*: a live process goes on with the acquisition it has begun, and survivors
  keep asking. `DeadLockReclaimed` excludes the files that a death has left unwritten.
- *JobQueue*: time passes, handlers end (the dispatcher times them out), workers poll and
  recover, and a worker that died is started again. `Dequeue` and `Recover` need strong
  fairness: crashes disable them again and again, the poll timer of some worker is
  still there now and then.
- *MigrationRunner*: a runner that has not crashed goes on with its execution
  (`RunnerStep`), and the age of a lock row grows (`LockExpires`). No runner has to start.
- *SqlTransactions*: statements return and promise continuations run (`TaskStep`); tasks
  need not be created.
- *Application*: starts, stops and clean-ups under way go on (`AppStep`): a component's own
  `start` and `stop` return or throw. Nobody has to call stop, and no timer has to fire.
- *SecureSocket*: frames in flight are delivered and handlers resume (`SocketStep`); faults,
  sleeps and sends are free. `HandshakeEnds` speaks of links that were not disturbed.
- *RpcCalls*: frames move, handlers answer and chained handlers run (`RpcStep`); timeouts and
  aborts are free.
- The modules of `handlers` and `data` state safety alone: what they await are stores,
  clients and users that owe them nothing.

## Proofs

`tlapm` proves the theorems below from the modules' `ASSUME`s alone, for every value of the
constants: any number of hosts, processes, calls, jobs and retries.

| module | theorems | along |
|---|---|---|
| ActorOwnership | TypeCorrect, TokensMeanOwnership, FencingExcludesLostUpdates | `IInv`: a call whose token is the row's has read the current state, generations in a row are positive, and every call has a token (`Fenced`) |
| ActorRuntime_proofs | RuntimeTypeCorrect (full specification); with at most one reload and no deactivation CallsAreSerialized, ReleasesMeetNoCall, ReloadsReopen, AbandonedStayAlone, and RuntimeIsSerial: the refinement of SerialActor | `IInv`: a call inside is in the mailbox its actor has, a queued call is in its queue, what a reload has drained is shut and quiet, and stays so until it is released; an instance that was abandoned is in nobody's reach |
| | LockTypeCorrect, OneWriter, LocksAreNotStolen | `LockIInv`: what a live process has on disk at each step (`HasItsFiles`), and a payload is its creator's |
| JobQueue | QueueTypeCorrect, RetriesAreBounded, ClaimsAreUnique, CompletedJobsWereHandled; with leases that outlast handlers OneDeliveryAtATime, CompletedJobsStay; with one producer KeysAreUnique | `IInv`: an unsettled call left no row, a waiting job has a delivery left, a delivery's attempt is at most its row's; then `Held`: a delivery holds its job |
| ActorDelivery_proofs | DeliveryTypeCorrect, RequestsExecuteOnce, AnswersAreCommitted | `IInv`: that of ActorOwnership, and a host in the gap or with a good token has a request that is not recorded, a request is executed exactly if it is recorded, no response says anything else |
| Services_proofs | StatementsRunInTheirOwn | whoever holds the mutex is its head; only the head is in a transaction, and what the connection has open is its |
| | ApplicationsAreNested | what is up is a first part of the components, the list of what is started is that part, and at most two calls hold a component that was popped |
| | MigrationsStayExact | the lock is the row's owner's; what a runner has yet to do is what the history lacks of its plan |
| | StreamsStayInOrder | what was received, what waits in interceptors, what travels and what was yielded are consecutive parts of one sequence |
| | SessionsFailOnlyDisturbed | counters of the two sides and of the frames between them, and which key each frame finds on arrival |
| | ServicesHold | the five for the composed specification of the run |
| Handlers_proofs | ConnectionsTypeCorrect, HandlesAreLocked, LocksHaveHandles | what can be closed has been opened, openers hold their lock, a lock belongs to its actor |
| | FamiliesNeverFork, RevocationsStick | of a family one token at most is live or about to be saved; who saves has swapped its own predecessor out |
| | SessionsEnd | what a session keeps of its login, that who retires one goes on in its successor, and that what a logout lists is of a login that has ended |
| | AccountsKeepTheirPassword | who saves an account has read it since, and every comparison under way was let through by a count that included those before it |
| | CredentialsStayStrong | the three above together |
| | LoginsAreTraceable; KeysAreRecent; CeremoniesHold, CountersNeverFall; SignInHolds | where each state entry, code and token has been; when each document was fetched; who issued each challenge and who owns each credential |
| | WorkersKeepOn | each timer, poll and loop belongs to one start; slots taken are those of jobs in flight and polls that claim; how many deliveries the row and those in flight leave a job |
| | BridgesTearDown | a call has routes in hand only while it detaches, and what a finished start attached is listed under a handle that listens for the clearing |
| | ChangesAreRead, CommitsAreWhole | which changes of a handle are whose, and in which order |
| | StreamsAreReturned, CompletedIsQuiet | an operation in the map is the last that took its id |
| | MessagingHolds, NothingIsLeft, StepsStayWhole, HandlersHold | these together, the last for the composed specification of the run |
| Data_proofs | SignInsHold | `AuthIInv`: what each call still owes its guard, that its session and CSRF cookies are of one login, and which cookies its answer sets |
| | RoutingHolds | `HttpIInv`: the order of the table, what each request has passed at the entry where it stands, who closes each descriptor it has open, and that a document is made of exactly what is declared |
| | EndpointsHold | `RpcIInv`: the tally of a batch counts its undecided calls, a message carries what its original becomes at each stage, a server that listens has been started and is listed or fresh, pushed items tile what was pushed |
| | RequestsHold | the three above for the composed specification of the run |
| | StorageHolds | BlobsHold, HostsHold and RepositoriesHold below, for the composed specification of the run |
| | TypeGraphHolds | `GraphIInv`: each slice's graph is the one `Graph` computes for it, or failed where `BuildFails` |
| | GraphqlHolds | `GraphqlIInv`: a key that was loaded is queued, under way or answered; pages tile up to the window; what a stream has published, handed on and holds back; that what is executed was prepared |
| | WiringHolds, StepsTellHold, FaithfulHolds | the theorems of the container below, and those of GraphQL with PoliciesHold, likewise |
| Parts_proofs | ContainerHolds | `ContainerIInv`: each instantiation on the stack is what the one around it asks for, what it has resolved can be built, its key and everything around it lead to it, and a definition with an instance, or a singleton that was built, can be built |
| | EventsAreDelivered | `EventsIInv`: of those subscribed throughout an emission each is called or ahead of it, and who was called twice has left; what a call has published fits where it is |
| | TimersKeepTheSchedule | `CronHolds`: a timer is set for the first minute found after the last run, or for at once where that is too far or past; what lies between matches nothing, unless its hour comes twice |
| | BindingsHold | `BindingsIInv`: a client's token is of the caller it was made for |
| | BlobsHold | `BlobIInv`: the parts and tags of an upload are the first data of its put, in order; what was listed is all that stayed up to the cursor; a body is locked exactly while one reads it |
| | HostsHold | `HostIInv`: what is stored is the form of what was sent, and what is read is a reading of it; how many rows a query has handed on; which backend each opener has come to, and that it has one connection from there on |
| | RepositoriesHold | `RepoIInv`: who is in a transaction is the head of its adapter's chain, who waits is in it; an entity nobody else wrote has the age its acknowledged swaps make, what the running swap has read is that age, and a rollback brings it back; entities there are those created less those reported removed |
| | PoliciesHold | `PoliciesIInv`: what the registry holds is what the decorators registered, and which event a subscription's guard was asked for |

Why the strengthenings are needed. `NoLostUpdate` speaks of one step; that it holds comes
from `TokenInv`, and TokenInv alone is not inductive: a generation 0 would be an undefined
token, so a present row must have a positive one, and a call without a token would commit
unfenced. `Serialized` is not inductive because a call could sit in a mailbox that the
actor no longer has; the invariant ties every call inside to the current mailbox, and the
release of a reload to mailboxes that are closed and empty, which takes what draining has
achieved so far (`DrainInv`). `RetryLimit` needs to know that a job that waits has a
delivery left, which both `fail` and `recoverUnacknowledged` must keep up although `fail`
may come from a delivery that lost its lease. `ExactlyOnce` needs the fencing invariant: of
two hosts that have both missed the request only the one whose token is current commits, and
when it does, the other's token is no longer good or is only resolved after a new look-up,
unless it is in the gap.

The later theorems needed more of the same kind. `StreamInOrder` compares the two ends of a
stream only; the invariant has to say what every station between them holds, for each
transport. `NoLostUpdate`'s counterpart for sessions, `AbsoluteCeiling`, follows from the
chain of regenerations, which a touch that was read before a logout and is saved after it
may not extend. `RetriesHold` counts deliveries that are in nobody's hands yet: a lease that
runs out makes one, a claim takes one. `RuntimeIsSerial` maps each step of the runtime to a
step of SerialActor or to none; the work is in showing that the call that commits has read
the state that is committed, through time-outs that leave methods running and a reload that
changes the class.

`ThrowsForCause` compares what the recursion of `resolve` comes to with what the graph of
classes says. A key fails if it reaches, through constructors, one that is bad or one that is
reached from what it takes itself. The two directions need different facts: that an error has
a cause, that the stack is a path, so that what leads back to it closes a circle; that a value
has none, that what each instantiation has resolved does not fail, and that a cached instance
once did not. Properties go another way through the graph than constructors, and may fail
without failing what wants them.

`RunsOnSchedule` says how far the search of the next minute keeps its word: for any almanac
of minutes, hours, days, months and weekdays (`CalendarAssumption` asks that there is a day, that
hours and days are not empty, and that the clock is not put back before it began). Where no minute is found within
`SearchMinutes` the code throws from the timer and the job is over (`NoTimer`); where the wait
is longer than `TimerLimit` the host fires at once (`TooFar`); in the second pass of an hour the
search starts in the first, in the past, and the timer fires at once again (`Repeated`). The run
has limits below the gaps of its almanac, so that all three happen.

`SwapsAddUp` is about entities that only swaps have written. Its strengthening says of the
transaction that runs what it has read, what it has written and what a rollback would bring back;
none of the three can be left out: its write and a rollback come later than its read, with steps of
others in between, and what keeps another swap out is who is in the transaction, which the invariant
therefore has to know. `ListedOnce` speaks of a listing that is
complete; while it is not, what matters is that the keys up to the cursor that stayed are listed,
and no others twice.

The last proofs are of what is computed from data. What a context sees of a type graph is the
least set that contains its roots and what its members lead to; that every slice builds, and
that the slices add up, follows from what each declaration puts into each slice and from which
declarations are refused altogether. The bound on the cost of a query is proved along the blocks
of a document, each of which spreads only into later ones: by induction on how many come after,
the chains that a block executes are no more, and no longer, than its cost says. A text reads back
because every word of a production tells where it ends, and the nearest rule of a field is found
by what each level of declarations adds.

RepositoriesHold and StorageHolds have a hypothesis, `NamesReadBack`: `ParseQueryMethod` reads each
name of a derived query as the query it was spelled from. It has neither constants nor variables, so
that the run `data` decides it: there the caller means every query in turn and calls it by all its
names. A proof would be the same computation, case by case.

Some properties were wrong or too weak as first written, which a proof attempt showed and
TLC confirmed with larger constants; the runs check the corrected forms:

- `NoCallDuringRelease` named all actors of a reload; with two, one that is released already
  may be called again.
- `NoKeyPastStale` took the longer of two limits for granted: where the cache time exceeds the
  time a document may be served stale, age is bounded by the former.
- `RetriesHold` excused a delivery beyond the limit only where the lease ran out between the
  statements of `fail`; it can run out under a poll that has claimed as well (`lateLease`).
- `AttemptsBounded` did not count comparisons that are still running.
- Of the constants the proofs need that jobs, clients, calls of a bridge and a batch, swaps and stores
  are finite or not empty, that time-outs, limits, key numbers and the number of classes are
  natural numbers, that the marks a map uses for nothing are no keys, that no name is taken for nobody's, that parts and
  pages have a size and the ranges of numbers are one within the other; and of the scaled integers of RpcEndpoints what is true of the real ones, that a safe integer is
  an int64 and that 2^64 is a multiple of 2^32. Each module says so in its `...Assumption`.

Some definitions were restated so that they can be reasoned about. Which schemas a document
of HttpRouting needs is the least set that contains those referred to and is closed under
`RefersTo` (`Resolved`), and a table is ordered by which entry precedes which, both without
recursion; `RefersTo` and the number of endpoints are constants now, in the run a ring of schemas one of
which is not given, and two endpoints. Likewise what a key resolves and what a class depends on (`Resolves`, `DependsOn` of
Container) are least closed sets. What is sorted (`SortedRows` of Repositories, `Sorted` of
HostDatabases) is indexed by rank, by how many go before, ties in the order they came in; and a
list loses its doubles by position (`WithoutDuplicate`). The names a type graph must define
(`Mentioned`) are a least closed set as well; a document of GraphQL is blocks, each of which spreads
into later ones, whose costs and executions are recursive functions on their numbers (`CostOf`,
`Executions`); a text of policies is blocks of productions; and what a class declares for an action
is `Picked` by position.

What remains with TLC: the liveness properties (`Failover`, `EveryCallSettles`,
`EveryReloadEnds`, `EveryJobSettles`, `Progress`, `DeadLockReclaimed`), because ENABLED under
fairness is out of reach of the prover. No module uses a RECURSIVE operator.

## What the code does otherwise

Three runs check what the documentation says and find it violated.

- **A released row forgets its generations** (`ownership_release`, `actors/src/storage/sqlite.ts:774`).
  The next acquisition starts at 1, so a call that resolved its token before the release
  passes the fencing check after it. `di-framework-actors/README.md:276-278` says that
  generations increase monotonically and that every stale commit is rejected. This is why
  `Spec` of ActorOwnership, and everything proved from it, excludes `releaseOwnership`.
- **A look-up before the token** (`delivery_gap`, `runtime.ts:541`). The second look-up of the
  request comes before `acquireOwnership` (560-570), with the migrations in between. Another
  host can take the actor, execute and commit the retried request and lose its lease in that
  gap; the first host then acquires the actor and executes the request again.
  `README.md:307` promises exactly-once execution. `SpecWithoutGap` assumes that no host
  commits while another is in the gap; with it the property holds, and is proved.
- **A contribution is pruned with its stub** (`subgraphs`, `graphql/src/type-graph.ts:794`). A
  context that extends a boundary type of another context and mentions it nowhere else gets
  a slice without what it contributes, against `:1265-1268`.

What follows was met while modelling. No run shows it; the models contain it, and the
properties are stated so that they say what does hold beside it.

Actors and queues:

- `deactivate` removes the mailbox while a call runs (`runtime.ts:728`); the next call gets a
  new mailbox and runs beside it, against `README.md:9` and `:99`. `Serialized` fails under
  `Spec`; `SpecReload` excludes deactivations.
- A call that spans a reload migrates for its old class (`runtime.ts:456`): it puts the actor in
  the migration cache and the first call of the new class skips its migrations
  (`README.md:160`). `MigratedBeforeUse` states what fails.
- With two actors to release, a reload removes the first mailbox before it awaits the
  second actor: a call of the first made meanwhile gets a fresh, open mailbox and runs before
  the reload is done (`runtime.ts:815`, against `README.md:157`). `NoCallDuringRelease` speaks
  of the actors that are still to be released.
- When the drain of one reload times out it reopens the mailboxes that another has closed
  (`runtime.ts:792`). ActorRuntime with two reloads and `NoCallDuringRelease`.
- `_decrementActiveTransactions` finds the connection by actor id (`storage/sqlite.ts:504`): a
  transaction of a connection that `closeActor` replaced decrements the count of the new
  one, which counts as idle under its own transaction, against the comment at 512-514.
- Two first uses of an actor at once: the second finds the lock taken by its own process and
  gets "is locked by another process" (`storage/lock.ts:14`, `sqlite.ts:366`).
- The connection limit is exceeded when every connection is busy (`sqlite.ts:376`, documented
  as a maximum at `:55`).
- The wasm storage answers TRUE to a second delete of one key in a transaction.
- Two producing processes can both insert a job with one idempotency key
  (`queues/src/backend/sqlite.ts:150`), and so can a `retryJob` of a dead letter whose key was
  enqueued again: `KeyUnique` under `Spec` of JobQueue instead of `SpecOneProducer`.
- A job claimed and not begun when `stop` is called is not in `inFlight`: it starts after the stop
  has taken its list, over the memory backend too (`worker.ts:131-146`, `195-200`). `StopIsQuiet`
  allows that one job.
- A failed open releases the actor's lock before it closes its handle (`sqlite.ts:460-465`), so
  that for a turn a handle is open that the lock does not cover.
- Over the wasm backend overlapping polls exceed the concurrency of a worker, its `fail` breaks
  the retry limit when a lease ran out between its two statements, and a start overlapped by a stop leaks the recovery
  interval. `WithinLimit`, `RetriesHold` and `StopIsQuiet` say where they hold.

Repositories, databases, blobs:

- Between COMMIT and the end of the lock's lease a continuation of the transaction can still
  begin a transaction of its own without the mutex (`sql-database.ts:24-38`), which others' statements then meet (`SlipIn`).
- A plain statement issued on one adapter while another caller's transaction is open on the
  connection joins it, and is rolled back with it; of two adapters over one connection the
  second BEGIN fails.
- `And` and `Or` are read left to right; comparing with null compares text; a property after
  the last `Asc` or `Desc` is dropped; a property that ends in a keyword (`CheckIn`) is read as
  an operator, and a subject that begins with one (`findTopicsByName`) as `Top` (`query-derivation.ts`).
- S3: `deleteMany` counts all keys when the answer has no `Deleted` node; delete of an
  absent key is TRUE; a second read of a body throws; a limit of 0 pages for ever; a
  completion answered 200 with an error counts as success.
- A file of migrations with only `-- migrate:down` runs its down part when going up
  (`discovery.ts:98-135`); versions `01` and `1` are equal in order and different as keys; a
  nested variant that carries its text as a plain string loses it (`postgres.ts:91-102`).

Auth and authorization:

- In the repository store a logout can leave a token of the family: the swap and the save of a
  rotation under way are two awaits (`tokens/refresh.ts:169-170`, `126-131`). `LogoutSticks` of
  `Credentials` excludes it, `LogoutLeavesNothing` states what fails.
- `refresh()` of the remote keys sets `cachedAt` to 0 before it loads, so the stale document is
  not served when that load fails (`jwks.ts:15-16`).
- Only `/login` revokes the session a request came with (`http/routes.ts:154-167`, `307-371`); two
  concurrent logins leave one session nobody holds.
- A refresh grant of OAuth issues the scope its request names; the old refresh token stays
  valid.
- Declared actions `create` and `list` of a GraphQL field are member actions for the manager and
  not for the guard (`authz/src/graphql.ts:71`, `manager.ts:64-70`): without an id the manager looks for
  one in a request that a GraphQL context does not have, and throws. A text with `;` inside a
  string is not read back, nor one whose actions contain `|` or whose names contain `$`, nor that
  of two classes of one name.
- A touch of the repository store saves a session again that was revoked meanwhile
  (`repo.ts:192-195`), and a login that rehashes writes the password it verified over one changed
  since (`password.ts:194`).

Core, events, HTTP:

- Timers of the container run a cron method without the guard and a timeout lifts the guard of
  a method that runs on, so executions may overlap (`core/cron/types.ts:12-16`,
  `container.ts:643-685`, `cron/runtime.ts:143-205`): `NoOverlap` of Application fails,
  `GuardedRunsApart` holds.
- A delay beyond 2^31 - 1 ms fires at once, and so does a search made in the second pass of an
  hour that comes twice, whose result is in the past (`container.ts:658-672`); an expression that
  nothing matches within two years throws from the timer after its last run.
- A class and its name have a definition each, and so a singleton each; a class whose cron
  expression is malformed leaves its subscribers each time it is resolved.
- `autoStart` and `startEventBridges()` create two handles of one bridge; a stop overlapped by a
  start leaves "started" over a stopped transport; a failed start keeps its subscriptions;
  stopping one bridge stops a transport that others share. A stop whose `unsub` is rejected has
  lost the routes it had yet to detach, and one whose transport is rejected leaves the bridge
  started (`bridge.ts:194-200`).
- Of service bindings, `allowedOperations`, `timeoutMs` and `expectedOperations` of a binding are
  never read; grants are replaced, not merged; a reload restarts a stopped service.
- A directory that is a link when a file is opened, a directory when its path is resolved again
  and the link once more at `statSync` is served from outside the root
  (`static-assets.ts:61-69`): three exchanges between four system calls.
- Static mounts come before the auth extension and answer without it; a packaged asset is
  read twice, so that its hash may be of another version than its content; the check for 415
  comes after the parsing.

Sockets, RPC, GraphQL:

- Of two sends that overlap the later may be encrypted first and leave first; the peer then
  refuses the earlier as a replay and fails (`session.ts:178-183`, `aead.ts:129-146`).
- A first sealed frame sent right after connecting can meet a peer that has not opened yet,
  and fails the session; an `init` that arrives before the consumer's key pair is dropped and
  the handshake hangs; the snapshot for hibernation is written on received messages alone, so
  that sends before it make its counters stale (`socket/src/security/session.ts`,
  `adapters/workers/hibernatable.ts`). `disturbed` records where these happen.
- `complete` before the operation is in the map leaves its stream running, and an error of a
  stream is sent after its `complete` too (`graphql-transport-ws.ts:196-199`).
- An HTTP batch answers its last reply alone (`rpc/src/adapters/http.ts:165` against
  `README.md:170`), a client-stream failure over the duplex transport leaves the call
  unanswered: `Unanswered` of RpcCalls names these.
- A call of a `$batch` that gives up before the send is counted twice, so the batch leaves
  without those still in their interceptors, which are then never sent; an interceptor that
  answers by itself is never counted, and the batch never leaves (`client.ts:689-690`).
- Overlapping `$startRpc` put two dispatchers on a transport; `$stopRpc` during a start does
  nothing; stopping one server clears the subscribers of a shared transport; negative int64
  are decoded as 2^64 - n (`schema/messages.ts:119-121`).
- An `undefined` pushed to a stream reaches a reader that waits and not one that comes later
  (`client.ts:87-92`); a stream whose last frame a handler refuses is told an error after its
  `complete` (`adapters/grpc.ts:438-455`).
- A union with a stub that nothing else mentions names a pruned type, and its slice does not
  assemble; a cancelled SSE stream keeps its listener until the next event; a value that occurs
  twice in the arguments counts as cyclic (`resolvers.ts:90-101`).

## What is not modelled, or only model-checked

- Of the actor runtime: `reset`, `clear`, nested invocations with their reentrancy error,
  metrics. Of the connection cache: `close` and `resetStorage`, which remove every connection.
- Of the queue: pump, several queues, purge, read-only queries.
- Of the distributed part: several actors, `expectedGeneration` passed by a client, the
  routing of requests. Transports deliver a message once per send.
- Rollbacks of migrations (the lock and the body are those of `up`), pagination, soft
  deletion, the spelling of SQL, signatures and XML of S3.
- Client registration, introspection, the fields of tokens; framing of byte streams, the TCP
  and WebSocket adapters; codecs and generated descriptors of RPC; scalars and the printing
  of GraphQL schemas; content types and header texts of HTTP. Each is the form of a single message, which no other
  step meets half done.
- Wall-clock time: leases, availability and timeouts are steps that may come at any moment
  they could, except where a limit is what is checked (sessions, remote keys, cron).
- Not at all: actor migrations and decorators, queue and core decorators, cryptography and
  JWT, configuration, command line tools, code generation, the compiler plugin and lint
  rules. They keep no state that two steps could disagree about, or compute on bytes and
  source texts, which is a matter for tests; `components` of `PROJECT.json` gives each its reason.

## How to run

In this directory, for example

    tlc -workers 2 -config MCActorStorage_all.cfg MCActorStorage
    tlapm ActorOwnership.tla

The longest runs, `handlers` and `services`, take two to three minutes, `delivery`,
`actor_storage`, `actor_reload` and `data` one to two, the others seconds. `tlapm` needs some
ten minutes for each of Handlers_proofs, Data_proofs and Parts_proofs, four for
Services_proofs and three for the others.
