----------------------------- MODULE HttpRouting -----------------------------
(***************************************************************************)
(* The HTTP package: the route table a builder makes and a request walks   *)
(* (http-router.ts, typed-router.ts), static assets served from a directory *)
(* that deployments change, or from a package (static-assets-runtime.ts,   *)
(* static-assets.ts), and the OpenAPI document generated from what the     *)
(* decorators registered (decorators.ts, openapi-runtime.ts).              *)
(*                                                                         *)
(* itty-router is external: it tries the routes in the order they were     *)
(* added, runs the handlers of a matching route in order, and stops at the *)
(* first handler that returns something.                                   *)
(*                                                                         *)
(* A static handler runs without an await, but other processes change the  *)
(* directory between any two of its system calls, so each look at the disk *)
(* is a step of its own.                                                   *)
(***************************************************************************)
EXTENDS Naturals, FiniteSets, Sequences, Functions

CONSTANTS
    Requests,      \* the requests of a behaviour
    MaxVersions,   \* bound on the versions a deployment writes
    MaxSwaps,      \* bound on how often a directory becomes a link, or back
    Controllers,   \* controller classes that declare endpoints, in no order
    MaxEndpoints,  \* bound on the endpoints declared
    Schemas,       \* schema names
    RefersTo       \* what each schema that is given refers to

ASSUME HttpAssumption ==
    /\ MaxVersions \in Nat \ {0}
    /\ DOMAIN RefersTo \subseteq Schemas /\ RefersTo \in [DOMAIN RefersTo -> SUBSET Schemas]

VARIABLES
    options,   \* what the builder was told
    table,     \* the routes, in the order they were added
    rq,        \* each request: where it is and what it has done
    disk,      \* the served file: its version, and whether its directory is a link to elsewhere
    diskSwaps,     \* how often the directory was exchanged
    opened,    \* the descriptor each request has open, and who closes it
    pack,      \* the package made from the directory
    declared,  \* the endpoints declared so far, in order
    document   \* the OpenAPI document generated last

servingVars == <<options, table, rq, disk, diskSwaps, opened, pack>>
documentVars == <<declared, document>>
httpVars == <<options, table, rq, disk, diskSwaps, opened, pack, declared, document>>

NoFd == [file |-> 0, owner |-> "nobody"]
Outside == MaxVersions + 1        \* the file that is behind the link
Files == 1..Outside
NoPackage == [at |-> "none", hash |-> 0, content |-> 0]
Undefined == 0

(***************************************************************************)
(* The table.  middleware comes first, then the static mounts, then what   *)
(* the auth extension adds, when one is registered and asked for, then the *)
(* other extensions; routes are added to what was built.                   *)
(***************************************************************************)
Wildcard(handlers) == [on |-> {"asset", "root", "odd", "api"}, methods |-> {"GET", "HEAD", "POST"}, handlers |-> handlers]
Mount == [on |-> {"asset", "root", "odd"}, methods |-> {"GET", "HEAD", "POST"}, handlers |-> <<"static">>]
Extension(o) == IF o.auth /\ o.registered THEN <<Wildcard(<<"auth">>)>> ELSE <<>>

\* Bug: the mounts are added before the middleware, which then never sees an asset.
MountsFirst(o) == (IF o.mounts THEN <<Mount>> ELSE <<>>) \o (IF o.middleware THEN <<Wildcard(<<"middleware">>)>> ELSE <<>>) \o Extension(o)
Built(o) == (IF o.middleware THEN <<Wildcard(<<"middleware">>)>> ELSE <<>>) \o (IF o.mounts THEN <<Mount>> ELSE <<>>) \o Extension(o)

\* Bug: the body is parsed before the guards of the route have let it through.
ParsedFirst(o) == [on |-> {"api"}, methods |-> {o.method},
                   handlers |-> <<"parse">> \o (IF o.use THEN <<"guard">> ELSE <<>>) \o <<"handler">>]
Route(o) == [on |-> {"api"}, methods |-> {o.method},
             handlers |-> (IF o.use THEN <<"guard">> ELSE <<>>) \o <<"parse">> \o <<"handler">>]

Options == [middleware : BOOLEAN, mounts : BOOLEAN, auth : BOOLEAN, registered : BOOLEAN, use : BOOLEAN,
            multipart : BOOLEAN, method : {"GET", "POST"}, fallthrough : BOOLEAN, live : {"unset", "yes", "no"}, catch : BOOLEAN]

Unsent == [at |-> "unsent", method |-> "GET", path |-> "api", json |-> TRUE, tag |-> 0,
           route |-> 1, handler |-> 1, seen |-> {}, body |-> "unread", status |-> 0, file |-> 0, since |-> 0]

HttpInit ==
    /\ options \in Options
    /\ table = Append(Built(options), Route(options))
    /\ rq = [q \in Requests |-> Unsent]
    /\ disk = [version |-> 1, linked |-> FALSE, written |-> 1]
    /\ diskSwaps = 0
    /\ opened = [q \in Requests |-> NoFd]
    /\ pack = NoPackage
    /\ declared = <<>>
    /\ document = {}

RestKept(q) == UNCHANGED <<options, table, disk, diskSwaps, pack>>

\* A request arrives: its method, the kind of path it names, whether it says its body is JSON, and
\* the version whose tag it holds.  "odd" stands for a path that does not decode, or names a dot file.
Arrive(q) ==
    /\ rq[q].at = "unsent"
    /\ \E m \in {"GET", "HEAD", "POST"}, p \in {"asset", "root", "odd", "api"}, j \in BOOLEAN, t \in 0..MaxVersions :
           /\ (m = "POST") \/ j
           /\ (p = "asset") \/ (t = 0)
           /\ rq' = [rq EXCEPT ![q] = [Unsent EXCEPT !.at = "walking", !.method = m, !.path = p, !.json = j, !.tag = t]]
    /\ UNCHANGED opened
    /\ RestKept(q)

(***************************************************************************)
(* Walking the table.                                                      *)
(***************************************************************************)
Matches(q, r) == (rq[q].path \in r.on) /\ (rq[q].method \in r.methods)
At(q, name) ==
    /\ rq[q].at = "walking"
    /\ rq[q].route <= Len(table)
    /\ Matches(q, table[rq[q].route])
    /\ table[rq[q].route].handlers[rq[q].handler] = name

Passed(q, name) ==
    LET r == table[rq[q].route] IN
    IF rq[q].handler < Len(r.handlers)
      THEN [rq[q] EXCEPT !.at = "walking", !.handler = @ + 1, !.seen = @ \cup {name}]
      ELSE [rq[q] EXCEPT !.at = "walking", !.handler = 1, !.route = @ + 1, !.seen = @ \cup {name}]
Answered(q, code) == [rq[q] EXCEPT !.at = "answered", !.status = code]

\* A route that does not match is passed over; after the last one nothing has answered.
Skip(q) ==
    /\ rq[q].at = "walking"
    /\ rq[q].route <= Len(table) => ~Matches(q, table[rq[q].route])
    /\ rq' = [rq EXCEPT ![q] = IF rq[q].route > Len(table) THEN Answered(q, Undefined) ELSE [rq[q] EXCEPT !.route = @ + 1, !.handler = 1]]
    /\ UNCHANGED opened
    /\ RestKept(q)

\* A middleware or a guard returns nothing, or a response that ends the walk.
Check(q) ==
    \E name \in {"middleware", "auth", "guard"} :
        /\ At(q, name)
        /\ \/ rq' = [rq EXCEPT ![q] = Passed(q, name)]
           \/ rq' = [rq EXCEPT ![q] = Answered(q, 401)]
        /\ UNCHANGED opened
        /\ RestKept(q)

Parse(q) ==
    /\ At(q, "parse")
    /\ rq' = [rq EXCEPT ![q] = [Passed(q, "parse") EXCEPT !.body = "read"]]
    /\ UNCHANGED opened
    /\ RestKept(q)

\* The handler looks at the content type itself, after the body was parsed; it may throw.
EnforcesJson(q) == (rq[q].method = "POST") /\ ~options.multipart /\ ~rq[q].json
Handle(q) ==
    /\ At(q, "handler")
    /\ \/ /\ EnforcesJson(q)
          /\ rq' = [rq EXCEPT ![q] = Answered(q, 415)]
       \/ /\ ~EnforcesJson(q)
          /\ \/ rq' = [rq EXCEPT ![q] = Answered(q, 200)]
             \/ rq' = [rq EXCEPT ![q] = Answered(q, IF options.catch THEN 500 ELSE Undefined)]
    /\ UNCHANGED opened
    /\ RestKept(q)

(***************************************************************************)
(* The static handler.                                                     *)
(***************************************************************************)
Declines(q, code) == IF options.fallthrough THEN Passed(q, "static") ELSE Answered(q, code)
\* What the name leads to just now: a version of the file, the file behind the link, or nothing.
Seen == IF disk.linked THEN Outside ELSE disk.version
FileThere == Seen # 0
Packaged == pack.at = "made"
UseLive == IF options.live = "unset" THEN ~Packaged ELSE options.live = "yes"

\* The packaged entry, under the tag that its hash gives.
FromPackage(q) == [Answered(q, IF rq[q].tag = pack.hash THEN 304 ELSE 200) EXCEPT !.file = pack.content]

\* The method, the path and whether to serve the directory or the package.
Static(q) ==
    /\ At(q, "static")
    /\ CASE rq[q].method = "POST" -> rq' = [rq EXCEPT ![q] = Declines(q, 405)]
         [] rq[q].method # "POST" /\ rq[q].path = "odd" -> \E s \in {400, 403, 404} : rq' = [rq EXCEPT ![q] = Declines(q, s)]
         [] rq[q].method # "POST" /\ rq[q].path = "root" -> rq' = [rq EXCEPT ![q] = Declines(q, 404)]
         [] rq[q].method # "POST" /\ rq[q].path = "asset" /\ UseLive -> rq' = [rq EXCEPT ![q].at = "looking"]
         [] rq[q].method # "POST" /\ rq[q].path = "asset" /\ ~UseLive ->
              rq' = [rq EXCEPT ![q] = IF Packaged THEN FromPackage(q) ELSE Declines(q, 404)]
    /\ UNCHANGED opened
    /\ RestKept(q)

\* serveNativeAsset: the file exists, its real path is in the directory, and openAssetFile's own first look.
Look(q) ==
    /\ rq[q].at \in {"looking", "resolving"}
    /\ rq' = [rq EXCEPT ![q] =
                  IF ~FileThere THEN Declines(q, 404)
                  ELSE IF disk.linked THEN Declines(q, IF rq[q].at = "looking" THEN 403 ELSE 404)
                  ELSE IF rq[q].at = "looking" THEN [rq[q] EXCEPT !.at = "resolving"]
                  ELSE [rq[q] EXCEPT !.at = "opening", !.since = diskSwaps]]
    /\ UNCHANGED opened
    /\ RestKept(q)

\* The canonical name is opened; a directory of it may have become a link in the meantime.
OpenAsset(q) ==
    /\ rq[q].at = "opening"
    /\ IF FileThere
         THEN /\ opened' = [opened EXCEPT ![q] = [file |-> Seen, owner |-> "handler"]]
              /\ rq' = [rq EXCEPT ![q].at = "rechecking"]
         ELSE /\ rq' = [rq EXCEPT ![q] = Declines(q, 404)]
              /\ UNCHANGED opened
    /\ RestKept(q)

\* openAssetFile: the name still resolves into the directory.
Recheck(q) ==
    /\ rq[q].at = "rechecking"
    /\ IF FileThere /\ ~disk.linked
         THEN /\ rq' = [rq EXCEPT ![q].at = "restating"]
              /\ UNCHANGED opened
         ELSE /\ rq' = [rq EXCEPT ![q] = Declines(q, 404)]
              /\ opened' = [opened EXCEPT ![q] = NoFd]
    /\ RestKept(q)

\* Bug: whether the name leads to the file that was opened is not asked.
OpenedSuffices(q) == TRUE
SameFile(q) == Seen = opened[q].file

\* A second system call on the resolved name: it leads to the file that was opened.
Restat(q) ==
    /\ rq[q].at = "restating"
    /\ IF SameFile(q)
         THEN /\ rq' = [rq EXCEPT ![q].at = "answering"]
              /\ UNCHANGED opened
         ELSE /\ rq' = [rq EXCEPT ![q] = Declines(q, 404)]
              /\ opened' = [opened EXCEPT ![q] = NoFd]
    /\ RestKept(q)

\* Bug: an answer without a body leaves its descriptor open.
ClosedForBody(q) == opened[q]
ClosedWithoutBody(q) == NoFd

\* The answer: not modified, headers only, or a stream that owns the descriptor from here on;
\* a stream that cannot be made closes it and throws.
Reply(q) ==
    /\ rq[q].at = "answering"
    /\ LET f == opened[q].file IN
       CASE rq[q].tag = f ->
              /\ rq' = [rq EXCEPT ![q] = [Answered(q, 304) EXCEPT !.file = f]]
              /\ opened' = [opened EXCEPT ![q] = ClosedWithoutBody(q)]
         [] rq[q].tag # f /\ rq[q].method = "HEAD" ->
              /\ rq' = [rq EXCEPT ![q] = [Answered(q, 200) EXCEPT !.file = f]]
              /\ opened' = [opened EXCEPT ![q] = ClosedWithoutBody(q)]
         [] rq[q].tag # f /\ rq[q].method # "HEAD" ->
              \/ /\ rq' = [rq EXCEPT ![q] = [Answered(q, 200) EXCEPT !.file = f, !.body = "streaming"]]
                 /\ opened' = [opened EXCEPT ![q].owner = "stream"]
              \/ /\ rq' = [rq EXCEPT ![q] = Answered(q, IF options.catch THEN 500 ELSE Undefined)]
                 /\ opened' = [opened EXCEPT ![q] = NoFd]
    /\ RestKept(q)

\* The body is read to its end, or cancelled: the stream closes its descriptor.
Drain(q) ==
    /\ opened[q].owner = "stream"
    /\ opened' = [opened EXCEPT ![q] = NoFd]
    /\ rq' = [rq EXCEPT ![q].body = "streamed"]
    /\ RestKept(q)

(***************************************************************************)
(* Deployments, and packaging, which reads every file twice: once for the  *)
(* manifest, once for the content.                                         *)
(***************************************************************************)
Deploy ==
    /\ \/ /\ disk.written < MaxVersions
          /\ disk' = [disk EXCEPT !.version = disk.written + 1, !.written = @ + 1]
          /\ UNCHANGED diskSwaps
       \/ /\ disk.version # 0
          /\ disk' = [disk EXCEPT !.version = 0]
          /\ UNCHANGED diskSwaps
       \/ /\ diskSwaps < MaxSwaps
          /\ diskSwaps' = diskSwaps + 1
          /\ disk' = [disk EXCEPT !.linked = ~@]
    /\ UNCHANGED <<options, table, rq, opened, pack>>

Manifest ==
    /\ pack.at = "none"
    /\ pack' = IF disk.version # 0 /\ ~disk.linked THEN [at |-> "hashed", hash |-> disk.version, content |-> 0]
               ELSE [at |-> "empty", hash |-> 0, content |-> 0]
    /\ UNCHANGED <<options, table, rq, disk, diskSwaps, opened>>

Package ==
    /\ pack.at = "hashed"
    /\ pack' = IF disk.version # 0 /\ ~disk.linked THEN [pack EXCEPT !.at = "made", !.content = disk.version]
               ELSE [pack EXCEPT !.at = "failed"]
    /\ UNCHANGED <<options, table, rq, disk, diskSwaps, opened>>

(***************************************************************************)
(* Endpoints and the document.  A declaration is the controller, its raw   *)
(* path (two of which read the same once a parameter is rewritten), its    *)
(* metadata's schemas, and whether the metadata lists parameters.          *)
(***************************************************************************)
RawPaths == {"/:id", "/{id}", "/all"}
RewrittenPath(p) == IF p = "/:id" THEN "/{id}" ELSE p
PathParameters(p) == IF p = "/:id" THEN {"id"} ELSE {}
Declarations == [of : Controllers, path : RawPaths, refs : SUBSET Schemas, lists : BOOLEAN]

Endpoint ==
    /\ document = {}
    /\ Len(declared) < MaxEndpoints
    /\ \E d \in Declarations : (\A i \in DOMAIN declared : <<declared[i].of, declared[i].path>> # <<d.of, d.path>>) /\ declared' = Append(declared, d)
    /\ UNCHANGED document

\* the schemas that are given
GivenSchemas == DOMAIN RefersTo
\* Bug: only the schemas the metadata names are put into the document.
NamedOnly(names) == names \intersect GivenSchemas
\* A schema that is resolved resolves what it refers to, however the references go round; a name of no
\* given schema is passed over. (References nested deeper than 64 levels in one schema are not looked at.)
Resolved(names) ==
    {s \in GivenSchemas : \A closed \in SUBSET GivenSchemas :
         names \intersect GivenSchemas \subseteq closed /\ (\A r \in closed : RefersTo[r] \intersect GivenSchemas \subseteq closed)
           => s \in closed}

\* Registered controllers in the order of their first endpoint, and the endpoints of each in theirs.
FirstOf(i) == CHOOSE k \in 1..i : declared[k].of = declared[i].of /\ \A j \in 1..(k - 1) : declared[j].of # declared[i].of
Precedes(i, j) == FirstOf(i) < FirstOf(j) \/ (FirstOf(i) = FirstOf(j) /\ i < j)
FirstListed(some) == CHOOSE i \in some : \A j \in some \ {i} : Precedes(i, j)
LastListed(some) == CHOOSE i \in some : \A j \in some \ {i} : Precedes(j, i)
DeclaredAt(path) == {i \in DOMAIN declared : declared[i].path = path}

\* generateOpenAPI: one operation for a raw path, the last one declared; then one for a rewritten path,
\* the last raw path that becomes it, with the parameters in that path and the ones listed last for it,
\* by whichever controller did.
Operation(path) ==
    LET raws == {p \in RawPaths : RewrittenPath(p) = path /\ DeclaredAt(p) # {}}
        raw == declared[LastListed({FirstListed(DeclaredAt(p)) : p \in raws})].path
        listing == {i \in DeclaredAt(raw) : declared[i].lists}
    IN [path |-> path, of |-> declared[LastListed(DeclaredAt(raw))].of, inPath |-> PathParameters(raw),
        lists |-> IF listing = {} THEN {} ELSE {declared[LastListed(listing)].of}]

Generate ==
    /\ declared # <<>>
    /\ document = {}
    /\ document' = {[operations |-> {Operation(RewrittenPath(d.path)) : d \in Range(declared)},
                     schemas |-> Resolved(UNION {d.refs : d \in Range(declared)})]}
    /\ UNCHANGED declared

ServingNext ==
    \/ \E q \in Requests : Arrive(q) \/ Skip(q) \/ Check(q) \/ Parse(q) \/ Handle(q) \/ Static(q)
                           \/ Look(q) \/ OpenAsset(q) \/ Recheck(q) \/ Restat(q) \/ Reply(q) \/ Drain(q)
    \/ Deploy \/ Manifest \/ Package
DocumentNext == Endpoint \/ Generate
HttpNext == (ServingNext /\ UNCHANGED documentVars) \/ (DocumentNext /\ UNCHANGED servingVars)

HttpSpec == HttpInit /\ [][HttpNext]_httpVars

HttpTypeOK ==
    /\ options \in Options
    /\ \A q \in Requests : rq[q].at \in {"unsent", "walking", "looking", "resolving", "opening", "rechecking", "restating", "answering", "answered"}
    /\ opened \in [Requests -> [file : 0..Outside, owner : {"nobody", "handler", "stream"}]]
    /\ disk \in [version : 0..MaxVersions, linked : BOOLEAN, written : 1..MaxVersions]
    /\ pack.at \in {"none", "hashed", "made", "failed", "empty"}

(***************************************************************************)
(* Properties.                                                             *)
(***************************************************************************)
\* Nothing is answered with content before every middleware of the builder has let the request
\* through, assets included, and no body is read before the guards of its route have passed
\* (typed-router.ts:64-67).
GuardsGoFirst ==
    \A q \in Requests :
        /\ (options.middleware /\ rq[q].status \in {200, 304, 415}) => "middleware" \in rq[q].seen
        /\ (options.auth /\ options.registered /\ rq[q].path = "api" /\ rq[q].status \in {200, 415}) => "auth" \in rq[q].seen
        /\ (options.use /\ rq[q].body = "read") => "guard" \in rq[q].seen
        /\ (options.use /\ rq[q].path = "api" /\ rq[q].status = 415) => "guard" \in rq[q].seen

\* What is served from the directory is a file of the directory, unless the directory was exchanged three
\* times while the file was opened: for a link before openSync, back before the name is resolved again, for
\* the link once more before statSync.  The two looks of static-assets.ts:66-68 are two system calls and
\* cannot see that; one or two exchanges they always see.
ServedFromTheRoot ==
    \A q \in Requests : (opened[q].owner = "stream" \/ rq[q].status \in {200, 304}) /\ rq[q].file = Outside
                        => diskSwaps - rq[q].since >= 3

\* Every open descriptor belongs to a handler that is still at work or to a stream somebody reads
\* (static-assets.ts:36-58): each way out of the handler closes it or hands it on.
DescriptorsOwned ==
    \A q \in Requests : opened[q] # NoFd =>
        \/ opened[q].owner = "handler" /\ rq[q].at \in {"rechecking", "restating", "answering"}
        \/ opened[q].owner = "stream" /\ rq[q].at = "answered" /\ rq[q].body = "streaming"

\* The document has an operation for each path declared, and every given schema an operation refers
\* to, directly or through other schemas (openapi-runtime.ts:145-167).
DocumentComplete ==
    \A doc \in document :
        /\ {o.path : o \in doc.operations} = {RewrittenPath(d.path) : d \in Range(declared)}
        /\ \A o \in doc.operations : \E d \in Range(declared) :
               /\ o.of = d.of /\ RewrittenPath(d.path) = o.path /\ o.inPath = PathParameters(d.path)
               /\ d.lists => o.lists = {d.of}
        /\ \A d \in Range(declared) : d.refs \intersect GivenSchemas \subseteq doc.schemas
        /\ \A s \in doc.schemas : RefersTo[s] \intersect GivenSchemas \subseteq doc.schemas
=============================================================================
