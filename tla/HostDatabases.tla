---- MODULE HostDatabases ----
(***************************************************************************)
(* How di-framework-repo talks to a database of the host: the values it    *)
(* sends to PostgreSQL and SQLite and reads back (postgres.ts,             *)
(* sqlite/wasm.ts, wasm-values.ts), the result and the failure of a query  *)
(* (postgres.ts), the opening of a SQLite database (sqlite/open.ts,        *)
(* sqlite/wasm.ts), and the migrations found in files                      *)
(* (migrations/discovery.ts). Four parts without state in common; matter   *)
(* says which of them runs. Whole numbers are scaled down: the bounds of   *)
(* int4, of the exactly representable and of int8 keep their order.        *)
(***************************************************************************)
EXTENDS Integers, Sequences, FiniteSets

CONSTANTS Int4Max, SafeMax, Int8Max,   \* 2^31 - 1, 2^53 - 1 and 2^63 - 1
          MaxRows,       \* rows of a query
          MaxNesting,    \* how deep a failure is wrapped in variants
          DepthLimit,    \* how deep nestedString looks, 6 in the code
          Openers,       \* who opens the database, at the same time
          MaxLoads,      \* times the host's module is imported
          FileCount, MaxPart

ASSUME HostAssumption ==
  /\ {Int4Max, SafeMax, Int8Max, MaxRows, FileCount, MaxPart} \subseteq Nat
  /\ 0 < Int4Max /\ Int4Max < SafeMax /\ SafeMax < Int8Max

VARIABLES matter,
          sent, stored, read,              \* one value
          host, query,                     \* one query
          cause, error,                    \* one failure
          runtime, loading, moduleLoads, opener, connections,   \* the opening of a database
          directory, found                 \* the files of migrations

valueVars == <<sent, stored, read>>
hostQueryVars == <<host, query>>
errorVars == <<cause, error>>
openVars == <<runtime, loading, moduleLoads, opener, connections>>
fileVars == <<directory, found>>
hostVars == <<matter, valueVars, hostQueryVars, errorVars, openVars, fileVars>>

-----------------------------------------------------------------------------
\* Values. A JavaScript value is its kind with what matters of it.

Safe(n) == -SafeMax <= n /\ n <= SafeMax
InInt4(n) == -(Int4Max + 1) <= n /\ n <= Int4Max
InInt8(n) == -(Int8Max + 1) <= n /\ n <= Int8Max
Integral(v) == v.kind = "bigint" \/ v.kind = "number"

\* a number beyond SafeMax is one a double can hold
Whole == -(Int8Max + 2)..(Int8Max + 2)
JsValues ==
  [kind : {"bigint"}, of : Whole] \union [kind : {"number"}, of : {n \in Whole : Safe(n) \/ n % 2 = 0}]
    \union [kind : {"boolean"}, of : {0, 1}]
    \union [kind : {"nothing", "fraction", "notFinite", "text", "uuidText", "jsonText", "invalidDate", "bytes", "buffer", "object", "function"},
            of : {0}]
    \union [kind : {"date"}, of : {0, 1}]   \* of: its milliseconds
PgTags == {"none", "text", "uuid", "bool", "int4", "int8", "float8", "numeric", "timestamp-tz", "bytea", "jsonb"}
Databases == {"postgres", "sqlite"}

Cell(tag, form, n) == [tag |-> tag, form |-> form, of |-> n]
Refused == Cell("refused", "none", 0)

\* Bug: a number that int4 cannot hold is sent as int8 unless it is a bigint.
Int8OfAnything(v) == IF Integral(v) THEN Cell("int8", "integer", v.of) ELSE Refused
\* int8: a bigint within 64 bits, or a number that is exactly the integer it shows
Int8Cell(v) ==
  IF v.kind = "bigint" /\ InInt8(v.of) THEN Cell("int8", "integer", v.of)
  ELSE IF v.kind = "number" /\ Safe(v.of) THEN Cell("int8", "integer", v.of)
  ELSE Refused

Textual == {"text", "uuidText", "jsonText"}
\* timestampTz counts microseconds; it does not look whether the date is one
TimestampTz(v) == IF v.kind = "date" THEN Cell("timestamp-tz", "micros", 1000 * v.of) ELSE Cell("timestamp-tz", "noInstant", 0)

\* infer: the tag a value gets that names none; what is neither is written as JSON
Inferred(v) ==
  CASE v.kind = "uuidText"          -> Cell("uuid", v.kind, 0)
    [] v.kind \in {"text", "jsonText"} -> Cell("text", v.kind, 0)
    [] v.kind = "boolean"           -> Cell("bool", "boolean", v.of)
    [] v.kind = "bigint"            -> Int8Cell(v)
    [] v.kind = "number"            -> IF InInt4(v.of) THEN Cell("int4", "integer", v.of) ELSE Int8Cell(v)
    [] v.kind = "fraction"          -> Cell("numeric", "decimal", 0)
    [] v.kind = "notFinite"         -> Refused
    [] v.kind \in {"date", "invalidDate"} -> TimestampTz(v)
    [] v.kind = "bytes"             -> Cell("bytea", "bytes", 0)
    [] v.kind = "buffer"            -> Cell("jsonb", "emptyJson", 0)
    [] v.kind = "object"            -> Cell("jsonb", "json", 0)
    [] v.kind = "function"          -> Cell("jsonb", "nothing", 0)

\* coerce: the tag the caller names
Coerced(v, tag) ==
  CASE tag \in {"text", "uuid"}  -> IF v.kind \in Textual THEN Cell(tag, v.kind, 0) ELSE Refused
    [] tag = "bool"              -> IF v.kind = "boolean" THEN Cell(tag, "boolean", v.of) ELSE Refused
    [] tag = "int4"              -> IF Integral(v) /\ InInt4(v.of) THEN Cell(tag, "integer", v.of) ELSE Refused
    [] tag = "int8"              -> Int8Cell(v)
    [] tag = "float8"            -> IF v.kind = "number" THEN Cell(tag, "double", v.of)
                                    ELSE IF v.kind = "fraction" THEN Cell(tag, "double", Int8Max + 3) ELSE Refused
    [] tag = "numeric"           -> IF v.kind = "number" THEN Cell(tag, "digits", v.of)
                                    ELSE IF v.kind = "fraction" THEN Cell(tag, "decimal", 0)
                                    ELSE IF v.kind \in Textual THEN Cell(tag, v.kind, 0) ELSE Refused
    [] tag = "timestamp-tz"      -> IF v.kind = "date" THEN TimestampTz(v) ELSE Refused
    [] tag = "bytea"             -> IF v.kind = "bytes" THEN Cell(tag, "bytes", 0) ELSE Refused
    [] tag = "jsonb"             -> IF v.kind \in Textual THEN Cell(tag, v.kind, 0)
                                    ELSE IF v.kind = "bigint" THEN Refused
                                    ELSE IF Integral(v) THEN Cell(tag, "jsonNumber", v.of)
                                    ELSE IF v.kind = "boolean" THEN Cell(tag, "jsonBoolean", v.of)
                                    ELSE IF v.kind = "function" THEN Cell(tag, "nothing", 0)
                                    ELSE IF v.kind = "buffer" THEN Cell(tag, "emptyJson", 0) ELSE Cell(tag, "json", 0)
PgValue(v, tag) == IF v.kind = "nothing" THEN Cell("null", "none", 0)
                   ELSE IF tag = "none" THEN Inferred(v) ELSE Coerced(v, tag)

\* toWasmSqlValue
SqliteValue(v) ==
  CASE v.kind = "nothing"   -> Cell("null", "none", 0)
    [] v.kind = "bigint"    -> IF InInt8(v.of) THEN Cell("integer", "integer", v.of) ELSE Refused
    [] v.kind = "number"    -> IF Safe(v.of) THEN Cell("integer", "integer", v.of) ELSE Cell("real", "double", v.of)
    [] v.kind = "boolean"   -> Cell("integer", "integer", v.of)
    [] v.kind \in {"fraction", "notFinite"} -> Cell("real", "decimal", 0)
    [] v.kind \in Textual   -> Cell("text", v.kind, 0)
    [] v.kind = "date"      -> Cell("text", "instant", v.of)
    [] v.kind \in {"bytes", "buffer"} -> Cell("blob", "bytes", 0)
    [] v.kind \in {"invalidDate", "object", "function"} -> Refused

\* The host keeps what it is sent, or refuses what is no value of its type; a runtime wraps an
\* integer of more than 64 bits, and an older one hands integers to the guest as numbers, which
\* are exact up to SafeMax only. A host may hand text over as the list of its bytes.
HostTakes(cell) == cell.tag # "refused" /\ cell.form \notin {"noInstant", "nothing"}
                   /\ (cell.tag = "uuid" => cell.form = "uuidText") /\ (cell.tag = "jsonb" => cell.form \notin {"text", "uuidText"})
                   /\ (cell.tag = "numeric" => cell.form \notin Textual)
Rounded(n) == IF Safe(n) THEN n ELSE 2 * (n \div 2)
Wrapped(n) == IF n > Int8Max THEN n - 2 * (Int8Max + 1) ELSE IF n < -(Int8Max + 1) THEN n + 2 * (Int8Max + 1) ELSE n
Lifted(cell, exact) ==
  IF cell.tag = "text" /\ sent.database = "postgres" THEN [cell EXCEPT !.of = IF exact THEN 0 ELSE 1]
  ELSE IF cell.tag \notin {"int8", "integer"} THEN cell
  ELSE [cell EXCEPT !.of = IF exact THEN Wrapped(@) ELSE Rounded(Wrapped(@))]

\* Bug: a large integer becomes a number as any other.
NumberOf(n, exact) == [form |-> "number", of |-> Rounded(n)]
\* jsonInt: a decimal string where a number would not be exact
JsonInt(n, exact) == IF ~exact \/ Safe(n) THEN [form |-> "number", of |-> n] ELSE [form |-> "digits", of |-> n]

\* timestampIso writes milliseconds
TimestampIso(cell) == [form |-> "instant", of |-> cell.of \div 1000]
\* characters: text, or its bytes, decoded
Characters(cell) == [form |-> cell.form, of |-> 0]

\* pgScalar
PgScalar(cell, exact) ==
  CASE cell.tag = "null"  -> [form |-> "nothing", of |-> 0]
    [] cell.tag = "timestamp-tz" -> TimestampIso(cell)
    [] cell.tag = "text"  -> Characters(cell)
    [] cell.tag = "int8"  -> JsonInt(cell.of, exact)
    [] cell.tag = "int4"  -> [form |-> "number", of |-> cell.of]
    [] cell.tag = "float8" -> [form |-> "number", of |-> cell.of]
    [] cell.tag = "bool"  -> [form |-> "boolean", of |-> cell.of]
    [] cell.tag = "jsonb" -> [form |-> IF cell.form = "jsonText" THEN "json"
                                       ELSE IF cell.form = "jsonNumber" THEN "number" ELSE IF cell.form = "jsonBoolean" THEN "boolean"
                                       ELSE cell.form, of |-> cell.of]
    [] OTHER              -> [form |-> cell.form, of |-> cell.of]
\* fromWasmSqlValue
SqliteScalar(cell, exact) ==
  CASE cell.tag = "null"    -> [form |-> "nothing", of |-> 0]
    [] cell.tag = "integer" -> [form |-> IF ~exact \/ Safe(cell.of) THEN "number" ELSE "bigint", of |-> cell.of]
    [] cell.tag = "real"    -> [form |-> IF cell.form = "double" THEN "number" ELSE cell.form, of |-> cell.of]
    [] OTHER                -> [form |-> cell.form, of |-> cell.of]

Unread == [form |-> "unread", of |-> 0]
SomeValue == [value |-> [kind |-> "nothing", of |-> 0], tag |-> "none", database |-> "postgres"]
Write ==
  /\ stored.tag = "none"
  /\ stored' = IF sent.database = "postgres" THEN PgValue(sent.value, sent.tag) ELSE SqliteValue(sent.value)
  /\ UNCHANGED <<sent, read>>
ReadBack ==
  /\ stored.tag # "none" /\ HostTakes(stored) /\ read.form = "unread"
  /\ \E exact \in BOOLEAN :
       LET scalar == IF sent.database = "postgres" THEN PgScalar(Lifted(stored, exact), exact)
                     ELSE SqliteScalar(Lifted(stored, exact), exact)
       IN read' = [form |-> scalar.form, of |-> scalar.of, exact |-> exact]
  /\ UNCHANGED <<sent, stored>>
ValuesNext == Write \/ ReadBack

-----------------------------------------------------------------------------
\* A float8 is sent as mantissa, exponent and sign, and a float8 or a float4 comes back so. A
\* format has as many values per exponent as its hidden bit, an exponent that stands for
\* infinity and NaN, and a bias; the narrow one is scaled down like the wide one.

Formats == [wide |-> [hidden |-> 4, top |-> 7, bias |-> 5], narrow |-> [hidden |-> 2, top |-> 3, bias |-> 2]]
Special(layout) == Formats[layout].top - Formats[layout].bias
Floats == [layout : {"wide", "narrow"}, negative : BOOLEAN, exponent : 0..7, fraction : 0..3]
Exists(f) == f.exponent <= Formats[f.layout].top /\ f.fraction < Formats[f.layout].hidden
SomeFloat == [layout |-> "wide", negative |-> FALSE, exponent |-> 0, fraction |-> 0]

\* Bug: a float without a hidden bit keeps its fraction as it is.
NoHiddenBit(f) == [mantissa |-> f.fraction + (IF f.exponent = 0 THEN 0 ELSE Formats[f.layout].hidden),
                   exponent |-> f.exponent - Formats[f.layout].bias, negative |-> f.negative]
\* hashableF64, and integer_decode of the host
HashableF64(f) == [mantissa |-> IF f.exponent = 0 THEN 2 * f.fraction ELSE f.fraction + Formats[f.layout].hidden,
                   exponent |-> f.exponent - Formats[f.layout].bias, negative |-> f.negative]

\* hashableF64Number, which is not told the layout
SpecialIn(layout, h) ==
  /\ h.exponent = Special(layout) /\ h.mantissa >= Formats[layout].hidden
  /\ layout = "narrow" => h.mantissa < 2 * Formats[layout].hidden
HashableF64Number(h) ==
  LET class(hidden) == IF h.mantissa # hidden THEN "NaN" ELSE "Infinity" IN
  IF SpecialIn("wide", h) THEN [class |-> class(Formats["wide"].hidden), negative |-> h.negative, units |-> 0]
  ELSE IF SpecialIn("narrow", h) THEN [class |-> class(Formats["narrow"].hidden), negative |-> h.negative, units |-> 0]
  ELSE [class |-> "finite", negative |-> h.negative, units |-> h.mantissa * 2 ^ (h.exponent + Formats["wide"].bias)]

-----------------------------------------------------------------------------
\* The result of a query: columns, a stream of rows and a completion.

Results == [shape : {"pair", "short", "error"}, stream : {"iterable", "reader", "none"}, rows : 0..MaxRows,
            breaks : BOOLEAN, completion : {"value", "promise", "reader"}]
SomeResult == [shape |-> "pair", stream |-> "reader", rows |-> 0, breaks |-> FALSE, completion |-> "value"]
Sent(h) == IF h.breaks /\ h.rows > 0 THEN h.rows - 1 ELSE h.rows
ChunkSize == 2

ReadRows ==
  /\ query.at = "start"
  /\ query' = IF host.shape # "pair" \/ host.stream = "none" THEN [query EXCEPT !.at = "failed"] ELSE [query EXCEPT !.at = "collecting"]
  /\ UNCHANGED host

\* collect: rows as they come, or chunks of at most ChunkSize until one is empty
Collect ==
  /\ query.at = "collecting"
  /\ LET left == Sent(host) - query.rows
         most == IF host.stream = "iterable" THEN 1 ELSE ChunkSize IN
     IF left = 0 THEN query' = [query EXCEPT !.at = "finishing"]
     ELSE \E n \in 1..(IF left < most THEN left ELSE most) : query' = [query EXCEPT !.rows = @ + n]
  /\ UNCHANGED host

\* Bug: a completion that is a plain value is not looked at.
LooksAtPromises(completion) == completion # "value"
Looks(completion) == TRUE
\* finish: the completion says whether the provider got to its end
Finish ==
  /\ query.at = "finishing"
  /\ query' = [query EXCEPT !.at = IF host.breaks /\ Looks(host.completion) THEN "failed" ELSE "rows"]
  /\ UNCHANGED host
QueryNext == ReadRows \/ Collect \/ Finish

-----------------------------------------------------------------------------
\* A failure of the binding: thrown, or a variant, with its record some levels of val down.

Causes == [carrier : {"variant", "payload", "error"}, nesting : 0..MaxNesting,
           code : {"unique", "other", "none"}, message : {"duplicate", "other", "none"}, scalar : BOOLEAN]
SomeCause == [carrier |-> "error", nesting |-> 0, code |-> "none", message |-> "none", scalar |-> FALSE]
NoError == [code |-> "unset", message |-> "unset"]

\* Bug: only the outermost record is looked at.
Outermost(c, field) == IF c.nesting = 0 THEN field ELSE "none"
\* nestedString looks DepthLimit levels down
NestedString(c, field) == IF c.nesting <= DepthLimit THEN field ELSE "none"
\* a message that is the val itself is found on the first level only
PostgresError(c) ==
  IF c.scalar THEN [code |-> "none", message |-> IF c.nesting = 0 THEN c.message ELSE "none"]
  ELSE [code |-> NestedString(c, c.code), message |-> NestedString(c, c.message)]

\* an error that has been normalised once stays as it is
Normalise ==
  /\ error' = IF error = NoError THEN PostgresError(cause) ELSE error
  /\ UNCHANGED cause
IsUniqueViolation(e) == e.code = "unique" \/ e.message = "duplicate"

-----------------------------------------------------------------------------
\* openSqliteDatabase: the preferred backend, and those after it where that cannot open

Backends == {"bun", "node", "wasm"}
Runtimes == [requested : {"none"} \union Backends, bun : BOOLEAN, registered : SUBSET Backends, works : SUBSET Backends, closes : BOOLEAN]
SomeRuntime == [requested |-> "none", bun |-> FALSE, registered |-> {}, works |-> {}, closes |-> TRUE]
DetectSqliteBackend ==
  IF runtime.requested # "none" THEN runtime.requested
  ELSE IF runtime.bun /\ "bun" \in runtime.registered THEN "bun"
  ELSE IF "node" \in runtime.registered THEN "node" ELSE "wasm"
FallbackOrder(backend) == CASE backend = "bun" -> <<"bun", "node", "wasm">> [] backend = "node" -> <<"node", "wasm">> [] backend = "wasm" -> <<"wasm">>

NoOpener == [at |-> "idle", left |-> << >>, got |-> "none"]
NextCandidate(o) == [o EXCEPT !.at = IF Len(o.left) > 1 THEN "trying" ELSE "failed", !.left = Tail(@)]

OpenDatabase(o) ==
  /\ opener[o].at = "idle"
  /\ opener' = [opener EXCEPT ![o] = [at |-> "trying", left |-> FallbackOrder(DetectSqliteBackend), got |-> "none"]]
  /\ UNCHANGED <<runtime, loading, moduleLoads, connections>>

TryNative(o) ==
  /\ opener[o].at = "trying"
  /\ LET candidate == Head(opener[o].left) IN
     IF candidate \in runtime.registered /\ candidate # "wasm" /\ candidate \in runtime.works
     THEN /\ opener' = [opener EXCEPT ![o].at = "open", ![o].got = candidate]
          /\ connections' = [connections EXCEPT ![o] = @ + 1]
     ELSE /\ candidate # "wasm" \/ candidate \notin runtime.registered
          /\ opener' = [opener EXCEPT ![o] = NextCandidate(@)]
          /\ UNCHANGED connections
  /\ UNCHANGED <<runtime, loading, moduleLoads>>

\* loadWasmSqliteModule: one import, which every opener of the moment waits for
TryWasm(o) ==
  /\ opener[o].at = "trying" /\ Head(opener[o].left) = "wasm" /\ "wasm" \in runtime.registered
  /\ opener' = [opener EXCEPT ![o].at = IF loading = "loaded" THEN "module" ELSE "waiting"]
  /\ IF loading = "none" THEN moduleLoads < MaxLoads /\ loading' = "pending" /\ moduleLoads' = moduleLoads + 1
     ELSE UNCHANGED <<loading, moduleLoads>>
  /\ UNCHANGED <<runtime, connections>>

\* Bug: the promise of the import that failed is kept.
KeepsTheFailure == "failed"
\* a failed import is forgotten, so that the next opener tries again
AfterAFailure == "none"
Imported(succeeds) ==
  /\ loading = "pending"
  /\ loading' = IF succeeds THEN "loaded" ELSE AfterAFailure
  /\ opener' = [o \in Openers |-> IF opener[o].at # "waiting" THEN opener[o]
                                  ELSE IF succeeds THEN [opener[o] EXCEPT !.at = "module"] ELSE NextCandidate(opener[o])]
  /\ UNCHANGED <<runtime, moduleLoads, connections>>

\* createWasmSqliteDatabase: the connection is opened, then its pragmas are applied
OpenConnection(o) ==
  /\ opener[o].at = "module"
  /\ \/ opener' = [opener EXCEPT ![o].at = "pragmas"] /\ connections' = [connections EXCEPT ![o] = @ + 1]
     \/ opener' = [opener EXCEPT ![o] = NextCandidate(@)] /\ UNCHANGED connections
  /\ UNCHANGED <<runtime, loading, moduleLoads>>

\* Bug: a connection whose pragmas fail stays open.
LeftOpen(o) == connections
\* it is closed, and what closing it says is not listened to
ClosedAgain(o) == IF runtime.closes THEN [connections EXCEPT ![o] = @ - 1] ELSE connections
ApplyPragmas(o) ==
  /\ opener[o].at = "pragmas"
  /\ \/ opener' = [opener EXCEPT ![o].at = "open", ![o].got = "wasm"] /\ UNCHANGED connections
     \/ opener' = [opener EXCEPT ![o] = NextCandidate(@)] /\ connections' = ClosedAgain(o)
  /\ UNCHANGED <<runtime, loading, moduleLoads>>

OpenNext ==
  \/ \E o \in Openers : OpenDatabase(o) \/ TryNative(o) \/ TryWasm(o) \/ OpenConnection(o) \/ ApplyPragmas(o)
  \/ \E succeeds \in BOOLEAN : Imported(succeeds)

-----------------------------------------------------------------------------
\* Migrations in files of a directory and in a manifest.

Version == [1..1 -> 1..MaxPart] \union [1..2 -> 1..MaxPart]
MigrationFiles == [version : Version, binding : {"b1", "b2"}, marks : {"none", "up", "down", "up and down", "down and up"}, downFile : BOOLEAN]
NoFile == [version |-> <<1>>, binding |-> "none", marks |-> "none", downFile |-> FALSE]
NoDirectory == [files |-> << >>, manifest |-> {}, binding |-> "none"]

\* Bug: of two versions that begin alike the longer one is first.
LongerFirst(a, b) == Len(a) > Len(b)
ShorterFirst(a, b) == Len(a) < Len(b)
\* compareVersions
Before(a, b) ==
  \/ \E i \in 1..2 : i <= Len(a) /\ i <= Len(b) /\ a[i] < b[i] /\ \A j \in 1..(i - 1) : a[j] = b[j]
  \/ /\ \A i \in 1..2 : i <= Len(a) /\ i <= Len(b) => a[i] = b[i]
     /\ ShorterFirst(a, b)

\* parseSqlContent: what runs up and what runs down; a file with only a down mark is up as a whole
UpOf(f) == CASE f.marks = "none" -> {"whole"} [] f.marks = "down" -> {"whole", "down"} [] OTHER -> {"up"}
DownOf(f) == IF f.marks \in {"up and down", "down and up"} THEN {"down"} ELSE IF f.downFile THEN {"file"} ELSE {}
DefinitionOf(f, source) == [version |-> f.version, binding |-> f.binding, up |-> UpOf(f), down |-> DownOf(f), source |-> source]

\* Bug: a version is taken from the manifest and from the directory.
Everything(entries, there, i) == TRUE
\* of one version and binding the first one found is kept
WithoutDuplicate(entries, there, i) ==
  \A j \in there : j < i => entries[j].version # entries[i].version \/ entries[j].binding # entries[i].binding

\* sortMigrations, of some of the entries: it keeps the order of equals
SortsBefore(entries, j, i) ==
  Before(entries[j].version, entries[i].version) \/ (~Before(entries[i].version, entries[j].version) /\ j < i)
Sorted(entries, some) ==
  LET rank(i) == Cardinality({j \in some : SortsBefore(entries, j, i)}) IN
  [n \in 1..Cardinality(some) |-> entries[CHOOSE i \in some : rank(i) = n - 1]]

\* discoverManifestMigrations: the manifest's, then the directory's where they are new
Discover ==
  /\ found = << >> /\ directory.files # << >>
  /\ LET n == Len(directory.files)
         definitions(source) == [i \in 1..n |-> DefinitionOf(directory.files[i], source)]
         entries == definitions("manifest") \o Sorted(definitions("directory"), 1..n)
         there == directory.manifest \union (n + 1)..(2 * n)
         kept == {i \in there : i > n => WithoutDuplicate(entries, there, i)} IN
     found' = Sorted(entries, {i \in kept : directory.binding \in {"none", entries[i].binding}})
  /\ UNCHANGED directory

-----------------------------------------------------------------------------
Matters == {"values", "floats", "query", "errors", "opening", "files"}

ValuesInit ==
  /\ IF matter = "values"
     THEN \E v \in JsValues, tag \in PgTags, d \in Databases :
            /\ d = "sqlite" => tag = "none"
            /\ sent = [value |-> v, tag |-> tag, database |-> d]
     ELSE IF matter = "floats" THEN \E f \in {g \in Floats : Exists(g)} : sent = [value |-> f, tag |-> "float8", database |-> "postgres"]
     ELSE sent = SomeValue
  /\ stored = Cell("none", "none", 0) /\ read = Unread

HostInit ==
  /\ matter \in Matters
  /\ ValuesInit
  /\ host \in (IF matter = "query" THEN Results ELSE {SomeResult})
  /\ query = [at |-> "start", rows |-> 0]
  /\ cause \in (IF matter = "errors" THEN Causes ELSE {SomeCause})
  /\ error = NoError
  /\ runtime \in (IF matter = "opening" THEN Runtimes ELSE {SomeRuntime})
  /\ loading = "none" /\ moduleLoads = 0
  /\ opener = [o \in Openers |-> NoOpener] /\ connections = [o \in Openers |-> 0]
  /\ IF matter = "files"
     THEN \E files \in [1..FileCount -> MigrationFiles], manifest \in SUBSET (1..FileCount), binding \in {"none", "b1"} :
            directory = [files |-> files, manifest |-> manifest, binding |-> binding]
     ELSE directory = NoDirectory
  /\ found = << >>

SendFloat ==
  /\ read.form = "unread"
  /\ read' = [form |-> "float", of |-> HashableF64Number(HashableF64(sent.value))]
  /\ UNCHANGED <<sent, stored>>

HostNext ==
  /\ UNCHANGED matter
  /\ \/ matter = "values" /\ ValuesNext /\ UNCHANGED <<hostQueryVars, errorVars, openVars, fileVars>>
     \/ matter = "floats" /\ SendFloat /\ UNCHANGED <<hostQueryVars, errorVars, openVars, fileVars>>
     \/ matter = "query" /\ QueryNext /\ UNCHANGED <<valueVars, errorVars, openVars, fileVars>>
     \/ matter = "errors" /\ Normalise /\ UNCHANGED <<valueVars, hostQueryVars, openVars, fileVars>>
     \/ matter = "opening" /\ OpenNext /\ UNCHANGED <<valueVars, hostQueryVars, errorVars, fileVars>>
     \/ matter = "files" /\ Discover /\ UNCHANGED <<valueVars, hostQueryVars, errorVars, openVars>>

HostSpec == HostInit /\ [][HostNext]_hostVars

-----------------------------------------------------------------------------
\* What comes back is what was sent, in the form JSON can carry, whatever column it went
\* through: a number is never another number, nor a large integer a rounded one, except that
\* runtimes which hand integers over as numbers round them (postgres.ts:76-89, 281-289).
ValuesSurvive ==
  matter = "values" /\ read.form \notin {"unread", "json", "emptyJson"} =>
    LET v == sent.value IN
    CASE Integral(v)         -> /\ read.form \in {"number", "digits", "bigint"}
                                /\ read.of = v.of \/ (~Safe(v.of) /\ ~read.exact /\ read.of = Rounded(v.of))
                                /\ read.form \in {"digits", "bigint"} => ~Safe(v.of) \/ sent.tag = "numeric"
      [] v.kind = "boolean"  -> read.form \in {"boolean", "number"} /\ read.of = v.of
      [] v.kind = "date"     -> read.form = "instant" /\ read.of = v.of
      [] v.kind = "bytes"    -> read.form = "bytes"
      [] v.kind = "nothing"  -> read.form = "nothing"
      [] v.kind \in Textual  -> read.form = v.kind /\ read.of = 0
      [] OTHER               -> TRUE

\* Whichever layout the host used, a float comes back as what it was: infinities and NaN as
\* such, and every other number, the smallest ones included, exactly (postgres.ts:300-335).
FloatsSurvive ==
  read.form = "float" =>
    LET f == sent.value  wide == Formats["wide"]  own == Formats[f.layout] IN
    /\ read.of.negative = f.negative
    /\ read.of.class = (IF f.exponent < own.top THEN "finite" ELSE IF f.fraction = 0 THEN "Infinity" ELSE "NaN")
    /\ f.exponent < own.top =>
         read.of.units = IF f.exponent = 0 THEN f.fraction * 2 ^ (1 + wide.bias - own.bias)
                         ELSE (f.fraction + own.hidden) * 2 ^ (f.exponent + wide.bias - own.bias)

\* A query is answered with all of its rows or with a failure: what has been read when the
\* provider breaks off is never taken for the whole (postgres.ts:343-353).
RowsWhole == query.at = "rows" => ~host.breaks /\ query.rows = host.rows

\* However its binding wraps it, within the depth that is looked at, a unique violation is told
\* from other failures, and stays what it is when it is wrapped again (postgres.ts:92-108).
DuplicatesTold ==
  error # NoError /\ cause.nesting <= DepthLimit /\ ~cause.scalar =>
    (IsUniqueViolation(error) <=> cause.code = "unique" \/ cause.message = "duplicate")

\* A database is opened by the first of the backends that can, once; who fails to open it
\* leaves no connection, unless it cannot be closed, and the next one imports the host's module
\* again (sqlite/open.ts:85-112, sqlite/wasm.ts:321-393).
OpenedOnce ==
  \A o \in Openers :
    /\ opener[o].at = "open" =>
         /\ connections[o] = 1
         /\ \A i \in 1..Len(FallbackOrder(DetectSqliteBackend)) :
              FallbackOrder(DetectSqliteBackend)[i] = opener[o].got =>
                \A j \in 1..(i - 1) : FallbackOrder(DetectSqliteBackend)[j] \notin (runtime.registered \intersect runtime.works)
    /\ opener[o].at \in {"idle", "trying", "waiting", "module"} => connections[o] = 0
    /\ opener[o].at = "failed" => connections[o] = 0 \/ ~runtime.closes
    /\ opener[o].at = "waiting" => loading = "pending"

\* where a version stands among all versions
Place(v) == v[1] * (MaxPart + 1) + (IF Len(v) = 2 THEN v[2] ELSE 0)

\* The migrations of files and manifest come in ascending order, each version of a binding
\* once, the manifest's where it has one; and none runs statements of its down part to go up,
\* unless the file marks only that part (migrations/discovery.ts:97-134, 316-332).
MigrationsFound ==
  \A i, j \in 1..Len(found) :
    /\ i < j => Place(found[i].version) <= Place(found[j].version)
    /\ i # j => found[i].version # found[j].version \/ found[i].binding # found[j].binding \/ (found[i].source = "manifest" /\ found[j].source = "manifest")
    /\ found[i].source = "directory" =>
         \A f \in directory.manifest : directory.files[f].version # found[i].version \/ directory.files[f].binding # found[i].binding
    /\ "down" \in found[i].up => \E f \in 1..Len(directory.files) : directory.files[f].marks = "down"
====
