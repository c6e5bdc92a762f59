----------------------------- MODULE BlobStores -----------------------------
(***************************************************************************)
(* The blob adapters of di-framework-repo (blob/adapters/s3.ts,             *)
(* in-memory.ts, blob/utils.ts, repository.ts): callers put objects, in one *)
(* request or in parts, delete them, page through their keys while they     *)
(* change, and read bodies. S3 answers requests as it likes: a request may  *)
(* fail, its answer may be lost after it took effect, and completing an     *)
(* upload may answer 200 with an error in the body. Data is a number of     *)
(* units; how requests are signed and spelled is left out.                  *)
(***************************************************************************)
EXTENDS Naturals, Sequences, FiniteSets, SequencesExt

CONSTANTS Puts,      \* calls of put
          Sizes,     \* of their data
          Threshold, \* stated sizes above it are uploaded in parts
          PartSize,
          KeyCount,  \* keys are numbered in the order of their code units
          Nested,    \* the keys that go on after the delimiter
          PageSize,
          Readers    \* calls on the body of one object that was got

ASSUME BlobAssumption ==
  /\ {"nobody", "before"} \intersect Puts = {} /\ Sizes \subseteq Nat
  /\ PartSize \in Nat \ {0} /\ KeyCount \in Nat \ {0} /\ PageSize \in Nat \ {0}

VARIABLES adapter,  \* "memory" or "s3"
          objects,  \* key -> what is stored: whose data, and which units
          uploads,  \* put -> the multipart upload S3 holds for it and its parts
          puts,
          changes,  \* deletes done
          listing,  \* one caller that lists page by page
          stayed,   \* keys that were there from its first page on
          body,     \* the response body: read by nobody, locked by a reader, or cached
          reads     \* reader -> how far it is

blobVars == <<adapter, objects, uploads, puts, changes, listing, stayed, body, reads>>
BlobKeys == 1..KeyCount
Missing == [by |-> "nobody", units |-> {}]
NoUpload == [state |-> "none", parts |-> << >>]
Units(w) == 1..puts[w].size
Present == {k \in BlobKeys : objects[k] # Missing}

PutStep(w, pc) == puts' = [puts EXCEPT ![w].pc = pc]
PutFree(key, size, stated) ==
  [pc |-> "idle", key |-> key, size |-> size, stated |-> stated, next |-> 1, etags |-> << >>, lost |-> FALSE]

\* what a key's removal means for the caller that lists
Store(k, object) ==
  /\ objects' = [objects EXCEPT ![k] = object]
  /\ stayed' = IF object = Missing THEN stayed \ {k} ELSE stayed

\* put reads the body and hashes it or sends it, and the object is there as a whole; the
\* length its caller states decides how S3 gets it
PutWhole(w) ==
  /\ puts[w].pc = "idle" /\ (adapter = "memory" \/ puts[w].stated <= Threshold)
  /\ \/ Store(puts[w].key, [by |-> w, units |-> Units(w)])
        /\ \/ PutStep(w, "done")
           \/ adapter = "s3" /\ PutStep(w, "failed")
     \/ adapter = "s3" /\ PutStep(w, "failed") /\ UNCHANGED <<objects, stayed>>
  /\ UNCHANGED <<adapter, uploads, changes, listing, body, reads>>

\* initiateMultipartUpload, before the try block that aborts
Initiate(w) ==
  /\ puts[w].pc = "idle" /\ adapter = "s3" /\ puts[w].stated > Threshold
  /\ \/ uploads' = [uploads EXCEPT ![w].state = "open"] /\ PutStep(w, "uploading")
     \/ uploads' = [uploads EXCEPT ![w].state = "open"]
        /\ puts' = [puts EXCEPT ![w].pc = "failed", ![w].lost = TRUE]
     \/ PutStep(w, "failed") /\ UNCHANGED uploads
  /\ UNCHANGED <<adapter, objects, changes, listing, stayed, body, reads>>

\* Bug: the last part is taken only if it is full.
PartCountOfFullParts(w) == puts[w].size \div PartSize
PartCount(w) == (puts[w].size + PartSize - 1) \div PartSize
Part(w, i) == {u \in Units(w) : (i - 1) * PartSize < u /\ u <= i * PartSize}
\* Bug: an upload that cannot be completed is left to S3.
AbandonedIncomplete(w) == IF puts[w].next > PartCount(w) THEN "failed" ELSE "aborting"
\* the catch block
Abandoned(w) == "aborting"

\* the parts one after the other; the tag of each is kept for the completion
UploadPart(w) ==
  LET i == puts[w].next
      kept == uploads' = [uploads EXCEPT ![w].parts = Append(@, Part(w, i))] IN
    /\ puts[w].pc = "uploading" /\ i <= PartCount(w)
    /\ \/ kept /\ puts' = [puts EXCEPT ![w].next = i + 1, ![w].etags = Append(@, i)]
       \/ PutStep(w, Abandoned(w)) /\ (kept \/ UNCHANGED uploads)
    /\ UNCHANGED <<adapter, objects, changes, listing, stayed, body, reads>>

\* completeMultipartUpload: S3 puts the listed parts together. It refuses a list without
\* parts, and a 200 with an error in it counts as success.
Complete(w) ==
  LET whole == /\ puts[w].etags # << >>
               /\ uploads' = [uploads EXCEPT ![w].state = "completed"]
               /\ Store(puts[w].key, [by |-> w, units |-> UNION {uploads[w].parts[i] : i \in Range(puts[w].etags)}])
      not == UNCHANGED <<uploads, objects, stayed>> IN
    /\ puts[w].pc = "uploading" /\ puts[w].next > PartCount(w)
    /\ \/ whole /\ (PutStep(w, "done") \/ PutStep(w, Abandoned(w)))
       \/ not /\ (PutStep(w, Abandoned(w)) \/ puts' = [puts EXCEPT ![w].pc = "done", ![w].lost = TRUE])
    /\ UNCHANGED <<adapter, changes, listing, body, reads>>

\* whatever the abort comes to, put throws what made it abort
Abort(w) ==
  /\ puts[w].pc = "aborting"
  /\ LET gone == IF uploads[w].state = "open" THEN "aborted" ELSE uploads[w].state IN
       \/ uploads' = [uploads EXCEPT ![w].state = gone] /\ PutStep(w, "failed")
       \/ UNCHANGED uploads /\ puts' = [puts EXCEPT ![w].pc = "failed", ![w].lost = TRUE]
  /\ UNCHANGED <<adapter, objects, changes, listing, stayed, body, reads>>

\* delete and deleteMany: S3 or the Map removes what is there of the keys
DeleteKeys(K) ==
  /\ changes = 0 /\ changes' = 1
  /\ objects' = [k \in BlobKeys |-> IF k \in K THEN Missing ELSE objects[k]]
  /\ stayed' = stayed \ K
  /\ UNCHANGED <<adapter, uploads, puts, listing, body, reads>>

\* Bug: a page starts with the last key of the page before.
FromCursorOn(k, cursor) == k >= cursor
\* the cursor is the last key of the page before, whether or not it is still there
PastTheCursor(k, cursor) == k > cursor
\* list of the in-memory adapter: the keys that go on after the delimiter are answered as
\* prefixes, on every page
ListPage ==
  LET items == {k \in Present \ Nested : PastTheCursor(k, listing.cursor)}
      page == {k \in items : Cardinality({j \in items : j < k}) < PageSize}
      more == items # page IN
    /\ adapter = "memory" /\ listing.more
    /\ listing' = [cursor |-> IF more THEN CHOOSE k \in page : \A j \in page : j <= k ELSE listing.cursor,
                   more |-> more, listed |-> listing.listed \o SetToSeq(page)]
    /\ stayed' = IF listing.cursor = 0 THEN Present \ Nested ELSE stayed
    /\ UNCHANGED <<adapter, objects, uploads, puts, changes, body, reads>>

\* Bug: after stream has handed out one branch the other is not kept.
BranchDropped == "locked"
\* stream splits the body, hands out a branch and keeps the other
BranchKept == "fresh"
\* text, json and arrayBuffer read the body to its end and keep the bytes; the body is
\* locked until then, and a second reader of a locked body throws
StartRead(r, how) ==
  /\ adapter = "s3" /\ reads[r] = "idle"
  /\ CASE body = "cached" -> reads' = [reads EXCEPT ![r] = "served"] /\ UNCHANGED body
       [] body = "locked" -> UNCHANGED body
            /\ reads' = [reads EXCEPT ![r] = IF \E q \in Readers : reads[q] = "reading" THEN "overlapped" ELSE "refused"]
       [] body = "fresh" /\ how = "stream" -> reads' = [reads EXCEPT ![r] = "served"] /\ body' = BranchKept
       [] body = "fresh" /\ how = "bytes" -> reads' = [reads EXCEPT ![r] = "reading"] /\ body' = "locked"
  /\ UNCHANGED <<adapter, objects, uploads, puts, changes, listing, stayed>>
FinishRead(r) ==
  /\ reads[r] = "reading"
  /\ reads' = [reads EXCEPT ![r] = "served"] /\ body' = "cached"
  /\ UNCHANGED <<adapter, objects, uploads, puts, changes, listing, stayed>>

BlobInit ==
  /\ adapter \in {"memory", "s3"}
  /\ objects = [k \in BlobKeys |-> IF k = KeyCount /\ adapter = "s3" THEN Missing ELSE [by |-> "before", units |-> {}]]
  /\ uploads = [w \in Puts |-> NoUpload]
  /\ puts \in [Puts -> {PutFree(k, s, t) : k \in {1, KeyCount}, s \in Sizes, t \in Sizes}]
  /\ \A w \in Puts : puts[w].stated >= puts[w].size
  /\ changes = 0 /\ listing = [cursor |-> 0, more |-> TRUE, listed |-> << >>] /\ stayed = {}
  /\ body = "fresh" /\ reads = [r \in Readers |-> "idle"]

BlobNext ==
  \/ \E w \in Puts : PutWhole(w) \/ Initiate(w) \/ UploadPart(w) \/ Complete(w) \/ Abort(w)
  \/ \E K \in SUBSET BlobKeys : DeleteKeys(K)
  \/ ListPage
  \/ \E r \in Readers : FinishRead(r) \/ \E how \in {"stream", "bytes"} : StartRead(r, how)

BlobSpec == BlobInit /\ [][BlobNext]_blobVars

BlobTypeOK ==
  /\ \A w \in Puts : /\ puts[w].pc \in {"idle", "uploading", "aborting", "done", "failed"}
                     /\ uploads[w].state \in {"none", "open", "completed", "aborted"}
  /\ stayed \subseteq BlobKeys /\ body \in {"fresh", "locked", "cached"}

\* What is stored under a key is all the data of one put, in one request or in parts,
\* whatever failed on the way.
WholeObjects ==
  \A k \in BlobKeys : objects[k].by \in Puts => objects[k].units = Units(objects[k].by)

\* When put has returned or thrown, S3 holds no unfinished upload of it, unless the answer
\* to its start was lost, its abort failed, or its completion failed behind a 200.
UploadsAccounted ==
  \A w \in Puts : puts[w].pc \in {"done", "failed"} /\ uploads[w].state = "open" => puts[w].lost

\* A caller that follows the cursors meets every key once that is there throughout, and no
\* key twice, however keys come and go between its pages.
ListedOnce ==
  /\ \A i, j \in DOMAIN listing.listed : listing.listed[i] = listing.listed[j] => i = j
  /\ ~listing.more => stayed \subseteq Range(listing.listed)

\* A read of an object's body is refused only while another is reading it.
ReadsServed == \A r \in Readers : reads[r] # "refused"
=============================================================================
