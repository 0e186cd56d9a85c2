-------------------------------- MODULE Catalog --------------------------------
(***************************************************************************)
(* A title in the catalog: its revisions, ingested (Ingestion) and shown   *)
(* to readers (Publication), its cover (catalog/covers.ts), and the        *)
(* cleanup of stored objects that no row refers to (storage/cleanup.ts,    *)
(* SQL 0011).                                                              *)
(*                                                                         *)
(* An administrative transaction is one step; the cleanup is not: it loads *)
(* the references of a page of objects and deletes the others one by one   *)
(* afterwards.  Its command line makes the operator attest that no writer  *)
(* runs; here writers do run, and only the retention protects what a       *)
(* writer has in hand, so that a cleanup among stopped or dead writers is  *)
(* a special case.                                                         *)
(***************************************************************************)
EXTENDS Ingestion

CONSTANTS
  CoverKeys   \* bound: keys for covers

Cover(c) == [class |-> "cover", rev |-> NoRevision, gen |-> 0, of |-> c]
Covers == {Cover(c) : c \in CoverKeys}

VARIABLES
  cover,      \* the cover of the title: titles.cover_storage_key
  newCover,   \* administrator -> a cover written and not yet recorded
  old,        \* objects past their retention
  doomed      \* objects the cleanup is about to delete

vars == <<publicationVars, ingestVars, cover, newCover, old, doomed>>

Objects ==
  (UNION {{Staging(j[1], j[2], a) : a \in Admins \cup {Uploader}} : j \in Jobs})
    \cup {Original(r) : r \in Revisions}
    \cup {Derived(x[1][1], x[1][2], x[2]) : x \in Runs}
    \cup Covers

TypeOK ==
  /\ PublicationTypeOK
  /\ \A r \in Revisions : rev[r].gen \in Generations(r)
  /\ unanswered \subseteq Revisions
  /\ source \in [Jobs -> Objects \cup {NoObject}]
  /\ DOMAIN content = Revisions
  /\ \A r \in Revisions : content[r] # NoContent => <<<<r, content[r][1]>>, content[r][2]>> \in Runs
  /\ job \in [Jobs -> [status : {"none", "pending", "running", "succeeded", "failed"},
                       attempts : Nat]]
  /\ \A j \in Jobs : job[j].attempts <= MaxAttempts[j]
  /\ run \in [Runs -> Steps]
  /\ store \subseteq Objects /\ old \subseteq store /\ doomed \subseteq store
  /\ cover \in Covers \cup {NoObject}
  /\ newCover \in [Admins -> Covers \cup {NoObject}]

Init ==
  /\ PublicationInit("none")
  /\ IngestInit
  /\ cover = NoObject
  /\ newCover = [a \in Admins |-> NoObject]
  /\ old = {} /\ doomed = {}

-----------------------------------------------------------------------------
(* The cover: written under a fresh key, then recorded *)

CoverWritten(a, c) ==
  /\ newCover[a] = NoObject
  /\ Cover(c) \notin store
  /\ store' = store \cup {Cover(c)}
  /\ newCover' = [newCover EXCEPT ![a] = Cover(c)]
  /\ UNCHANGED <<publicationVars, unanswered, source, content, job, run, retry, cover, old, doomed>>

\* confirmCoverSuggestion copies an object of a revision's rows
SuggestionCopied(a, c, r) ==
  /\ content[r] # NoContent
  /\ Derived(r, content[r][1], content[r][2]) \in store
  /\ CoverWritten(a, c)

\* confirmCoverSuggestion's and replaceTitleCover's transaction
CoverRecorded(a) ==
  /\ newCover[a] # NoObject
  /\ cover' = newCover[a]
  /\ newCover' = [newCover EXCEPT ![a] = NoObject]
  /\ UNCHANGED <<publicationVars, ingestVars, old, doomed>>

CoverAbandoned(a) ==
  /\ newCover[a] # NoObject
  /\ newCover' = [newCover EXCEPT ![a] = NoObject]
  /\ UNCHANGED <<publicationVars, ingestVars, cover, old, doomed>>

-----------------------------------------------------------------------------
(* Cleanup *)

\* What a live writer has written and not yet recorded.
InHand ==
  {Staging(r, 0, Uploader) : r \in {q \in Revisions : rev[q].state = "uploading"}}
    \cup {Staging(retry[a].rev, retry[a].gen + 1, a) : a \in {b \in Admins : retry[b] # Idle}}
    \cup {Derived(RevOf(x), GenOf(x), x[2]) : x \in {y \in Runs : run[y] = "committing"}}
    \cup {newCover[a] : a \in Admins}

\* The retention passes for everything that is there.  It is counted in hours,
\* an upload or an ingestion in minutes: what is in hand stays young, and a
\* route that got no answer has deleted what it staged, or failed to.
RetentionPasses ==
  /\ unanswered = {}
  /\ old' = {o \in store \ InHand : o.class # "original"}
  /\ old' # old
  /\ UNCHANGED <<publicationVars, ingestVars, cover, newCover, doomed>>

ActiveJob(r, g) == job[<<r, g>>].status \in {"pending", "running"}

\* storage_cleanup_referenced_keys
StagingReferenced_byState(o) == \* mutant: the revision's jobs are not asked
  \E r \in Revisions : source[<<r, rev[r].gen>>] = o /\ rev[r].state \in {"uploaded", "processing"}
StagingReferenced(o) ==
  \E r \in Revisions :
    /\ source[<<r, rev[r].gen>>] = o
    /\ \/ rev[r].state \in {"uploaded", "processing"}
       \/ ActiveJob(r, rev[r].gen)

DerivedReferenced(o) ==
  \/ content[o.rev] = <<o.gen, o.of>>
  \/ rev[o.rev].state \in {"uploaded", "processing"} /\ rev[o.rev].gen = o.gen
  \/ ActiveJob(o.rev, o.gen)

Referenced(o) ==
  CASE o.class = "staging" -> StagingReferenced(o)
    [] o.class = "derived" -> DerivedReferenced(o)
    [] o.class = "cover" -> cover = o
    [] OTHER -> TRUE

Pages == {{"staging"}, {"derived", "cover"}}

Candidates(classes) == {o \in old : o.class \in classes /\ ~Referenced(o)}

CleanupLoadsPage(classes) ==
  /\ doomed = {}
  /\ doomed' = Candidates(classes)
  /\ doomed' # {}
  /\ UNCHANGED <<publicationVars, ingestVars, cover, newCover, old>>

CleanupDeletes(o) ==
  /\ store' = store \ {o}
  /\ old' = old \ {o}
  /\ doomed' = doomed \ {o}
  /\ UNCHANGED <<publicationVars, unanswered, source, content, job, run, retry, cover, newCover>>

CleanupStops ==
  /\ doomed # {}
  /\ doomed' = {}
  /\ UNCHANGED <<publicationVars, ingestVars, cover, newCover, old>>

-----------------------------------------------------------------------------
\* What is deleted has no age and no longer is anybody's candidate.
Keeps ==
  /\ UNCHANGED <<title, published, cover, newCover>>
  /\ old' = old \cap store'
  /\ doomed' = doomed \cap store'

IngestionStep ==
  \/ \E r \in Revisions : \/ UploadStreams(r) \/ AcceptRevisionUpload(r)
                             \/ UnansweredUploadDeletes(r) \/ UploadAbandoned(r)
  \/ \E j \in Jobs : ClaimJob(j[1], j[2]) \/ JobExpires(j[1], j[2])
  \/ \E x \in Runs : Handler(x) \/ WorkerDies(x)
  \/ \E a \in Admins : \/ \E r \in Revisions : RetryCopies(a, r)
                       \/ RetryFailedRevision(a)
                       \/ RetryStops(a)

Next ==
  \/ IngestionStep /\ Keeps
  \/ PublicationStep /\ UNCHANGED <<ingestVars, cover, newCover, old, doomed>>
  \/ \E a \in Admins : \/ \E c \in CoverKeys : \/ CoverWritten(a, c)
                                               \/ \E r \in Revisions : SuggestionCopied(a, c, r)
                       \/ CoverRecorded(a) \/ CoverAbandoned(a)
  \/ \E o \in doomed : CleanupDeletes(o)
  \/ \E classes \in Pages : CleanupLoadsPage(classes)
  \/ RetentionPasses \/ CleanupStops

Spec == Init /\ [][Next]_vars

\* Jobs are claimed again after a lost lease, and handlers that live go on.
Fairness ==
  /\ \A j \in Jobs : WF_vars((ClaimJob(j[1], j[2]) \/ JobExpires(j[1], j[2])) /\ Keeps)
  /\ \A x \in Runs : WF_vars(Handler(x) /\ Keeps)

FairSpec == Spec /\ Fairness

-----------------------------------------------------------------------------
(* Properties *)

\* What an administrator reviewed and a reader reads is there: a finished
\* revision was filled from its latest source, and its original, the objects
\* its rows name and the title's cover exist, whatever cleanups ran.
FinishedIsComplete ==
  /\ \A r \in Revisions : rev[r].state \in Final =>
       /\ content[r] # NoContent
       /\ content[r][1] = rev[r].gen
       /\ {Original(r), Derived(r, content[r][1], content[r][2])} \subseteq store
  /\ cover # NoObject => cover \in store

\* While the job of a revision's generation may still be claimed, its source
\* stays: no late execution, no retry and not even a cleanup that asked for
\* references earlier takes it. Only the upload route may, that never learned
\* that its transaction had committed, and only what that upload staged.
SourceKept ==
  [][\A r \in Revisions : LET s == source[<<r, rev[r].gen>>] IN
       ActiveJob(r, rev[r].gen) /\ rev[r].state \notin Final /\ s \in store
         => \/ s \in store'
            \/ /\ r \in unanswered /\ r \notin unanswered'
               /\ s = Staging(r, 0, Uploader)]_vars

\* Readers are shown complete revisions only, and what is complete is never
\* written again, by no late execution, retry or cleanup (CatalogPromise).
Shop == INSTANCE CatalogPromise WITH shown <- title.active
ShowsFinished == Shop!Promise

\* No upload is forgotten: its ingestion ends in review or in a recorded
\* failure, or its job has run out of attempts.
EveryUploadDecided ==
  \A r \in Revisions : rev[r].state \in {"uploaded", "processing"} ~>
    (rev[r].state \in Final \cup {"failed"} \/ job[<<r, rev[r].gen>>].status = "failed")
=============================================================================
