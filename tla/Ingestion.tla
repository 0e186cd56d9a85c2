------------------------------- MODULE Ingestion -------------------------------
(***************************************************************************)
(* From an uploaded file to a revision that can be reviewed: the upload    *)
(* route, the ingestion jobs of a revision's generations, the handler that *)
(* fills the revision (ingestion/handler.ts) and an administrator's retry  *)
(* (catalog/revisions.ts).                                                 *)
(*                                                                         *)
(* Objects are written before the row that names them and deleted after    *)
(* it; database and storage never change in one step.  A job whose lease   *)
(* is lost runs twice, so executions of one generation overlap, and those  *)
(* of an older generation overlap with an administrator's retry.           *)
(***************************************************************************)
EXTENDS Publication

CONSTANTS
  MaxGeneration, \* bound: retries of a revision, [Revisions -> Nat]
  MaxAttempts,   \* attempts of the job of a generation, [Jobs -> Nat \ {0}]
  MaxLive,       \* bound: executions of one revision's jobs at a time
  Admins         \* administrators that may retry

Generations(r) == 0 .. MaxGeneration[r]
Jobs == UNION {{r} \X Generations(r) : r \in Revisions}
Runs == UNION {{j} \X (1 .. MaxAttempts[j]) : j \in Jobs}

ASSUME BoundsAssumption ==
  /\ MaxGeneration \in [Revisions -> Nat]
  /\ MaxAttempts \in [Jobs -> Nat \ {0}]
  /\ MaxLive \in Nat

(***************************************************************************)
(* Storage keys.  A staging key is fresh for each upload and each retry;   *)
(* the retained original has one key per revision; the objects derived by  *)
(* an execution have keys of their own.                                    *)
(***************************************************************************)
Uploader == "uploader"
Staging(r, g, a) == [class |-> "staging", rev |-> r, gen |-> g, of |-> a]
Original(r) == [class |-> "original", rev |-> r, gen |-> 0, of |-> Uploader]
Derived(r, g, n) == [class |-> "derived", rev |-> r, gen |-> g, of |-> n]
NoObject == [class |-> "none"]
NoContent == <<>>
Idle == [pc |-> "idle"]

VARIABLES
  unanswered, \* revisions accepted in a transaction whose answer was lost
  source,   \* revision -> generation -> its staging object
  content,  \* revision -> the execution whose objects its rows name
  job,      \* revision, generation -> status and attempts of its job
  run,      \* execution -> how far its handler is
  retry,    \* administrator -> a retry between its copy and its transaction
  store     \* the objects in storage

ingestVars == <<unanswered, source, content, job, run, retry, store>>

Steps == {"none", "claimed", "copying", "ingesting", "committing", "deleting",
          "transient", "permanent"}
Working == {"claimed", "copying", "ingesting", "committing"}

IngestInit ==
  /\ unanswered = {}
  /\ source = [j \in Jobs |-> NoObject]
  /\ content = [r \in Revisions |-> NoContent]
  /\ job = [j \in Jobs |-> [status |-> "none", attempts |-> 0]]
  /\ run = [x \in Runs |-> "none"]
  /\ retry = [a \in Admins |-> Idle]
  /\ store = {}

RevOf(x) == x[1][1]
GenOf(x) == x[1][2]
SourceOf(x) == source[x[1]]

-----------------------------------------------------------------------------
(* The upload route *)

Enqueued(r, g) == job' = [job EXCEPT ![<<r, g>>].status = "pending"]

UploadStreams(r) ==
  /\ rev[r].state = "none"
  /\ rev' = [rev EXCEPT ![r].state = "uploading"]
  /\ store' = store \cup {Staging(r, 0, Uploader)}
  /\ UNCHANGED <<unanswered, source, content, job, run, retry>>

\* The transaction commits; its answer arrives or is lost.
AcceptRevisionUpload(r) ==
  /\ rev[r].state = "uploading"
  /\ rev' = [rev EXCEPT ![r].state = "uploaded"]
  /\ source' = [source EXCEPT ![<<r, 0>>] = Staging(r, 0, Uploader)]
  /\ Enqueued(r, 0)
  /\ unanswered' \in {unanswered, unanswered \cup {r}}
  /\ UNCHANGED <<content, run, retry, store>>

\* The route's catch, which knows of no revision: it deletes what it staged,
\* whatever the job has become meanwhile, unless that or the process fails.
UnansweredUploadDeletes(r) ==
  /\ r \in unanswered
  /\ unanswered' = unanswered \ {r}
  /\ store' \in {store, store \ {Staging(r, 0, Uploader)}}
  /\ UNCHANGED <<rev, source, content, job, run, retry>>

\* Not accepted: the route deletes the object, unless that or the process fails.
UploadAbandoned(r) ==
  /\ rev[r].state = "uploading"
  /\ rev' = [rev EXCEPT ![r].state = "abandoned"]
  /\ store' \in {store, store \ {Staging(r, 0, Uploader)}}
  /\ UNCHANGED <<unanswered, source, content, job, run, retry>>

-----------------------------------------------------------------------------
(***************************************************************************)
(* The job, as JobQueue has it: a pending job, or a running one whose      *)
(* lease was lost, is claimed for its next attempt; only the attempt that  *)
(* holds the job settles it; without attempts left it fails.               *)
(***************************************************************************)
AttemptsLeft(j) == job[j].attempts < MaxAttempts[j]

ClaimJob(r, g) ==
  LET n == job[<<r, g>>].attempts + 1 IN
  /\ job[<<r, g>>].status \in {"pending", "running"}
  /\ AttemptsLeft(<<r, g>>)
  /\ Cardinality({x \in Runs : RevOf(x) = r /\ run[x] # "none"}) < MaxLive
  /\ job' = [job EXCEPT ![<<r, g>>] = [status |-> "running", attempts |-> n]]
  /\ run' = [run EXCEPT ![<<<<r, g>>, n>>] = "claimed"]
  /\ UNCHANGED <<rev, unanswered, source, content, retry, store>>

JobExpires(r, g) ==
  /\ job[<<r, g>>] = [status |-> "running", attempts |-> MaxAttempts[<<r, g>>]]
  /\ job' = [job EXCEPT ![<<r, g>>].status = "failed"]
  /\ UNCHANGED <<rev, unanswered, source, content, run, retry, store>>

Settled(x, outcome) ==
  [job EXCEPT ![x[1]].status =
     IF outcome = "ok" THEN "succeeded"
     ELSE IF outcome = "fail" \/ x[2] = MaxAttempts[x[1]] THEN "failed" ELSE "pending"]

\* The execution ends and settles its job, unless it was overtaken or its
\* worker dies first; a settlement that comes late has one of these effects.
Ends(x, outcome) ==
  /\ run' = [run EXCEPT ![x] = "none"]
  /\ \/ UNCHANGED job
     \/ job[x[1]] = [status |-> "running", attempts |-> x[2]] /\ job' = Settled(x, outcome)

WorkerDies(x) ==
  /\ run[x] # "none"
  /\ run' = [run EXCEPT ![x] = "none"]
  /\ UNCHANGED <<rev, unanswered, source, content, job, retry, store>>

-----------------------------------------------------------------------------
(* The handler *)

Goes(x, pc) == run' = [run EXCEPT ![x] = pc] /\ UNCHANGED job

MayBegin_onlyUploaded(r, g) == rev[r].gen = g /\ rev[r].state = "uploaded" \* mutant: a crash leaves 'processing'
MayBegin(r, g) == rev[r].gen = g /\ rev[r].state \in Unfinished

\* beginProcessing; it may throw before it commits
BeginProcessing(x) ==
  LET r == RevOf(x) IN
  /\ run[x] = "claimed"
  /\ \/ /\ MayBegin(r, GenOf(x))
        /\ rev' = [rev EXCEPT ![r].state = "processing"]
        /\ Goes(x, "copying")
     \/ ~MayBegin(r, GenOf(x)) /\ Ends(x, "ok") /\ UNCHANGED rev
     \/ Ends(x, "retry") /\ UNCHANGED rev
  /\ UNCHANGED <<unanswered, source, content, retry, store>>

\* storage.copy to the retained key, then the hash of what was written
CopyOriginal(x) ==
  /\ run[x] = "copying"
  /\ \/ /\ SourceOf(x) \in store
        /\ store' = store \cup {Original(RevOf(x))}
        /\ Goes(x, "ingesting")
     \/ Goes(x, "transient") /\ UNCHANGED store
  /\ UNCHANGED <<rev, unanswered, source, content, retry>>

\* ingestEpub, ingestComic: derived objects, or a failure after some of them
Ingest(x) ==
  /\ run[x] = "ingesting"
  /\ \E pc \in {"committing", "transient", "permanent"} : Goes(x, pc)
  /\ store' = store \cup {Derived(RevOf(x), GenOf(x), x[2])}
  /\ UNCHANGED <<rev, unanswered, source, content, retry>>

MayCommit_anyState(r, g) == rev[r].gen = g \* mutant: a late execution replaces reviewed content
MayCommit_anyGeneration(r, g) == rev[r].state = "processing" \* mutant: an old generation commits
MayCommit(r, g) == rev[r].gen = g /\ rev[r].state = "processing"

\* commitIngestion; its answer may be lost, and it may roll back
CommitIngestion(x) ==
  LET r == RevOf(x) IN
  /\ run[x] = "committing"
  /\ \/ /\ MayCommit(r, GenOf(x))
        /\ content' = [content EXCEPT ![r] = <<GenOf(x), x[2]>>]
        /\ rev' = [rev EXCEPT ![r].state = "ready_for_review"]
        /\ \E pc \in {"deleting", "transient"} : Goes(x, pc)
     \/ ~MayCommit(r, GenOf(x)) /\ Ends(x, "ok") /\ UNCHANGED <<rev, content>>
     \/ Goes(x, "transient") /\ UNCHANGED <<rev, content>>
  /\ UNCHANGED <<unanswered, source, retry, store>>

\* best effort, after the commit
DeleteStaged(x) ==
  /\ run[x] = "deleting"
  /\ store' \in {store, store \ {SourceOf(x)}}
  /\ Ends(x, "ok")
  /\ UNCHANGED <<rev, unanswered, source, content, retry>>

\* markFailed
MarkedFailed(r, g) ==
  IF MayBegin(r, g) THEN [rev EXCEPT ![r].state = "failed"] ELSE rev

\* The handler's catch: a failure nothing will repair is recorded first, and
\* if that throws, its error is the one the queue sees.
HandleFailure(x) ==
  LET terminal == run[x] = "permanent" \/ x[2] = MaxAttempts[x[1]] IN
  /\ run[x] \in {"transient", "permanent"}
  /\ \/ /\ rev' = IF terminal THEN MarkedFailed(RevOf(x), GenOf(x)) ELSE rev
        /\ Ends(x, IF run[x] = "permanent" THEN "fail" ELSE "retry")
     \/ terminal /\ Ends(x, "retry") /\ UNCHANGED rev
  /\ UNCHANGED <<unanswered, source, content, retry, store>>

Handler(x) ==
  BeginProcessing(x) \/ CopyOriginal(x) \/ Ingest(x) \/ CommitIngestion(x)
    \/ DeleteStaged(x) \/ HandleFailure(x)

-----------------------------------------------------------------------------
(* An administrator's retry *)

\* Read the failed revision and copy its source to a fresh key, without a lock.
RetryCopies(a, r) ==
  LET g == rev[r].gen IN
  /\ retry[a] = Idle
  /\ rev[r].state = "failed"
  /\ g < MaxGeneration[r]
  /\ source[<<r, g>>] \in store
  /\ Staging(r, g + 1, a) \notin store     \* the key is fresh
  /\ store' = store \cup {Staging(r, g + 1, a)}
  /\ retry' = [retry EXCEPT ![a] = [pc |-> "copied", rev |-> r, gen |-> g]]
  /\ UNCHANGED <<rev, unanswered, source, content, job, run>>

\* the transaction's second look: failed still, with the same staging key
StillFailed(r, g) == rev[r].state = "failed" /\ rev[r].gen = g

RetryFailedRevision(a) ==
  LET r == retry[a].rev
      g == rev[r].gen
  IN /\ retry[a] # Idle
     /\ StillFailed(r, retry[a].gen)
     /\ rev' = [rev EXCEPT ![r] = [state |-> "uploaded", gen |-> g + 1]]
     /\ source' = [source EXCEPT ![<<r, g + 1>>] = Staging(r, retry[a].gen + 1, a)]
     /\ Enqueued(r, g + 1)
     /\ retry' = [retry EXCEPT ![a] = Idle]
     /\ UNCHANGED <<unanswered, content, run, store>>

\* revision_conflict, a failed transaction or a crash: the copy is an orphan
RetryStops(a) ==
  /\ retry[a] # Idle
  /\ retry' = [retry EXCEPT ![a] = Idle]
  /\ UNCHANGED <<rev, unanswered, source, content, job, run, store>>
=============================================================================
