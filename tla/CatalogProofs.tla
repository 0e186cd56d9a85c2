----------------------------- MODULE CatalogProofs -----------------------------
(***************************************************************************)
(* Catalog, proved for any revisions, retries, attempts, administrators    *)
(* and covers: a finished revision is complete, what a live job needs is   *)
(* kept, and readers are shown complete revisions only.                    *)
(*                                                                         *)
(* What is finished is safe from the cleanup because it is referenced when *)
(* a page is loaded, and because what becomes referenced later was in a    *)
(* writer's hand until then: the invariant says that nothing in hand is    *)
(* past its retention, and only that is ever doomed.                       *)
(***************************************************************************)
EXTENDS Catalog, PublicationProofs

-----------------------------------------------------------------------------
Early == {"none", "uploading", "abandoned"}

\* the object an execution derives, and the one the rows of r name
Made(x) == Derived(RevOf(x), GenOf(x), x[2])
Shelf(r) == Derived(r, content[r][1], content[r][2])

ContentHolds == content \in [Revisions -> {NoContent} \cup (Nat \X Nat)]
SourcesHold == \A j \in Jobs :
  source[j] = NoObject \/ \E a \in Admins \cup {Uploader} : source[j] = Staging(j[1], j[2], a)

\* The copy of a retry under way is young.
RetryHolds(a) == retry[a] # Idle =>
  /\ retry[a].gen + 1 \in Generations(retry[a].rev)
  /\ Staging(retry[a].rev, retry[a].gen + 1, a) \notin old
RetriesHold ==
  /\ retry \in [Admins -> {Idle} \cup [pc : {"copied"}, rev : Revisions, gen : Nat]]
  /\ \A a \in Admins : RetryHolds(a)

RevisionHolds(r) ==
  /\ rev[r].state \in Early => rev[r].gen = 0 /\ job[<<r, 0>>].status = "none"
  /\ rev[r].state = "none" => Staging(r, 0, Uploader) \notin store
  /\ rev[r].state = "uploading" => Staging(r, 0, Uploader) \notin old
  /\ content[r] # NoContent <=> rev[r].state \in Final
  /\ rev[r].state \in Final =>
       content[r][1] = rev[r].gen /\ Shelf(r) \in store \ doomed /\ Original(r) \in store
RevisionsHold == \A r \in Revisions : RevisionHolds(r)

\* An execution derives its object once, on an original that is there; until
\* it commits, the object is young.
RunHolds(x) ==
  /\ x[2] > job[x[1]].attempts => run[x] = "none" /\ Made(x) \notin store
  /\ run[x] \in {"claimed", "copying", "ingesting"} => Made(x) \notin store
  /\ run[x] = "committing" => Made(x) \in store \ old
  /\ run[x] \in {"ingesting", "committing"} => Original(RevOf(x)) \in store
  /\ run[x] = "deleting" => rev[RevOf(x)].state \in Final
RunsHold == \A x \in Runs : RunHolds(x)

CoversHold ==
  /\ cover # NoObject => cover \in store \ doomed
  /\ \A a \in Admins : newCover[a] # NoObject => newCover[a] \in store \ old

\* Only what is old is doomed, and nothing a live job needs.
CleanupHolds ==
  /\ doomed \subseteq old
  /\ \A o \in old : o.class # "original"
  /\ \A r \in Revisions : source[<<r, rev[r].gen>>] \in doomed => ~ActiveJob(r, rev[r].gen)

IInv ==
  /\ TypeOK /\ ActiveIsPublished
  /\ ContentHolds /\ SourcesHold /\ RetriesHold /\ RevisionsHold /\ RunsHold
  /\ CoversHold /\ CleanupHolds

-----------------------------------------------------------------------------
(* Jobs, executions and objects *)

\* A job is a revision and one of its generations.
LEMMA JobsAre ==
  /\ \A r \in Revisions, g \in Nat : <<r, g>> \in Jobs <=> g \in Generations(r)
  /\ \A j \in Jobs : j = <<j[1], j[2]>> /\ j[1] \in Revisions /\ j[2] \in Generations(j[1])
  /\ \A r \in Revisions : Generations(r) \subseteq Nat /\ 0 \in Generations(r)
<1>1. \A r \in Revisions : MaxGeneration[r] \in Nat
  BY BoundsAssumption
<1>2. \A r \in Revisions : Generations(r) \subseteq Nat /\ 0 \in Generations(r)
  BY <1>1 DEF Generations
<1>3. \A j : j \in Jobs <=> \E r \in Revisions : j \in {r} \X Generations(r)
  BY DEF Jobs
<1>4. \A j \in Jobs : j = <<j[1], j[2]>> /\ j[1] \in Revisions /\ j[2] \in Generations(j[1])
  BY <1>3
<1>5. \A r \in Revisions, g \in Nat : <<r, g>> \in Jobs <=> g \in Generations(r)
  BY <1>3
<1> QED
  BY <1>2, <1>4, <1>5

\* An execution is a job and one of its attempts.
LEMMA RunsAre ==
  /\ \A j \in Jobs, n \in Nat : <<j, n>> \in Runs <=> n \in 1 .. MaxAttempts[j]
  /\ \A x \in Runs : x = <<x[1], x[2]>> /\ x[1] \in Jobs /\ x[2] \in 1 .. MaxAttempts[x[1]]
  /\ \A j \in Jobs : MaxAttempts[j] \in Nat \ {0}
  /\ \A x \in Runs : x[1] = <<RevOf(x), GenOf(x)>> /\ RevOf(x) \in Revisions /\ x[2] \in Nat
<1>1. \A x : x \in Runs <=> \E j \in Jobs : x \in {j} \X (1 .. MaxAttempts[j])
  BY DEF Runs
<1>2. \A j \in Jobs : MaxAttempts[j] \in Nat \ {0}
  BY BoundsAssumption
<1>3. \A j \in Jobs, n \in Nat : <<j, n>> \in Runs <=> n \in 1 .. MaxAttempts[j]
  BY <1>1
<1>4. \A x \in Runs : x = <<x[1], x[2]>> /\ x[1] \in Jobs /\ x[2] \in 1 .. MaxAttempts[x[1]]
  BY <1>1
<1>5. \A x \in Runs : x[1] = <<RevOf(x), GenOf(x)>> /\ RevOf(x) \in Revisions /\ x[2] \in Nat
  BY <1>2, <1>4, JobsAre DEF RevOf, GenOf
<1> QED
  BY <1>2, <1>3, <1>4, <1>5

\* The parts of a key.
LEMMA KeysAre ==
  /\ \A r, g, a : Staging(r, g, a) = [class |-> "staging", rev |-> r, gen |-> g, of |-> a]
  /\ \A r, g, a : /\ Staging(r, g, a).class = "staging" /\ Staging(r, g, a).rev = r
                  /\ Staging(r, g, a).gen = g /\ Staging(r, g, a).of = a
  /\ \A r, g, n : /\ Derived(r, g, n).class = "derived" /\ Derived(r, g, n).rev = r
                  /\ Derived(r, g, n).gen = g /\ Derived(r, g, n).of = n
  /\ \A r : Original(r).class = "original" /\ Original(r).rev = r
  /\ \A c : Cover(c).class = "cover"
  /\ \A o \in Covers : o.class = "cover"
  /\ NoObject.class = "none"
BY DEF Staging, Derived, Original, Cover, Covers, NoObject

\* Executions derive objects of their own.
LEMMA MadeOnce == \A x, y \in Runs : Made(x) = Made(y) => x = y
BY KeysAre, RunsAre DEF Made

\* What is in storage is an object.
LEMMA ObjectsAre ==
  /\ NoObject \notin Objects
  /\ \A j \in Jobs, a \in Admins \cup {Uploader} : Staging(j[1], j[2], a) \in Objects
  /\ \A r \in Revisions : Original(r) \in Objects
  /\ \A x \in Runs : Made(x) \in Objects
  /\ Covers \subseteq Objects
<1> DEFINE Stagings(j) == {Staging(j[1], j[2], a) : a \in Admins \cup {Uploader}}
           Originals == {Original(r) : r \in Revisions}
           AllMade == {Derived(x[1][1], x[1][2], x[2]) : x \in Runs}
           Staged == UNION {{Staging(j[1], j[2], a) : a \in Admins \cup {Uploader}} : j \in Jobs}
<1>1. Objects = Staged \cup Originals \cup AllMade \cup Covers
  BY DEF Objects
<1>2. \A o : o \in Staged <=> \E j \in Jobs : o \in Stagings(j)
  OBVIOUS
<1>3. \A x \in Runs : Made(x) \in AllMade
  BY DEF Made, RevOf, GenOf
<1>4. \A o \in AllMade : o.class = "derived"
  <2> SUFFICES ASSUME NEW x \in Runs PROVE Derived(x[1][1], x[1][2], x[2]).class = "derived"
    OBVIOUS
  <2> QED
    BY KeysAre
<1>5. \A j \in Jobs : \A o \in Stagings(j) : o.class = "staging"
  BY KeysAre
<1> HIDE DEF Staged, AllMade
<1>6. \A j \in Jobs, a \in Admins \cup {Uploader} : Staging(j[1], j[2], a) \in Staged
  BY <1>2
<1>7. \A o \in Objects : o.class \in {"staging", "original", "derived", "cover"}
  BY <1>1, <1>2, <1>4, <1>5, KeysAre
<1> QED
  BY <1>1, <1>3, <1>6, <1>7, KeysAre

\* Content is there or it is not.
LEMMA SomeContent == \A g, n : <<g, n>> # NoContent
BY DEF NoContent

\* Initially there is nothing.
LEMMA InitHolds == Init => IInv
<1> SUFFICES ASSUME Init PROVE IInv
  OBVIOUS
<1> USE DEF Init, IngestInit
<1>1. PublicationTypeOK /\ ActiveIsPublished
  BY PublicationInitHolds DEF RevisionState
<1>2. \A r \in Revisions : rev[r].state = "none" /\ rev[r].gen = 0 /\ content[r] = NoContent
  BY DEF PublicationInit
<1>3. \A j \in Jobs : job[j].status = "none" /\ job[j].attempts = 0 /\ source[j] = NoObject
  OBVIOUS
<1>4. TypeOK
  BY <1>1, <1>2, <1>3, JobsAre, RunsAre DEF TypeOK, Steps
<1>5. ContentHolds /\ SourcesHold /\ RetriesHold
  BY <1>3 DEF ContentHolds, SourcesHold, RetriesHold, RetryHolds
<1>6. RevisionsHold
  BY <1>2, <1>3, JobsAre DEF RevisionsHold, RevisionHolds, Final
<1>7. RunsHold
  BY DEF RunsHold, RunHolds
<1>8. CoversHold /\ CleanupHolds
  BY DEF CoversHold, CleanupHolds
<1> QED
  BY <1>1, <1>4, <1>5, <1>6, <1>7, <1>8 DEF IInv

-----------------------------------------------------------------------------
(***************************************************************************)
(* Quiet steps: jobs and executions go on, unfinished revisions stay so,   *)
(* and nothing is stored.                                                  *)
(***************************************************************************)
JobType == [status : {"none", "pending", "running", "succeeded", "failed"}, attempts : Nat]
Live == {"pending", "running"}

RevisionsMove ==
  /\ rev' \in [Revisions -> [state : RevisionState, gen : Nat]]
  /\ \A r \in Revisions :
       /\ rev'[r].gen = rev[r].gen
       /\ rev'[r].state = rev[r].state \/ {rev'[r].state, rev[r].state} \subseteq Unfinished

\* Attempts are used up, and a job that is not live does not become so.
JobsMove ==
  /\ job' \in [Jobs -> JobType]
  /\ \A j \in Jobs :
       /\ job[j].attempts <= job'[j].attempts /\ job'[j].attempts <= MaxAttempts[j]
       /\ job'[j].status \in Live => job[j].status \in Live
       /\ job[j].status = "none" => job'[j].status = "none"

\* A handler ends or fails, begins, or is started with the job's next attempt.
MovesOn(x) ==
  \/ run'[x] = run[x]
  \/ run[x] # "none" /\ run'[x] \in {"none", "transient", "permanent"}
  \/ run[x] = "claimed" /\ run'[x] = "copying"
  \/ /\ run'[x] = "claimed"
     /\ x[2] = job[x[1]].attempts + 1 /\ x[2] = job'[x[1]].attempts
RunsMove == run' \in [Runs -> Steps] /\ \A x \in Runs : MovesOn(x)

\* Staging objects may go.
StoreShrinks == store' \subseteq store /\ \A o \in store : o.class # "staging" => o \in store'

Quiet ==
  /\ Keeps /\ UNCHANGED <<source, content, retry>>
  /\ unanswered' \subseteq unanswered
  /\ RevisionsMove /\ JobsMove /\ RunsMove /\ StoreShrinks

\* A quiet step keeps the invariant.
LEMMA QuietHolds ==
  ASSUME IInv, Quiet
  PROVE  IInv'
<1>1. TypeOK
  BY DEF IInv
<1>2. UNCHANGED <<title, published, cover, newCover, source, content, retry>>
  BY DEF Quiet, Keeps
<1>3. /\ old' \subseteq old /\ old' \subseteq store' /\ doomed' \subseteq doomed
      /\ store' \subseteq store /\ doomed' \subseteq store'
  BY DEF Quiet, Keeps, StoreShrinks
<1>4. RevisionsMove
  BY DEF Quiet
<1>5. \A r \in Revisions :
        /\ rev'[r].gen = rev[r].gen
        /\ rev'[r].state \in Final <=> rev[r].state \in Final
        /\ rev'[r].state \in Early \cup Final \/ rev[r].state \in Early \cup Final
             => rev'[r].state = rev[r].state
  BY <1>4 DEF RevisionsMove, Final, Early, Unfinished
<1>6. TypeOK'
  <2>1. PublicationTypeOK'
    BY <1>1, <1>2, <1>4 DEF TypeOK, PublicationTypeOK, RevisionsMove
  <2>2. store' \subseteq Objects
    BY <1>1, <1>3 DEF TypeOK
  <2>3. JobsMove /\ RunsMove
    BY DEF Quiet
  <2>4. unanswered' \subseteq Revisions
    BY <1>1 DEF Quiet, TypeOK
  <2>5. QED
    BY <1>1, <1>2, <1>3, <1>5, <2>1, <2>2, <2>3, <2>4 DEF TypeOK, JobsMove, RunsMove, JobType
<1>7. ActiveIsPublished'
  BY <1>2, <1>5 DEF IInv, ActiveIsPublished, Final
<1>8. ContentHolds' /\ SourcesHold'
  BY <1>2 DEF IInv, ContentHolds, SourcesHold
<1>9. RetriesHold'
  BY <1>2, <1>3 DEF IInv, RetriesHold, RetryHolds
<1>10. CoversHold'
  <2>1. \A o \in Covers : o \in store => o \in store'
    BY <1>1, KeysAre DEF TypeOK, Quiet, StoreShrinks
  <2>2. QED
    BY <1>1, <1>2, <1>3, <2>1 DEF IInv, CoversHold, TypeOK
<1>11. RevisionsHold'
  <2> SUFFICES ASSUME NEW r \in Revisions PROVE RevisionHolds(r)'
    BY DEF RevisionsHold
  <2>1. RevisionHolds(r)
    BY DEF IInv, RevisionsHold
  <2>2. <<r, 0>> \in Jobs
    BY JobsAre
  <2>3. job[<<r, 0>>].status = "none" => job'[<<r, 0>>].status = "none"
    BY <2>2 DEF Quiet, JobsMove
  <2>4. Shelf(r)' = Shelf(r)
    BY <1>2 DEF Shelf
  <2>5. /\ Original(r) \in store => Original(r) \in store'
        /\ Shelf(r) \in store => Shelf(r) \in store'
    BY KeysAre DEF Quiet, StoreShrinks, Shelf
  <2>6. QED
    BY <1>2, <1>3, <1>5, <2>1, <2>3, <2>4, <2>5 DEF RevisionHolds, Early, Final
<1>12. RunsHold'
  <2> SUFFICES ASSUME NEW x \in Runs PROVE RunHolds(x)'
    BY DEF RunsHold
  <2>1. RunHolds(x)
    BY DEF IInv, RunsHold
  <2>2. /\ x[1] \in Jobs /\ x[2] \in Nat /\ RevOf(x) \in Revisions
    BY RunsAre
  <2>3. /\ job[x[1]].attempts \in Nat /\ job'[x[1]].attempts \in Nat
        /\ job[x[1]].attempts <= job'[x[1]].attempts
    BY <1>1, <2>2 DEF TypeOK, Quiet, JobsMove, JobType
  <2>4. MovesOn(x)
    BY DEF Quiet, RunsMove
  <2>5. /\ Original(RevOf(x)) \in store => Original(RevOf(x)) \in store'
        /\ Made(x) \in store => Made(x) \in store'
    BY KeysAre DEF Quiet, StoreShrinks, Made
  <2>6. QED
    BY <1>3, <1>5, <2>1, <2>2, <2>3, <2>4, <2>5 DEF RunHolds, MovesOn
<1>13. CleanupHolds'
  <2>1. doomed' \subseteq old'
    BY DEF IInv, CleanupHolds, Quiet, Keeps
  <2>2. ASSUME NEW r \in Revisions, source'[<<r, rev'[r].gen>>] \in doomed'
        PROVE  ~ActiveJob(r, rev[r].gen)'
    <3>1. <<r, rev[r].gen>> \in Jobs
      BY <1>1, JobsAre DEF TypeOK
    <3>2. ~ActiveJob(r, rev[r].gen)
      BY <1>2, <1>3, <1>5, <2>2 DEF IInv, CleanupHolds
    <3>3. QED
      BY <1>5, <3>1, <3>2 DEF Quiet, JobsMove, ActiveJob, Live
  <2>3. QED
    BY <1>3, <1>5, <2>1, <2>2 DEF IInv, CleanupHolds
<1> QED
  BY <1>6, <1>7, <1>8, <1>9, <1>10, <1>11, <1>12, <1>13 DEF IInv

\* One revision goes to another state.
LEMMA StateGoes ==
  ASSUME TypeOK, NEW r \in Revisions, NEW state \in RevisionState,
         rev' = [rev EXCEPT ![r].state = state]
  PROVE  /\ rev' \in [Revisions -> [state : RevisionState, gen : Nat]]
         /\ rev'[r].state = state /\ \A q \in Revisions : rev'[q].gen = rev[q].gen
         /\ \A q \in Revisions \ {r} : rev'[q] = rev[q]
<1>1. \A q \in Revisions : rev[q] \in [state : RevisionState, gen : Nat]
  BY DEF TypeOK, PublicationTypeOK
<1>2. rev'[r] = [rev[r] EXCEPT !.state = state] /\ \A q \in Revisions \ {r} : rev'[q] = rev[q]
  BY DEF TypeOK, PublicationTypeOK
<1>3. [rev[r] EXCEPT !.state = state] = [state |-> state, gen |-> rev[r].gen]
  BY <1>1
<1>4. \A q \in Revisions : rev'[q] \in [state : RevisionState, gen : Nat]
  BY <1>1, <1>2, <1>3
<1>5. rev' \in [Revisions -> [state : RevisionState, gen : Nat]]
  BY <1>4 DEF TypeOK, PublicationTypeOK
<1> QED
  BY <1>2, <1>3, <1>5

\* The state of one unfinished revision changes.
LEMMA RevisionMoves ==
  ASSUME TypeOK, NEW r \in Revisions, NEW state \in Unfinished, rev[r].state \in Unfinished,
         rev' = [rev EXCEPT ![r].state = state]
  PROVE  RevisionsMove
<1>1. state \in RevisionState
  BY DEF RevisionState, Unfinished
<1>2. /\ rev' \in [Revisions -> [state : RevisionState, gen : Nat]]
      /\ rev'[r].state = state /\ \A q \in Revisions : rev'[q].gen = rev[q].gen
      /\ \A q \in Revisions \ {r} : rev'[q] = rev[q]
  BY <1>1, StateGoes
<1> QED
  BY <1>2 DEF RevisionsMove

\* One job goes to another status.
LEMMA StatusGoes ==
  ASSUME TypeOK, NEW j \in Jobs, NEW s \in {"succeeded", "failed", "pending", "running"},
         job' = [job EXCEPT ![j].status = s]
  PROVE  /\ job' \in [Jobs -> JobType]
         /\ \A i \in Jobs : job'[i].attempts = job[i].attempts
         /\ \A i \in Jobs \ {j} : job'[i] = job[i]
<1>1. \A i \in Jobs : job[i] \in JobType
  BY DEF TypeOK, JobType
<1>2. job'[j] = [job[j] EXCEPT !.status = s] /\ \A i \in Jobs \ {j} : job'[i] = job[i]
  BY DEF TypeOK
<1>3. [job[j] EXCEPT !.status = s] = [status |-> s, attempts |-> job[j].attempts]
  BY <1>1 DEF JobType
<1>4. \A i \in Jobs : job'[i] \in JobType
  BY <1>1, <1>2, <1>3 DEF JobType
<1>5. job' \in [Jobs -> JobType]
  BY <1>4 DEF TypeOK
<1> QED
  BY <1>2, <1>3, <1>5

\* Nothing but the status of one live job changes.
LEMMA StatusMoves ==
  ASSUME TypeOK, NEW j \in Jobs, NEW s \in {"succeeded", "failed", "pending", "running"},
         job[j].status \in Live, job' = [job EXCEPT ![j].status = s]
  PROVE  JobsMove
<1>1. \A i \in Jobs : job[i].attempts \in Nat /\ job[i].attempts <= MaxAttempts[i]
  BY DEF TypeOK
<1>2. /\ job' \in [Jobs -> JobType]
      /\ \A i \in Jobs : job'[i].attempts = job[i].attempts
      /\ \A i \in Jobs \ {j} : job'[i] = job[i]
  BY StatusGoes
<1> QED
  BY <1>1, <1>2 DEF JobsMove, Live

\* The job that is settled leaves running.
LEMMA SettledIs ==
  ASSUME TypeOK, NEW x \in Runs, NEW outcome
  PROVE  \E s \in {"succeeded", "failed", "pending"} :
           Settled(x, outcome) = [job EXCEPT ![x[1]].status = s]
<1> DEFINE status == IF outcome = "ok" THEN "succeeded"
                     ELSE IF outcome = "fail" \/ x[2] = MaxAttempts[x[1]] THEN "failed"
                     ELSE "pending"
<1>1. Settled(x, outcome) = [job EXCEPT ![x[1]].status = status]
  BY DEF Settled
<1>2. status \in {"succeeded", "failed", "pending"}
  OBVIOUS
<1> HIDE DEF status
<1> QED
  BY <1>1, <1>2

\* Nothing changes in the jobs.
LEMMA NoJobMoves ==
  ASSUME TypeOK, UNCHANGED job
  PROVE  JobsMove
<1>1. \A i \in Jobs : job[i].attempts \in Nat
  BY DEF TypeOK
<1> QED
  BY <1>1 DEF TypeOK, JobType, JobsMove

\* An execution that ends, settling its job or not.
LEMMA EndsMove ==
  ASSUME TypeOK, NEW x \in Runs, NEW outcome, run[x] # "none", Ends(x, outcome)
  PROVE  JobsMove /\ RunsMove
<1>1. x[1] \in Jobs
  BY RunsAre
<1>2. RunsMove
  BY DEF Ends, RunsMove, MovesOn, TypeOK, Steps
<1>3. CASE UNCHANGED job
  BY <1>2, <1>3, NoJobMoves
<1>4. CASE job[x[1]] = [status |-> "running", attempts |-> x[2]] /\ job' = Settled(x, outcome)
  <2>1. PICK s \in {"succeeded", "failed", "pending"} : job' = [job EXCEPT ![x[1]].status = s]
    BY <1>4, SettledIs
  <2>2. job[x[1]].status \in Live
    BY <1>4 DEF Live
  <2>3. QED
    BY <1>1, <1>2, <2>1, <2>2, StatusMoves
<1> QED
  BY <1>2, <1>3, <1>4 DEF Ends

\* An execution that begins or fails.
LEMMA GoesMoves ==
  ASSUME TypeOK, NEW x \in Runs, NEW pc \in {"copying", "transient", "permanent"}, Goes(x, pc),
         run[x] # "none", pc = "copying" => run[x] = "claimed"
  PROVE  JobsMove /\ RunsMove
<1>1. RunsMove
  BY DEF Goes, RunsMove, MovesOn, TypeOK, Steps
<1> QED
  BY <1>1, NoJobMoves DEF Goes

\* Nothing changes in the revisions.
LEMMA NoRevisionMoves ==
  ASSUME TypeOK, UNCHANGED rev
  PROVE  RevisionsMove
BY DEF TypeOK, PublicationTypeOK, RevisionsMove

\* A job is claimed for its next attempt.
LEMMA ClaimJobIsQuiet ==
  ASSUME IInv, NEW j \in Jobs, ClaimJob(j[1], j[2]), Keeps
  PROVE  Quiet
<1> DEFINE n == job[j].attempts + 1
<1>1. TypeOK
  BY DEF IInv
<1>2. j = <<j[1], j[2]>>
  BY JobsAre
<1>3. /\ job[j].status \in Live /\ job[j].attempts < MaxAttempts[j]
      /\ job' = [job EXCEPT ![j] = [status |-> "running", attempts |-> n]]
      /\ run' = [run EXCEPT ![<<j, n>>] = "claimed"]
      /\ UNCHANGED <<rev, unanswered, source, content, retry, store>>
  BY <1>2 DEF ClaimJob, AttemptsLeft, Live
<1>4. job[j].attempts \in Nat /\ MaxAttempts[j] \in Nat
  BY <1>1, RunsAre DEF TypeOK
<1>5. JobsMove
  <2>1. \A i \in Jobs : job[i] \in JobType /\ job[i].attempts \in Nat /\ job[i].attempts <= MaxAttempts[i]
    BY <1>1 DEF TypeOK, JobType
  <2>2. \A i \in Jobs : job'[i] = IF i = j THEN [status |-> "running", attempts |-> n] ELSE job[i]
    BY <1>1, <1>3 DEF TypeOK
  <2>3. job' \in [Jobs -> JobType]
    BY <1>1, <1>3, <1>4 DEF TypeOK, JobType
  <2>4. QED
    BY <1>3, <1>4, <2>1, <2>2, <2>3 DEF JobsMove, JobType, Live
<1>6. <<j, n>> \in Runs
  BY <1>3, <1>4, RunsAre
<1>7. RunsMove
  <2>1. run' \in [Runs -> Steps]
    BY <1>1, <1>3 DEF TypeOK, Steps
  <2>2. job'[j].attempts = n
    BY <1>1, <1>3 DEF TypeOK
  <2>3. ASSUME NEW x \in Runs PROVE MovesOn(x)
    BY <1>1, <1>3, <1>6, <2>2 DEF TypeOK, MovesOn
  <2>4. QED
    BY <2>1, <2>3 DEF RunsMove
<1> QED
  BY <1>1, <1>3, <1>5, <1>7, NoRevisionMoves DEF Quiet, StoreShrinks

\* A job without attempts left fails, or a worker dies.
LEMMA LossIsQuiet ==
  ASSUME IInv, Keeps,
         \/ \E j \in Jobs : JobExpires(j[1], j[2])
         \/ \E x \in Runs : WorkerDies(x)
  PROVE  Quiet
<1>1. TypeOK
  BY DEF IInv
<1>2. ASSUME NEW j \in Jobs, JobExpires(j[1], j[2])
      PROVE  Quiet
  <2>1. j = <<j[1], j[2]>>
    BY JobsAre
  <2>2. /\ job[j].status \in Live /\ job' = [job EXCEPT ![j].status = "failed"]
        /\ UNCHANGED <<rev, unanswered, source, content, run, retry, store>>
    <3>1. job[j] = [status |-> "running", attempts |-> MaxAttempts[j]]
      BY <1>2, <2>1 DEF JobExpires
    <3>2. job[j].status = "running"
      BY <3>1
    <3>3. QED
      BY <1>2, <2>1, <3>2 DEF JobExpires, Live
  <2>3. RunsMove
    BY <1>1, <2>2 DEF RunsMove, MovesOn, TypeOK
  <2>4. QED
    BY <1>1, <2>2, <2>3, StatusMoves, NoRevisionMoves DEF Quiet, StoreShrinks
<1>3. ASSUME NEW x \in Runs, WorkerDies(x)
      PROVE  Quiet
  <2>1. /\ run[x] # "none" /\ run' = [run EXCEPT ![x] = "none"]
        /\ UNCHANGED <<rev, unanswered, source, content, job, retry, store>>
    BY <1>3 DEF WorkerDies
  <2>2. RunsMove
    BY <1>1, <2>1 DEF RunsMove, MovesOn, TypeOK, Steps
  <2>3. QED
    BY <1>1, <2>1, <2>2, NoJobMoves, NoRevisionMoves DEF Quiet, StoreShrinks
<1> QED
  BY <1>2, <1>3

\* The handler begins.
LEMMA BeginIsQuiet ==
  ASSUME IInv, NEW x \in Runs, BeginProcessing(x), Keeps
  PROVE  Quiet
<1>1. TypeOK /\ RevOf(x) \in Revisions
  BY RunsAre DEF IInv
<1>2. run[x] = "claimed" /\ UNCHANGED <<unanswered, source, content, retry, store>>
  BY DEF BeginProcessing
<1>3. CASE /\ MayBegin(RevOf(x), GenOf(x)) /\ Goes(x, "copying")
           /\ rev' = [rev EXCEPT ![RevOf(x)].state = "processing"]
  BY <1>1, <1>2, <1>3, RevisionMoves, GoesMoves DEF MayBegin, Unfinished, Quiet, StoreShrinks
<1>4. CASE UNCHANGED rev /\ \E outcome \in {"ok", "retry"} : Ends(x, outcome)
  BY <1>1, <1>2, <1>4, NoRevisionMoves, EndsMove DEF Quiet, StoreShrinks
<1> QED
  BY <1>3, <1>4 DEF BeginProcessing

\* The handler fails to copy or to commit.
LEMMA GivingUpIsQuiet ==
  ASSUME IInv, NEW x \in Runs, Goes(x, "transient"), run[x] # "none",
         UNCHANGED <<rev, unanswered, source, content, retry, store>>, Keeps
  PROVE  Quiet
BY GoesMoves, NoRevisionMoves DEF IInv, Quiet, StoreShrinks

\* The handler ends without a change, but for the staging object it may delete.
LEMMA EndIsQuiet ==
  ASSUME IInv, NEW x \in Runs, Ends(x, "ok"), run[x] # "none",
         UNCHANGED <<rev, unanswered, source, content, retry>>, store' \in {store, store \ {SourceOf(x)}},
         Keeps
  PROVE  Quiet
<1>1. TypeOK /\ x[1] \in Jobs
  BY RunsAre DEF IInv
<1>2. SourceOf(x) = NoObject \/ SourceOf(x).class = "staging"
  BY <1>1, KeysAre DEF IInv, SourcesHold, SourceOf
<1>3. NoObject \notin store
  BY <1>1, ObjectsAre DEF TypeOK
<1>4. StoreShrinks
  BY <1>2, <1>3 DEF StoreShrinks
<1> QED
  BY <1>1, <1>4, NoRevisionMoves, EndsMove DEF Quiet

\* The handler's failure is recorded, or not.
LEMMA FailureIsQuiet ==
  ASSUME IInv, NEW x \in Runs, HandleFailure(x), Keeps
  PROVE  Quiet
<1>1. TypeOK /\ RevOf(x) \in Revisions
  BY RunsAre DEF IInv
<1>2. run[x] # "none" /\ UNCHANGED <<unanswered, source, content, retry, store>>
  BY DEF HandleFailure
<1>3. \E outcome \in {"fail", "retry"} : Ends(x, outcome)
  BY DEF HandleFailure
<1>4. RevisionsMove
  <2>1. CASE UNCHANGED rev
    BY <1>1, <2>1, NoRevisionMoves
  <2>2. CASE MayBegin(RevOf(x), GenOf(x)) /\ rev' = [rev EXCEPT ![RevOf(x)].state = "failed"]
    BY <1>1, <2>2, RevisionMoves DEF MayBegin, Unfinished
  <2>3. QED
    BY <2>1, <2>2 DEF HandleFailure, MarkedFailed
<1> QED
  BY <1>1, <1>2, <1>3, <1>4, EndsMove DEF Quiet, StoreShrinks

-----------------------------------------------------------------------------
(***************************************************************************)
(* What a step leaves alone, one lemma for each part of the invariant.     *)
(***************************************************************************)
\* Nothing but staging objects goes.
OnlyStagedGoes == \A o \in store : o.class # "staging" => o \in store'

\* What stays of the cleanup and the title when a step keeps them.
LEMMA KeepsLess ==
  ASSUME TypeOK, Keeps
  PROVE  /\ old' = old \cap store' /\ doomed' = doomed \cap store'
         /\ old' \subseteq old /\ doomed' \subseteq doomed
         /\ old' \subseteq store' /\ doomed' \subseteq store'
         /\ UNCHANGED <<title, published, cover, newCover>>
BY DEF Keeps

\* The revision shown stays the same.
LEMMA ActiveStays ==
  ASSUME ActiveIsPublished, UNCHANGED <<title, published>>,
         \A r \in Revisions : rev'[r].state = "active" <=> rev[r].state = "active"
  PROVE  ActiveIsPublished'
BY DEF ActiveIsPublished

\* Covers stay.
LEMMA CoversStay ==
  ASSUME IInv, UNCHANGED <<cover, newCover>>, OnlyStagedGoes,
         old' \subseteq old, doomed' \subseteq doomed
  PROVE  CoversHold'
<1>1. \A o \in Covers : o \in store => o \in store'
  BY KeysAre DEF OnlyStagedGoes
<1> QED
  BY <1>1 DEF IInv, TypeOK, CoversHold

\* Retries stay.
LEMMA RetriesStay ==
  ASSUME RetriesHold, UNCHANGED retry, old' \subseteq old
  PROVE  RetriesHold'
BY DEF RetriesHold, RetryHolds

\* Revision r stays.
LEMMA RevisionStays ==
  ASSUME NEW r \in Revisions, RevisionHolds(r), OnlyStagedGoes,
         rev'[r] = rev[r], content'[r] = content[r],
         rev[r].state \in Early => job'[<<r, 0>>] = job[<<r, 0>>],
         Staging(r, 0, Uploader) \in store' => Staging(r, 0, Uploader) \in store,
         old' \subseteq old, doomed' \subseteq doomed
  PROVE  RevisionHolds(r)'
<1>1. Shelf(r)' = Shelf(r)
  BY DEF Shelf
<1>2. Shelf(r) \in store => Shelf(r) \in store'
  BY KeysAre DEF Shelf, OnlyStagedGoes
<1>3. Original(r) \in store => Original(r) \in store'
  BY KeysAre DEF OnlyStagedGoes
<1> QED
  BY <1>1, <1>2, <1>3 DEF RevisionHolds

\* Execution x stays.
LEMMA RunStays ==
  ASSUME NEW x \in Runs, RunHolds(x), OnlyStagedGoes,
         run'[x] = run[x], job'[x[1]].attempts = job[x[1]].attempts,
         rev[RevOf(x)].state \in Final => rev'[RevOf(x)].state \in Final,
         Made(x) \in store' => Made(x) \in store,
         old' \subseteq old
  PROVE  RunHolds(x)'
<1>1. Made(x) \in store => Made(x) \in store'
  BY KeysAre DEF Made, OnlyStagedGoes
<1>2. Original(RevOf(x)) \in store => Original(RevOf(x)) \in store'
  BY KeysAre DEF OnlyStagedGoes
<1> QED
  BY <1>1, <1>2 DEF RunHolds

\* The candidates of the cleanup stay so, but for a source that may be new.
LEMMA CleanupStays ==
  ASSUME CleanupHolds, doomed' \subseteq old', old' \subseteq old, doomed' \subseteq doomed,
         \A r \in Revisions :
           \/ source'[<<r, rev'[r].gen>>] \notin old
           \/ /\ rev'[r].gen = rev[r].gen
              /\ source'[<<r, rev[r].gen>>] = source[<<r, rev[r].gen>>]
              /\ ActiveJob(r, rev[r].gen)' => ActiveJob(r, rev[r].gen)
  PROVE  CleanupHolds'
BY DEF CleanupHolds, ActiveJob

\* Nothing changes in the jobs and sources, and no revision goes to another
\* generation.
LEMMA CleanupStaysQuiet ==
  ASSUME CleanupHolds, doomed' \subseteq old', old' \subseteq old, doomed' \subseteq doomed,
         UNCHANGED <<source, job>>, \A r \in Revisions : rev'[r].gen = rev[r].gen
  PROVE  CleanupHolds'
BY DEF CleanupHolds, ActiveJob

-----------------------------------------------------------------------------
(* The upload route *)

\* An upload starts, is accepted or is abandoned: the revision has no content
\* yet, and no execution.
LEMMA UploadStreamsHolds ==
  ASSUME IInv, NEW r \in Revisions, UploadStreams(r), Keeps
  PROVE  IInv'
<1> DEFINE s == Staging(r, 0, Uploader)
<1>1. TypeOK
  BY DEF IInv
<1>2. /\ rev[r].state = "none" /\ rev' = [rev EXCEPT ![r].state = "uploading"]
      /\ store' = store \cup {s} /\ UNCHANGED <<unanswered, source, content, job, run, retry>>
  BY DEF UploadStreams
<1>3. /\ rev' \in [Revisions -> [state : RevisionState, gen : Nat]]
      /\ rev'[r].state = "uploading" /\ \A q \in Revisions : rev'[q].gen = rev[q].gen
      /\ \A q \in Revisions \ {r} : rev'[q] = rev[q]
  BY <1>1, <1>2, StateGoes DEF RevisionState
<1>4. OnlyStagedGoes /\ s.class = "staging" /\ s.rev = r /\ s \in Objects
  <2>1. s \in Objects
    BY JobsAre, ObjectsAre
  <2>2. QED
    BY <1>2, <2>1, KeysAre DEF OnlyStagedGoes
<1>5. RevisionHolds(r)
  BY DEF IInv, RevisionsHold
<1>6. s \notin store /\ s \notin old
  BY <1>1, <1>2, <1>5 DEF RevisionHolds, TypeOK
<1>7. TypeOK'
  BY <1>1, <1>2, <1>3, <1>4, KeepsLess DEF TypeOK, PublicationTypeOK
<1>8. ActiveIsPublished' /\ ContentHolds' /\ SourcesHold' /\ RetriesHold' /\ CoversHold'
  BY <1>1, <1>2, <1>3, <1>4, KeepsLess, ActiveStays, RetriesStay, CoversStay
     DEF IInv, ContentHolds, SourcesHold
<1>9. CleanupHolds'
  BY <1>1, <1>2, <1>3, KeepsLess, CleanupStaysQuiet DEF IInv, CleanupHolds
<1>10. RevisionsHold'
  <2>1. RevisionHolds(r)'
    BY <1>1, <1>2, <1>3, <1>5, <1>6, KeepsLess DEF RevisionHolds, Early, Final
  <2>2. ASSUME NEW q \in Revisions \ {r} PROVE RevisionHolds(q)'
    <3>1. Staging(q, 0, Uploader) # s
      BY <1>4, KeysAre
    <3>2. QED
      BY <1>1, <1>2, <1>3, <1>4, <3>1, KeepsLess, RevisionStays DEF IInv, RevisionsHold
  <2>3. QED
    BY <2>1, <2>2 DEF RevisionsHold
<1>11. RunsHold'
  <2> SUFFICES ASSUME NEW x \in Runs PROVE RunHolds(x)'
    BY DEF RunsHold
  <2>1. Made(x) # s
    BY <1>4, KeysAre DEF Made
  <2>2. QED
    BY <1>1, <1>2, <1>3, <1>4, <2>1, RunsAre, KeepsLess, RunStays DEF IInv, RunsHold, Final
<1> QED
  BY <1>7, <1>8, <1>9, <1>10, <1>11 DEF IInv

\* The upload is accepted: its revision has the staged object as its source.
LEMMA AcceptHolds ==
  ASSUME IInv, NEW r \in Revisions, AcceptRevisionUpload(r), Keeps
  PROVE  IInv'
<1> DEFINE s == Staging(r, 0, Uploader)
<1>1. TypeOK
  BY DEF IInv
<1>2. /\ rev[r].state = "uploading" /\ rev' = [rev EXCEPT ![r].state = "uploaded"]
      /\ source' = [source EXCEPT ![<<r, 0>>] = s] /\ Enqueued(r, 0)
      /\ unanswered' \in {unanswered, unanswered \cup {r}}
      /\ UNCHANGED <<content, run, retry, store>>
  BY DEF AcceptRevisionUpload
<1>3. /\ rev' \in [Revisions -> [state : RevisionState, gen : Nat]]
      /\ rev'[r].state = "uploaded" /\ \A q \in Revisions : rev'[q].gen = rev[q].gen
      /\ \A q \in Revisions \ {r} : rev'[q] = rev[q]
  BY <1>1, <1>2, StateGoes DEF RevisionState
<1>4. s.class = "staging" /\ s \in Objects /\ <<r, 0>> \in Jobs /\ 0 \in Generations(r)
  BY JobsAre, ObjectsAre, KeysAre
<1>5. OnlyStagedGoes /\ store' = store
  BY <1>2 DEF OnlyStagedGoes
<1>6. /\ job' \in [Jobs -> JobType]
      /\ \A j \in Jobs : job'[j].attempts = job[j].attempts
      /\ \A j \in Jobs \ {<<r, 0>>} : job'[j] = job[j]
  BY <1>1, <1>2, <1>4, StatusGoes DEF Enqueued
<1>7. source'[<<r, 0>>] = s /\ \A j \in Jobs \ {<<r, 0>>} : source'[j] = source[j]
  BY <1>1, <1>2, <1>4 DEF TypeOK
<1>8. RevisionHolds(r)
  BY DEF IInv, RevisionsHold
<1>9. s \notin old /\ rev[r].gen = 0
  BY <1>2, <1>8 DEF RevisionHolds, Early
<1>10. TypeOK'
  BY <1>1, <1>2, <1>3, <1>4, <1>5, <1>6, KeepsLess DEF TypeOK, PublicationTypeOK, JobType
<1>11. SourcesHold'
  BY <1>4, <1>7 DEF IInv, SourcesHold
<1>12. ActiveIsPublished' /\ ContentHolds' /\ RetriesHold' /\ CoversHold'
  BY <1>1, <1>2, <1>3, <1>5, KeepsLess, ActiveStays, RetriesStay, CoversStay
     DEF IInv, ContentHolds
<1>13. CleanupHolds'
  <2>1. ASSUME NEW q \in Revisions \ {r}
        PROVE  /\ source'[<<q, rev[q].gen>>] = source[<<q, rev[q].gen>>]
               /\ ActiveJob(q, rev[q].gen)' => ActiveJob(q, rev[q].gen)
    <3>1. <<q, rev[q].gen>> \in Jobs \ {<<r, 0>>}
      BY <1>1, JobsAre DEF TypeOK
    <3>2. rev'[q].gen = rev[q].gen
      BY <1>3
    <3>3. QED
      BY <1>6, <1>7, <3>1, <3>2 DEF ActiveJob
  <2>2. source'[<<r, rev'[r].gen>>] \notin old
    BY <1>3, <1>7, <1>9
  <2>3. doomed' \subseteq old'
    BY <1>1, KeepsLess DEF IInv, CleanupHolds
  <2>4. QED
    BY <1>1, <1>3, <2>1, <2>2, <2>3, KeepsLess, CleanupStays DEF IInv
<1>14. RevisionsHold'
  <2>1. RevisionHolds(r)'
    BY <1>1, <1>2, <1>3, <1>8, KeepsLess DEF RevisionHolds, Early, Final
  <2>2. ASSUME NEW q \in Revisions \ {r} PROVE RevisionHolds(q)'
    <3>1. <<q, 0>> \in Jobs \ {<<r, 0>>}
      BY JobsAre
    <3>2. QED
      BY <1>1, <1>2, <1>3, <1>5, <1>6, <3>1, KeepsLess, RevisionStays DEF IInv, RevisionsHold
  <2>3. QED
    BY <2>1, <2>2 DEF RevisionsHold
<1>15. RunsHold'
  <2> SUFFICES ASSUME NEW x \in Runs PROVE RunHolds(x)'
    BY DEF RunsHold
  <2>1. QED
    BY <1>1, <1>2, <1>3, <1>5, <1>6, RunsAre, KeepsLess, RunStays DEF IInv, RunsHold, Final
<1> QED
  BY <1>10, <1>11, <1>12, <1>13, <1>14, <1>15 DEF IInv

\* A route that got no answer deletes a staging object at most.
LEMMA UnansweredIsQuiet ==
  ASSUME IInv, NEW r \in Revisions, UnansweredUploadDeletes(r), Keeps
  PROVE  Quiet
<1>1. /\ TypeOK /\ unanswered' = unanswered \ {r}
      /\ store' \in {store, store \ {Staging(r, 0, Uploader)}}
      /\ UNCHANGED <<rev, source, content, job, run, retry>>
  BY DEF IInv, UnansweredUploadDeletes
<1>2. StoreShrinks
  BY <1>1, KeysAre DEF StoreShrinks
<1>3. RevisionsMove /\ JobsMove /\ RunsMove
  <2>1. RevisionsMove
    BY <1>1 DEF RevisionsMove, TypeOK, PublicationTypeOK
  <2>2. JobsMove
    BY <1>1 DEF JobsMove, JobType, TypeOK
  <2>3. RunsMove
    BY <1>1 DEF RunsMove, MovesOn, TypeOK
  <2>4. QED
    BY <2>1, <2>2, <2>3
<1>4. unanswered' \subseteq unanswered
  BY <1>1
<1> QED
  BY <1>1, <1>2, <1>3, <1>4 DEF Quiet

\* The upload is abandoned.
LEMMA AbandonedHolds ==
  ASSUME IInv, NEW r \in Revisions, UploadAbandoned(r), Keeps
  PROVE  IInv'
<1> DEFINE s == Staging(r, 0, Uploader)
<1>1. TypeOK
  BY DEF IInv
<1>2. /\ rev[r].state = "uploading" /\ rev' = [rev EXCEPT ![r].state = "abandoned"]
      /\ store' \in {store, store \ {s}} /\ UNCHANGED <<unanswered, source, content, job, run, retry>>
  BY DEF UploadAbandoned
<1>3. /\ rev' \in [Revisions -> [state : RevisionState, gen : Nat]]
      /\ rev'[r].state = "abandoned" /\ \A q \in Revisions : rev'[q].gen = rev[q].gen
      /\ \A q \in Revisions \ {r} : rev'[q] = rev[q]
  BY <1>1, <1>2, StateGoes DEF RevisionState
<1>4. OnlyStagedGoes /\ store' \subseteq store
  BY <1>2, KeysAre DEF OnlyStagedGoes
<1>5. RevisionHolds(r)
  BY DEF IInv, RevisionsHold
<1>6. TypeOK'
  BY <1>1, <1>2, <1>3, <1>4, KeepsLess DEF TypeOK, PublicationTypeOK
<1>7. ActiveIsPublished' /\ ContentHolds' /\ SourcesHold' /\ RetriesHold' /\ CoversHold'
  BY <1>1, <1>2, <1>3, <1>4, KeepsLess, ActiveStays, RetriesStay, CoversStay
     DEF IInv, ContentHolds, SourcesHold
<1>8. CleanupHolds'
  BY <1>1, <1>2, <1>3, KeepsLess, CleanupStaysQuiet DEF IInv, CleanupHolds
<1>9. RevisionsHold'
  <2>1. RevisionHolds(r)'
    BY <1>1, <1>2, <1>3, <1>5, KeepsLess DEF RevisionHolds, Early, Final
  <2>2. ASSUME NEW q \in Revisions \ {r} PROVE RevisionHolds(q)'
    BY <1>1, <1>2, <1>3, <1>4, KeepsLess, RevisionStays DEF IInv, RevisionsHold
  <2>3. QED
    BY <2>1, <2>2 DEF RevisionsHold
<1>10. RunsHold'
  BY <1>1, <1>2, <1>3, <1>4, RunsAre, KeepsLess, RunStays DEF IInv, RunsHold, Final
<1> QED
  BY <1>6, <1>7, <1>8, <1>9, <1>10 DEF IInv

-----------------------------------------------------------------------------
(* The handler *)

\* Execution x goes on to pc, stores s and leaves revisions and jobs alone.
Stores(x, pc, s) ==
  /\ run' = [run EXCEPT ![x] = pc] /\ store' = store \cup {s}
  /\ UNCHANGED <<rev, unanswered, source, content, job, retry>>
  /\ Keeps

\* Storing an original or what is made keeps the invariant, if that of x goes on.
LEMMA StoresHolds ==
  ASSUME IInv, NEW x \in Runs, NEW pc \in Steps, NEW s \in Objects, Stores(x, pc, s),
         s.class \in {"original", "derived"}, s.class = "derived" => s = Made(x),
         RunHolds(x)'
  PROVE  IInv'
<1>1. TypeOK
  BY DEF IInv
<1>2. /\ run' \in [Runs -> Steps] /\ \A y \in Runs \ {x} : run'[y] = run[y]
  BY <1>1 DEF Stores, TypeOK
<1>3. OnlyStagedGoes /\ store' = store \cup {s}
      /\ Keeps /\ UNCHANGED <<rev, unanswered, source, content, job, retry>>
  BY DEF OnlyStagedGoes, Stores
<1>4. TypeOK'
  BY <1>1, <1>2, <1>3, KeepsLess DEF TypeOK, PublicationTypeOK
<1>5. ActiveIsPublished' /\ ContentHolds' /\ SourcesHold' /\ RetriesHold' /\ CoversHold'
  BY <1>1, <1>3, KeepsLess, ActiveStays, RetriesStay, CoversStay
     DEF IInv, ContentHolds, SourcesHold
<1>6. CleanupHolds'
  BY <1>1, <1>3, KeepsLess, CleanupStaysQuiet DEF IInv, CleanupHolds
<1>7. RevisionsHold'
  <2> SUFFICES ASSUME NEW q \in Revisions PROVE RevisionHolds(q)'
    BY DEF RevisionsHold
  <2>1. Staging(q, 0, Uploader) # s
    BY KeysAre
  <2>2. QED
    BY <1>1, <1>3, <2>1, KeepsLess, RevisionStays DEF IInv, RevisionsHold
<1>8. RunsHold'
  <2>1. ASSUME NEW y \in Runs \ {x} PROVE RunHolds(y)'
    <3>1. Made(y) # s
      BY KeysAre, MadeOnce DEF Made
    <3>2. QED
      BY <1>1, <1>2, <1>3, <3>1, KeepsLess, RunStays DEF IInv, RunsHold
  <2>2. QED
    BY <2>1 DEF RunsHold
<1> QED
  BY <1>4, <1>5, <1>6, <1>7, <1>8 DEF IInv

\* The original is copied, or that fails.
LEMMA CopyHolds ==
  ASSUME IInv, NEW x \in Runs, CopyOriginal(x), Keeps
  PROVE  IInv'
<1>1. TypeOK /\ RevOf(x) \in Revisions /\ x[2] \in Nat /\ x[1] \in Jobs
  BY RunsAre DEF IInv
<1>2. run[x] = "copying" /\ UNCHANGED <<rev, unanswered, source, content, retry>>
  BY DEF CopyOriginal
<1>3. CASE store' = store \cup {Original(RevOf(x))} /\ Goes(x, "ingesting")
  <2>1. Original(RevOf(x)) \in Objects /\ Original(RevOf(x)).class = "original"
    BY <1>1, ObjectsAre, KeysAre
  <2>2. Stores(x, "ingesting", Original(RevOf(x)))
    BY <1>2, <1>3 DEF Stores, Goes
  <2>3. RunHolds(x)'
    <3>1. RunHolds(x) /\ run'[x] = "ingesting"
      BY <1>1, <1>3 DEF IInv, RunsHold, Goes, TypeOK
    <3>2. Made(x) # Original(RevOf(x))
      BY KeysAre DEF Made
    <3>3. UNCHANGED job
      BY <1>3 DEF Goes
    <3>4. job[x[1]].attempts \in Nat
      BY <1>1 DEF TypeOK
    <3>5. QED
      BY <1>1, <1>2, <1>3, <3>1, <3>2, <3>3, <3>4 DEF RunHolds
  <2>4. QED
    BY <2>1, <2>2, <2>3, StoresHolds DEF Steps
<1>4. CASE Goes(x, "transient") /\ UNCHANGED store
  BY <1>2, <1>4, GivingUpIsQuiet, QuietHolds
<1> QED
  BY <1>3, <1>4 DEF CopyOriginal

\* Objects are derived.
LEMMA IngestHolds ==
  ASSUME IInv, NEW x \in Runs, Ingest(x), Keeps
  PROVE  IInv'
<1>1. TypeOK /\ x[2] \in Nat /\ x[1] \in Jobs
  BY RunsAre DEF IInv
<1>2. PICK pc \in {"committing", "transient", "permanent"} : Goes(x, pc)
  BY DEF Ingest
<1>3. /\ run[x] = "ingesting" /\ store' = store \cup {Made(x)}
      /\ UNCHANGED <<rev, unanswered, source, content, retry>>
  BY DEF Ingest, Made
<1>4. Made(x) \in Objects /\ Made(x).class = "derived"
  BY ObjectsAre, KeysAre DEF Made
<1>5. Stores(x, pc, Made(x))
  BY <1>2, <1>3 DEF Stores, Goes
<1>6. RunHolds(x)'
  <2>1. RunHolds(x) /\ run'[x] = pc
    BY <1>1, <1>2 DEF IInv, RunsHold, Goes, TypeOK
  <2>2. Made(x) \notin old'
    BY <1>1, <1>3, <2>1, KeepsLess DEF RunHolds, TypeOK
  <2>3. UNCHANGED job /\ job[x[1]].attempts \in Nat
    BY <1>1, <1>2 DEF Goes, TypeOK
  <2>4. QED
    BY <1>1, <1>3, <2>1, <2>2, <2>3 DEF RunHolds
<1> QED
  BY <1>4, <1>5, <1>6, StoresHolds DEF Steps

\* The handler fills its revision.
LEMMA FillHolds ==
  ASSUME IInv, NEW x \in Runs, NEW pc \in {"deleting", "transient"},
         run[x] = "committing", MayCommit(RevOf(x), GenOf(x)),
         content' = [content EXCEPT ![RevOf(x)] = <<GenOf(x), x[2]>>],
         rev' = [rev EXCEPT ![RevOf(x)].state = "ready_for_review"],
         Goes(x, pc), UNCHANGED <<unanswered, source, retry, store>>, Keeps
  PROVE  IInv'
<1> DEFINE r == RevOf(x)
<1>1. TypeOK /\ r \in Revisions /\ x[2] \in Nat /\ x[1] \in Jobs /\ x[1] = <<r, GenOf(x)>>
      /\ GenOf(x) \in Nat /\ x = <<x[1], x[2]>>
  BY RunsAre, JobsAre DEF IInv
<1>2. rev[r].gen = GenOf(x) /\ rev[r].state = "processing"
  BY DEF MayCommit
<1>3. /\ rev' \in [Revisions -> [state : RevisionState, gen : Nat]]
      /\ rev'[r].state = "ready_for_review" /\ \A q \in Revisions : rev'[q].gen = rev[q].gen
      /\ \A q \in Revisions \ {r} : rev'[q] = rev[q]
  BY <1>1, StateGoes DEF RevisionState
<1>4. /\ run'[x] = pc /\ UNCHANGED job /\ run' \in [Runs -> Steps]
      /\ \A y \in Runs \ {x} : run'[y] = run[y]
  BY <1>1 DEF Goes, TypeOK, Steps
<1>5. OnlyStagedGoes /\ store' = store
  BY DEF OnlyStagedGoes
<1>6. /\ content' \in [Revisions -> {NoContent} \cup (Nat \X Nat)]
      /\ content'[r] = <<GenOf(x), x[2]>> /\ \A q \in Revisions \ {r} : content'[q] = content[q]
  BY <1>1 DEF IInv, ContentHolds
<1>7. TypeOK'
  <2>1. ASSUME NEW q \in Revisions, content'[q] # NoContent
        PROVE  <<<<q, content'[q][1]>>, content'[q][2]>> \in Runs
    BY <1>1, <1>6, <2>1 DEF TypeOK
  <2>2. QED
    BY <1>1, <1>3, <1>4, <1>5, <1>6, <2>1, KeepsLess DEF TypeOK, PublicationTypeOK
<1>8. ContentHolds' /\ SourcesHold'
  BY <1>6 DEF IInv, ContentHolds, SourcesHold
<1>9. ActiveIsPublished' /\ RetriesHold' /\ CoversHold'
  BY <1>1, <1>2, <1>3, <1>5, KeepsLess, ActiveStays, RetriesStay, CoversStay DEF IInv
<1>10. CleanupHolds'
  BY <1>1, <1>3, <1>4, KeepsLess, CleanupStaysQuiet DEF IInv, CleanupHolds
<1>11. RevisionsHold'
  <2>1. RevisionHolds(r)'
    <3>1. Made(x) \in store \ old /\ Original(r) \in store
      BY DEF IInv, RunsHold, RunHolds
    <3>2. Shelf(r)' = Made(x)
      BY <1>6 DEF Shelf, Made
    <3>3. doomed \subseteq old
      BY DEF IInv, CleanupHolds
    <3>4. content'[r][1] = rev'[r].gen /\ content'[r] # NoContent
      BY <1>2, <1>3, <1>6, SomeContent
    <3>5. QED
      BY <1>1, <1>3, <1>5, <3>1, <3>2, <3>3, <3>4, KeepsLess DEF RevisionHolds, Early, Final
  <2>2. ASSUME NEW q \in Revisions \ {r} PROVE RevisionHolds(q)'
    BY <1>1, <1>3, <1>4, <1>5, <1>6, KeepsLess, RevisionStays DEF IInv, RevisionsHold
  <2>3. QED
    BY <2>1, <2>2 DEF RevisionsHold
<1>12. RunsHold'
  <2>1. RunHolds(x)'
    <3>1. RunHolds(x) /\ job[x[1]].attempts \in Nat
      BY <1>1 DEF IInv, RunsHold, TypeOK
    <3>2. QED
      BY <1>1, <1>3, <1>4, <3>1 DEF RunHolds, Final
  <2>2. ASSUME NEW y \in Runs \ {x} PROVE RunHolds(y)'
    BY <1>1, <1>3, <1>4, <1>5, RunsAre, KeepsLess, RunStays DEF IInv, RunsHold, Final
  <2>3. QED
    BY <2>1, <2>2 DEF RunsHold
<1> QED
  BY <1>7, <1>8, <1>9, <1>10, <1>11, <1>12 DEF IInv

\* Every step of a handler keeps the invariant.
LEMMA HandlerHolds ==
  ASSUME IInv, NEW x \in Runs, Handler(x), Keeps
  PROVE  IInv'
<1>1. CASE BeginProcessing(x)
  BY <1>1, BeginIsQuiet, QuietHolds
<1>2. CASE CopyOriginal(x)
  BY <1>2, CopyHolds
<1>3. CASE Ingest(x)
  BY <1>3, IngestHolds
<1>4. CASE CommitIngestion(x)
  <2>1. run[x] = "committing" /\ UNCHANGED <<unanswered, source, retry, store>>
    BY <1>4 DEF CommitIngestion
  <2>2. CASE /\ MayCommit(RevOf(x), GenOf(x))
             /\ content' = [content EXCEPT ![RevOf(x)] = <<GenOf(x), x[2]>>]
             /\ rev' = [rev EXCEPT ![RevOf(x)].state = "ready_for_review"]
             /\ \E pc \in {"deleting", "transient"} : Goes(x, pc)
    BY <2>1, <2>2, FillHolds
  <2>3. CASE Ends(x, "ok") /\ UNCHANGED <<rev, content>>
    BY <2>1, <2>3, EndIsQuiet, QuietHolds
  <2>4. CASE Goes(x, "transient") /\ UNCHANGED <<rev, content>>
    BY <2>1, <2>4, GivingUpIsQuiet, QuietHolds
  <2>5. QED
    BY <1>4, <2>2, <2>3, <2>4 DEF CommitIngestion
<1>5. CASE DeleteStaged(x)
  BY <1>5, EndIsQuiet, QuietHolds DEF DeleteStaged
<1>6. CASE HandleFailure(x)
  BY <1>6, FailureIsQuiet, QuietHolds
<1> QED
  BY <1>1, <1>2, <1>3, <1>4, <1>5, <1>6 DEF Handler

-----------------------------------------------------------------------------
(* An administrator's retry *)

\* The source is copied.
LEMMA RetryCopiesHolds ==
  ASSUME IInv, NEW a \in Admins, NEW r \in Revisions, RetryCopies(a, r), Keeps
  PROVE  IInv'
<1> DEFINE g == rev[r].gen
           s == Staging(r, g + 1, a)
<1>1. TypeOK /\ g \in Nat /\ g \in Generations(r) /\ Generations(r) = 0 .. MaxGeneration[r]
      /\ MaxGeneration[r] \in Nat
  BY BoundsAssumption, JobsAre DEF IInv, TypeOK, Generations
<1>2. /\ g < MaxGeneration[r] /\ s \notin store /\ store' = store \cup {s}
      /\ retry' = [retry EXCEPT ![a] = [pc |-> "copied", rev |-> r, gen |-> g]]
      /\ UNCHANGED <<rev, unanswered, source, content, job, run>>
  BY DEF RetryCopies
<1>3. g + 1 \in Generations(r) /\ <<r, g + 1>> \in Jobs
  BY <1>1, <1>2, JobsAre
<1>4. OnlyStagedGoes /\ s \in Objects
  <2>1. s \in Objects
    BY <1>3, ObjectsAre
  <2>2. QED
    BY <1>2, <2>1 DEF OnlyStagedGoes
<1>5. TypeOK'
  BY <1>1, <1>2, <1>4, KeepsLess DEF TypeOK, PublicationTypeOK
<1>6. ActiveIsPublished' /\ ContentHolds' /\ SourcesHold' /\ CoversHold'
  BY <1>1, <1>2, <1>4, KeepsLess, ActiveStays, CoversStay DEF IInv, ContentHolds, SourcesHold
<1>7. RetriesHold'
  <2>1. retry' \in [Admins -> {Idle} \cup [pc : {"copied"}, rev : Revisions, gen : Nat]]
    BY <1>1, <1>2 DEF IInv, RetriesHold
  <2>2. /\ retry'[a].rev = r /\ retry'[a].gen = g
        /\ \A b \in Admins \ {a} : retry'[b] = retry[b]
    BY <1>2 DEF IInv, RetriesHold
  <2>3. s \notin old'
    BY <1>1, <1>2, KeepsLess DEF TypeOK
  <2>4. RetryHolds(a)'
    BY <1>3, <2>2, <2>3 DEF RetryHolds
  <2>5. ASSUME NEW b \in Admins \ {a} PROVE RetryHolds(b)'
    BY <1>1, <2>2, KeepsLess DEF IInv, RetriesHold, RetryHolds
  <2>6. QED
    BY <2>1, <2>4, <2>5 DEF RetriesHold
<1>8. CleanupHolds'
  BY <1>1, <1>2, KeepsLess, CleanupStaysQuiet DEF IInv, CleanupHolds
<1>9. RevisionsHold'
  <2> SUFFICES ASSUME NEW q \in Revisions PROVE RevisionHolds(q)'
    BY DEF RevisionsHold
  <2>1. Staging(q, 0, Uploader).gen = 0 /\ s.gen = g + 1
    BY KeysAre
  <2>2. Staging(q, 0, Uploader) # s
    BY <1>1, <2>1
  <2>3. QED
    BY <1>1, <1>2, <1>4, <2>2, KeepsLess, RevisionStays DEF IInv, RevisionsHold
<1>10. RunsHold'
  <2> SUFFICES ASSUME NEW x \in Runs PROVE RunHolds(x)'
    BY DEF RunsHold
  <2>1. Made(x) # s
    BY KeysAre DEF Made
  <2>2. QED
    BY <1>1, <1>2, <1>4, <2>1, KeepsLess, RunStays DEF IInv, RunsHold
<1> QED
  BY <1>5, <1>6, <1>7, <1>8, <1>9, <1>10 DEF IInv

\* The failed revision is uploaded again, with the copy as its source.
LEMMA RetryFailedRevisionHolds ==
  ASSUME IInv, NEW a \in Admins, RetryFailedRevision(a), Keeps,
         NEW r, NEW g, r = retry[a].rev, g = retry[a].gen
  PROVE  IInv'
<1> DEFINE s == Staging(r, g + 1, a)
<1>1. /\ TypeOK /\ r \in Revisions /\ g \in Nat /\ g + 1 \in Generations(r) /\ s \notin old
      /\ <<r, g + 1>> \in Jobs
  BY JobsAre DEF RetryFailedRevision, IInv, RetriesHold, RetryHolds
<1>2. /\ rev[r].state = "failed" /\ rev[r].gen = g
      /\ rev' = [rev EXCEPT ![r] = [state |-> "uploaded", gen |-> g + 1]]
      /\ source' = [source EXCEPT ![<<r, g + 1>>] = s] /\ Enqueued(r, g + 1)
      /\ retry' = [retry EXCEPT ![a] = Idle] /\ UNCHANGED <<unanswered, content, run, store>>
  BY DEF RetryFailedRevision, StillFailed
<1>3. /\ rev' \in [Revisions -> [state : RevisionState, gen : Nat]]
      /\ rev'[r] = [state |-> "uploaded", gen |-> g + 1]
      /\ \A q \in Revisions \ {r} : rev'[q] = rev[q]
  BY <1>1, <1>2 DEF TypeOK, PublicationTypeOK, RevisionState
<1>4. /\ job' \in [Jobs -> JobType]
      /\ \A j \in Jobs : job'[j].attempts = job[j].attempts
      /\ \A j \in Jobs \ {<<r, g + 1>>} : job'[j] = job[j]
  BY <1>1, <1>2, StatusGoes DEF Enqueued
<1>5. source'[<<r, g + 1>>] = s /\ \A j \in Jobs \ {<<r, g + 1>>} : source'[j] = source[j]
  BY <1>1, <1>2 DEF TypeOK
<1>6. OnlyStagedGoes /\ store' = store /\ s \in Objects
  BY <1>1, <1>2, ObjectsAre DEF OnlyStagedGoes
<1>7. TypeOK'
  <2>1. \A q \in Revisions : rev'[q].gen \in Generations(q)
    BY <1>1, <1>3 DEF TypeOK
  <2>2. PublicationTypeOK'
    BY <1>1, <1>3, KeepsLess DEF TypeOK, PublicationTypeOK
  <2>3. QED
    BY <1>1, <1>2, <1>3, <1>4, <1>6, <2>1, <2>2, KeepsLess DEF TypeOK, JobType
<1>8. SourcesHold'
  BY <1>1, <1>5 DEF IInv, SourcesHold
<1>9. ActiveIsPublished' /\ ContentHolds' /\ CoversHold'
  BY <1>1, <1>2, <1>3, <1>6, KeepsLess, ActiveStays, CoversStay DEF IInv, ContentHolds
<1>10. RetriesHold'
  BY <1>1, <1>2, KeepsLess DEF IInv, RetriesHold, RetryHolds
<1>11. CleanupHolds'
  <2>1. ASSUME NEW q \in Revisions \ {r}
        PROVE  /\ rev'[q].gen = rev[q].gen
               /\ source'[<<q, rev[q].gen>>] = source[<<q, rev[q].gen>>]
               /\ ActiveJob(q, rev[q].gen)' => ActiveJob(q, rev[q].gen)
    <3>1. <<q, rev[q].gen>> \in Jobs \ {<<r, g + 1>>}
      BY <1>1, JobsAre DEF TypeOK
    <3>2. QED
      BY <1>3, <1>4, <1>5, <3>1 DEF ActiveJob
  <2>2. source'[<<r, rev'[r].gen>>] \notin old
    BY <1>1, <1>3, <1>5
  <2>3. doomed' \subseteq old'
    BY <1>1, KeepsLess DEF IInv, CleanupHolds
  <2>4. QED
    BY <1>1, <2>1, <2>2, <2>3, KeepsLess, CleanupStays DEF IInv
<1>12. RevisionsHold'
  <2>1. RevisionHolds(r)'
    BY <1>1, <1>2, <1>3 DEF IInv, RevisionsHold, RevisionHolds, Early, Final
  <2>2. ASSUME NEW q \in Revisions \ {r} PROVE RevisionHolds(q)'
    <3>1. <<q, 0>> \in Jobs \ {<<r, g + 1>>}
      BY JobsAre
    <3>2. QED
      BY <1>1, <1>2, <1>3, <1>4, <1>6, <3>1, KeepsLess, RevisionStays DEF IInv, RevisionsHold
  <2>3. QED
    BY <2>1, <2>2 DEF RevisionsHold
<1>13. RunsHold'
  BY <1>1, <1>2, <1>3, <1>4, <1>6, RunsAre, KeepsLess, RunStays DEF IInv, RunsHold, Final
<1> QED
  BY <1>7, <1>8, <1>9, <1>10, <1>11, <1>12, <1>13 DEF IInv

\* The retry stops.
LEMMA RetryStopsHolds ==
  ASSUME IInv, NEW a \in Admins, RetryStops(a), Keeps
  PROVE  IInv'
<1>1. /\ TypeOK /\ retry' = [retry EXCEPT ![a] = Idle]
      /\ UNCHANGED <<rev, unanswered, source, content, job, run, store>>
  BY DEF RetryStops, IInv
<1>2. OnlyStagedGoes
  BY <1>1 DEF OnlyStagedGoes
<1>3. TypeOK'
  BY <1>1, KeepsLess DEF TypeOK, PublicationTypeOK
<1>4. ActiveIsPublished' /\ ContentHolds' /\ SourcesHold' /\ CoversHold'
  BY <1>1, <1>2, KeepsLess, ActiveStays, CoversStay DEF IInv, ContentHolds, SourcesHold
<1>5. RetriesHold'
  BY <1>1, KeepsLess DEF IInv, RetriesHold, RetryHolds
<1>6. CleanupHolds'
  BY <1>1, KeepsLess, CleanupStaysQuiet DEF IInv, CleanupHolds
<1>7. RevisionsHold'
  BY <1>1, <1>2, KeepsLess, RevisionStays DEF IInv, RevisionsHold
<1>8. RunsHold'
  BY <1>1, <1>2, KeepsLess, RunStays DEF IInv, RunsHold
<1> QED
  BY <1>3, <1>4, <1>5, <1>6, <1>7, <1>8 DEF IInv

\* Every step of ingestion keeps the invariant.
LEMMA IngestionStepHolds ==
  ASSUME IInv, IngestionStep, Keeps
  PROVE  IInv'
<1>1. CASE \E r \in Revisions : \/ UploadStreams(r) \/ AcceptRevisionUpload(r)
                                \/ UnansweredUploadDeletes(r) \/ UploadAbandoned(r)
  BY <1>1, UploadStreamsHolds, AcceptHolds, UnansweredIsQuiet, QuietHolds, AbandonedHolds
<1>2. CASE \E j \in Jobs : ClaimJob(j[1], j[2]) \/ JobExpires(j[1], j[2])
  BY <1>2, ClaimJobIsQuiet, LossIsQuiet, QuietHolds
<1>3. CASE \E x \in Runs : Handler(x) \/ WorkerDies(x)
  BY <1>3, HandlerHolds, LossIsQuiet, QuietHolds
<1>4. CASE \E a \in Admins : \/ \E r \in Revisions : RetryCopies(a, r)
                             \/ RetryFailedRevision(a)
                             \/ RetryStops(a)
  BY <1>4, RetryCopiesHolds, RetryFailedRevisionHolds, RetryStopsHolds
<1> QED
  BY <1>1, <1>2, <1>3, <1>4 DEF IngestionStep

-----------------------------------------------------------------------------
(* Covers *)

\* A cover is written under a fresh key, recorded or abandoned.
LEMMA CoverStepHolds ==
  ASSUME IInv, NEW a \in Admins,
         \/ \E c \in CoverKeys : CoverWritten(a, c)
         \/ CoverRecorded(a) \/ CoverAbandoned(a)
  PROVE  IInv'
<1>1. TypeOK
  BY DEF IInv
<1>2. UNCHANGED <<publicationVars, unanswered, source, content, job, run, retry, old, doomed>>
  BY DEF CoverWritten, CoverRecorded, CoverAbandoned, ingestVars
<1>3. /\ OnlyStagedGoes /\ store' \subseteq Objects
      /\ \A o \in store' : o.class = "cover" \/ o \in store
  <2>1. ASSUME NEW c \in CoverKeys, CoverWritten(a, c)
        PROVE  store' = store \cup {Cover(c)} /\ Cover(c).class = "cover" /\ Cover(c) \in Objects
    BY <2>1, KeysAre, ObjectsAre DEF CoverWritten, Covers
  <2>2. CASE UNCHANGED store
    BY <1>1, <2>2 DEF OnlyStagedGoes, TypeOK
  <2>3. QED
    BY <1>1, <2>1, <2>2 DEF OnlyStagedGoes, TypeOK, CoverRecorded, CoverAbandoned, ingestVars
<1>4. /\ newCover' \in [Admins -> Covers \cup {NoObject}] /\ cover' \in Covers \cup {NoObject}
  <2>1. ASSUME NEW c \in CoverKeys PROVE Cover(c) \in Covers
    BY DEF Covers
  <2>2. QED
    BY <1>1, <2>1 DEF TypeOK, CoverWritten, CoverRecorded, CoverAbandoned
<1>5. TypeOK'
  <2>1. old' \subseteq store' /\ doomed' \subseteq store'
    <3>1. store \subseteq store'
      BY DEF CoverWritten, CoverRecorded, CoverAbandoned, ingestVars
    <3>2. QED
      BY <1>1, <1>2, <3>1 DEF TypeOK
  <2>2. QED
    BY <1>1, <1>2, <1>3, <1>4, <2>1 DEF TypeOK, PublicationTypeOK, publicationVars
<1>6. ActiveIsPublished' /\ ContentHolds' /\ SourcesHold' /\ RetriesHold'
  BY <1>2, RetriesStay DEF IInv, ContentHolds, SourcesHold, ActiveIsPublished, publicationVars
<1>7. CoversHold'
  <2>1. ASSUME NEW c \in CoverKeys, CoverWritten(a, c) PROVE CoversHold'
    <3>1. Cover(c) \notin old /\ Cover(c) \in store'
      BY <1>1, <2>1 DEF CoverWritten, TypeOK
    <3>2. newCover'[a] = Cover(c) /\ \A b \in Admins \ {a} : newCover'[b] = newCover[b]
      BY <1>1, <2>1 DEF CoverWritten, TypeOK
    <3>3. store \subseteq store' /\ UNCHANGED <<cover, old, doomed>>
      BY <2>1 DEF CoverWritten
    <3>4. QED
      BY <3>1, <3>2, <3>3 DEF IInv, CoversHold
  <2>2. CASE CoverRecorded(a)
    BY <1>1, <2>2 DEF IInv, CoversHold, CleanupHolds, CoverRecorded, TypeOK, ingestVars
  <2>3. CASE CoverAbandoned(a)
    BY <1>1, <2>3 DEF IInv, CoversHold, CoverAbandoned, TypeOK, ingestVars
  <2>4. QED
    BY <2>1, <2>2, <2>3
<1>8. CleanupHolds'
  BY <1>2, CleanupStaysQuiet DEF IInv, CleanupHolds, publicationVars
<1>9. RevisionsHold'
  <2> SUFFICES ASSUME NEW r \in Revisions PROVE RevisionHolds(r)'
    BY DEF RevisionsHold
  <2>1. Staging(r, 0, Uploader).class = "staging"
    BY KeysAre
  <2>2. QED
    BY <1>2, <1>3, <2>1, RevisionStays DEF IInv, RevisionsHold, publicationVars
<1>10. RunsHold'
  <2> SUFFICES ASSUME NEW x \in Runs PROVE RunHolds(x)'
    BY DEF RunsHold
  <2>1. Made(x).class = "derived"
    BY KeysAre DEF Made
  <2>2. QED
    BY <1>2, <1>3, <2>1, RunStays DEF IInv, RunsHold, publicationVars
<1> QED
  BY <1>5, <1>6, <1>7, <1>8, <1>9, <1>10 DEF IInv

-----------------------------------------------------------------------------
(* Cleanup *)

\* What is old is in nobody's hand.
LEMMA HandsAreYoung ==
  ASSUME IInv
  PROVE  InHand \cap old = {}
<1>1. TypeOK /\ NoObject \notin old
  BY ObjectsAre DEF IInv, TypeOK
<1>2. \A r \in Revisions : rev[r].state = "uploading" => Staging(r, 0, Uploader) \notin old
  BY DEF IInv, RevisionsHold, RevisionHolds
<1>3. \A a \in Admins : retry[a] # Idle => Staging(retry[a].rev, retry[a].gen + 1, a) \notin old
  BY DEF IInv, RetriesHold, RetryHolds
<1>4. \A x \in Runs : run[x] = "committing" => Derived(RevOf(x), GenOf(x), x[2]) \notin old
  BY DEF IInv, RunsHold, RunHolds, Made
<1>5. \A a \in Admins : newCover[a] \notin old
  BY <1>1 DEF IInv, CoversHold
<1> QED
  BY <1>2, <1>3, <1>4, <1>5 DEF InHand

\* The retention passes for what is in nobody's hand.
LEMMA RetentionHolds ==
  ASSUME IInv, RetentionPasses
  PROVE  IInv'
<1>1. /\ TypeOK /\ old' = {o \in store \ InHand : o.class # "original"}
      /\ UNCHANGED <<publicationVars, ingestVars, cover, newCover, doomed>>
  BY DEF IInv, RetentionPasses
<1>2. UNCHANGED <<rev, title, published, unanswered, source, content, job, run, retry, store>>
  BY <1>1 DEF publicationVars, ingestVars
<1>3. old \subseteq old'
  BY <1>1, HandsAreYoung DEF TypeOK, IInv, CleanupHolds
<1>4. TypeOK'
  BY <1>1, <1>2 DEF TypeOK, PublicationTypeOK
<1>5. ActiveIsPublished' /\ ContentHolds' /\ SourcesHold'
  BY <1>2 DEF IInv, ActiveIsPublished, ContentHolds, SourcesHold
<1>6. RetriesHold'
  <2>1. \A a \in Admins : retry[a] # Idle =>
          Staging(retry[a].rev, retry[a].gen + 1, a) \notin old'
    BY <1>1 DEF InHand
  <2>2. QED
    BY <1>2, <2>1 DEF IInv, RetriesHold, RetryHolds
<1>7. RevisionsHold'
  <2> SUFFICES ASSUME NEW r \in Revisions PROVE RevisionHolds(r)'
    BY DEF RevisionsHold
  <2>1. rev[r].state = "uploading" => Staging(r, 0, Uploader) \notin old'
    BY <1>1 DEF InHand
  <2>2. Shelf(r)' = Shelf(r)
    BY <1>2 DEF Shelf
  <2>3. QED
    BY <1>1, <1>2, <2>1, <2>2 DEF IInv, RevisionsHold, RevisionHolds
<1>8. RunsHold'
  <2> SUFFICES ASSUME NEW x \in Runs PROVE RunHolds(x)'
    BY DEF RunsHold
  <2>1. run[x] = "committing" => Made(x) \notin old'
    BY <1>1 DEF InHand, Made
  <2>2. QED
    BY <1>2, <2>1 DEF IInv, RunsHold, RunHolds
<1>9. CoversHold'
  <2>1. \A a \in Admins : newCover[a] \notin old'
    BY <1>1 DEF InHand
  <2>2. QED
    BY <1>1, <1>2, <2>1 DEF IInv, CoversHold
<1>10. CleanupHolds'
  BY <1>1, <1>2, <1>3 DEF IInv, CleanupHolds, ActiveJob
<1> QED
  BY <1>4, <1>5, <1>6, <1>7, <1>8, <1>9, <1>10 DEF IInv

\* What is finished, the cover and what a live job needs are no candidates.
LEMMA NeededIsNoCandidate ==
  ASSUME IInv, NEW classes
  PROVE  /\ \A r \in Revisions : rev[r].state \in Final => Shelf(r) \notin Candidates(classes)
         /\ cover \notin Candidates(classes)
         /\ \A r \in Revisions : source[<<r, rev[r].gen>>] \in Candidates(classes)
              => ~ActiveJob(r, rev[r].gen)
<1>1. TypeOK /\ NoObject \notin old
  BY ObjectsAre DEF IInv, TypeOK
<1>2. ASSUME NEW r \in Revisions, rev[r].state \in Final
      PROVE  Shelf(r) \notin Candidates(classes)
  <2>1. content[r] \in Nat \X Nat
    BY <1>2 DEF IInv, ContentHolds, RevisionsHold, RevisionHolds
  <2>2. DerivedReferenced(Shelf(r))
    BY <2>1, KeysAre DEF DerivedReferenced, Shelf
  <2>3. Shelf(r).class = "derived"
    BY KeysAre DEF Shelf
  <2>4. QED
    BY <2>2, <2>3 DEF Candidates, Referenced
<1>3. cover \notin Candidates(classes)
  <2>1. CASE cover = NoObject
    BY <1>1, <2>1 DEF Candidates
  <2>2. CASE cover \in Covers
    BY <2>2, KeysAre DEF Candidates, Referenced
  <2>3. QED
    BY <1>1, <2>1, <2>2 DEF TypeOK
<1>4. ASSUME NEW r \in Revisions, source[<<r, rev[r].gen>>] \in Candidates(classes)
      PROVE  ~ActiveJob(r, rev[r].gen)
  <2> DEFINE o == source[<<r, rev[r].gen>>]
  <2>1. <<r, rev[r].gen>> \in Jobs
    BY <1>1, JobsAre DEF TypeOK
  <2>2. o # NoObject
    BY <1>1, <1>4 DEF Candidates
  <2>3. o.class = "staging"
    BY <2>1, <2>2, KeysAre DEF IInv, SourcesHold
  <2>4. ~StagingReferenced(o)
    BY <1>4, <2>3 DEF Candidates, Referenced
  <2>5. QED
    BY <2>4 DEF StagingReferenced
<1> QED
  BY <1>2, <1>3, <1>4

\* A page of candidates is loaded, or what is left of it is dropped.
LEMMA PageHolds ==
  ASSUME IInv, (\E classes \in Pages : CleanupLoadsPage(classes)) \/ CleanupStops
  PROVE  IInv'
<1>1. TypeOK
  BY DEF IInv
<1>2. UNCHANGED <<rev, title, published, unanswered, source, content, job, run, retry, store,
                  cover, newCover, old>>
  BY DEF CleanupLoadsPage, CleanupStops, publicationVars, ingestVars
<1>3. doomed' = {} \/ \E classes \in Pages : doomed' = Candidates(classes)
  BY DEF CleanupLoadsPage, CleanupStops
<1>4. /\ doomed' \subseteq old /\ cover \notin doomed'
      /\ \A r \in Revisions : rev[r].state \in Final => Shelf(r) \notin doomed'
      /\ \A r \in Revisions : source[<<r, rev[r].gen>>] \in doomed' => ~ActiveJob(r, rev[r].gen)
  <2>1. \A classes : Candidates(classes) \subseteq old
    BY DEF Candidates
  <2>2. QED
    BY <1>3, <2>1, NeededIsNoCandidate
<1>5. TypeOK'
  BY <1>1, <1>2, <1>4 DEF TypeOK, PublicationTypeOK
<1>6. ActiveIsPublished' /\ ContentHolds' /\ SourcesHold' /\ RetriesHold'
  BY <1>2, RetriesStay DEF IInv, ActiveIsPublished, ContentHolds, SourcesHold
<1>7. RevisionsHold'
  <2> SUFFICES ASSUME NEW r \in Revisions PROVE RevisionHolds(r)'
    BY DEF RevisionsHold
  <2>1. Shelf(r)' = Shelf(r)
    BY <1>2 DEF Shelf
  <2>2. QED
    BY <1>2, <1>4, <2>1 DEF IInv, RevisionsHold, RevisionHolds
<1>8. RunsHold'
  BY <1>2 DEF IInv, RunsHold, RunHolds
<1>9. CoversHold' /\ CleanupHolds'
  BY <1>2, <1>4 DEF IInv, CoversHold, CleanupHolds, ActiveJob
<1> QED
  BY <1>5, <1>6, <1>7, <1>8, <1>9 DEF IInv

\* An object that is doomed goes.
LEMMA DeleteHolds ==
  ASSUME IInv, NEW o \in doomed, CleanupDeletes(o)
  PROVE  IInv'
<1>1. TypeOK /\ o \in old /\ doomed \subseteq old
  BY DEF IInv, CleanupHolds
<1>2. /\ store' = store \ {o} /\ old' = old \ {o} /\ doomed' = doomed \ {o}
      /\ UNCHANGED <<rev, title, published, unanswered, source, content, job, run, retry, cover, newCover>>
  BY DEF CleanupDeletes, publicationVars
<1>3. TypeOK'
  BY <1>1, <1>2 DEF TypeOK, PublicationTypeOK
<1>4. ActiveIsPublished' /\ ContentHolds' /\ SourcesHold' /\ RetriesHold'
  BY <1>2, RetriesStay DEF IInv, ActiveIsPublished, ContentHolds, SourcesHold
<1>5. o.class # "original"
  BY <1>1 DEF IInv, CleanupHolds
<1>6. RevisionsHold'
  <2> SUFFICES ASSUME NEW r \in Revisions PROVE RevisionHolds(r)'
    BY DEF RevisionsHold
  <2>1. Shelf(r)' = Shelf(r)
    BY <1>2 DEF Shelf
  <2>2. Original(r) # o
    BY <1>5, KeysAre
  <2>3. QED
    BY <1>2, <2>1, <2>2 DEF IInv, RevisionsHold, RevisionHolds
<1>7. RunsHold'
  <2> SUFFICES ASSUME NEW x \in Runs PROVE RunHolds(x)'
    BY DEF RunsHold
  <2>1. Original(RevOf(x)) # o
    BY <1>5, KeysAre
  <2>2. QED
    BY <1>1, <1>2, <2>1 DEF IInv, RunsHold, RunHolds
<1>8. CoversHold' /\ CleanupHolds'
  BY <1>1, <1>2 DEF IInv, CoversHold, CleanupHolds, ActiveJob
<1> QED
  BY <1>3, <1>4, <1>6, <1>7, <1>8 DEF IInv

-----------------------------------------------------------------------------
\* An administrator's step on the title: what is finished stays as it is.
LEMMA ShopStepHolds ==
  ASSUME IInv, PublicationStep, UNCHANGED <<ingestVars, cover, newCover, old, doomed>>
  PROVE  IInv'
<1>1. TypeOK /\ UNCHANGED <<unanswered, source, content, job, run, retry, store>>
  BY DEF IInv, ingestVars
<1>2. PublicationTypeOK' /\ ActiveIsPublished' /\ PublicationLeaves
  BY <1>1, PublicationStepHolds, PublicationStepLeaves DEF IInv, TypeOK
<1>3. TypeOK'
  BY <1>1, <1>2 DEF TypeOK, PublicationLeaves
<1>4. ContentHolds' /\ SourcesHold' /\ RetriesHold' /\ CoversHold'
  BY <1>1, RetriesStay DEF IInv, ContentHolds, SourcesHold, CoversHold
<1>5. CleanupHolds'
  BY <1>1, <1>2, CleanupStaysQuiet DEF IInv, CleanupHolds, PublicationLeaves
<1>6. RevisionsHold'
  <2> SUFFICES ASSUME NEW r \in Revisions PROVE RevisionHolds(r)'
    BY DEF RevisionsHold
  <2>1. Shelf(r)' = Shelf(r)
    BY <1>1 DEF Shelf
  <2>2. \/ rev[r].state \notin Final /\ rev'[r] = rev[r]
        \/ /\ rev[r].state \in Final /\ rev'[r].state \in Final
           /\ rev'[r].gen = rev[r].gen
    BY <1>2 DEF PublicationLeaves
  <2>3. QED
    BY <1>1, <2>1, <2>2 DEF IInv, RevisionsHold, RevisionHolds, Early, Final
<1>7. RunsHold'
  BY <1>1, <1>2, RunsAre DEF IInv, RunsHold, RunHolds, PublicationLeaves
<1> QED
  BY <1>2, <1>3, <1>4, <1>5, <1>6, <1>7 DEF IInv

\* Every step keeps the invariant.
LEMMA StepHolds == IInv /\ [Next]_vars => IInv'
<1> SUFFICES ASSUME IInv, [Next]_vars PROVE IInv'
  OBVIOUS
<1>1. CASE IngestionStep /\ Keeps
  BY <1>1, IngestionStepHolds
<1>2. CASE PublicationStep /\ UNCHANGED <<ingestVars, cover, newCover, old, doomed>>
  BY <1>2, ShopStepHolds
<1>3. CASE \E a \in Admins : \/ \E c \in CoverKeys : \/ CoverWritten(a, c)
                                                     \/ \E r \in Revisions : SuggestionCopied(a, c, r)
                             \/ CoverRecorded(a) \/ CoverAbandoned(a)
  BY <1>3, CoverStepHolds DEF SuggestionCopied
<1>4. CASE \E o \in doomed : CleanupDeletes(o)
  BY <1>4, DeleteHolds
<1>5. CASE (\E classes \in Pages : CleanupLoadsPage(classes)) \/ CleanupStops
  BY <1>5, PageHolds
<1>6. CASE RetentionPasses
  BY <1>6, RetentionHolds
<1>7. CASE UNCHANGED vars
  <2>1. UNCHANGED <<rev, title, published, unanswered, source, content, job, run, retry, store,
                    cover, newCover, old, doomed>>
    BY <1>7 DEF vars, publicationVars, ingestVars
  <2>2. OnlyStagedGoes
    BY <2>1 DEF OnlyStagedGoes
  <2>3. RevisionsHold' /\ RunsHold'
    BY <2>1, <2>2, RevisionStays, RunStays DEF IInv, RevisionsHold, RunsHold
  <2>4. QED
    BY <2>1, <2>2, <2>3, RetriesStay
       DEF IInv, TypeOK, PublicationTypeOK, ActiveIsPublished, ContentHolds, SourcesHold,
           CoversHold, CleanupHolds, ActiveJob
<1> QED
  BY <1>1, <1>2, <1>3, <1>4, <1>5, <1>6, <1>7 DEF Next

\* The invariant holds.
THEOREM Inductive == Spec => []IInv
BY InitHolds, StepHolds, PTL DEF Spec

-----------------------------------------------------------------------------
(* Theorems *)

\* The variables keep their types.
THEOREM TypeCorrect == Spec => []TypeOK
<1>1. IInv => TypeOK
  BY DEF IInv
<1> QED
  BY <1>1, Inductive, PTL

\* Readers are given the one active revision, with published settings.
THEOREM ShownIsActive == Spec => []ActiveIsPublished
<1>1. IInv => ActiveIsPublished
  BY DEF IInv
<1> QED
  BY <1>1, Inductive, PTL

\* What was reviewed and is read exists, filled from its latest source,
\* whatever executions overlapped and whatever cleanups ran beside them.
THEOREM FinishedStaysComplete == Spec => []FinishedIsComplete
<1>1. IInv => FinishedIsComplete
  <2> SUFFICES ASSUME IInv PROVE FinishedIsComplete
    OBVIOUS
  <2>1. \A r \in Revisions : RevisionHolds(r)
    BY DEF IInv, RevisionsHold
  <2>2. QED
    BY <2>1 DEF IInv, CoversHold, FinishedIsComplete, RevisionHolds, Shelf
<1> QED
  BY <1>1, Inductive, PTL

\* the step of the upload route that SourceKept excepts
OwnUploadDeletes(r) ==
  /\ r \in unanswered /\ r \notin unanswered'
  /\ source[<<r, rev[r].gen>>] = Staging(r, 0, Uploader)

\* No other step takes the source of a job that may still be claimed.
LEMMA SourceStays ==
  ASSUME IInv, Next, NEW r \in Revisions,
         ActiveJob(r, rev[r].gen), rev[r].state \notin Final, source[<<r, rev[r].gen>>] \in store
  PROVE  source[<<r, rev[r].gen>>] \in store' \/ OwnUploadDeletes(r)
<1> DEFINE s == source[<<r, rev[r].gen>>]
<1> SUFFICES ASSUME ~OwnUploadDeletes(r) PROVE s \in store'
  OBVIOUS
<1>1. TypeOK /\ NoObject \notin store /\ <<r, rev[r].gen>> \in Jobs
  BY JobsAre, ObjectsAre DEF IInv, TypeOK
<1>2. s.class = "staging" /\ s.rev = r
  BY <1>1, KeysAre DEF IInv, SourcesHold
<1>3. ASSUME NEW q \in Revisions, UploadAbandoned(q) \/ UnansweredUploadDeletes(q)
      PROVE  s \in store'
  <2>1. s # Staging(q, 0, Uploader)
    <3>1. CASE q # r
      BY <1>2, <3>1, KeysAre
    <3>2. CASE q = r /\ UnansweredUploadDeletes(q)
      BY <3>2 DEF UnansweredUploadDeletes, OwnUploadDeletes
    <3>3. CASE q = r /\ UploadAbandoned(q)
      BY <3>3 DEF IInv, RevisionsHold, RevisionHolds, Early, ActiveJob, UploadAbandoned
    <3>4. QED
      BY <1>3, <3>1, <3>2, <3>3
  <2>2. QED
    BY <1>3, <2>1 DEF UploadAbandoned, UnansweredUploadDeletes
<1>4. ASSUME NEW x \in Runs, Handler(x)
      PROVE  s \in store'
  <2>1. CASE DeleteStaged(x)
    <3>1. RevOf(x) # r /\ x[1] \in Jobs /\ x[1][1] = RevOf(x)
      BY <2>1, RunsAre DEF IInv, RunsHold, RunHolds, DeleteStaged, RevOf
    <3>2. SourceOf(x) = NoObject \/ SourceOf(x).rev = RevOf(x)
      BY <3>1, KeysAre DEF IInv, SourcesHold, SourceOf
    <3>3. QED
      BY <1>1, <1>2, <2>1, <3>1, <3>2 DEF DeleteStaged
  <2>2. CASE ~DeleteStaged(x)
    BY <1>4, <2>2 DEF Handler, BeginProcessing, CopyOriginal, Ingest, CommitIngestion, HandleFailure
  <2>3. QED
    BY <2>1, <2>2
<1>5. CASE IngestionStep
  BY <1>3, <1>4, <1>5
     DEF IngestionStep, UploadStreams, AcceptRevisionUpload, ClaimJob, JobExpires, WorkerDies, RetryCopies,
         RetryFailedRevision, RetryStops
<1>6. ASSUME NEW o \in doomed, CleanupDeletes(o)
      PROVE  s \in store'
  <2>1. s \notin doomed
    BY DEF IInv, CleanupHolds
  <2>2. QED
    BY <1>6, <2>1 DEF CleanupDeletes
<1> QED
  BY <1>5, <1>6
     DEF Next, CoverWritten, SuggestionCopied, CoverRecorded, CoverAbandoned, CleanupLoadsPage,
         RetentionPasses, CleanupStops, ingestVars

\* The source of a live job survives every step of the cleanup, of other
\* uploads and of late executions; only the route that staged it, and never
\* learned that its transaction had committed, may take it away.
THEOREM SourceIsKept == Spec => SourceKept
<1>1. IInv /\ [Next]_vars =>
        [\A r \in Revisions : LET s == source[<<r, rev[r].gen>>] IN
           ActiveJob(r, rev[r].gen) /\ rev[r].state \notin Final /\ s \in store
             => \/ s \in store'
                \/ /\ r \in unanswered /\ r \notin unanswered'
                   /\ s = Staging(r, 0, Uploader)]_vars
  BY SourceStays DEF OwnUploadDeletes
<1> QED
  BY <1>1, Inductive, PTL DEF Spec, SourceKept

-----------------------------------------------------------------------------
(* The promise to readers *)

\* Initially no revision is shown and none has content.
LEMMA InitRefines == Init => Shop!PromiseInit
BY DEF Init, PublicationInit, IngestInit, Shop!PromiseInit

\* Content is written where there was none.
LEMMA ContentGoes ==
  ASSUME IInv, IngestionStep, Keeps
  PROVE  UNCHANGED content \/ \E r \in Revisions : Shop!Completes(r)
<1>1. ASSUME NEW x \in Runs, CommitIngestion(x), content' # content
      PROVE  \E r \in Revisions : Shop!Completes(r)
  <2>1. /\ RevOf(x) \in Revisions /\ rev[RevOf(x)].state = "processing"
        /\ content' = [content EXCEPT ![RevOf(x)] = <<GenOf(x), x[2]>>]
    BY <1>1, RunsAre DEF CommitIngestion, MayCommit
  <2>2. content[RevOf(x)] = NoContent
    BY <2>1 DEF IInv, RevisionsHold, RevisionHolds, Final
  <2>3. \A q \in Revisions \ {RevOf(x)} : content'[q] = content[q]
    BY <2>1 DEF IInv, ContentHolds
  <2>4. UNCHANGED title.active
    BY DEF Keeps
  <2>5. QED
    BY <2>1, <2>2, <2>3, <2>4 DEF Shop!Completes
<1> QED
  BY <1>1
     DEF IngestionStep, UploadStreams, AcceptRevisionUpload, UnansweredUploadDeletes,
         UploadAbandoned, ClaimJob, JobExpires,
         Handler, BeginProcessing, CopyOriginal, Ingest, DeleteStaged, HandleFailure, WorkerDies,
         RetryCopies, RetryFailedRevision, RetryStops

\* Every step is one of the promise, or changes nothing readers see.
LEMMA StepRefines == IInv /\ [Next]_vars => [Shop!PromiseNext]_(Shop!promiseVars)
<1> SUFFICES ASSUME IInv, [Next]_vars PROVE [Shop!PromiseNext]_(Shop!promiseVars)
  OBVIOUS
<1>1. CASE IngestionStep /\ Keeps
  <2>1. UNCHANGED title.active
    BY <1>1 DEF Keeps
  <2>2. QED
    BY <1>1, <2>1, ContentGoes DEF Shop!PromiseNext, Shop!promiseVars
<1>2. CASE PublicationStep /\ UNCHANGED <<ingestVars, cover, newCover, old, doomed>>
  <2>1. UNCHANGED content
    BY <1>2 DEF ingestVars
  <2>2. PublicationLeaves
    BY <1>2, PublicationStepLeaves DEF IInv, TypeOK
  <2>3. ASSUME title'.active # title.active
        PROVE  Shop!Shows(title'.active) /\ title'.active \in Revisions
    BY <2>1, <2>2, <2>3
       DEF PublicationLeaves, IInv, RevisionsHold, RevisionHolds, Shop!Shows
  <2>4. QED
    BY <2>1, <2>3 DEF Shop!PromiseNext, Shop!promiseVars
<1>3. CASE UNCHANGED <<title, content>>
  BY <1>3 DEF Shop!promiseVars
<1> QED
  BY <1>1, <1>2, <1>3
     DEF Next, CoverWritten, SuggestionCopied, CoverRecorded, CoverAbandoned, CleanupDeletes,
         CleanupLoadsPage, RetentionPasses, CleanupStops, vars, publicationVars, ingestVars

\* Catalog implements CatalogPromise: readers are shown complete revisions
\* only, and complete content is never written again.
THEOREM CatalogKeepsPromise == Spec => ShowsFinished
BY InitRefines, StepRefines, InitHolds, Inductive, PTL DEF Spec, ShowsFinished, Shop!Promise
=============================================================================
