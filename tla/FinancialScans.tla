---------------------------- MODULE FinancialScans ----------------------------
(***************************************************************************)
(* Scans of financial records (commerce/financial/scans): the hourly       *)
(* discovery of sources and payouts, and the replay that reclassifies the  *)
(* ledger for a new implementation before reports switch to it.            *)
(*                                                                         *)
(* A scan is a run row and a chain of jobs.  Each job reads the run's      *)
(* cursor, lists one page (of the database or of the provider) outside any *)
(* transaction, and commits it: jobs for what the page holds, the new      *)
(* cursor, and the job of the next page.  Leases get lost, so two jobs of  *)
(* a run and two attempts of a job work on pages at the same time.         *)
(***************************************************************************)
EXTENDS Naturals, FiniteSets, FiniteSetsExt

CONSTANTS
  Workers,      \* slots of worker processes
  Agendas,      \* bound: roots, records and hours of a behaviour
  MaxEvidence,  \* bound: publications of evidence about a ledger row
  Overlap,      \* hours a discovery reaches back (72 in the code)
  NoWorker

ASSUME ScanAssumption == NoWorker \notin Workers /\ Overlap \in Nat \ {0}

Initial == <<"initial", 0>>
Hourly(h) == <<"hourly", h>>
Replay == <<"replay", 0>>

\* hours and records are numbered from 1
ASSUME AgendaAssumption ==
  \A a \in Agendas :
    /\ \A r \in a.roots : r \in {Initial, Replay} \/ (r = Hourly(r[2]) /\ r[2] \in Nat \ {0})
    /\ \A ids \in {a.sources, a.imports, a.ledger} : IsFiniteSet(ids) /\ ids \subseteq Nat \ {0}

VARIABLES
  agenda,    \* the chosen bounds: [roots, retried, sources, imports, ledger, hours]
  clock,     \* hours, from 1
  payouts,   \* the provider's payouts, named by the hour of their creation
  coverage,  \* financial_payout_discovery_state.covered_through, 0 for null
  run,       \* root -> its row: table financial_scan_runs
  job,       \* scan jobs there are -> status, attempts, holder, rerun
  exec,      \* worker -> the page it works on
  requested, \* records a job was asked for, with the phase that found them
  authority, \* the active implementation, and whether the new one is pending
  ledger     \* ledger row -> evidence, projection and job of the new implementation

scanVars == <<run, job, exec>>
discoveryVars == <<clock, payouts, coverage, requested>>
replayVars == <<authority, ledger>>
vars == <<agenda, scanVars, discoveryVars, replayVars>>

Null == 0
NoWindow == <<Null, Null>>
Idle == [pc |-> "idle"]
NoRun == [state |-> "none"]

Kind(r) == r[1]
FirstPhase(r) == IF Kind(r) = "replay" THEN "classification_replay_page" ELSE "source_page"
NewRun(r) ==
  [state |-> "running", phase |-> FirstPhase(r), checkpoint |-> Null, window |-> NoWindow,
   pages |-> 0, enqueued |-> 0, startedAt |-> clock]

\* deduplication keys: of a root, and of the page at a cursor
RootJob(r) == [root |-> r, phase |-> "root", checkpoint |-> Null]
ContinuationJob(r, phase, checkpoint) == [root |-> r, phase |-> phase, checkpoint |-> checkpoint]
FinalizerJob(r) == ContinuationJob(r, "classification_replay_finalize", Null)

NewJob == [status |-> "pending", attempts |-> 0, holder |-> NoWorker, rerun |-> FALSE]
\* enqueueJob: a key that is taken stays with its job
Enqueue(jobs, keys) ==
  [j \in DOMAIN jobs \cup keys |-> IF j \in DOMAIN jobs THEN jobs[j] ELSE NewJob]

NotStaged == [evidence |-> 0, built |-> 0, job |-> "none", rerun |-> FALSE]

Init ==
  /\ agenda \in Agendas
  /\ clock = 1 /\ payouts = {} /\ coverage = Null /\ requested = {}
  /\ run = [r \in agenda.roots |-> NoRun]
  /\ job = << >>
  /\ exec = [w \in Workers |-> Idle]
  /\ authority = [active |-> "old", pending |-> FALSE]
  /\ ledger = [s \in agenda.ledger |-> NotStaged]

-----------------------------------------------------------------------------
(* Time, the provider, and the poll hook that schedules *)

Tick ==
  /\ clock < agenda.hours
  /\ clock' = clock + 1
  /\ UNCHANGED <<agenda, scanVars, payouts, coverage, requested, replayVars>>

PayoutCreated ==
  /\ payouts' = payouts \cup {clock}
  /\ payouts' # payouts
  /\ \E r \in agenda.roots : Kind(r) = "hourly" \* bound
  /\ UNCHANGED <<agenda, scanVars, clock, coverage, requested, replayVars>>

\* createFinancialScheduleEnsurer; only a new worker has a replay to ask for
EnsureScans ==
  \E roots \in SUBSET {{Initial, Hourly(clock)}, {Replay}} :
    LET keys == {RootJob(r) : r \in (UNION roots) \cap agenda.roots} IN
    /\ job' = Enqueue(job, keys)
    /\ job' # job
    /\ UNCHANGED <<agenda, run, exec, discoveryVars, replayVars>>

-----------------------------------------------------------------------------
(* The jobs of scans, as JobQueue has them *)

Unfinished == {s \in DOMAIN ledger : ledger[s].job \notin {"none", "succeeded"}}

\* providerImplementationSupported, replayFinalizerReady
Claimable(j) ==
  /\ Kind(j.root) # "replay" => ~authority.pending
  /\ j.phase = "classification_replay_finalize" /\ run[j.root].state # "completed" => Unfinished = {}

\* bound: a job is tried twice or once (up to 8 times in the code)
MaxAttempts(j) == IF <<j.root, j.phase>> \in agenda.retried THEN 2 ELSE 1

\* what a job that ended took does not matter any more
Ended(status) == [NewJob EXCEPT !.status = status]

ClaimScanJob(w, j) ==
  LET row == job[j]
      abandoned == row.status = "running"
      fresh == abandoned /\ row.rerun
  IN /\ exec[w] = Idle
     /\ row.status \in {"pending", "running"}
     /\ Claimable(j)
     /\ fresh \/ row.attempts < MaxAttempts(j)
     /\ job' = [job EXCEPT ![j] = [status |-> "running", holder |-> w, rerun |-> row.rerun /\ ~abandoned,
                                  attempts |-> IF fresh THEN 1 ELSE row.attempts + 1]]
     /\ exec' = [exec EXCEPT ![w] = [pc |-> "claimed", job |-> j]]
     /\ UNCHANGED <<agenda, run, discoveryVars, replayVars>>

Settled(j, row, outcome) ==
  IF row.rerun THEN NewJob
  ELSE IF outcome = "ok" THEN Ended("succeeded")
  ELSE IF row.attempts = MaxAttempts(j) THEN Ended("failed")
  ELSE [row EXCEPT !.status = "pending", !.holder = NoWorker]

\* claimNext takes an abandoned job over, or fails it after its last attempt.
Abandoned(j, row) ==
  IF row.attempts = MaxAttempts(j) /\ ~row.rerun THEN Ended("failed") ELSE row

\* The worker ends with its job, jobs being what its transaction left: if it
\* still holds the job it settles it, or dies; else it comes too late.
Ends(w, jobs, outcome) ==
  LET j == exec[w].job
      row == jobs[j]
  IN /\ exec' = [exec EXCEPT ![w] = Idle]
     /\ IF row.status = "running" /\ row.holder = w
        THEN \E next \in {Settled(j, row, outcome), Abandoned(j, row)} :
               job' = [jobs EXCEPT ![j] = next]
        ELSE job' = jobs

Goes(w, e) == exec' = [exec EXCEPT ![w] = e] /\ UNCHANGED job

StateChanged(w) == Ends(w, job, "retry") /\ UNCHANGED <<run, coverage, requested, replayVars>>

\* a provider or database error, an abort, or a worker that dies
ScanJobThrows(w) ==
  /\ exec[w] # Idle
  /\ Ends(w, job, "retry")
  /\ UNCHANGED <<agenda, run, discoveryVars, replayVars>>

-----------------------------------------------------------------------------
(* processFinancialScanJob, up to the listing of a page *)

Snapshot(j, row) ==
  [pc |-> IF row.phase = "payout_discovery_page" /\ row.window = NoWindow THEN "unfrozen"
          ELSE IF row.phase = "classification_replay_finalize" THEN "loaded" ELSE "frozen",
   job |-> j, phase |-> row.phase, checkpoint |-> row.checkpoint, pages |-> row.pages,
   window |-> row.window, data |-> {}, hasMore |-> FALSE]

Proceeds(w, row) ==
  IF row.state = "completed" THEN Ends(w, job, "ok") ELSE Goes(w, Snapshot(exec[w].job, row))

\* A replay registers its implementation, unless that is active already.
StartOrResumeFinancialScan(w) ==
  LET r == exec[w].job.root
      row == IF run[r] = NoRun THEN NewRun(r) ELSE run[r]
  IN /\ exec[w].pc = "claimed" /\ exec[w].job.phase = "root"
     /\ run' = [run EXCEPT ![r] = row]
     /\ authority' = IF Kind(r) = "replay" /\ row.state = "running" /\ authority.active = "old"
                     THEN [authority EXCEPT !.pending = TRUE] ELSE authority
     /\ Proceeds(w, row)
     /\ UNCHANGED <<agenda, discoveryVars, ledger>>

\* the run's cursor, phase and checkpoint, is that of the job's digest
AtCursor(j) ==
  LET row == run[j.root] IN
  row.state = "running" /\ row.phase = j.phase /\ row.checkpoint = j.checkpoint

ResumeFinancialScanContinuation(w) ==
  LET j == exec[w].job IN
  /\ exec[w].pc = "claimed" /\ j.phase # "root"
  /\ IF AtCursor(j) THEN Proceeds(w, run[j.root]) ELSE Ends(w, job, "ok")
  /\ UNCHANGED <<agenda, run, discoveryVars, replayVars>>

\* scanHour
ScanHour(r) == IF Kind(r) = "hourly" THEN r[2] ELSE run[r].startedAt

Back(hour) == IF hour > Overlap THEN hour - Overlap ELSE Null
\* With nothing covered yet the code starts seven days before the earliest paid
\* order, or before this hour if none is paid. Older payouts are of no order of the
\* shop: the records here are the younger ones, and the first window has no lower bound.
FrozenWindow_adjacent(hour) == <<coverage, hour + 1>> \* mutant: no overlap with what is covered
FrozenWindow(hour) ==
  <<IF coverage = Null THEN Null ELSE Min({Back(hour), Back(coverage)}), hour + 1>>

FreezePayoutDiscoveryWindow(w) ==
  LET e == exec[w]
      r == e.job.root
      window == IF run[r].window # NoWindow THEN run[r].window ELSE FrozenWindow(ScanHour(r))
  IN /\ e.pc = "unfrozen"
     /\ IF run[r].state = "running" /\ run[r].phase = "payout_discovery_page"
        THEN /\ run' = [run EXCEPT ![r].window = window]
             /\ Goes(w, [e EXCEPT !.pc = "frozen", !.window = window])
             /\ UNCHANGED <<coverage, requested, replayVars>>
        ELSE StateChanged(w)
     /\ UNCHANGED <<agenda, clock, payouts>>

\* What the page after a cursor is taken from; payouts come newest first.
Listing(e) ==
  LET after(ids) == {i \in ids : i > e.checkpoint} IN
  CASE e.phase = "source_page" -> after(agenda.sources)
    [] e.phase = "payout_discovery_page" ->
         {p \in payouts : /\ e.window[1] <= p /\ p < e.window[2]
                          /\ e.checkpoint = Null \/ p < e.checkpoint}
    [] e.phase = "incomplete_payout_run_page" -> after(agenda.imports)
    [] e.phase = "classification_replay_page" -> after({s \in DOMAIN ledger : ledger[s].evidence > 0})

\* bound: a page holds one record
LoadPage(w) ==
  LET e == exec[w]
      ids == Listing(e)
      first == IF e.phase = "payout_discovery_page" THEN Max(ids) ELSE Min(ids)
  IN /\ e.pc = "frozen"
     /\ Goes(w, [e EXCEPT !.pc = "loaded",
                          !.data = IF ids = {} THEN {} ELSE {first},
                          !.hasMore = Cardinality(ids) > 1])
     /\ UNCHANGED <<agenda, run, discoveryVars, replayVars>>

-----------------------------------------------------------------------------
(* commitFinancialScanPage *)

Unmoved(e) ==
  LET row == run[e.job.root] IN
  /\ row.state = "running"
  /\ <<row.phase, row.checkpoint, row.pages>> = <<e.phase, e.checkpoint, e.pages>>

NextPhase(e) ==
  IF e.hasMore THEN e.phase
  ELSE CASE e.phase = "source_page" -> "payout_discovery_page"
         [] e.phase = "payout_discovery_page" -> "incomplete_payout_run_page"
         [] e.phase = "classification_replay_page" -> "classification_replay_finalize"
         [] OTHER -> "completed"
NextCheckpoint(e) == IF e.hasMore THEN CHOOSE i \in e.data : TRUE ELSE Null

\* enqueueFinancialClassificationJob: a row that has its job keeps it
Enrolled(s) == IF ledger[s].job = "none" THEN [ledger[s] EXCEPT !.job = "pending"] ELSE ledger[s]

Continuation_perPhase(e) == ContinuationJob(e.job.root, NextPhase(e), Null) \* mutant: one job for a phase
Continuation(e) == ContinuationJob(e.job.root, NextPhase(e), NextCheckpoint(e))

CommitFinancialScanPage(w) ==
  LET e == exec[w]
      r == e.job.root
      discovered == e.phase = "payout_discovery_page" /\ ~e.hasMore
      completes == NextPhase(e) = "completed"
  IN /\ e.pc = "loaded" /\ e.phase # "classification_replay_finalize"
     /\ IF Unmoved(e) /\ ~(discovered /\ coverage # Null /\ e.window[1] > coverage)
        THEN /\ coverage' = IF discovered THEN Max({coverage, e.window[2]}) ELSE coverage
             /\ requested' = requested \cup ({e.phase} \X e.data)
             /\ ledger' = IF Kind(r) = "replay"
                          THEN [s \in DOMAIN ledger |-> IF s \in e.data THEN Enrolled(s) ELSE ledger[s]]
                          ELSE ledger
             /\ run' = [run EXCEPT
                  ![r].state = IF completes THEN "completed" ELSE @,
                  ![r].phase = IF completes THEN @ ELSE NextPhase(e),
                  ![r].checkpoint = NextCheckpoint(e),
                  ![r].pages = @ + 1,
                  ![r].enqueued = @ + Cardinality(e.data)]
             /\ Ends(w, IF completes THEN job ELSE Enqueue(job, {Continuation(e)}), "ok")
             /\ UNCHANGED authority
        ELSE StateChanged(w)
     /\ UNCHANGED <<agenda, clock, payouts>>

-----------------------------------------------------------------------------
(* The replay's end, and the ledger under it *)

FinalizeFinancialReplay(w) ==
  LET e == exec[w]
      r == e.job.root
      children == {s \in DOMAIN ledger : ledger[s].job # "none"}
  IN /\ e.pc = "loaded" /\ e.phase = "classification_replay_finalize"
     /\ UNCHANGED <<agenda, discoveryVars, ledger>>
     /\ \/ /\ Unmoved(e) /\ Cardinality(children) >= run[r].enqueued /\ Unfinished = {}
           /\ authority' = [active |-> "new", pending |-> FALSE]
           /\ run' = [run EXCEPT ![r].state = "completed", ![r].checkpoint = Null]
           /\ Ends(w, job, "ok")
        \* deferred: the finalizer is to run once more
        \/ /\ Unmoved(e) /\ Cardinality(children) >= run[r].enqueued /\ Unfinished # {}
           /\ job[FinalizerJob(r)].status = "running"
           /\ Ends(w, [job EXCEPT ![FinalizerJob(r)].rerun = TRUE], "retry")
           /\ UNCHANGED <<run, authority>>
        \/ /\ \/ ~Unmoved(e)
              \/ Cardinality(children) < run[r].enqueued
              \/ Unfinished # {} /\ job[FinalizerJob(r)].status # "running"
           /\ Ends(w, job, "retry")
           /\ UNCHANGED <<run, authority>>

\* rearmFinancialClassificationJob
Rearmed(row) ==
  IF row.job = "running" THEN [row EXCEPT !.rerun = TRUE] ELSE [row EXCEPT !.job = "pending"]

Enrolls_never == FALSE \* mutant: the pages of the scan are relied on
Enrolls == authority.pending

\* stageBalanceTransaction, of a row that is new or known; an implementation
\* older than the active one is refused
StageBalanceTransaction(s, implementation) ==
  /\ authority.active = "new" => implementation = "new"
  /\ ledger' = [ledger EXCEPT ![s] =
       [(IF Enrolls THEN Enrolled(s) ELSE ledger[s]) EXCEPT !.evidence = Max({@, 1})]]
  /\ ledger' # ledger
  /\ UNCHANGED <<agenda, scanVars, discoveryVars, authority>>

\* an event or a source job publishes evidence about the purchase, and
\* rearms the row's projections: rearmCurrentProjectionSubjects...
RearmProjectionSubject(s) ==
  /\ ledger[s].evidence \in 1 .. MaxEvidence - 1
  /\ ledger' = [ledger EXCEPT ![s] =
       [(IF authority.pending \/ authority.active = "new" THEN Rearmed(ledger[s]) ELSE ledger[s])
          EXCEPT !.evidence = @ + 1]]
  /\ UNCHANGED <<agenda, scanVars, discoveryVars, authority>>

\* replayFinancialClassification: its job is claimed, and its transaction ..
ReplayFinancialClassification(s) ==
  /\ ledger[s].job = "pending"
  /\ ledger' = [ledger EXCEPT ![s].job = "running", ![s].built = ledger[s].evidence]
  /\ UNCHANGED <<agenda, scanVars, discoveryVars, authority>>

\* .. is followed by the settlement of its job, unless that is to run again
ClassificationSettles(s) ==
  /\ ledger[s].job = "running"
  /\ \E status \in {"succeeded", "failed"} :
       ledger' = [ledger EXCEPT ![s].job = IF ledger[s].rerun THEN "pending" ELSE status,
                                ![s].rerun = FALSE]
  /\ UNCHANGED <<agenda, scanVars, discoveryVars, authority>>

-----------------------------------------------------------------------------
Work(w) ==
  \/ StartOrResumeFinancialScan(w) \/ ResumeFinancialScanContinuation(w)
  \/ FreezePayoutDiscoveryWindow(w) \/ LoadPage(w)
  \/ CommitFinancialScanPage(w) \/ FinalizeFinancialReplay(w)

Progress ==
  \/ \E j \in DOMAIN job, w \in Workers : ClaimScanJob(w, j)
  \/ \E w \in Workers : Work(w)
  \/ \E s \in DOMAIN ledger : ReplayFinancialClassification(s) \/ ClassificationSettles(s)

Next ==
  \/ Progress
  \/ Tick \/ PayoutCreated \/ EnsureScans
  \/ \E w \in Workers : ScanJobThrows(w)
  \/ \E s \in DOMAIN ledger : \/ \E i \in {"old", "new"} : StageBalanceTransaction(s, i)
                              \/ RearmProjectionSubject(s)

Spec == Init /\ [][Next]_vars

-----------------------------------------------------------------------------
(* Properties *)

\* A run that has ended asked for every record that waited, and the coverage
\* of payouts is true: whatever the provider had when the hour of the last
\* discovery began has its job, whichever hours, pages and attempts
\* overlapped, were repeated or were missed.
ScansMissNothing ==
  /\ \A r \in DOMAIN run : run[r].state = "completed" /\ Kind(r) # "replay" =>
       ({"source_page"} \X agenda.sources) \cup ({"incomplete_payout_run_page"} \X agenda.imports)
         \subseteq requested
  /\ \A p \in payouts : p + 1 < coverage => <<"payout_discovery_page", p>> \in requested

\* Reports switch to the new implementation only when every row of the ledger,
\* rows that came while the replay ran included, has been classified by it
\* from the latest evidence.
Switches ==
  authority'.active # authority.active =>
    \A s \in DOMAIN ledger : ledger[s].evidence > 0 =>
      ledger[s].built = ledger[s].evidence /\ ledger[s].job = "succeeded"
SwitchIsComplete == [][Switches]_vars

\* No cursor is left behind: a run that has begun and not ended has a job that
\* will take it further from where it is, or that has failed for good.
CursorHasJob ==
  \A r \in DOMAIN run : run[r].state = "running" =>
    \E j \in DOMAIN job : /\ j = RootJob(r) \/ (j.root = r /\ AtCursor(j))
                          /\ job[j].status # "succeeded"
=============================================================================
