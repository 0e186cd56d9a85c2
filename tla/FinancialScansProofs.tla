------------------------ MODULE FinancialScansProofs ------------------------
(***************************************************************************)
(* FinancialScans, proved for any workers, agendas, evidence and overlap:  *)
(* no record and no payout is skipped, no cursor is left without a job,    *)
(* and reports switch only to an implementation that classified all.       *)
(*                                                                         *)
(* Two jobs, or two attempts of one, may work on pages of a run at a time, *)
(* and what a page was taken from changes before it is committed. The      *)
(* invariant says of a run what is still to be asked for, and where: after *)
(* its cursor. It says the same of a loaded page, so that a page which is  *)
(* committed at its cursor moves it past nothing.                          *)
(***************************************************************************)
EXTENDS FinancialScans, FiniteSetTheorems, TLAPS

-----------------------------------------------------------------------------
Phases == {"source_page", "payout_discovery_page", "incomplete_payout_run_page",
           "classification_replay_page", "classification_replay_finalize"}
PhasesOf(r) ==
  IF Kind(r) = "replay" THEN {"classification_replay_page", "classification_replay_finalize"}
  ELSE {"source_page", "payout_discovery_page", "incomplete_payout_run_page"}

\* the phases a run has behind it
Earlier(phase) ==
  CASE phase = "payout_discovery_page" -> {"source_page"}
    [] phase = "incomplete_payout_run_page" -> {"source_page", "payout_discovery_page"}
    [] phase = "classification_replay_finalize" -> {"classification_replay_page"}
    [] OTHER -> {}

\* record i comes after checkpoint c; payouts come newest first
After(phase, c, i) == IF phase = "payout_discovery_page" THEN c = Null \/ i < c ELSE i > c

\* The records a phase is to ask for and has not yet. Of the payouts of the
\* window's last hour more may come; a row of the ledger is asked for by giving
\* it a job, until the new implementation is the active one.
Unasked(phase, window) ==
  CASE phase = "source_page" -> {i \in agenda.sources : <<phase, i>> \notin requested}
    [] phase = "payout_discovery_page" ->
         {p \in payouts : window[1] <= p /\ p + 1 < window[2] /\ <<phase, p>> \notin requested}
    [] phase = "incomplete_payout_run_page" -> {i \in agenda.imports : <<phase, i>> \notin requested}
    [] phase = "classification_replay_page" ->
         {s \in DOMAIN ledger :
            authority.active = "old" /\ ledger[s].evidence > 0 /\ ledger[s].job = "none"}
    [] OTHER -> {}

-----------------------------------------------------------------------------
JobStatus == {"pending", "running", "succeeded", "failed"}
JobType == [status : JobStatus, attempts : Nat, holder : Workers \cup {NoWorker}, rerun : BOOLEAN]
Key(r) == [root : {r}, phase : {"root"} \cup PhasesOf(r), checkpoint : Nat]
RunType == [state : {"running", "completed"}, phase : Phases, checkpoint : Nat,
            window : Nat \X Nat, pages : Nat, enqueued : Nat, startedAt : Nat]
PageType == [pc : {"unfrozen", "frozen", "loaded"}, job : DOMAIN job, phase : Phases,
             checkpoint : Nat, pages : Nat, window : Nat \X Nat, data : SUBSET Nat, hasMore : BOOLEAN]
RowType == [evidence : Nat, built : Nat, job : {"none"} \cup JobStatus, rerun : BOOLEAN]

WorldHolds ==
  /\ agenda \in Agendas /\ clock \in Nat \ {0} /\ payouts \subseteq 1 .. clock
  /\ coverage \in 0 .. clock + 1
  /\ authority \in [active : {"old", "new"}, pending : BOOLEAN]

\* A discovery reaches back to what is covered, and not into the future.
WindowHolds(window) ==
  /\ window[1] = Null \/ window[1] + 1 <= coverage
  /\ window[2] <= clock + 1

\* What is before the cursor of a run has been asked for.
RowHolds(r, row) ==
  /\ row \in RunType /\ row.phase \in PhasesOf(r) /\ row.startedAt <= clock
  /\ WindowHolds(row.window)
  /\ Kind(r) = "replay" /\ authority.active = "old" => authority.pending
  /\ row.phase = "payout_discovery_page" /\ row.window = NoWindow => row.checkpoint = Null
  /\ \A phase \in Earlier(row.phase) : Unasked(phase, row.window) = {}
  /\ \A i \in Unasked(row.phase, row.window) :
       row.state = "running" /\ After(row.phase, row.checkpoint, i)
  /\ row.state = "completed" =>
       row.phase \in {"incomplete_payout_run_page", "classification_replay_finalize"}
RunsHold ==
  /\ run \in [agenda.roots -> {NoRun} \cup RunType]
  /\ \A r \in agenda.roots : run[r] # NoRun => RowHolds(r, run[r])

\* The cursor of a continuation is not ahead of the run's.
NotAhead(j, row) ==
  \/ j.phase \in Earlier(row.phase)
  \/ /\ j.phase = row.phase
     /\ \/ j.checkpoint = row.checkpoint
        \/ row.checkpoint # Null /\ After(row.phase, j.checkpoint, row.checkpoint)

JobHolds(j) ==
  /\ j.root \in agenda.roots /\ j \in Key(j.root)
  /\ Kind(j.root) = "hourly" => j.root[2] <= clock
  /\ j.phase = "root" =>
       j = RootJob(j.root) /\ (job[j].status = "succeeded" => run[j.root] # NoRun)
  /\ j.phase # "root" =>
       /\ run[j.root] # NoRun
       /\ run[j.root].state = "running" => NotAhead(j, run[j.root])
JobsHold == job \in [DOMAIN job -> JobType] /\ \A j \in DOMAIN job : JobHolds(j)

\* A loaded page holds the next record after its cursor, and says whether there
\* are more; what has been asked for since does not matter.
PageHolds(e) ==
  /\ IsFiniteSet(e.data)
  /\ e.hasMore => \E x \in e.data : x # Null /\ e.data = {x} /\ After(e.phase, e.checkpoint, x)
  /\ \A i \in Unasked(e.phase, e.window) : After(e.phase, e.checkpoint, i) =>
       i \in e.data \/ (e.hasMore /\ \A x \in e.data : After(e.phase, x, i))
  /\ e.phase = "classification_replay_page" =>
       \A s \in e.data : s \in DOMAIN ledger /\ ledger[s].evidence > 0

WorkHolds(e) ==
  \/ e = Idle
  \/ e.job \in DOMAIN job /\ e = [pc |-> "claimed", job |-> e.job]
  \/ /\ e \in PageType /\ run[e.job.root] # NoRun /\ e.phase \in PhasesOf(e.job.root)
     /\ e.pc = "unfrozen" => e.phase = "payout_discovery_page"
     /\ e.pc = "frozen" => e.phase # "classification_replay_finalize"
     /\ e.phase = "payout_discovery_page" /\ e.pc # "unfrozen" =>
          e.window # NoWindow /\ e.window = run[e.job.root].window
     /\ e.pc = "loaded" => PageHolds(e)
WorkersHold ==
  /\ DOMAIN exec = Workers /\ exec = [w \in Workers |-> exec[w]]
  /\ \A w \in Workers : WorkHolds(exec[w])

\* A classification that has ended, or will without another, used the latest
\* evidence.
SubjectHolds(s) ==
  /\ ledger[s].job # "none" =>
       ledger[s].evidence > 0 /\ (authority.active = "old" => authority.pending)
  /\ ledger[s].job = "succeeded" \/ (ledger[s].job = "running" /\ ~ledger[s].rerun) =>
       ledger[s].built = ledger[s].evidence
LedgerHolds == ledger \in [agenda.ledger -> RowType] /\ \A s \in agenda.ledger : SubjectHolds(s)

CoverageHolds == \A p \in payouts : p + 1 < coverage => <<"payout_discovery_page", p>> \in requested

IInv ==
  /\ WorldHolds /\ RunsHold /\ JobsHold /\ WorkersHold /\ LedgerHolds
  /\ CoverageHolds /\ CursorHasJob

-----------------------------------------------------------------------------
(* The least and the greatest of finitely many numbers                     *)

\* Finitely many numbers have a least one.
LEMMA LeastExists ==
  ASSUME NEW S \in SUBSET Nat, IsFiniteSet(S), S # {}
  PROVE  \E x \in S : \A y \in S : x <= y
<1> DEFINE HasLeast(U) == \E x \in U : \A y \in U : x <= y
           Without == {U \in FiniteSubsetsOf(Nat) : U # {} /\ ~HasLeast(U)}
           Smaller == StrictSubsetOrdering(Nat)
<1> SUFFICES ASSUME Without # {} PROVE FALSE
  BY DEF FiniteSubsetsOf
<1>1. PICK U \in Without : \A V \in Without : ~(<<V, U>> \in Smaller)
  BY FS_StrictSubsetOrderingWellFounded, WFMin
<1>2. PICK x \in U : TRUE
  OBVIOUS
<1>3. U \ {x} \in FiniteSubsetsOf(Nat) /\ <<U \ {x}, U>> \in Smaller
  BY FS_RemoveElement DEF StrictSubsetOrdering, FiniteSubsetsOf
<1>4. CASE U \ {x} = {}
  BY <1>4 DEF FiniteSubsetsOf
<1>5. CASE U \ {x} # {}
  <2>1. PICK z \in U \ {x} : \A y \in U \ {x} : z <= y
    BY <1>1, <1>3, <1>5
  <2>2. x \in Nat /\ z \in Nat
    BY DEF FiniteSubsetsOf
  <2>3. CASE x <= z
    <3>1. \A y \in U : x <= y
      BY <2>1, <2>2, <2>3 DEF FiniteSubsetsOf
    <3>2. QED
      BY <3>1
  <2>4. CASE z <= x
    <3>1. \A y \in U : z <= y
      BY <2>1, <2>2, <2>4 DEF FiniteSubsetsOf
    <3>2. QED
      BY <3>1
  <2>5. QED
    BY <2>2, <2>3, <2>4
<1> QED
  BY <1>4, <1>5

\* So Min is it.
LEMMA MinIsLeast ==
  ASSUME NEW S \in SUBSET Nat, IsFiniteSet(S), S # {}
  PROVE  Min(S) \in S /\ \A y \in S : Min(S) <= y
BY LeastExists DEF Min

\* And Max the greatest.
LEMMA MaxIsGreatest ==
  ASSUME NEW S \in SUBSET Nat, IsFiniteSet(S), S # {}, NEW bound \in Nat, \A y \in S : y <= bound
  PROVE  Max(S) \in S /\ \A y \in S : y <= Max(S)
<1> DEFINE Mirrored == {bound - y : y \in S}
<1>1. Mirrored \in SUBSET Nat /\ IsFiniteSet(Mirrored) /\ Mirrored # {}
  <2>1. IsFiniteSet(Mirrored)
    <3>1. [y \in S |-> bound - y] \in Surjection(S, Mirrored)
      BY DEF Surjection
    <3>2. QED
      BY <3>1, FS_Surjection
  <2>2. \A y \in S : bound - y \in Nat
    OBVIOUS
  <2>3. QED
    BY <2>1, <2>2
<1>2. PICK z \in Mirrored : \A y \in Mirrored : z <= y
  BY <1>1, LeastExists
<1>3. PICK x \in S : z = bound - x
  OBVIOUS
<1>4. \A y \in S : x >= y
  <2> TAKE y \in S
  <2>1. z <= bound - y
    BY <1>2
  <2>2. x \in Nat /\ y \in Nat
    OBVIOUS
  <2> QED
    BY <1>3, <2>1, <2>2
<1>5. \E m \in S : \A y \in S : m >= y
  BY <1>4
<1>6. Max(S) \in S /\ \A y \in S : Max(S) >= y
  BY <1>5 DEF Max
<1>7. \A y \in S : Max(S) >= y <=> y <= Max(S)
  BY <1>6
<1> QED
  BY <1>6, <1>7

\* Where there is one more than x, there is more than one.
LEMMA MoreThanOne ==
  ASSUME NEW S, IsFiniteSet(S)
  PROVE  /\ \A x, y \in S : x # y => Cardinality(S) > 1
         /\ Cardinality(S) > 1 => S # {}
<1>1. Cardinality(S) \in Nat
  BY FS_CardinalityType
<1>2. ASSUME NEW x \in S, NEW y \in S, x # y
      PROVE  Cardinality(S) > 1
  <2>1. Cardinality(S \ {x}) = Cardinality(S) - 1 /\ IsFiniteSet(S \ {x})
    BY FS_RemoveElement
  <2>2. S \ {x} # {}
    BY <1>2
  <2>3. Cardinality(S \ {x}) # 0 /\ Cardinality(S \ {x}) \in Nat
    BY <2>1, <2>2, FS_EmptySet, FS_CardinalityType
  <2>4. QED
    BY <1>1, <2>1, <2>3
<1>3. Cardinality({}) = 0
  BY FS_EmptySet
<1> QED
  BY <1>1, <1>2, <1>3

-----------------------------------------------------------------------------
(* Steps beside a run, its jobs and its workers                            *)

\* Hours pass and payouts are created in them; coverage, what was asked for and
\* evidence only grow. While the old implementation is active nothing new is
\* unasked, once a replay is pending.
Smooth ==
  /\ UNCHANGED agenda /\ WorldHolds'
  /\ clock <= clock' /\ coverage <= coverage' /\ requested \subseteq requested'
  /\ \A p \in payouts' : p \in payouts \/ p = clock
  /\ authority'.active = "old" =>
       authority.active = "old" /\ (authority.pending => authority'.pending)
  /\ DOMAIN ledger' = DOMAIN ledger
  /\ \A s \in DOMAIN ledger : ledger[s].evidence > 0 => ledger'[s].evidence > 0
  /\ authority'.active = "old" /\ authority.pending =>
       \A s \in DOMAIN ledger : ledger'[s].job = "none" /\ ledger'[s].evidence > 0 =>
         ledger[s].job = "none" /\ ledger[s].evidence > 0

\* A run's row goes on: it keeps its window once that is frozen, and its cursor
\* leaves no job behind it ahead.
RunsGo ==
  \A r \in agenda.roots : run[r] # NoRun =>
    /\ run'[r] # NoRun
    /\ run[r].window # NoWindow => run'[r].window = run[r].window
    /\ run'[r].state = "running" =>
         /\ run[r].state = "running"
         /\ \A j \in DOMAIN job : j.root = r /\ NotAhead(j, run[r]) => NotAhead(j, run'[r])

\* Steps elsewhere are smooth.
LEMMA SmoothStays ==
  ASSUME IInv, UNCHANGED <<agenda, discoveryVars, replayVars>>
  PROVE  Smooth
<1>1. WorldHolds
  BY DEF IInv
<1>2. WorldHolds'
  BY <1>1 DEF WorldHolds, discoveryVars, replayVars
<1>3. clock \in Nat /\ coverage \in Nat
  BY <1>1 DEF WorldHolds
<1> QED
  BY <1>2, <1>3 DEF Smooth, discoveryVars, replayVars

\* And rows that stay go on.
LEMMA SameRunsGo ==
  ASSUME UNCHANGED run
  PROVE  RunsGo
BY DEF RunsGo

\* What is in the world.
LEMMA WorldIs ==
  ASSUME WorldHolds
  PROVE  /\ clock \in Nat \ {0} /\ coverage \in Nat /\ coverage <= clock + 1
         /\ payouts \subseteq Nat \ {0} /\ \A p \in payouts : p <= clock
         /\ IsFiniteSet(payouts)
         /\ \A ids \in {agenda.sources, agenda.imports, agenda.ledger} :
              IsFiniteSet(ids) /\ ids \subseteq Nat \ {0}
         /\ \A r \in agenda.roots :
              r \in {Initial, Replay} \/ (r = Hourly(r[2]) /\ r[2] \in Nat \ {0})
<1>1. clock \in Nat \ {0} /\ payouts \subseteq 1 .. clock /\ coverage \in 0 .. clock + 1
  BY DEF WorldHolds
<1>2. IsFiniteSet(payouts)
  <2>1. 1 \in Int /\ clock \in Int
    BY <1>1
  <2>2. IsFiniteSet(1 .. clock)
    BY <2>1, FS_Interval
  <2>3. QED
    BY <1>1, <2>2, FS_Subset
<1> QED
  BY <1>1, <1>2, AgendaAssumption DEF WorldHolds

\* Nothing new is to be asked for: payouts come in the last hour of a window,
\* and the ledger enrolls its rows.
LEMMA UnaskedShrinks ==
  ASSUME IInv, Smooth, NEW phase, NEW window \in Nat \X Nat,
         phase = "payout_discovery_page" => window[2] <= clock + 1,
         phase = "classification_replay_page" /\ authority.active = "old" => authority.pending
  PROVE  \A i \in Unasked(phase, window)' : i \in Unasked(phase, window)
<1>1. /\ agenda' = agenda /\ requested \subseteq requested' /\ DOMAIN ledger' = DOMAIN ledger
      /\ clock \in Nat /\ payouts \subseteq Nat
  BY WorldIs DEF Smooth, IInv
<1> TAKE i \in Unasked(phase, window)'
<1>2. CASE phase = "source_page"
  BY <1>1, <1>2 DEF Unasked
<1>3. CASE phase = "payout_discovery_page"
  <2>1. /\ i \in payouts' /\ window[1] <= i /\ i + 1 < window[2]
        /\ <<phase, i>> \notin requested'
    BY <1>3 DEF Unasked
  <2>2. i # clock
    BY <1>1, <1>3, <2>1
  <2>3. i \in payouts
    BY <2>1, <2>2 DEF Smooth
  <2>4. QED
    BY <1>1, <1>3, <2>1, <2>3 DEF Unasked
<1>4. CASE phase = "incomplete_payout_run_page"
  BY <1>1, <1>4 DEF Unasked
<1>5. CASE phase = "classification_replay_page"
  <2>1. /\ i \in DOMAIN ledger /\ authority'.active = "old"
        /\ ledger'[i].job = "none" /\ ledger'[i].evidence > 0
    BY <1>1, <1>5 DEF Unasked
  <2>2. authority.active = "old" /\ authority.pending
    BY <1>5, <2>1 DEF Smooth
  <2>3. ledger[i].job = "none" /\ ledger[i].evidence > 0
    BY <2>1, <2>2 DEF Smooth
  <2>4. QED
    BY <1>5, <2>1, <2>2, <2>3 DEF Unasked
<1>6. CASE phase \notin {"source_page", "payout_discovery_page", "incomplete_payout_run_page",
                         "classification_replay_page"}
  BY <1>6 DEF Unasked
<1> QED
  BY <1>2, <1>3, <1>4, <1>5, <1>6

\* A row that stays is in order.
LEMMA RowStays ==
  ASSUME IInv, Smooth, NEW r \in agenda.roots, NEW row, RowHolds(r, row)
  PROVE  RowHolds(r, row)'
<1>1. /\ row \in RunType /\ row.phase \in PhasesOf(r) /\ row.startedAt \in Nat
      /\ row.window \in Nat \X Nat /\ WindowHolds(row.window) /\ row.startedAt <= clock
      /\ Kind(r) = "replay" /\ authority.active = "old" => authority.pending
  BY DEF RowHolds, RunType
<1>2. /\ clock \in Nat /\ coverage \in Nat /\ clock' \in Nat /\ coverage' \in Nat
      /\ clock <= clock' /\ coverage <= coverage'
  BY WorldIs DEF Smooth, IInv, WorldHolds
<1>3. WindowHolds(row.window)'
  BY <1>1, <1>2 DEF WindowHolds
<1>4. Kind(r) = "replay" /\ authority'.active = "old" => authority'.pending
  BY <1>1 DEF Smooth
<1>5. ASSUME NEW phase \in PhasesOf(r)
      PROVE  \A i \in Unasked(phase, row.window)' : i \in Unasked(phase, row.window)
  <2>1. row.window[2] <= clock + 1
    BY <1>1 DEF WindowHolds
  <2>2. phase = "classification_replay_page" /\ authority.active = "old" => authority.pending
    BY <1>1 DEF PhasesOf
  <2>3. QED
    BY <1>1, <2>1, <2>2, UnaskedShrinks
<1>6. \A phase \in Earlier(row.phase) : phase \in PhasesOf(r)
  BY <1>1 DEF Earlier, PhasesOf
<1>7. \A phase \in Earlier(row.phase) : Unasked(phase, row.window)' = {}
  BY <1>5, <1>6 DEF RowHolds
<1>8. \A i \in Unasked(row.phase, row.window)' :
        row.state = "running" /\ After(row.phase, row.checkpoint, i)
  BY <1>1, <1>5 DEF RowHolds
<1>9. row.startedAt <= clock'
  BY <1>1, <1>2
<1> QED
  BY <1>1, <1>3, <1>4, <1>7, <1>8, <1>9 DEF RowHolds

\* A page that stays loaded is in order.
LEMMA PageStays ==
  ASSUME IInv, Smooth, NEW e, PageHolds(e), e.window \in Nat \X Nat,
         e.phase = "payout_discovery_page" => e.window[2] <= clock + 1,
         e.phase = "classification_replay_page" /\ authority.active = "old" => authority.pending
  PROVE  PageHolds(e)'
<1>1. \A i \in Unasked(e.phase, e.window)' : i \in Unasked(e.phase, e.window)
  BY UnaskedShrinks
<1>2. e.phase = "classification_replay_page" =>
        \A s \in e.data : s \in DOMAIN ledger' /\ ledger'[s].evidence > 0
  BY DEF PageHolds, Smooth
<1> QED
  BY <1>1, <1>2 DEF PageHolds

\* So is what a worker does that keeps doing it.
LEMMA WorkStays ==
  ASSUME IInv, Smooth, RunsGo, DOMAIN job \subseteq DOMAIN job', NEW e, WorkHolds(e)
  PROVE  WorkHolds(e)'
<1> DEFINE r == e.job.root
<1>1. CASE e = Idle
  BY <1>1 DEF WorkHolds
<1>2. CASE e.job \in DOMAIN job /\ e = [pc |-> "claimed", job |-> e.job]
  BY <1>2 DEF WorkHolds
<1>3. CASE e \in PageType /\ run[r] # NoRun /\ e.phase \in PhasesOf(r) /\ e.pc # "claimed" /\ e # Idle
  <2>1. e.job \in DOMAIN job /\ e.window \in Nat \X Nat /\ e.pc \in {"unfrozen", "frozen", "loaded"}
    BY <1>3 DEF PageType
  <2>2. r \in agenda.roots /\ RowHolds(r, run[r])
    BY <1>3, <2>1 DEF IInv, JobsHold, JobHolds, RunsHold
  <2>3. e \in PageType'
    BY <1>3 DEF PageType
  <2>4. /\ run'[r] # NoRun
        /\ run[r].window # NoWindow => run'[r].window = run[r].window
    BY <1>3, <2>2 DEF RunsGo
  <2>5. /\ e.pc = "unfrozen" => e.phase = "payout_discovery_page"
        /\ e.pc = "frozen" => e.phase # "classification_replay_finalize"
        /\ e.phase = "payout_discovery_page" /\ e.pc # "unfrozen" =>
             e.window # NoWindow /\ e.window = run[r].window
        /\ e.pc = "loaded" => PageHolds(e)
    BY <1>3, <2>1 DEF WorkHolds, Idle
  <2>6. ASSUME e.pc = "loaded" PROVE PageHolds(e)'
    <3>1. e.phase = "payout_discovery_page" => e.window[2] <= clock + 1
      BY <2>2, <2>5, <2>6 DEF RowHolds, WindowHolds
    <3>2. e.phase = "classification_replay_page" /\ authority.active = "old" => authority.pending
      BY <1>3, <2>2 DEF RowHolds, PhasesOf
    <3>3. QED
      BY <2>1, <2>5, <2>6, <3>1, <3>2, PageStays
  <2>7. QED
    BY <1>3, <2>3, <2>4, <2>5, <2>6 DEF WorkHolds
<1> QED
  BY <1>1, <1>2, <1>3 DEF WorkHolds, PageType, Idle

\* The workers are in order when one of them goes on to something that is.
LEMMA WorkersMove ==
  ASSUME IInv, Smooth, RunsGo, DOMAIN job \subseteq DOMAIN job', NEW w \in Workers, NEW v,
         exec' = [exec EXCEPT ![w] = v], WorkHolds(v)'
  PROVE  WorkersHold'
<1>1. DOMAIN exec = Workers /\ exec = [x \in Workers |-> exec[x]] /\ \A x \in Workers : WorkHolds(exec[x])
  BY DEF IInv, WorkersHold
<1>2. exec' = [x \in Workers |-> IF x = w THEN v ELSE exec[x]]
  BY <1>1
<1>3. ASSUME NEW x \in Workers PROVE WorkHolds(exec[x])'
  <2>1. CASE x = w
    <3>1. exec'[x] = v
      BY <1>2, <2>1
    <3>2. QED
      BY <3>1 DEF WorkHolds, PageHolds, After, Unasked
  <2>2. CASE x # w
    <3>1. PICK e : e = exec[x]
      OBVIOUS
    <3>2. WorkHolds(e)' /\ exec'[x] = e
      BY <1>1, <1>2, <2>2, <3>1, WorkStays
    <3>3. QED
      BY <3>2 DEF WorkHolds, PageHolds, After, Unasked
  <2>3. QED
    BY <2>1, <2>2
<1> QED
  BY <1>2, <1>3 DEF WorkersHold

\* And when all go on with what they do.
LEMMA WorkersStay ==
  ASSUME IInv, Smooth, RunsGo, DOMAIN job \subseteq DOMAIN job', UNCHANGED exec
  PROVE  WorkersHold'
<1>1. DOMAIN exec = Workers /\ exec = [x \in Workers |-> exec[x]] /\ \A x \in Workers : WorkHolds(exec[x])
  BY DEF IInv, WorkersHold
<1>2. ASSUME NEW x \in Workers PROVE WorkHolds(exec[x])'
  <2>1. PICK e : e = exec[x]
    OBVIOUS
  <2>2. WorkHolds(e)' /\ exec'[x] = e
    BY <1>1, <2>1, WorkStays
  <2>3. QED
    BY <2>2 DEF WorkHolds, PageHolds, After, Unasked
<1> QED
  BY <1>1, <1>2 DEF WorkersHold

\* A job stays in order, if it does not end before its run has begun.
LEMMA JobStays ==
  ASSUME IInv, Smooth, RunsGo, NEW j \in DOMAIN job,
         job'[j].status = "succeeded" => job[j].status = "succeeded" \/ run'[j.root] # NoRun
  PROVE  JobHolds(j)'
<1>1. JobHolds(j)
  BY DEF IInv, JobsHold
<1>2. clock \in Nat /\ clock' \in Nat /\ clock <= clock'
  BY WorldIs DEF Smooth, IInv, WorldHolds
<1>3. Kind(j.root) = "hourly" => j.root[2] <= clock'
  <2>1. Kind(j.root) = "hourly" => j.root[2] \in Nat
    BY <1>1, WorldIs DEF JobHolds, IInv, Kind, Initial, Replay, Hourly
  <2>2. QED
    BY <1>1, <1>2, <2>1 DEF JobHolds
<1>4. run[j.root] # NoRun => run'[j.root] # NoRun
  BY <1>1 DEF JobHolds, RunsGo
<1>5. ASSUME j.phase # "root"
      PROVE  /\ run'[j.root] # NoRun
             /\ run'[j.root].state = "running" => NotAhead(j, run'[j.root])
  BY <1>1, <1>5 DEF JobHolds, RunsGo
<1>6. j.root \in agenda'.roots /\ j \in Key(j.root)
  BY <1>1 DEF JobHolds, Smooth
<1> QED
  BY <1>1, <1>3, <1>4, <1>5, <1>6 DEF JobHolds

\* So do all.
LEMMA JobsStay ==
  ASSUME IInv, Smooth, RunsGo, job' \in [DOMAIN job' -> JobType],
         \A j \in DOMAIN job' :
           \/ /\ j \in DOMAIN job
              /\ job'[j].status = "succeeded" => job[j].status = "succeeded" \/ run'[j.root] # NoRun
           \/ JobHolds(j)'
  PROVE  JobsHold'
<1>1. ASSUME NEW j \in DOMAIN job' PROVE JobHolds(j)'
  BY <1>1, JobStays
<1> QED
  BY <1>1 DEF JobsHold

\* The rows stay in order when none of them changes.
LEMMA RunsStay ==
  ASSUME IInv, Smooth, UNCHANGED run
  PROVE  RunsHold'
<1>1. run \in [agenda.roots -> {NoRun} \cup RunType]
  BY DEF IInv, RunsHold
<1>2. ASSUME NEW r \in agenda.roots, run[r] # NoRun
      PROVE  RowHolds(r, run[r])'
  <2>1. PICK row : row = run[r]
    OBVIOUS
  <2>2. RowHolds(r, row)
    BY <1>2, <2>1 DEF IInv, RunsHold
  <2>3. RowHolds(r, row)'
    BY <2>2, RowStays
  <2> QED
    BY <2>1, <2>3 DEF RowHolds, WindowHolds, Unasked, After, Earlier
<1> QED
  BY <1>1, <1>2 DEF RunsHold, Smooth

\* And when one does that is in order itself.
LEMMA RunMoves ==
  ASSUME IInv, Smooth, NEW r \in agenda.roots, NEW row \in RunType,
         run' = [run EXCEPT ![r] = row], RowHolds(r, row)'
  PROVE  RunsHold'
<1>1. run \in [agenda.roots -> {NoRun} \cup RunType]
  BY DEF IInv, RunsHold
<1>2. run' = [q \in agenda.roots |-> IF q = r THEN row ELSE run[q]]
  BY <1>1
<1>3. ASSUME NEW q \in agenda.roots, run'[q] # NoRun
      PROVE  RowHolds(q, run[q])'
  <2>1. PICK old : old = run'[q]
    OBVIOUS
  <2>2. RowHolds(q, old)'
    <3>1. CASE q = r
      BY <1>2, <2>1, <3>1
    <3>2. CASE q # r
      <4>1. RowHolds(q, old)
        BY <1>2, <1>3, <2>1, <3>2 DEF IInv, RunsHold
      <4> QED
        BY <4>1, RowStays
    <3> QED
      BY <3>1, <3>2
  <2> QED
    BY <2>1, <2>2 DEF RowHolds, WindowHolds, Unasked, After, Earlier
<1>4. run' \in [agenda.roots -> {NoRun} \cup RunType]
  BY <1>1, <1>2
<1> QED
  BY <1>3, <1>4 DEF RunsHold, Smooth

\* The ledger stays in order beside smooth steps.
LEMMA LedgerStays ==
  ASSUME IInv, Smooth, UNCHANGED ledger
  PROVE  LedgerHolds'
<1>1. ledger \in [agenda.ledger -> RowType] /\ \A s \in agenda.ledger : SubjectHolds(s)
  BY DEF IInv, LedgerHolds
<1>2. \A s \in agenda.ledger : SubjectHolds(s)'
  BY <1>1 DEF SubjectHolds, Smooth
<1> QED
  BY <1>1, <1>2 DEF LedgerHolds, Smooth

\* A payout that comes is of an hour that is not covered.
LEMMA CoverageStays ==
  ASSUME IInv, Smooth, UNCHANGED coverage
  PROVE  CoverageHolds'
<1>1. clock \in Nat /\ coverage \in Nat /\ coverage <= clock + 1 /\ CoverageHolds
  BY WorldIs DEF IInv
<1> QED
  BY <1>1 DEF CoverageHolds, Smooth

\* A cursor that stays keeps a job, unless that has just succeeded.
LEMMA CursorStays ==
  ASSUME IInv, NEW q \in agenda.roots, run[q].state = "running",
         /\ run'[q].state = run[q].state /\ run'[q].phase = run[q].phase
         /\ run'[q].checkpoint = run[q].checkpoint,
         DOMAIN job \subseteq DOMAIN job',
         \A j \in DOMAIN job :
           /\ j.root = q
           /\ j.phase = "root" \/ AtCursor(j)
           /\ job'[j].status = "succeeded"
           => job[j].status = "succeeded"
  PROVE  \E j \in DOMAIN job' : /\ j = RootJob(q) \/ (j.root = q /\ AtCursor(j)')
                                /\ job'[j].status # "succeeded"
<1>1. DOMAIN run = agenda.roots
  BY DEF IInv, RunsHold
<1>2. PICK j \in DOMAIN job : /\ j = RootJob(q) \/ (j.root = q /\ AtCursor(j))
                              /\ job[j].status # "succeeded"
  BY <1>1 DEF IInv, CursorHasJob
<1>3. j.root = q /\ (j.phase = "root" \/ AtCursor(j))
  BY <1>2 DEF RootJob
<1>4. j.root = q /\ AtCursor(j) => AtCursor(j)'
  BY DEF AtCursor
<1>5. job'[j].status # "succeeded"
  BY <1>2, <1>3
<1>6. j = RootJob(q) \/ (j.root = q /\ AtCursor(j)')
  BY <1>2, <1>4
<1> QED
  BY <1>5, <1>6

\* A step that moves no cursor, and ends no job that has a cursor to move.
LEMMA QuietStep ==
  ASSUME IInv, Smooth, UNCHANGED <<run, coverage>>, LedgerHolds', WorkersHold',
         DOMAIN job \subseteq DOMAIN job', job' \in [DOMAIN job' -> JobType],
         \A j \in DOMAIN job' \ DOMAIN job : JobHolds(j)',
         \A j \in DOMAIN job : job'[j].status = "succeeded" =>
           \/ job[j].status = "succeeded"
           \/ run[j.root] # NoRun /\ (run[j.root].state = "running" => j.phase # "root" /\ ~AtCursor(j))
  PROVE  IInv'
<1>1. RunsGo
  BY SameRunsGo
<1>2. RunsHold'
  BY RunsStay
<1>3. JobsHold'
  BY <1>1, JobsStay
<1>4. CoverageHolds'
  BY CoverageStays
<1>5. CursorHasJob'
  <2>1. DOMAIN run = agenda.roots
    BY DEF IInv, RunsHold
  <2>2. ASSUME NEW q \in DOMAIN run, run[q].state = "running"
        PROVE  \E j \in DOMAIN job' : /\ j = RootJob(q) \/ (j.root = q /\ AtCursor(j)')
                                      /\ job'[j].status # "succeeded"
    BY <2>1, <2>2, CursorStays
  <2> QED
    BY <2>2 DEF CursorHasJob
<1> QED
  BY <1>2, <1>3, <1>4, <1>5 DEF IInv, Smooth

\* How a worker ends: it settles its own job, which succeeds only if the worker did.
LEMMA EndsIs ==
  ASSUME NEW w \in Workers, NEW jobs, jobs \in [DOMAIN jobs -> JobType], exec[w].job \in DOMAIN jobs,
         NEW outcome, Ends(w, jobs, outcome)
  PROVE  /\ exec' = [exec EXCEPT ![w] = Idle]
         /\ DOMAIN job' = DOMAIN jobs /\ job' \in [DOMAIN jobs -> JobType]
         /\ \A j \in DOMAIN jobs : job'[j].status = "succeeded" =>
              jobs[j].status = "succeeded" \/ (j = exec[w].job /\ outcome = "ok")
<1> DEFINE k == exec[w].job
           row == jobs[k]
<1>1. exec' = [exec EXCEPT ![w] = Idle]
  BY DEF Ends
<1>2. CASE row.status = "running" /\ row.holder = w
  <2>1. PICK next \in {Settled(k, row, outcome), Abandoned(k, row)} : job' = [jobs EXCEPT ![k] = next]
    BY <1>2 DEF Ends
  <2>2. row \in JobType
    OBVIOUS
  <2>4. [row EXCEPT !.status = "pending", !.holder = NoWorker] \in JobType
        /\ [row EXCEPT !.status = "pending", !.holder = NoWorker].status = "pending"
    BY <2>2 DEF JobType, JobStatus
  <2>5. NewJob \in JobType /\ NewJob.status = "pending"
    BY DEF NewJob, JobType, JobStatus
  <2>6. ASSUME NEW status \in JobStatus
        PROVE  Ended(status) \in JobType /\ Ended(status).status = status
    <3>1. PICK new \in JobType : new = NewJob
      BY <2>5
    <3>2. [new EXCEPT !.status = status] \in JobType /\ [new EXCEPT !.status = status].status = status
      BY DEF JobType
    <3> QED
      BY <3>1, <3>2 DEF Ended
  <2>7. next \in JobType /\ (next.status = "succeeded" => outcome = "ok")
    <3>1. CASE next = Settled(k, row, outcome)
      BY <2>4, <2>5, <2>6, <3>1 DEF Settled, JobStatus
    <3>2. CASE next = Abandoned(k, row)
      BY <1>2, <2>2, <2>6, <3>2 DEF Abandoned, JobStatus
    <3> QED
      BY <2>1, <3>1, <3>2
  <2> HIDE DEF k, row
  <2>8. \A j \in DOMAIN jobs : job'[j] = IF j = k THEN next ELSE jobs[j]
    BY <2>1
  <2>9. DOMAIN job' = DOMAIN jobs /\ job' \in [DOMAIN jobs -> JobType]
    BY <2>1, <2>7
  <2> QED
    BY <1>1, <2>7, <2>8, <2>9 DEF k
<1>3. CASE ~(row.status = "running" /\ row.holder = w)
  BY <1>1, <1>3 DEF Ends
<1> QED
  BY <1>2, <1>3

-----------------------------------------------------------------------------
(* The actions                                                             *)

\* A worker that is not idle has a job there is.
LEMMA BusyHasJob ==
  ASSUME IInv, NEW w \in Workers, exec[w] # Idle
  PROVE  exec[w].job \in DOMAIN job /\ exec[w].job.root \in agenda.roots
<1>1. WorkHolds(exec[w])
  BY DEF IInv, WorkersHold
<1>2. exec[w].job \in DOMAIN job
  BY <1>1 DEF WorkHolds, PageType
<1> QED
  BY <1>2 DEF IInv, JobsHold, JobHolds

\* What types say of the jobs.
LEMMA JobsAre ==
  ASSUME IInv
  PROVE  /\ job \in [DOMAIN job -> JobType]
         /\ DOMAIN exec = Workers
         /\ run \in [agenda.roots -> {NoRun} \cup RunType]
         /\ DOMAIN ledger = agenda.ledger /\ ledger \in [agenda.ledger -> RowType]
BY DEF IInv, JobsHold, WorkersHold, RunsHold, LedgerHolds

\* A worker that ends without a step of its run, and changes no status but its job's.
LEMMA EndsWith ==
  ASSUME IInv, NEW w \in Workers, exec[w] # Idle, NEW outcome, NEW jobs \in [DOMAIN job -> JobType],
         \A j \in DOMAIN job : jobs[j].status = job[j].status, Ends(w, jobs, outcome),
         UNCHANGED <<agenda, run, discoveryVars, replayVars>>,
         outcome = "ok" =>
           /\ run[exec[w].job.root] # NoRun
           /\ run[exec[w].job.root].state = "running" =>
                exec[w].job.phase # "root" /\ ~AtCursor(exec[w].job)
  PROVE  IInv'
<1>1. Smooth
  BY SmoothStays
<1>2. exec[w].job \in DOMAIN jobs /\ DOMAIN jobs = DOMAIN job
  BY BusyHasJob
<1>3. /\ exec' = [exec EXCEPT ![w] = Idle]
      /\ DOMAIN job' = DOMAIN job /\ job' \in [DOMAIN job -> JobType]
      /\ \A j \in DOMAIN job : job'[j].status = "succeeded" =>
           job[j].status = "succeeded" \/ (j = exec[w].job /\ outcome = "ok")
  BY <1>2, EndsIs
<1>4. WorkersHold'
  <2>1. WorkHolds(Idle)'
    BY DEF WorkHolds
  <2>2. RunsGo
    BY SameRunsGo
  <2> QED
    BY <1>1, <1>3, <2>1, <2>2, WorkersMove
<1>5. LedgerHolds'
  BY <1>1, LedgerStays DEF replayVars
<1>6. UNCHANGED <<run, coverage>>
  BY DEF discoveryVars
<1> QED
  BY <1>1, <1>3, <1>4, <1>5, <1>6, QuietStep

\* Most change no other job at all.
LEMMA EndsQuietly ==
  ASSUME IInv, NEW w \in Workers, exec[w] # Idle, NEW outcome, Ends(w, job, outcome),
         UNCHANGED <<agenda, run, discoveryVars, replayVars>>,
         outcome = "ok" =>
           /\ run[exec[w].job.root] # NoRun
           /\ run[exec[w].job.root].state = "running" =>
                exec[w].job.phase # "root" /\ ~AtCursor(exec[w].job)
  PROVE  IInv'
BY JobsAre, EndsWith

\* A worker that stops, or finds that its run went on.
LEMMA ThrowsInductive ==
  ASSUME IInv, NEW w \in Workers, ScanJobThrows(w)
  PROVE  IInv'
BY EndsQuietly DEF ScanJobThrows

\* The same, of one that looks.
LEMMA StateChangedInductive ==
  ASSUME IInv, NEW w \in Workers, exec[w] # Idle, StateChanged(w), UNCHANGED <<agenda, clock, payouts>>
  PROVE  IInv'
BY EndsQuietly DEF StateChanged, discoveryVars

\* Steps that leave runs, jobs and workers alone.
LEMMA AsideInductive ==
  ASSUME IInv, Smooth, UNCHANGED <<scanVars, coverage>>, LedgerHolds'
  PROVE  IInv'
<1>1. WorkersHold'
  BY SameRunsGo, WorkersStay DEF scanVars
<1>2. UNCHANGED <<run, job>> /\ job \in [DOMAIN job -> JobType]
  BY JobsAre DEF scanVars
<1> QED
  BY <1>1, <1>2, QuietStep

\* An hour passes.
LEMMA TickInductive ==
  ASSUME IInv, Tick
  PROVE  IInv'
<1>1. clock \in Nat \ {0} /\ clock' = clock + 1
      /\ coverage \in 0 .. clock + 1 /\ payouts \subseteq 1 .. clock
  BY DEF Tick, IInv, WorldHolds
<1>2. UNCHANGED <<agenda, payouts, coverage, requested, authority, ledger>>
  BY DEF Tick, replayVars
<1>3. WorldHolds'
  <2>1. clock' \in Nat \ {0} /\ coverage' \in 0 .. clock' + 1 /\ payouts' \subseteq 1 .. clock'
    BY <1>1, <1>2
  <2> QED
    BY <1>2, <2>1 DEF WorldHolds, IInv
<1>4. Smooth
  BY <1>1, <1>2, <1>3 DEF Smooth
<1>5. LedgerHolds'
  BY <1>2, <1>4, LedgerStays
<1> QED
  BY <1>2, <1>4, <1>5, AsideInductive DEF Tick

\* A payout is created.
LEMMA PayoutInductive ==
  ASSUME IInv, PayoutCreated
  PROVE  IInv'
<1>1. clock \in Nat \ {0} /\ coverage \in 0 .. clock + 1 /\ payouts \subseteq 1 .. clock
      /\ payouts' = payouts \cup {clock}
  BY DEF PayoutCreated, IInv, WorldHolds
<1>2. UNCHANGED <<agenda, clock, coverage, requested, authority, ledger>>
  BY DEF PayoutCreated, replayVars
<1>3. WorldHolds'
  <2>1. payouts' \subseteq 1 .. clock'
    BY <1>1, <1>2
  <2> QED
    BY <1>1, <1>2, <2>1 DEF WorldHolds, IInv
<1>4. Smooth
  BY <1>1, <1>2, <1>3 DEF Smooth
<1>5. LedgerHolds'
  BY <1>2, <1>4, LedgerStays
<1> QED
  BY <1>2, <1>4, <1>5, AsideInductive DEF PayoutCreated

\* The poll hook asks for scans.
LEMMA EnsureInductive ==
  ASSUME IInv, EnsureScans
  PROVE  IInv'
<1>1. PICK roots \in SUBSET {{Initial, Hourly(clock)}, {Replay}} :
        job' = Enqueue(job, {RootJob(r) : r \in (UNION roots) \cap agenda.roots})
  BY DEF EnsureScans
<1> DEFINE keys == {RootJob(r) : r \in (UNION roots) \cap agenda.roots}
<1>2. UNCHANGED <<agenda, run, exec, discoveryVars, replayVars>>
  BY DEF EnsureScans
<1>3. Smooth
  BY <1>2, SmoothStays
<1>4. job \in [DOMAIN job -> JobType] /\ NewJob \in JobType /\ NewJob.status = "pending"
  BY JobsAre DEF NewJob, JobType, JobStatus
<1>5. /\ DOMAIN job' = DOMAIN job \cup keys
      /\ \A j \in DOMAIN job' : job'[j] = IF j \in DOMAIN job THEN job[j] ELSE NewJob
  BY <1>1 DEF Enqueue
<1>6. job' \in [DOMAIN job' -> JobType]
  BY <1>1, <1>4, <1>5 DEF Enqueue
<1>7. ASSUME NEW j \in DOMAIN job' \ DOMAIN job
      PROVE  JobHolds(j)'
  <2>1. PICK r \in (UNION roots) \cap agenda.roots : j = RootJob(r)
    BY <1>5, <1>7
  <2>2. r \in {Initial, Hourly(clock), Replay}
    BY <2>1
  <2>3. clock \in Nat
    BY WorldIs DEF IInv
  <2>4. Kind(r) = "hourly" => r[2] <= clock
    BY <2>2, <2>3 DEF Kind, Initial, Hourly, Replay
  <2>5. j.root = r /\ j.phase = "root" /\ j \in Key(r)
    BY <2>1 DEF RootJob, Key, Null
  <2>6. job'[j].status = "pending"
    BY <1>4, <1>5, <1>7
  <2>7. agenda' = agenda /\ clock' = clock
    BY <1>2 DEF discoveryVars
  <2> QED
    BY <2>1, <2>4, <2>5, <2>6, <2>7 DEF JobHolds
<1>8. WorkersHold'
  BY <1>2, <1>3, <1>5, SameRunsGo, WorkersStay
<1>9. LedgerHolds'
  BY <1>2, <1>3, LedgerStays DEF replayVars
<1>10. UNCHANGED <<run, coverage>>
  BY <1>2 DEF discoveryVars
<1> QED
  BY <1>3, <1>5, <1>6, <1>7, <1>8, <1>9, <1>10, QuietStep

\* A worker claims a job.
LEMMA ClaimInductive ==
  ASSUME IInv, NEW w \in Workers, NEW k \in DOMAIN job, ClaimScanJob(w, k)
  PROVE  IInv'
<1>1. UNCHANGED <<agenda, run, discoveryVars, replayVars>>
  BY DEF ClaimScanJob
<1>2. Smooth
  BY <1>1, SmoothStays
<1>3. job \in [DOMAIN job -> JobType]
  BY JobsAre
<1>4. PICK new : job' = [job EXCEPT ![k] = new] /\ new \in JobType /\ new.status = "running"
  <2>1. job[k].attempts + 1 \in Nat /\ job[k].rerun \in BOOLEAN
    BY <1>3 DEF JobType
  <2> DEFINE abandoned == job[k].status = "running"
             rerun == job[k].rerun /\ ~abandoned
             attempts == IF abandoned /\ job[k].rerun THEN 1 ELSE job[k].attempts + 1
             row == [status |-> "running", holder |-> w, rerun |-> rerun, attempts |-> attempts]
  <2>2. job' = [job EXCEPT ![k] = row]
    BY DEF ClaimScanJob
  <2>3. attempts \in Nat /\ rerun \in BOOLEAN
    BY <2>1
  <2>4. row \in JobType /\ row.status = "running"
    <3> HIDE DEF attempts, rerun
    <3> QED
      BY <2>3 DEF JobType, JobStatus
  <2> HIDE DEF row
  <2> QED
    BY <2>2, <2>4
<1>5. DOMAIN job' = DOMAIN job /\ job' \in [DOMAIN job -> JobType]
  BY <1>3, <1>4
<1>6. \A j \in DOMAIN job : job'[j].status = "succeeded" => job[j].status = "succeeded"
  BY <1>3, <1>4
<1>7. WorkersHold'
  <2> DEFINE v == [pc |-> "claimed", job |-> k]
  <2>1. exec' = [exec EXCEPT ![w] = v]
    BY DEF ClaimScanJob
  <2>2. WorkHolds(v)'
    BY <1>5 DEF WorkHolds
  <2> HIDE DEF v
  <2> QED
    BY <1>2, <1>5, <1>1, <2>1, <2>2, SameRunsGo, WorkersMove
<1>8. LedgerHolds'
  BY <1>1, <1>2, LedgerStays DEF replayVars
<1>9. UNCHANGED <<run, coverage>>
  BY <1>1 DEF discoveryVars
<1> QED
  BY <1>2, <1>5, <1>6, <1>7, <1>8, <1>9, QuietStep

\* The greater of two.
LEMMA MaxOfTwo ==
  ASSUME NEW a \in Nat, NEW b \in Nat
  PROVE  Max({a, b}) \in {a, b} /\ a <= Max({a, b}) /\ b <= Max({a, b})
<1>1. IsFiniteSet({a, b})
  <2>1. IsFiniteSet({a})
    BY FS_Singleton
  <2>2. IsFiniteSet({a} \cup {b})
    BY <2>1, FS_AddElement
  <2>3. {a, b} = {a} \cup {b}
    OBVIOUS
  <2> QED
    BY <2>2, <2>3
<1>2. \A y \in {a, b} : y <= a + b
  OBVIOUS
<1> QED
  BY <1>1, <1>2, MaxIsGreatest

\* A row of the ledger changes, and loses neither evidence nor job.
LEMMA RowInductive ==
  ASSUME IInv, NEW s \in DOMAIN ledger, NEW row \in RowType, ledger' = [ledger EXCEPT ![s] = row],
         UNCHANGED <<agenda, scanVars, discoveryVars, authority>>,
         ledger[s].evidence > 0 => row.evidence > 0,
         row.job = "none" =>
           ledger[s].job = "none" /\ (row.evidence > 0 /\ authority.pending => ledger[s].evidence > 0),
         row.job # "none" => row.evidence > 0 /\ (authority.active = "old" => authority.pending),
         row.job = "succeeded" \/ (row.job = "running" /\ ~row.rerun) => row.built = row.evidence
  PROVE  IInv'
<1>1. DOMAIN ledger = agenda.ledger /\ ledger \in [agenda.ledger -> RowType]
  BY JobsAre
<1>2. \A t \in DOMAIN ledger : ledger'[t] = IF t = s THEN row ELSE ledger[t]
  BY <1>1
<1>3. DOMAIN ledger' = DOMAIN ledger /\ ledger' \in [agenda.ledger -> RowType]
  BY <1>1
<1>4. Smooth
  <2>1. WorldHolds /\ clock \in Nat /\ coverage \in Nat
    BY WorldIs DEF IInv
  <2>2. WorldHolds'
    BY <2>1 DEF WorldHolds, discoveryVars
  <2> QED
    BY <1>2, <1>3, <2>1, <2>2 DEF Smooth, discoveryVars
<1>5. LedgerHolds'
  <2>1. ASSUME NEW t \in agenda.ledger PROVE SubjectHolds(t)'
    <3>1. SubjectHolds(t)
      BY DEF IInv, LedgerHolds
    <3>2. ledger'[t] = IF t = s THEN row ELSE ledger[t]
      BY <1>1, <1>2
    <3>3. CASE t = s
      BY <3>2, <3>3 DEF SubjectHolds
    <3>4. CASE t # s
      BY <3>1, <3>2, <3>4 DEF SubjectHolds
    <3> QED
      BY <3>3, <3>4
  <2> QED
    BY <1>3, <2>1 DEF LedgerHolds
<1> QED
  BY <1>4, <1>5, AsideInductive DEF discoveryVars

\* What is known of a row of the ledger.
LEMMA RowIs ==
  ASSUME IInv, NEW s \in DOMAIN ledger
  PROVE  /\ SubjectHolds(s) /\ ledger[s] \in RowType
         /\ ledger[s].evidence \in Nat /\ ledger[s].rerun \in BOOLEAN
BY JobsAre DEF IInv, LedgerHolds, RowType

\* A balance transaction is staged.
LEMMA StageInductive ==
  ASSUME IInv, NEW s \in DOMAIN ledger, NEW i, StageBalanceTransaction(s, i)
  PROVE  IInv'
<1>1. PICK old : old = ledger[s] /\ old \in RowType /\ SubjectHolds(s)
  BY RowIs
<1>2. PICK evidence : evidence = Max({old.evidence, 1})
  OBVIOUS
<1>3. evidence \in Nat /\ evidence > 0 /\ (old.evidence > 0 => evidence = old.evidence)
  <2>1. old.evidence \in Nat /\ 1 \in Nat
    BY <1>1 DEF RowType
  <2>2. evidence \in {old.evidence, 1} /\ old.evidence <= evidence /\ 1 <= evidence
    BY <1>2, <2>1, MaxOfTwo
  <2> QED
    BY <2>1, <2>2
<1>4. PICK kept : kept = IF Enrolls THEN Enrolled(s) ELSE old
  OBVIOUS
<1>5. /\ kept \in RowType /\ kept.evidence = old.evidence /\ kept.built = old.built
      /\ kept.job = IF Enrolls /\ old.job = "none" THEN "pending" ELSE old.job
      /\ kept.rerun = old.rerun
  BY <1>1, <1>4 DEF Enrolled, RowType, JobStatus
<1>6. PICK row : row = [kept EXCEPT !.evidence = evidence]
  OBVIOUS
<1>7. /\ row \in RowType /\ row.evidence = evidence /\ row.built = old.built
      /\ row.job = kept.job /\ row.rerun = old.rerun
  BY <1>3, <1>5, <1>6 DEF RowType
<1>8. ledger' = [ledger EXCEPT ![s] = row]
  <2>1. ledger' = [ledger EXCEPT ![s] =
          [(IF Enrolls THEN Enrolled(s) ELSE ledger[s]) EXCEPT !.evidence = Max({@, 1})]]
    BY DEF StageBalanceTransaction
  <2>2. (IF Enrolls THEN Enrolled(s) ELSE ledger[s]) = kept
    BY <1>1, <1>4
  <2>3. ledger' = [ledger EXCEPT ![s] = [kept EXCEPT !.evidence = Max({@, 1})]]
    BY <2>1, <2>2
  <2>4. Max({kept.evidence, 1}) = evidence
    BY <1>2, <1>5
  <2> QED
    BY <1>6, <2>3, <2>4
<1>9. UNCHANGED <<agenda, scanVars, discoveryVars, authority>>
  BY DEF StageBalanceTransaction
<1>10. row.job = "none" => old.job = "none" /\ ~authority.pending
  BY <1>5, <1>7 DEF Enrolls
<1>11. row.job # "none" => (authority.active = "old" => authority.pending)
  BY <1>1, <1>5, <1>7 DEF Enrolls, SubjectHolds
<1>12. row.job = "succeeded" \/ (row.job = "running" /\ ~row.rerun) => row.built = row.evidence
  BY <1>1, <1>3, <1>5, <1>7 DEF SubjectHolds
<1> QED
  BY <1>1, <1>3, <1>7, <1>8, <1>9, <1>10, <1>11, <1>12, RowInductive

\* A row's projections are armed again, for new evidence.
LEMMA RearmInductive ==
  ASSUME IInv, NEW s \in DOMAIN ledger, RearmProjectionSubject(s)
  PROVE  IInv'
<1>1. PICK old : old = ledger[s] /\ old \in RowType /\ SubjectHolds(s)
  BY RowIs
<1>2. old.evidence \in Nat /\ old.evidence > 0
  BY <1>1 DEF RearmProjectionSubject, RowType
<1> DEFINE arms == authority.pending \/ authority.active = "new"
<1>3. PICK kept : kept = IF arms THEN Rearmed(old) ELSE old
  OBVIOUS
<1>4. /\ kept \in RowType /\ kept.evidence = old.evidence
      /\ kept.job = IF arms /\ old.job # "running" THEN "pending" ELSE old.job
      /\ arms /\ kept.job = "running" => kept.rerun
  BY <1>1, <1>3 DEF Rearmed, RowType, JobStatus
<1>5. PICK row : row = [kept EXCEPT !.evidence = old.evidence + 1]
  OBVIOUS
<1>6. /\ row \in RowType /\ row.evidence = old.evidence + 1
      /\ row.job = kept.job /\ row.rerun = kept.rerun
  BY <1>2, <1>4, <1>5 DEF RowType
<1>7. ledger' = [ledger EXCEPT ![s] = row]
  <2>1. ledger' = [ledger EXCEPT ![s] =
          [(IF arms THEN Rearmed(ledger[s]) ELSE ledger[s]) EXCEPT !.evidence = @ + 1]]
    BY DEF RearmProjectionSubject
  <2>2. (IF arms THEN Rearmed(ledger[s]) ELSE ledger[s]) = kept
    BY <1>1, <1>3
  <2>3. ledger' = [ledger EXCEPT ![s] = [kept EXCEPT !.evidence = @ + 1]]
    BY <2>1, <2>2
  <2> QED
    BY <1>4, <1>5, <2>3
<1>8. UNCHANGED <<agenda, scanVars, discoveryVars, authority>>
  BY DEF RearmProjectionSubject
<1>9. authority.active \in {"old", "new"}
  BY DEF IInv, WorldHolds
<1>10. ~arms => old.job = "none"
  BY <1>1, <1>9 DEF SubjectHolds
<1>11. row.job = "none" => old.job = "none"
  BY <1>4, <1>6
<1>12. row.job # "none" => (authority.active = "old" => authority.pending)
  BY <1>4, <1>6, <1>10
<1>13. row.job = "succeeded" \/ (row.job = "running" /\ ~row.rerun) => row.built = row.evidence
  BY <1>4, <1>6, <1>10
<1>14. row.evidence > 0
  BY <1>2, <1>6
<1> HIDE DEF arms
<1> QED
  BY <1>1, <1>2, <1>6, <1>7, <1>8, <1>11, <1>12, <1>13, <1>14, RowInductive

\* A row is classified.
LEMMA ClassifyInductive ==
  ASSUME IInv, NEW s \in DOMAIN ledger, ReplayFinancialClassification(s)
  PROVE  IInv'
<1>1. PICK old : old = ledger[s] /\ old \in RowType /\ SubjectHolds(s)
  BY RowIs
<1>2. PICK row : row = [old EXCEPT !.job = "running", !.built = old.evidence]
  OBVIOUS
<1>3. /\ row \in RowType /\ row.evidence = old.evidence /\ row.built = old.evidence
      /\ row.job = "running"
  BY <1>1, <1>2 DEF RowType, JobStatus
<1>4. ledger' = [ledger EXCEPT ![s] = row]
  <2>1. ledger' = [ledger EXCEPT ![s].job = "running", ![s].built = ledger[s].evidence]
    BY DEF ReplayFinancialClassification
  <2> QED
    BY <1>1, <1>2, <2>1, JobsAre DEF RowType
<1>5. UNCHANGED <<agenda, scanVars, discoveryVars, authority>> /\ old.job = "pending"
  BY <1>1 DEF ReplayFinancialClassification
<1> QED
  BY <1>1, <1>3, <1>4, <1>5, RowInductive DEF SubjectHolds

\* And its job ends.
LEMMA SettlesInductive ==
  ASSUME IInv, NEW s \in DOMAIN ledger, ClassificationSettles(s)
  PROVE  IInv'
<1>1. PICK old : old = ledger[s] /\ old \in RowType /\ SubjectHolds(s)
  BY RowIs
<1>2. PICK status \in {"succeeded", "failed"} :
        ledger' = [ledger EXCEPT ![s].job = IF ledger[s].rerun THEN "pending" ELSE status,
                                 ![s].rerun = FALSE]
  BY DEF ClassificationSettles
<1>3. PICK row : row = [old EXCEPT !.job = IF old.rerun THEN "pending" ELSE status, !.rerun = FALSE]
  OBVIOUS
<1>4. /\ row \in RowType /\ row.evidence = old.evidence /\ row.built = old.built
      /\ row.job = IF old.rerun THEN "pending" ELSE status
  BY <1>1, <1>2, <1>3 DEF RowType, JobStatus
<1>5. ledger' = [ledger EXCEPT ![s] = row]
  BY <1>1, <1>2, <1>3, JobsAre DEF RowType
<1>6. UNCHANGED <<agenda, scanVars, discoveryVars, authority>> /\ old.job = "running"
  BY <1>1 DEF ClassificationSettles
<1>7. old.rerun \in BOOLEAN
  BY <1>1 DEF RowType
<1> QED
  BY <1>1, <1>4, <1>5, <1>6, <1>7, RowInductive DEF SubjectHolds

\* A worker goes on with its run as it found it.
LEMMA GoesQuietly ==
  ASSUME IInv, NEW w \in Workers, NEW v, Goes(w, v), WorkHolds(v)',
         UNCHANGED <<agenda, run, discoveryVars, replayVars>>
  PROVE  IInv'
<1>1. Smooth
  BY SmoothStays
<1>2. job' = job /\ exec' = [exec EXCEPT ![w] = v] /\ job \in [DOMAIN job -> JobType]
  BY JobsAre DEF Goes
<1>3. RunsGo
  BY SameRunsGo
<1>5. WorkersHold'
  BY <1>1, <1>2, <1>3, WorkersMove
<1>6. LedgerHolds'
  BY <1>1, LedgerStays DEF replayVars
<1>7. UNCHANGED <<run, coverage>>
  BY DEF discoveryVars
<1> QED
  BY <1>1, <1>2, <1>5, <1>6, <1>7, QuietStep

\* What a worker takes from its run's row.
LEMMA SnapshotHolds ==
  ASSUME NEW j, j \in DOMAIN job', NEW row \in RunType, run'[j.root] = row, row # NoRun,
         row.phase \in PhasesOf(j.root)
  PROVE  WorkHolds(Snapshot(j, row))'
<1> DEFINE v == Snapshot(j, row)
<1>1. /\ v.job = j /\ v.phase = row.phase /\ v.checkpoint = row.checkpoint
      /\ v.window = row.window /\ v.data = {} /\ v.hasMore = FALSE
      /\ v.pc = IF row.phase = "payout_discovery_page" /\ row.window = NoWindow THEN "unfrozen"
                ELSE IF row.phase = "classification_replay_finalize" THEN "loaded" ELSE "frozen"
  BY DEF Snapshot
<1>2. v \in PageType'
  BY DEF Snapshot, PageType, RunType
<1>3. ASSUME v.pc = "loaded" PROVE PageHolds(v)'
  <2>1. v.phase = "classification_replay_finalize"
    BY <1>1, <1>3
  <2>2. Unasked(v.phase, v.window)' = {}
    BY <2>1 DEF Unasked
  <2> QED
    BY <1>1, <2>1, <2>2, FS_EmptySet DEF PageHolds
<1>4. v.phase = "payout_discovery_page" /\ v.pc # "unfrozen" => v.window # NoWindow
  BY <1>1
<1>5. v.job.root = j.root
  BY <1>1
<1> HIDE DEF v
<1>6. WorkHolds(v)'
  BY <1>1, <1>2, <1>3, <1>4, <1>5 DEF WorkHolds
<1> QED
  BY <1>6 DEF v

\* A row is none, or not.
LEMMA RowsAre ==
  /\ \A row \in RunType : row # NoRun
  /\ \A r : NewRun(r).state = "running"
  /\ NoRun.state = "none"
BY DEF RunType, NoRun, NewRun

\* A worker that goes on with the row of its run.
LEMMA SnapshotGoes ==
  ASSUME IInv, NEW w \in Workers, NEW k \in DOMAIN job, run[k.root] \in RunType,
         RowHolds(k.root, run[k.root]), Goes(w, Snapshot(k, run[k.root])),
         UNCHANGED <<agenda, run, discoveryVars, replayVars>>
  PROVE  IInv'
<1>1. PICK v : v = Snapshot(k, run[k.root])
  OBVIOUS
<1>2. PICK row : row = run[k.root]
  OBVIOUS
<1>3. Goes(w, v) /\ UNCHANGED <<job, run>>
  BY <1>1 DEF Goes
<1>4. WorkHolds(v)'
  <2>1. row \in RunType /\ row # NoRun /\ row.phase \in PhasesOf(k.root) /\ run'[k.root] = row
    BY <1>2, <1>3, RowsAre DEF RowHolds
  <2>2. k \in DOMAIN job'
    BY <1>3
  <2>3. WorkHolds(Snapshot(k, row))'
    BY <2>1, <2>2, SnapshotHolds
  <2>4. v = Snapshot(k, row)
    BY <1>1, <1>2
  <2> QED
    BY <2>3, <2>4
<1> QED
  BY <1>3, <1>4, GoesQuietly

\* The row of a scan that begins.
LEMMA NewRowHolds ==
  ASSUME IInv, Smooth, NEW r \in agenda.roots, UNCHANGED <<clock, ledger>>, NEW row, row = NewRun(r),
         Kind(r) = "replay" /\ authority'.active = "old" => authority'.pending
  PROVE  row \in RunType /\ row.phase \in PhasesOf(r) /\ RowHolds(r, row)'
<1>1. /\ clock \in Nat \ {0} /\ agenda.sources \subseteq Nat \ {0} /\ agenda.imports \subseteq Nat \ {0}
      /\ DOMAIN ledger \subseteq Nat \ {0} /\ coverage' \in Nat
  BY WorldIs, JobsAre DEF IInv, Smooth, WorldHolds
<1>3. row \in RunType /\ row.phase \in PhasesOf(r)
  BY <1>1 DEF RunType, PhasesOf, NewRun, FirstPhase, Phases, NoWindow, Null
<1>4. /\ row.state = "running" /\ row.phase \in {"source_page", "classification_replay_page"}
      /\ row.checkpoint = Null /\ row.window = NoWindow /\ row.startedAt = clock
  BY DEF NewRun, FirstPhase
<1>5. WindowHolds(row.window)' /\ row.startedAt <= clock'
  BY <1>1, <1>4 DEF WindowHolds, NoWindow, Null
<1>6. \A i \in Unasked(row.phase, row.window)' : After(row.phase, row.checkpoint, i)
  <2>1. agenda' = agenda /\ ledger' = ledger
    BY DEF Smooth
  <2>2. CASE row.phase = "source_page"
    BY <1>1, <1>4, <2>1, <2>2 DEF Unasked, After, Null
  <2>3. CASE row.phase = "classification_replay_page"
    BY <1>1, <1>4, <2>1, <2>3 DEF Unasked, After, Null
  <2> QED
    BY <1>4, <2>2, <2>3
<1>7. Earlier(row.phase) = {}
  BY <1>4 DEF Earlier
<1> QED
  BY <1>3, <1>4, <1>5, <1>6, <1>7 DEF RowHolds

\* A scan begins, or is taken up again.
LEMMA StartInductive ==
  ASSUME IInv, NEW w \in Workers, StartOrResumeFinancialScan(w)
  PROVE  IInv'
<1>0. PICK k, r : k = exec[w].job /\ r = k.root
  OBVIOUS
<1>1. exec[w] # Idle /\ k.phase = "root"
  BY <1>0 DEF StartOrResumeFinancialScan, Idle
<1>2. k \in DOMAIN job /\ r \in agenda.roots /\ JobHolds(k)
  BY <1>0, <1>1, BusyHasJob DEF IInv, JobsHold
<1>3. PICK row : row = IF run[r] = NoRun THEN NewRun(r) ELSE run[r]
  OBVIOUS
<1>4. /\ run' = [run EXCEPT ![r] = row] /\ Proceeds(w, row)
      /\ UNCHANGED <<agenda, discoveryVars, ledger>>
      /\ authority' = IF Kind(r) = "replay" /\ row.state = "running" /\ authority.active = "old"
                      THEN [authority EXCEPT !.pending = TRUE] ELSE authority
  BY <1>0, <1>3 DEF StartOrResumeFinancialScan
<1>5. run \in [agenda.roots -> {NoRun} \cup RunType]
  BY JobsAre
<1>6. authority \in [active : {"old", "new"}, pending : BOOLEAN]
  BY DEF IInv, WorldHolds
<1>7. CASE run[r] = NoRun
  <2>1. row = NewRun(r) /\ row.state = "running"
    BY <1>3, <1>7, RowsAre
  <2>2. /\ authority' \in [active : {"old", "new"}, pending : BOOLEAN]
        /\ authority'.active = authority.active /\ (authority.pending => authority'.pending)
        /\ Kind(r) = "replay" /\ authority'.active = "old" => authority'.pending
    BY <1>4, <1>6, <2>1
  <2>3. Smooth
    <3>1. WorldHolds /\ clock \in Nat /\ coverage \in Nat
      BY WorldIs DEF IInv
    <3>2. WorldHolds'
      BY <1>4, <2>2, <3>1 DEF WorldHolds, discoveryVars
    <3> QED
      BY <1>4, <2>2, <3>1, <3>2 DEF Smooth, discoveryVars
  <2>4. row \in RunType /\ row.phase \in PhasesOf(r) /\ RowHolds(r, row)'
    <3>1. UNCHANGED <<clock, ledger>>
      BY <1>4 DEF discoveryVars
    <3> QED
      BY <1>2, <2>1, <2>2, <2>3, <3>1, NewRowHolds
  <2>5. RunsHold'
    BY <1>2, <1>4, <2>3, <2>4, RunMoves
  <2>6. \A q \in agenda.roots : run'[q] = IF q = r THEN row ELSE run[q]
    BY <1>4, <1>5
  <2>7. RunsGo
    BY <1>7, <2>6 DEF RunsGo
  <2>8. Goes(w, Snapshot(k, row))
    BY <1>0, <1>4, <2>1 DEF Proceeds
  <2>9. job' = job /\ exec' = [exec EXCEPT ![w] = Snapshot(k, row)]
    BY <2>8 DEF Goes
  <2>10. WorkersHold'
    <3>1. k \in DOMAIN job' /\ row # NoRun /\ run'[k.root] = row /\ row.phase \in PhasesOf(k.root)
      BY <1>2, <2>4, <2>6, <2>9, <1>0, RowsAre
    <3>2. WorkHolds(Snapshot(k, row))'
      BY <2>4, <3>1, SnapshotHolds
    <3>3. PICK v : v = Snapshot(k, row)
      OBVIOUS
    <3>4. WorkHolds(v)'
      BY <3>2, <3>3
    <3>5. DOMAIN job \subseteq DOMAIN job' /\ exec' = [exec EXCEPT ![w] = v]
      BY <2>9, <3>3
    <3> QED
      BY <2>3, <2>7, <3>4, <3>5, WorkersMove
  <2>11. JobsHold'
    BY <2>3, <2>7, <2>9, JobsAre, JobsStay
  <2>12. LedgerHolds' /\ CoverageHolds'
    BY <1>4, <2>3, LedgerStays, CoverageStays DEF discoveryVars
  <2>13. CursorHasJob'
    <3>1. DOMAIN run' = agenda.roots
      BY <1>4, <1>5
    <3>2. ASSUME NEW q \in agenda.roots, run'[q].state = "running"
          PROVE  \E j \in DOMAIN job' : /\ j = RootJob(q) \/ (j.root = q /\ AtCursor(j)')
                                        /\ job'[j].status # "succeeded"
      <4>1. CASE q = r
        <5>1. k = RootJob(r) /\ job[k].status # "succeeded"
          BY <1>0, <1>1, <1>2, <1>7 DEF JobHolds
        <5> QED
          BY <1>2, <2>9, <4>1, <5>1
      <4>2. CASE q # r
        <5>1. run'[q] = run[q]
          BY <2>6, <4>2
        <5> QED
          BY <2>9, <3>2, <5>1, CursorStays
      <4> QED
        BY <4>1, <4>2
    <3> QED
      BY <3>1, <3>2 DEF CursorHasJob
  <2> QED
    BY <2>3, <2>5, <2>10, <2>11, <2>12, <2>13 DEF IInv, Smooth
<1>8. CASE run[r] # NoRun
  <2>1. row = run[r] /\ run' = run /\ row \in RunType /\ RowHolds(r, row)
    BY <1>2, <1>3, <1>4, <1>5, <1>8 DEF IInv, RunsHold
  <2>2. authority' = authority
    BY <1>4, <1>6, <2>1 DEF RowHolds
  <2>3. UNCHANGED <<agenda, run, discoveryVars, replayVars>>
    BY <1>4, <2>1, <2>2 DEF replayVars
  <2>4. CASE row.state = "completed"
    <3>1. Ends(w, job, "ok")
      BY <1>4, <2>4 DEF Proceeds
    <3>2. run[exec[w].job.root] # NoRun /\ run[exec[w].job.root].state # "running"
      BY <1>0, <1>8, <2>1, <2>4
    <3> QED
      BY <1>1, <2>3, <3>1, <3>2, EndsQuietly
  <2>5. CASE row.state # "completed"
    <3>1. Goes(w, Snapshot(k, row))
      BY <1>0, <1>4, <2>5 DEF Proceeds
    <3> QED
      BY <1>0, <1>2, <1>8, <2>1, <2>3, <3>1, SnapshotGoes
  <2> QED
    BY <2>4, <2>5
<1> QED
  BY <1>7, <1>8

\* A continuation takes its run up where it is, or comes late.
LEMMA ResumeInductive ==
  ASSUME IInv, NEW w \in Workers, ResumeFinancialScanContinuation(w)
  PROVE  IInv'
<1> DEFINE k == exec[w].job
<1>1. exec[w] # Idle /\ k.phase # "root"
  BY DEF ResumeFinancialScanContinuation, Idle
<1>2. k \in DOMAIN job /\ k.root \in agenda.roots /\ run[k.root] # NoRun
  BY <1>1, BusyHasJob DEF IInv, JobsHold, JobHolds
<1>3. run[k.root] \in RunType /\ RowHolds(k.root, run[k.root])
  BY <1>2, JobsAre DEF IInv, RunsHold
<1>4. UNCHANGED <<agenda, run, discoveryVars, replayVars>>
  BY DEF ResumeFinancialScanContinuation
<1>5. CASE AtCursor(k)
  <2>1. Goes(w, Snapshot(k, run[k.root]))
    BY <1>5 DEF ResumeFinancialScanContinuation, Proceeds, AtCursor
  <2> QED
    BY <1>2, <1>3, <1>4, <2>1, SnapshotGoes
<1>6. CASE ~AtCursor(k)
  <2>1. Ends(w, job, "ok")
    BY <1>6 DEF ResumeFinancialScanContinuation
  <2> QED
    BY <1>1, <1>2, <1>4, <1>6, <2>1, EndsQuietly
<1> QED
  BY <1>5, <1>6

\* The lesser of two.
LEMMA MinOfTwo ==
  ASSUME NEW a \in Nat, NEW b \in Nat
  PROVE  Min({a, b}) \in Nat /\ Min({a, b}) <= b
<1>1. IsFiniteSet({a, b})
  <2>1. IsFiniteSet({a})
    BY FS_Singleton
  <2>2. IsFiniteSet({a} \cup {b})
    BY <2>1, FS_AddElement
  <2>3. {a, b} = {a} \cup {b}
    OBVIOUS
  <2> QED
    BY <2>2, <2>3
<1>2. Min({a, b}) \in {a, b} /\ \A y \in {a, b} : Min({a, b}) <= y
  BY <1>1, MinIsLeast
<1> QED
  BY <1>2

\* The window that a discovery freezes.
LEMMA WindowIs ==
  ASSUME IInv, NEW hour \in Nat, hour <= clock
  PROVE  /\ FrozenWindow(hour) \in Nat \X Nat /\ FrozenWindow(hour) # NoWindow
         /\ WindowHolds(FrozenWindow(hour))
<1>1. clock \in Nat /\ coverage \in Nat /\ Overlap \in Nat \ {0}
  BY WorldIs, ScanAssumption DEF IInv
<1>2. Back(hour) \in Nat /\ Back(coverage) \in Nat
      /\ (Back(coverage) = 0 \/ Back(coverage) + 1 <= coverage)
  BY <1>1 DEF Back, Null
<1> DEFINE low == Min({Back(hour), Back(coverage)})
<1>3. low \in Nat /\ low <= Back(coverage)
  BY <1>2, MinOfTwo
<1> HIDE DEF low
<1>4. low = 0 \/ low + 1 <= coverage
  BY <1>1, <1>2, <1>3
<1>5. FrozenWindow(hour) = <<IF coverage = Null THEN Null ELSE low, hour + 1>>
  BY DEF FrozenWindow, low
<1> QED
  BY <1>1, <1>3, <1>4, <1>5 DEF WindowHolds, NoWindow, Null

\* What is known of a page, and of the run and job it is of.
LEMMA PageIs ==
  ASSUME IInv, NEW w \in Workers, NEW e, e = exec[w], e.pc \in {"unfrozen", "frozen", "loaded"}
  PROVE  /\ e # Idle /\ e.job \in DOMAIN job /\ e.job.root \in agenda.roots
         /\ e \in PageType /\ e.phase \in PhasesOf(e.job.root) /\ WorkHolds(e)
         /\ run[e.job.root] \in RunType /\ RowHolds(e.job.root, run[e.job.root])
         /\ JobHolds(e.job)
<1>1. WorkHolds(e)
  BY DEF IInv, WorkersHold
<1>2. e # Idle /\ e \in PageType /\ run[e.job.root] # NoRun /\ e.phase \in PhasesOf(e.job.root)
  BY <1>1 DEF WorkHolds, Idle
<1>3. e.job \in DOMAIN job /\ e.job.root \in agenda.roots
  BY <1>2, BusyHasJob
<1>4. run[e.job.root] \in RunType /\ RowHolds(e.job.root, run[e.job.root])
  BY <1>2, <1>3, JobsAre DEF IInv, RunsHold
<1>5. JobHolds(e.job)
  BY <1>3 DEF IInv, JobsHold
<1> QED
  BY <1>1, <1>2, <1>3, <1>4, <1>5

\* A discovery freezes the window of payouts it looks at.
LEMMA FreezeInductive ==
  ASSUME IInv, NEW w \in Workers, FreezePayoutDiscoveryWindow(w)
  PROVE  IInv'
<1>1. PICK e, r : e = exec[w] /\ r = e.job.root
  OBVIOUS
<1>2. e.pc = "unfrozen" /\ UNCHANGED <<agenda, clock, payouts>>
  BY <1>1 DEF FreezePayoutDiscoveryWindow
<1>3. /\ e # Idle /\ e.job \in DOMAIN job /\ r \in agenda.roots
      /\ e \in PageType /\ e.phase \in PhasesOf(r) /\ WorkHolds(e)
      /\ run[r] \in RunType /\ RowHolds(r, run[r]) /\ JobHolds(e.job)
  BY <1>1, <1>2, PageIs
<1>4. e.phase = "payout_discovery_page"
  BY <1>2, <1>3 DEF WorkHolds, Idle
<1>5. CASE ~(run[r].state = "running" /\ run[r].phase = "payout_discovery_page")
  <2>1. StateChanged(w)
    BY <1>1, <1>5 DEF FreezePayoutDiscoveryWindow
  <2> QED
    BY <1>1, <1>2, <1>3, <2>1, StateChangedInductive
<1>6. CASE run[r].state = "running" /\ run[r].phase = "payout_discovery_page"
  <2>1. PICK old : old = run[r]
    OBVIOUS
  <2>2. PICK window : window = IF old.window # NoWindow THEN old.window ELSE FrozenWindow(ScanHour(r))
    OBVIOUS
  <2>3. /\ run' = [run EXCEPT ![r].window = window]
        /\ Goes(w, [e EXCEPT !.pc = "frozen", !.window = window])
        /\ UNCHANGED <<agenda, discoveryVars, replayVars>>
    BY <1>1, <1>2, <1>6, <2>1, <2>2 DEF FreezePayoutDiscoveryWindow, discoveryVars
  <2>4. window \in Nat \X Nat /\ window # NoWindow /\ WindowHolds(window)
    <3>1. ScanHour(r) \in Nat /\ ScanHour(r) <= clock
      <4>1. CASE Kind(r) = "hourly"
        <5>1. r[2] <= clock
          BY <1>1, <1>3, <4>1 DEF JobHolds
        <5>2. r[2] \in Nat
          BY <1>3, <4>1, WorldIs DEF IInv, Kind, Initial, Replay, Hourly
        <5> QED
          BY <4>1, <5>1, <5>2 DEF ScanHour
      <4>2. CASE Kind(r) # "hourly"
        BY <1>3, <4>2 DEF ScanHour, RowHolds, RunType
      <4> QED
        BY <4>1, <4>2
    <3>2. FrozenWindow(ScanHour(r)) \in Nat \X Nat /\ FrozenWindow(ScanHour(r)) # NoWindow
          /\ WindowHolds(FrozenWindow(ScanHour(r)))
      BY <3>1, WindowIs
    <3>3. old.window # NoWindow => old.window \in Nat \X Nat /\ WindowHolds(old.window)
      BY <1>3, <2>1 DEF RowHolds, RunType
    <3> QED
      BY <2>2, <3>2, <3>3
  <2>5. Smooth
    BY <2>3, SmoothStays
  <2>6. PICK row : row = [old EXCEPT !.window = window]
    OBVIOUS
  <2>7. /\ row \in RunType /\ row.window = window /\ row.state = old.state /\ row.phase = old.phase
        /\ row.checkpoint = old.checkpoint /\ row.startedAt = old.startedAt
    BY <1>3, <2>1, <2>4, <2>6 DEF RunType
  <2>8. run' = [run EXCEPT ![r] = row] /\ run \in [agenda.roots -> {NoRun} \cup RunType]
    BY <2>1, <2>3, <2>6, JobsAre
  <2>9. RowHolds(r, row)
    <3>1. row.state = "running" /\ row.phase = "payout_discovery_page"
      BY <1>6, <2>1, <2>7
    <3>2. \A phase \in Earlier(row.phase) : Unasked(phase, row.window) = Unasked(phase, old.window)
      BY <3>1 DEF Earlier, Unasked
    <3>3. \A i \in Unasked(row.phase, row.window) : After(row.phase, row.checkpoint, i)
      <4>1. CASE old.window = NoWindow
        <5>1. row.checkpoint = Null
          BY <1>3, <1>6, <2>1, <2>7, <4>1 DEF RowHolds
        <5> QED
          BY <3>1, <5>1 DEF After
      <4>2. CASE old.window # NoWindow
        <5>1. row.window = old.window
          BY <2>2, <2>7, <4>2
        <5> QED
          BY <1>3, <2>1, <2>7, <5>1 DEF RowHolds
      <4> QED
        BY <4>1, <4>2
    <3> QED
      BY <1>3, <2>1, <2>4, <2>7, <3>1, <3>2, <3>3 DEF RowHolds
  <2>10. RunsHold'
    <3>1. RowHolds(r, row)'
      BY <1>3, <2>5, <2>9, RowStays
    <3> QED
      BY <1>3, <2>5, <2>7, <2>8, <3>1, RunMoves
  <2>11. \A q \in agenda.roots : run'[q] = IF q = r THEN row ELSE run[q]
    BY <2>8
  <2>12. RunsGo
    <3>1. row # NoRun
      BY <2>7, RowsAre
    <3>2. \A j : NotAhead(j, old) => NotAhead(j, row)
      BY <2>7 DEF NotAhead
    <3>3. old.window # NoWindow => row.window = old.window
      BY <2>2, <2>7
    <3> QED
      BY <2>1, <2>7, <2>11, <3>1, <3>2, <3>3 DEF RunsGo
  <2>13. PICK v : v = [e EXCEPT !.pc = "frozen", !.window = window]
    OBVIOUS
  <2>14. job' = job /\ exec' = [exec EXCEPT ![w] = v]
    BY <2>3, <2>13 DEF Goes
  <2>15. WorkersHold'
    <3>1. /\ v \in PageType' /\ v.pc = "frozen" /\ v.window = window /\ v.job = e.job
          /\ v.phase = "payout_discovery_page"
      BY <1>3, <1>4, <2>4, <2>13, <2>14 DEF PageType
    <3>2. run'[v.job.root] = row /\ row # NoRun
      BY <1>1, <1>3, <2>7, <2>11, <3>1, RowsAre
    <3>3. v.phase \in PhasesOf(v.job.root)
      BY <1>1, <1>3, <1>4, <3>1
    <3>4. WorkHolds(v)'
      BY <2>4, <2>7, <3>1, <3>2, <3>3 DEF WorkHolds
    <3>5. DOMAIN job \subseteq DOMAIN job'
      BY <2>14
    <3> QED
      BY <2>5, <2>12, <2>14, <3>4, <3>5, WorkersMove
  <2>16. JobsHold'
    BY <2>5, <2>12, <2>14, JobsAre, JobsStay
  <2>17. LedgerHolds' /\ CoverageHolds'
    BY <2>3, <2>5, LedgerStays, CoverageStays DEF discoveryVars, replayVars
  <2>18. CursorHasJob'
    <3>1. DOMAIN run' = agenda.roots
      BY <2>8
    <3>2. ASSUME NEW q \in agenda.roots, run'[q].state = "running"
          PROVE  \E j \in DOMAIN job' : /\ j = RootJob(q) \/ (j.root = q /\ AtCursor(j)')
                                        /\ job'[j].status # "succeeded"
      <4>1. run'[q].state = run[q].state /\ run'[q].phase = run[q].phase
            /\ run'[q].checkpoint = run[q].checkpoint
        BY <2>1, <2>7, <2>11
      <4> QED
        BY <2>14, <3>2, <4>1, CursorStays
    <3> QED
      BY <3>1, <3>2 DEF CursorHasJob
  <2> QED
    BY <2>5, <2>10, <2>15, <2>16, <2>17, <2>18 DEF IInv, Smooth
<1> QED
  BY <1>5, <1>6

\* A page is taken from finitely many records, of which it gives the first that
\* is still to be asked for.
LEMMA ListingIs ==
  ASSUME IInv, NEW e, e.checkpoint \in Nat,
         e.phase \in {"source_page", "payout_discovery_page", "incomplete_payout_run_page",
                      "classification_replay_page"}
  PROVE  /\ Listing(e) \subseteq Nat \ {0} /\ IsFiniteSet(Listing(e))
         /\ \A i \in Listing(e) : After(e.phase, e.checkpoint, i)
         /\ e.phase = "payout_discovery_page" => \A i \in Listing(e) : i <= clock
         /\ e.phase = "classification_replay_page" =>
              \A i \in Listing(e) : i \in DOMAIN ledger /\ ledger[i].evidence > 0
         /\ e.window \in Nat \X Nat =>
              \A i \in Unasked(e.phase, e.window) :
                After(e.phase, e.checkpoint, i) => i \in Listing(e)
<1>1. /\ payouts \subseteq Nat \ {0} /\ IsFiniteSet(payouts) /\ \A p \in payouts : p <= clock
      /\ IsFiniteSet(agenda.sources) /\ agenda.sources \subseteq Nat \ {0}
      /\ IsFiniteSet(agenda.imports) /\ agenda.imports \subseteq Nat \ {0}
      /\ IsFiniteSet(DOMAIN ledger) /\ DOMAIN ledger \subseteq Nat \ {0}
  BY WorldIs, JobsAre DEF IInv
<1>2. CASE e.phase = "source_page"
  <2>1. Listing(e) = {i \in agenda.sources : i > e.checkpoint}
    BY <1>2 DEF Listing
  <2>2. IsFiniteSet(Listing(e))
    BY <1>1, <2>1, FS_Subset
  <2> QED
    BY <1>1, <1>2, <2>1, <2>2 DEF After, Unasked
<1>3. CASE e.phase = "payout_discovery_page"
  <2>1. Listing(e) = {p \in payouts : /\ e.window[1] <= p /\ p < e.window[2]
                                      /\ e.checkpoint = Null \/ p < e.checkpoint}
    BY <1>3 DEF Listing
  <2>2. IsFiniteSet(Listing(e))
    BY <1>1, <2>1, FS_Subset
  <2>3. e.window \in Nat \X Nat => \A p \in payouts : p + 1 < e.window[2] => p < e.window[2]
    <3>1. ASSUME e.window \in Nat \X Nat, NEW p \in payouts, NEW end, end = e.window[2], p + 1 < end
          PROVE  p < end
      <4>1. end \in Nat /\ p \in Nat
        BY <1>1, <3>1
      <4> QED
        BY <3>1, <4>1
    <3> QED
      BY <3>1
  <2>4. \A i \in Unasked(e.phase, e.window) :
          i \in payouts /\ e.window[1] <= i /\ i + 1 < e.window[2]
    BY <1>3 DEF Unasked
  <2>5. \A i : After(e.phase, e.checkpoint, i) <=> (e.checkpoint = Null \/ i < e.checkpoint)
    BY <1>3 DEF After
  <2> QED
    BY <1>1, <1>3, <2>1, <2>2, <2>3, <2>4, <2>5
<1>4. CASE e.phase = "incomplete_payout_run_page"
  <2>1. Listing(e) = {i \in agenda.imports : i > e.checkpoint}
    BY <1>4 DEF Listing
  <2>2. IsFiniteSet(Listing(e))
    BY <1>1, <2>1, FS_Subset
  <2> QED
    BY <1>1, <1>4, <2>1, <2>2 DEF After, Unasked
<1>5. CASE e.phase = "classification_replay_page"
  <2>1. Listing(e) = {i \in DOMAIN ledger : ledger[i].evidence > 0 /\ i > e.checkpoint}
    BY <1>5 DEF Listing
  <2>2. IsFiniteSet(Listing(e))
    BY <1>1, <2>1, FS_Subset
  <2> QED
    BY <1>1, <1>5, <2>1, <2>2 DEF After, Unasked
<1> QED
  BY <1>2, <1>3, <1>4, <1>5

\* A worker lists a page.
LEMMA LoadInductive ==
  ASSUME IInv, NEW w \in Workers, LoadPage(w)
  PROVE  IInv'
<1>1. PICK e : e = exec[w]
  OBVIOUS
<1>2. e.pc = "frozen" /\ UNCHANGED <<agenda, run, discoveryVars, replayVars>>
  BY <1>1 DEF LoadPage
<1>3. /\ e # Idle /\ e.job \in DOMAIN job /\ e \in PageType /\ e.phase \in PhasesOf(e.job.root)
      /\ WorkHolds(e) /\ run[e.job.root] \in RunType
  BY <1>1, <1>2, PageIs
<1>4. e.phase \in {"source_page", "payout_discovery_page", "incomplete_payout_run_page",
                   "classification_replay_page"}
      /\ e.checkpoint \in Nat /\ e.window \in Nat \X Nat
  BY <1>2, <1>3 DEF WorkHolds, Idle, PhasesOf, PageType
<1>5. PICK ids : ids = Listing(e)
  OBVIOUS
<1>6. PICK first : first = IF e.phase = "payout_discovery_page" THEN Max(ids) ELSE Min(ids)
  OBVIOUS
<1>7. PICK v : v = [e EXCEPT !.pc = "loaded", !.data = IF ids = {} THEN {} ELSE {first},
                             !.hasMore = Cardinality(ids) > 1]
  OBVIOUS
<1>8. Goes(w, v)
  BY <1>1, <1>5, <1>6, <1>7 DEF LoadPage
<1>9. /\ ids \subseteq Nat \ {0} /\ IsFiniteSet(ids)
      /\ \A i \in ids : After(e.phase, e.checkpoint, i)
      /\ e.phase = "payout_discovery_page" => \A i \in ids : i <= clock
      /\ e.phase = "classification_replay_page" =>
           \A i \in ids : i \in DOMAIN ledger /\ ledger[i].evidence > 0
      /\ \A i \in Unasked(e.phase, e.window) : After(e.phase, e.checkpoint, i) => i \in ids
  BY <1>4, <1>5, ListingIs
<1>10. ids # {} => first \in ids /\ \A i \in ids : i # first => After(e.phase, first, i)
  <2>1. CASE e.phase = "payout_discovery_page"
    <3>1. clock \in Nat
      BY WorldIs DEF IInv
    <3>2. ids # {} => first \in ids /\ \A i \in ids : i <= first
      BY <1>6, <1>9, <2>1, <3>1, MaxIsGreatest
    <3>3. \A i \in ids : i \in Nat
      BY <1>9
    <3>4. ids # {} => \A i \in ids : i # first => i < first
      BY <3>2, <3>3
    <3> QED
      BY <2>1, <3>2, <3>4 DEF After
  <2>2. CASE e.phase # "payout_discovery_page"
    <3>1. ids # {} => first \in ids /\ \A i \in ids : first <= i
      BY <1>6, <1>9, <2>2, MinIsLeast
    <3>2. \A i \in ids : i \in Nat
      BY <1>9
    <3>3. ids # {} => \A i \in ids : i # first => i > first
      BY <3>1, <3>2
    <3> QED
      BY <2>2, <3>1, <3>3 DEF After
  <2> QED
    BY <2>1, <2>2
<1>11. /\ v \in PageType /\ v.pc = "loaded" /\ v.job = e.job /\ v.phase = e.phase
       /\ v.checkpoint = e.checkpoint /\ v.window = e.window
       /\ v.data = (IF ids = {} THEN {} ELSE {first}) /\ v.hasMore = (Cardinality(ids) > 1)
  <2>1. (IF ids = {} THEN {} ELSE {first}) \in SUBSET Nat
    BY <1>9, <1>10
  <2>2. (Cardinality(ids) > 1) \in BOOLEAN
    OBVIOUS
  <2> QED
    BY <1>3, <1>7, <2>1, <2>2 DEF PageType
<1>12. /\ \A i \in ids : i # first => v.hasMore
       /\ v.hasMore => ids # {}
  BY <1>9, <1>10, <1>11, MoreThanOne
<1>13. PageHolds(v)
  <2>1. v.hasMore => \E x \in v.data : x # Null /\ v.data = {x} /\ After(v.phase, v.checkpoint, x)
    BY <1>9, <1>10, <1>11, <1>12 DEF Null
  <2>2. ASSUME NEW i \in Unasked(v.phase, v.window), After(v.phase, v.checkpoint, i)
        PROVE  i \in v.data \/ (v.hasMore /\ \A x \in v.data : After(v.phase, x, i))
    <3>1. i \in ids
      BY <1>9, <1>11, <2>2
    <3> QED
      BY <1>10, <1>11, <1>12, <3>1
  <2>3. v.phase = "classification_replay_page" =>
          \A s \in v.data : s \in DOMAIN ledger /\ ledger[s].evidence > 0
    BY <1>9, <1>10, <1>11
  <2>4. IsFiniteSet(v.data)
    BY <1>11, FS_EmptySet, FS_Singleton
  <2> QED
    BY <2>1, <2>2, <2>3, <2>4 DEF PageHolds
<1>14. WorkHolds(v)
  BY <1>2, <1>3, <1>11, <1>13, RowsAre DEF WorkHolds, Idle
<1>15. WorkHolds(v)'
  <2>1. Smooth /\ RunsGo /\ job' = job
    BY <1>2, <1>8, SmoothStays, SameRunsGo DEF Goes
  <2> QED
    BY <1>14, <2>1, WorkStays
<1> QED
  BY <1>2, <1>8, <1>15, GoesQuietly

\* Cursors move forward.
LEMMA CursorsAreOrdered ==
  ASSUME NEW phase, NEW a \in Nat, NEW b \in Nat, NEW c \in Nat, c # Null, After(phase, b, c)
  PROVE  /\ b # c /\ (b # Null => ~After(phase, c, b))
         /\ b # Null /\ After(phase, a, b) => After(phase, a, c)
<1>1. CASE phase = "payout_discovery_page"
  BY <1>1 DEF After, Null
<1>2. CASE phase # "payout_discovery_page"
  BY <1>2 DEF After, Null
<1> QED
  BY <1>1, <1>2

\* Where a page that is committed takes the cursor of its run.
LEMMA NextIs ==
  ASSUME NEW e, NEW r, e.phase \in PhasesOf(r), e.phase # "classification_replay_finalize",
         e.checkpoint \in Nat, e.data \subseteq Nat, e.hasMore \in BOOLEAN, PageHolds(e)
  PROVE  /\ NextCheckpoint(e) \in Nat
         /\ e.hasMore =>
              /\ NextPhase(e) = e.phase /\ NextCheckpoint(e) # Null
              /\ e.data = {NextCheckpoint(e)} /\ After(e.phase, e.checkpoint, NextCheckpoint(e))
         /\ ~e.hasMore =>
              /\ NextCheckpoint(e) = Null
              /\ NextPhase(e) = "completed" <=> e.phase = "incomplete_payout_run_page"
              /\ NextPhase(e) # "completed" =>
                   Earlier(NextPhase(e)) = Earlier(e.phase) \cup {e.phase}
         /\ NextPhase(e) # "completed" => NextPhase(e) \in PhasesOf(r) /\ NextPhase(e) # "root"
         /\ NextPhase(e) # "completed" /\ ~e.hasMore =>
              NextPhase(e) # e.phase /\ NextPhase(e) \notin Earlier(e.phase)
         /\ e.phase \notin Earlier(e.phase) /\ e.phase # "completed"
<1>1. ASSUME e.hasMore
      PROVE  /\ NextPhase(e) = e.phase /\ NextCheckpoint(e) # Null
             /\ e.data = {NextCheckpoint(e)} /\ After(e.phase, e.checkpoint, NextCheckpoint(e))
             /\ NextCheckpoint(e) \in Nat
  <2>1. PICK x \in e.data : x # Null /\ e.data = {x} /\ After(e.phase, e.checkpoint, x)
    BY <1>1 DEF PageHolds
  <2>2. NextCheckpoint(e) = CHOOSE i \in e.data : TRUE
    BY <1>1 DEF NextCheckpoint
  <2>3. NextCheckpoint(e) \in e.data
    BY <2>1, <2>2
  <2>4. NextCheckpoint(e) = x
    BY <2>1, <2>3
  <2> QED
    BY <1>1, <2>1, <2>4 DEF NextPhase
<1>2. ~e.hasMore => NextCheckpoint(e) = Null
  BY DEF NextCheckpoint
<1>3. e.phase \in {"source_page", "payout_discovery_page", "incomplete_payout_run_page",
                   "classification_replay_page"}
  BY DEF PhasesOf
<1>4. e.phase \notin Earlier(e.phase) /\ e.phase # "completed" /\ e.phase # "root"
  BY <1>3 DEF Earlier
<1>5. ~e.hasMore =>
        /\ NextPhase(e) = "completed" <=> e.phase = "incomplete_payout_run_page"
        /\ NextPhase(e) # "completed" => Earlier(NextPhase(e)) = Earlier(e.phase) \cup {e.phase}
        /\ NextPhase(e) # "completed" =>
             NextPhase(e) \in PhasesOf(r) /\ NextPhase(e) # "root"
             /\ NextPhase(e) # e.phase /\ NextPhase(e) \notin Earlier(e.phase)
  BY <1>3 DEF NextPhase, Earlier, PhasesOf
<1> QED
  BY <1>1, <1>2, <1>4, <1>5 DEF Null

\* A page is committed, or its run went on meanwhile. What is unasked then is
\* after the new cursor: the page asked for what came before, and for nothing
\* of what comes if more was to come.
LEMMA CommitInductive ==
  ASSUME IInv, NEW w \in Workers, CommitFinancialScanPage(w)
  PROVE  IInv'
<1>1. PICK e, r : e = exec[w] /\ r = e.job.root
  OBVIOUS
<1>2. /\ e.pc = "loaded" /\ e.phase # "classification_replay_finalize"
      /\ UNCHANGED <<agenda, clock, payouts>>
  BY <1>1 DEF CommitFinancialScanPage
<1>3. /\ e # Idle /\ e.job \in DOMAIN job /\ r \in agenda.roots
      /\ e \in PageType /\ e.phase \in PhasesOf(r) /\ WorkHolds(e)
      /\ run[r] \in RunType /\ RowHolds(r, run[r]) /\ JobHolds(e.job)
  BY <1>1, <1>2, PageIs
<1> DEFINE discovered == e.phase = "payout_discovery_page" /\ ~e.hasMore
           completes == NextPhase(e) = "completed"
<1>4. CASE ~(Unmoved(e) /\ ~(discovered /\ coverage # Null /\ e.window[1] > coverage))
  <2>1. StateChanged(w)
    BY <1>1, <1>4 DEF CommitFinancialScanPage
  <2> QED
    BY <1>1, <1>2, <1>3, <2>1, StateChangedInductive
<1>5. CASE Unmoved(e) /\ ~(discovered /\ coverage # Null /\ e.window[1] > coverage)
  <2>1. PICK old : old = run[r]
    OBVIOUS
  <2>2. PICK next, checkpoint : next = NextPhase(e) /\ checkpoint = NextCheckpoint(e)
    OBVIOUS
  <2>3. /\ coverage' = IF discovered THEN Max({coverage, e.window[2]}) ELSE coverage
        /\ requested' = requested \cup ({e.phase} \X e.data)
        /\ ledger' = IF Kind(r) = "replay"
                     THEN [s \in DOMAIN ledger |-> IF s \in e.data THEN Enrolled(s) ELSE ledger[s]]
                     ELSE ledger
        /\ run' = [run EXCEPT
             ![r].state = IF completes THEN "completed" ELSE @,
             ![r].phase = IF completes THEN @ ELSE NextPhase(e),
             ![r].checkpoint = NextCheckpoint(e),
             ![r].pages = @ + 1,
             ![r].enqueued = @ + Cardinality(e.data)]
        /\ Ends(w, IF completes THEN job ELSE Enqueue(job, {Continuation(e)}), "ok")
        /\ UNCHANGED authority
    BY <1>1, <1>5 DEF CommitFinancialScanPage
  <2>4. /\ old.state = "running" /\ old.phase = e.phase /\ old.checkpoint = e.checkpoint
        /\ old \in RunType /\ RowHolds(r, old) /\ old # NoRun
    BY <1>1, <1>3, <1>5, <2>1, RowsAre DEF Unmoved
  <2>5. /\ PageHolds(e) /\ e.checkpoint \in Nat /\ e.window \in Nat \X Nat /\ e.data \subseteq Nat
        /\ e.hasMore \in BOOLEAN /\ e.job.root = r
        /\ e.phase = "payout_discovery_page" => e.window = old.window /\ old.window # NoWindow
        /\ old.window \in Nat \X Nat /\ old.checkpoint \in Nat
    BY <1>1, <1>2, <1>3, <2>1, <2>4 DEF WorkHolds, PageType, Idle, RunType
  <2>6. /\ checkpoint \in Nat
        /\ e.hasMore =>
             /\ next = e.phase /\ checkpoint # Null
             /\ e.data = {checkpoint} /\ After(e.phase, e.checkpoint, checkpoint)
        /\ ~e.hasMore =>
             /\ checkpoint = Null
             /\ completes <=> e.phase = "incomplete_payout_run_page"
             /\ ~completes => Earlier(next) = Earlier(e.phase) \cup {e.phase}
        /\ ~completes => next \in PhasesOf(r) /\ next # "root"
        /\ ~completes /\ ~e.hasMore => next # e.phase /\ next \notin Earlier(e.phase)
        /\ e.phase \notin Earlier(e.phase) /\ e.phase # "completed"
    BY <1>2, <1>3, <2>2, <2>5, NextIs
  <2>7. ~completes \/ ~e.hasMore
    BY <2>2, <2>6
  <2>8. completes <=> next = "completed"
    BY <2>2
  <2>9. PICK done \in BOOLEAN : done <=> completes
    OBVIOUS
  <2>10. PICK row : row = [old EXCEPT
           !.state = IF done THEN "completed" ELSE @, !.phase = IF done THEN @ ELSE next,
           !.checkpoint = checkpoint, !.pages = @ + 1, !.enqueued = @ + Cardinality(e.data)]
    OBVIOUS
  <2>11. /\ row \in RunType /\ row.state = (IF done THEN "completed" ELSE "running")
         /\ row.phase = (IF done THEN e.phase ELSE next) /\ row.phase \in PhasesOf(r)
         /\ row.checkpoint = checkpoint /\ row.window = old.window /\ row.startedAt = old.startedAt
    <3>1. Cardinality(e.data) \in Nat
      BY <2>5, FS_CardinalityType DEF PageHolds
    <3>2. old.pages \in Nat /\ old.enqueued \in Nat
      BY <2>4 DEF RunType
    <3>3. ~done => next \in PhasesOf(r) /\ next \in Phases
      BY <2>6, <2>9 DEF PhasesOf, Phases
    <3>4. old.pages + 1 \in Nat /\ old.enqueued + Cardinality(e.data) \in Nat
      BY <3>1, <3>2
    <3> HIDE DEF completes, discovered
    <3> QED
      BY <1>3, <2>4, <2>6, <2>10, <3>3, <3>4 DEF RunType
  <2>12. run' = [run EXCEPT ![r] = row] /\ run \in [agenda.roots -> {NoRun} \cup RunType]
    <3>1. run \in [agenda.roots -> {NoRun} \cup RunType]
      BY JobsAre
    <3>2. run' = [run EXCEPT ![r] = [run[r] EXCEPT
             !.state = IF done THEN "completed" ELSE @, !.phase = IF done THEN @ ELSE next,
             !.checkpoint = checkpoint, !.pages = @ + 1, !.enqueued = @ + Cardinality(e.data)]]
      BY <1>3, <2>2, <2>3, <2>9, <3>1 DEF RunType
    <3> QED
      BY <2>1, <2>10, <3>1, <3>2
  <2>13. \A q \in agenda.roots : run'[q] = IF q = r THEN row ELSE run[q]
    BY <2>12
  <2>14. /\ clock \in Nat /\ coverage \in Nat /\ coverage <= clock + 1 /\ payouts \subseteq Nat \ {0}
         /\ coverage' \in Nat /\ coverage <= coverage' /\ coverage' <= clock + 1
         /\ coverage' # coverage =>
              /\ coverage' = e.window[2] /\ e.phase = "payout_discovery_page" /\ ~e.hasMore
              /\ e.window = old.window /\ (coverage = Null \/ e.window[1] <= coverage)
    <3>1. clock \in Nat /\ coverage \in Nat /\ coverage <= clock + 1 /\ payouts \subseteq Nat \ {0}
      BY WorldIs DEF IInv
    <3>2. CASE discovered
      <4>1. PICK low, end : low = e.window[1] /\ end = e.window[2]
        OBVIOUS
      <4>2. low \in Nat /\ end \in Nat /\ end <= clock + 1
        BY <2>4, <2>5, <3>2, <4>1 DEF RowHolds, WindowHolds
      <4>3. coverage' \in {coverage, end} /\ coverage <= coverage' /\ end <= coverage'
        BY <2>3, <3>1, <3>2, <4>1, <4>2, MaxOfTwo
      <4>4. coverage = Null \/ low <= coverage
        BY <1>5, <3>1, <3>2, <4>1, <4>2
      <4> QED
        BY <2>5, <3>1, <3>2, <4>1, <4>2, <4>3, <4>4
    <3>3. CASE ~discovered
      BY <2>3, <3>1, <3>3
    <3> QED
      BY <3>1, <3>2, <3>3
  <2>15. /\ DOMAIN ledger' = DOMAIN ledger /\ ledger \in [agenda.ledger -> RowType]
         /\ DOMAIN ledger = agenda.ledger
         /\ \A s \in DOMAIN ledger : ledger'[s] =
              IF Kind(r) = "replay" /\ s \in e.data THEN Enrolled(s) ELSE ledger[s]
    BY <2>3, JobsAre
  <2>16. \A s \in DOMAIN ledger : /\ ledger'[s] \in RowType /\ ledger'[s].evidence = ledger[s].evidence
                                  /\ ledger'[s].job = "none" => ledger[s].job = "none"
                                  /\ ledger'[s] # ledger[s] => Kind(r) = "replay" /\ s \in e.data
                                  /\ ledger'[s] # ledger[s] => ledger'[s].job = "pending"
                                  /\ Kind(r) = "replay" /\ s \in e.data => ledger'[s].job # "none"
    <3> TAKE s \in DOMAIN ledger
    <3>1. ledger[s] \in RowType
      BY <2>15
    <3>2. Enrolled(s) \in RowType /\ Enrolled(s).evidence = ledger[s].evidence
          /\ Enrolled(s).job # "none" /\ (Enrolled(s) # ledger[s] => Enrolled(s).job = "pending")
      BY <3>1 DEF Enrolled, RowType, JobStatus
    <3> QED
      BY <2>15, <3>1, <3>2
  <2>17. Smooth
    <3>1. WorldHolds'
      <4>1. coverage' \in 0 .. clock' + 1
        BY <1>2, <2>14
      <4> QED
        BY <1>2, <2>3, <4>1 DEF IInv, WorldHolds
    <3>2. requested \subseteq requested'
      BY <2>3
    <3>3. \A s \in DOMAIN ledger :
            /\ ledger[s].evidence > 0 => ledger'[s].evidence > 0
            /\ ledger'[s].job = "none" /\ ledger'[s].evidence > 0 =>
                 ledger[s].job = "none" /\ ledger[s].evidence > 0
      BY <2>16
    <3>4. clock <= clock' /\ coverage <= coverage' /\ UNCHANGED <<agenda, payouts, authority>>
      BY <1>2, <2>3, <2>14
    <3>5. DOMAIN ledger' = DOMAIN ledger
      BY <2>15
    <3> QED
      BY <3>1, <3>2, <3>3, <3>4, <3>5 DEF Smooth
  <2>18. LedgerHolds'
    <3>1. ASSUME NEW s \in agenda.ledger PROVE SubjectHolds(s)'
      <4>1. SubjectHolds(s)
        BY DEF IInv, LedgerHolds
      <4>2. CASE ledger'[s] = ledger[s]
        BY <2>3, <4>1, <4>2 DEF SubjectHolds
      <4>3. CASE ledger'[s] # ledger[s]
        <5>1. Kind(r) = "replay" /\ s \in e.data /\ ledger'[s].job = "pending"
              /\ ledger'[s].evidence = ledger[s].evidence
          BY <2>15, <2>16, <4>3
        <5>2. e.phase = "classification_replay_page"
          BY <1>2, <1>3, <5>1 DEF PhasesOf
        <5>3. ledger[s].evidence > 0
          BY <2>5, <5>1, <5>2 DEF PageHolds
        <5>4. authority'.active = "old" => authority'.pending
          BY <2>3, <2>4, <5>1 DEF RowHolds
        <5> QED
          BY <5>1, <5>3, <5>4 DEF SubjectHolds
      <4> QED
        BY <4>2, <4>3
    <3>2. ledger' \in [agenda.ledger -> RowType]
      <4>1. ledger' = [s \in agenda.ledger |-> ledger'[s]]
        BY <2>3, <2>15
      <4> QED
        BY <2>15, <2>16, <4>1
    <3> QED
      BY <1>2, <3>1, <3>2 DEF LedgerHolds
  <2> HIDE DEF completes, discovered
  <2>19. ASSUME NEW phase \in PhasesOf(r)
         PROVE  \A i \in Unasked(phase, old.window)' : i \in Unasked(phase, old.window)
    <3>1. old.window[2] <= clock + 1
      BY <2>4 DEF RowHolds, WindowHolds
    <3>2. phase = "classification_replay_page" /\ authority.active = "old" => authority.pending
      BY <2>4 DEF RowHolds, PhasesOf
    <3> QED
      BY <2>5, <2>17, <3>1, <3>2, UnaskedShrinks
  <2>20. ASSUME NEW i \in Unasked(e.phase, old.window)'
         PROVE  e.hasMore /\ After(e.phase, checkpoint, i)
    <3>1. i \in Unasked(e.phase, old.window)
      BY <1>3, <2>19
    <3>2. After(e.phase, e.checkpoint, i)
      BY <2>4, <3>1 DEF RowHolds
    <3>3. Unasked(e.phase, old.window) = Unasked(e.phase, e.window)
      BY <2>5 DEF Unasked
    <3>4. i \in e.data \/ (e.hasMore /\ \A x \in e.data : After(e.phase, x, i))
      BY <2>5, <3>1, <3>2, <3>3 DEF PageHolds
    <3>5. i \notin e.data
      <4> SUFFICES ASSUME i \in e.data PROVE FALSE
        OBVIOUS
      <4>1. <<e.phase, i>> \in requested'
        BY <2>3
      <4>2. e.phase = "classification_replay_page"
        BY <1>2, <1>3, <4>1 DEF Unasked, PhasesOf
      <4>3. Kind(r) = "replay"
        BY <1>3, <4>2 DEF PhasesOf
      <4>4. i \in DOMAIN ledger /\ ledger'[i].job = "none"
        BY <2>15, <4>2 DEF Unasked
      <4> QED
        BY <2>16, <4>3, <4>4
    <3> QED
      BY <2>6, <3>4, <3>5
  <2>21. RowHolds(r, row)'
    <3>1. WindowHolds(row.window)' /\ row.startedAt <= clock'
      <4>1. WindowHolds(old.window) /\ old.startedAt <= clock
        BY <2>4 DEF RowHolds
      <4>2. old.window[1] \in Nat /\ old.window[2] \in Nat
        BY <2>5
      <4> QED
        BY <1>2, <2>11, <2>14, <4>1, <4>2 DEF WindowHolds
    <3>2. Kind(r) = "replay" /\ authority'.active = "old" => authority'.pending
      BY <2>3, <2>4 DEF RowHolds
    <3>3. row.phase = "payout_discovery_page" /\ row.window = NoWindow => row.checkpoint = Null
      BY <2>5, <2>6, <2>9, <2>11
    <3>4. ASSUME NEW phase \in Earlier(row.phase) PROVE Unasked(phase, row.window)' = {}
      <4>1. phase \in Earlier(e.phase) \/ (phase = e.phase /\ ~e.hasMore)
        BY <2>6, <2>7, <2>9, <2>11, <3>4
      <4>2. CASE phase \in Earlier(e.phase)
        <5>1. phase \in PhasesOf(r) /\ Unasked(phase, old.window) = {}
          BY <1>3, <2>4, <4>2 DEF RowHolds, Earlier, PhasesOf
        <5> QED
          BY <2>11, <2>19, <5>1
      <4>3. CASE phase = e.phase /\ ~e.hasMore
        BY <2>11, <2>20, <4>3
      <4> QED
        BY <4>1, <4>2, <4>3
    <3>5. ASSUME NEW i \in Unasked(row.phase, row.window)'
          PROVE  row.state = "running" /\ After(row.phase, row.checkpoint, i)
      <4>1. CASE e.hasMore
        BY <2>6, <2>7, <2>9, <2>11, <2>20, <3>5, <4>1
      <4>2. CASE ~e.hasMore /\ done
        BY <2>11, <2>20, <3>5, <4>2
      <4>3. CASE ~e.hasMore /\ ~done
        <5>1. row.checkpoint = Null /\ row.state = "running" /\ row.phase \in PhasesOf(r)
          BY <2>6, <2>11, <4>3
        <5>2. /\ agenda.sources \subseteq Nat \ {0} /\ agenda.imports \subseteq Nat \ {0}
              /\ DOMAIN ledger' \subseteq Nat \ {0} /\ agenda' = agenda
          BY <1>2, <2>15, WorldIs DEF IInv
        <5>3. CASE row.phase = "payout_discovery_page"
          BY <5>1, <5>3 DEF After
        <5>4. CASE row.phase \in {"source_page", "incomplete_payout_run_page",
                                  "classification_replay_page"}
          <6>1. i \in Nat \ {0}
            BY <3>5, <5>2, <5>4 DEF Unasked
          <6> QED
            BY <5>1, <5>4, <6>1 DEF After, Null
        <5>5. CASE row.phase = "classification_replay_finalize"
          BY <3>5, <5>5 DEF Unasked
        <5> QED
          BY <5>1, <5>3, <5>4, <5>5 DEF PhasesOf
      <4> QED
        BY <4>1, <4>2, <4>3
    <3>6. row.state = "completed" =>
            row.phase \in {"incomplete_payout_run_page", "classification_replay_finalize"}
      BY <2>6, <2>7, <2>9, <2>11
    <3> QED
      BY <2>11, <3>1, <3>2, <3>3, <3>4, <3>5, <3>6 DEF RowHolds
  <2>22. RunsHold'
    BY <1>3, <2>11, <2>12, <2>17, <2>21, RunMoves
  <2>23. CoverageHolds'
    <3> SUFFICES ASSUME NEW p \in payouts', p + 1 < coverage'
                 PROVE  <<"payout_discovery_page", p>> \in requested'
      BY DEF CoverageHolds
    <3>1. p \in payouts /\ p \in Nat
      BY <1>2, <2>14
    <3>2. CASE p + 1 < coverage
      BY <2>3, <3>1, <3>2 DEF IInv, CoverageHolds
    <3>3. CASE ~(p + 1 < coverage)
      <4>1. coverage' # coverage
        BY <3>3
      <4>2. PICK low, end : low = e.window[1] /\ end = e.window[2]
        OBVIOUS
      <4>3. low \in Nat /\ end \in Nat /\ coverage' = end /\ (low = Null \/ low + 1 <= coverage)
        BY <2>4, <2>5, <2>14, <4>1, <4>2 DEF RowHolds, WindowHolds
      <4>4. low <= p /\ p + 1 < end
        BY <2>14, <3>1, <3>3, <4>3 DEF Null
      <4>5. <<"payout_discovery_page", p>> \notin requested' => p \in Unasked(e.phase, old.window)'
        BY <2>14, <4>1, <4>2, <4>4 DEF Unasked
      <4> QED
        BY <2>14, <2>20, <4>1, <4>5
    <3> QED
      BY <3>2, <3>3
  <2>24. RunsGo
    <3>1. row # NoRun
      BY <2>11, RowsAre
    <3>2. ASSUME NEW j \in DOMAIN job, j.root = r, NotAhead(j, old), row.state = "running"
          PROVE  NotAhead(j, row)
      <4>1. ~done /\ row.phase = next
        BY <2>11, <3>2
      <4>2. CASE e.hasMore
        <5>1. j.checkpoint \in Nat
          BY DEF IInv, JobsHold, JobHolds, Key
        <5>2. After(e.phase, old.checkpoint, checkpoint) /\ checkpoint # Null /\ next = e.phase
          BY <2>4, <2>6, <4>2
        <5>3. old.checkpoint # Null /\ After(e.phase, j.checkpoint, old.checkpoint) =>
                After(e.phase, j.checkpoint, checkpoint)
          BY <2>5, <2>6, <5>1, <5>2, CursorsAreOrdered
        <5> QED
          BY <2>4, <2>11, <3>2, <4>1, <5>2, <5>3 DEF NotAhead
      <4>3. CASE ~e.hasMore
        <5>1. j.phase \in Earlier(e.phase) \cup {e.phase}
          BY <2>4, <3>2 DEF NotAhead
        <5> QED
          BY <2>6, <2>9, <4>1, <4>3, <5>1 DEF NotAhead
      <4> QED
        BY <2>5, <4>2, <4>3
    <3> QED
      BY <2>1, <2>4, <2>11, <2>13, <3>1, <3>2 DEF RunsGo
  <2>25. PICK continuation : continuation = ContinuationJob(r, next, checkpoint)
    OBVIOUS
  <2>26. PICK jobs : jobs = IF done THEN job ELSE Enqueue(job, {continuation})
    OBVIOUS
  <2>27. Ends(w, jobs, "ok")
    BY <2>2, <2>3, <2>5, <2>9, <2>25, <2>26 DEF Continuation
  <2>28. /\ DOMAIN jobs = DOMAIN job \cup (IF done THEN {} ELSE {continuation})
         /\ jobs \in [DOMAIN jobs -> JobType]
         /\ \A j \in DOMAIN job : jobs[j] = job[j]
         /\ ~done /\ continuation \notin DOMAIN job => jobs[continuation].status = "pending"
    <3>1. job \in [DOMAIN job -> JobType] /\ NewJob \in JobType /\ NewJob.status = "pending"
      BY JobsAre DEF NewJob, JobType, JobStatus
    <3> QED
      BY <2>26, <3>1 DEF Enqueue
  <2>29. /\ exec' = [exec EXCEPT ![w] = Idle]
         /\ DOMAIN job' = DOMAIN jobs /\ job' \in [DOMAIN jobs -> JobType]
         /\ \A j \in DOMAIN jobs : job'[j].status = "succeeded" =>
              jobs[j].status = "succeeded" \/ j = e.job
    <3>1. exec[w].job \in DOMAIN jobs
      BY <1>1, <1>3, <2>28
    <3> QED
      BY <1>1, <2>27, <2>28, <3>1, EndsIs
  <2>30. WorkersHold'
    <3>1. WorkHolds(Idle)'
      BY DEF WorkHolds
    <3>2. DOMAIN job \subseteq DOMAIN job'
      BY <2>28, <2>29
    <3> QED
      BY <2>17, <2>24, <2>29, <3>1, <3>2, WorkersMove
  <2>31. /\ continuation.root = r /\ continuation.phase = next
         /\ continuation.checkpoint = checkpoint
    BY <2>25 DEF ContinuationJob
  <2>32. JobsHold'
    <3>1. ASSUME ~done PROVE JobHolds(continuation)'
      <4>1. continuation \in Key(r)
        BY <2>6, <2>9, <2>25, <3>1 DEF Key, ContinuationJob
      <4>2. Kind(r) = "hourly" => r[2] <= clock'
        BY <1>2, <1>3, <2>5 DEF JobHolds
      <4>3. run'[r] = row /\ row # NoRun /\ NotAhead(continuation, row)
        BY <1>3, <2>11, <2>13, <2>31, <3>1, RowsAre DEF NotAhead
      <4>4. continuation.phase # "root"
        BY <2>6, <2>9, <2>31, <3>1
      <4> QED
        BY <1>2, <1>3, <2>31, <4>1, <4>2, <4>3, <4>4 DEF JobHolds
    <3>2. ASSUME NEW j \in DOMAIN job, job'[j].status = "succeeded"
          PROVE  job[j].status = "succeeded" \/ run'[j.root] # NoRun
      <4>1. run'[r] # NoRun
        BY <1>3, <2>11, <2>13, RowsAre
      <4> QED
        BY <2>5, <2>28, <2>29, <3>2, <4>1
    <3> QED
      BY <2>17, <2>24, <2>28, <2>29, <3>1, <3>2, JobsStay
  <2>33. CursorHasJob'
    <3>1. DOMAIN run' = agenda.roots
      BY <2>12
    <3>2. ASSUME NEW q \in agenda.roots, run'[q].state = "running"
          PROVE  \E j \in DOMAIN job' : /\ j = RootJob(q) \/ (j.root = q /\ AtCursor(j)')
                                        /\ job'[j].status # "succeeded"
      <4>1. CASE q = r
        <5>1. ~done
          BY <2>11, <2>13, <3>2, <4>1
        <5>2. continuation \notin DOMAIN job
          <6> SUFFICES ASSUME continuation \in DOMAIN job PROVE FALSE
            OBVIOUS
          <6>1. NotAhead(continuation, old)
            BY <2>1, <2>4, <2>6, <2>9, <2>31, <5>1 DEF IInv, JobsHold, JobHolds
          <6>2. CASE e.hasMore
            BY <2>4, <2>5, <2>6, <2>31, <6>1, <6>2, CursorsAreOrdered DEF NotAhead
          <6>3. CASE ~e.hasMore
            BY <2>4, <2>6, <2>9, <2>31, <5>1, <6>1, <6>3 DEF NotAhead
          <6> QED
            BY <2>5, <6>2, <6>3
        <5>3. continuation \in DOMAIN job' /\ job'[continuation].status # "succeeded"
          BY <1>3, <2>28, <2>29, <5>1, <5>2
        <5>4. AtCursor(continuation)'
          <6>1. row.state = "running" /\ row.phase = next /\ row.checkpoint = checkpoint
            BY <2>11, <5>1
          <6> QED
            BY <1>3, <2>13, <2>31, <6>1 DEF AtCursor
        <5> QED
          BY <2>31, <4>1, <5>3, <5>4
      <4>2. CASE q # r
        <5>1. run'[q] = run[q]
          BY <2>13, <4>2
        <5>2. \A j \in DOMAIN job : j.root = q /\ job'[j].status = "succeeded" =>
                job[j].status = "succeeded"
          BY <2>5, <2>28, <2>29, <4>2
        <5>3. DOMAIN job \subseteq DOMAIN job'
          BY <2>28, <2>29
        <5> QED
          BY <3>2, <5>1, <5>2, <5>3, CursorStays
      <4> QED
        BY <4>1, <4>2
    <3> QED
      BY <3>1, <3>2 DEF CursorHasJob
  <2> QED
    BY <2>17, <2>18, <2>22, <2>23, <2>30, <2>32, <2>33 DEF IInv, Smooth
<1> QED
  BY <1>4, <1>5

\* The replay that ends with every row classified.
LEMMA SwitchInductive ==
  ASSUME IInv, NEW w \in Workers, NEW e, e = exec[w], e.pc = "loaded",
         e.phase = "classification_replay_finalize", Unmoved(e), Ends(w, job, "ok"),
         authority' = [active |-> "new", pending |-> FALSE],
         run' = [run EXCEPT ![e.job.root].state = "completed", ![e.job.root].checkpoint = Null],
         UNCHANGED <<agenda, discoveryVars, ledger>>
  PROVE  IInv'
<1>1. PICK r : r = e.job.root
  OBVIOUS
<1>2. /\ e # Idle /\ e.job \in DOMAIN job /\ r \in agenda.roots
      /\ run[r] \in RunType /\ RowHolds(r, run[r])
  BY <1>1, PageIs
<1>3. PICK old : old = run[r]
  OBVIOUS
<1>4. old.state = "running" /\ old.phase = "classification_replay_finalize"
  BY <1>1, <1>3 DEF Unmoved
<1>5. PICK row : row = [old EXCEPT !.state = "completed", !.checkpoint = Null]
  OBVIOUS
<1>6. /\ row \in RunType /\ row.state = "completed" /\ row.phase = "classification_replay_finalize"
      /\ row.window = old.window /\ row.startedAt = old.startedAt
  BY <1>2, <1>3, <1>4, <1>5 DEF RunType, Null
<1>7. run' = [run EXCEPT ![r] = row] /\ run \in [agenda.roots -> {NoRun} \cup RunType]
  BY <1>1, <1>2, <1>3, <1>5, JobsAre DEF RunType
<1>8. \A q \in agenda.roots : run'[q] = IF q = r THEN row ELSE run[q]
  BY <1>7
<1>9. Smooth
  <2>1. WorldHolds /\ clock \in Nat /\ coverage \in Nat
    BY WorldIs DEF IInv
  <2>2. WorldHolds'
    BY <2>1 DEF WorldHolds, discoveryVars
  <2> QED
    BY <2>1, <2>2 DEF Smooth, discoveryVars
<1>10. RowHolds(r, row)
  <2>1. Unasked(row.phase, row.window) = {}
    BY <1>6 DEF Unasked
  <2> QED
    BY <1>2, <1>3, <1>4, <1>6, <2>1 DEF RowHolds
<1>11. RunsHold'
  BY <1>2, <1>6, <1>7, <1>9, <1>10, RowStays, RunMoves
<1>12. RunsGo
  BY <1>3, <1>6, <1>8, RowsAre DEF RunsGo
<1>13. /\ exec' = [exec EXCEPT ![w] = Idle]
       /\ DOMAIN job' = DOMAIN job /\ job' \in [DOMAIN job -> JobType]
       /\ \A j \in DOMAIN job : job'[j].status = "succeeded" =>
            job[j].status = "succeeded" \/ j = e.job
  BY <1>2, JobsAre, EndsIs
<1>14. WorkersHold'
  <2>1. WorkHolds(Idle)'
    BY DEF WorkHolds
  <2> QED
    BY <1>9, <1>12, <1>13, <2>1, WorkersMove
<1>15. JobsHold'
  <2>1. run'[r] # NoRun
    BY <1>2, <1>6, <1>8, RowsAre
  <2> QED
    BY <1>1, <1>9, <1>12, <1>13, <2>1, JobsStay
<1>16. LedgerHolds' /\ CoverageHolds'
  BY <1>9, LedgerStays, CoverageStays DEF discoveryVars
<1>17. CursorHasJob'
  <2>1. DOMAIN run' = agenda.roots
    BY <1>7
  <2>2. ASSUME NEW q \in agenda.roots, run'[q].state = "running"
        PROVE  \E j \in DOMAIN job' : /\ j = RootJob(q) \/ (j.root = q /\ AtCursor(j)')
                                      /\ job'[j].status # "succeeded"
    <3>1. q # r /\ run'[q] = run[q]
      BY <1>6, <1>8, <2>2
    <3>2. \A j \in DOMAIN job : j.root = q /\ job'[j].status = "succeeded" =>
            job[j].status = "succeeded"
      BY <1>1, <1>13, <3>1
    <3> QED
      BY <1>13, <2>2, <3>1, <3>2, CursorStays
  <2> QED
    BY <2>1, <2>2 DEF CursorHasJob
<1> QED
  BY <1>9, <1>11, <1>14, <1>15, <1>16, <1>17 DEF IInv, Smooth

\* The finalizer ends the replay, puts it off or is too early.
LEMMA FinalizeInductive ==
  ASSUME IInv, NEW w \in Workers, FinalizeFinancialReplay(w)
  PROVE  IInv'
<1>1. PICK e, r : e = exec[w] /\ r = e.job.root
  OBVIOUS
<1>2. /\ e.pc = "loaded" /\ e.phase = "classification_replay_finalize"
      /\ UNCHANGED <<agenda, discoveryVars, ledger>>
  BY <1>1 DEF FinalizeFinancialReplay
<1>3. exec[w] # Idle
  BY <1>1, <1>2 DEF Idle
<1>4. CASE /\ Unmoved(e) /\ Ends(w, job, "ok")
           /\ authority' = [active |-> "new", pending |-> FALSE]
           /\ run' = [run EXCEPT ![r].state = "completed", ![r].checkpoint = Null]
  BY <1>1, <1>2, <1>4, SwitchInductive
<1>5. CASE Ends(w, [job EXCEPT ![FinalizerJob(r)].rerun = TRUE], "retry") /\ UNCHANGED <<run, authority>>
  <2>1. PICK jobs : jobs = [job EXCEPT ![FinalizerJob(r)].rerun = TRUE]
    OBVIOUS
  <2>2. jobs \in [DOMAIN job -> JobType] /\ \A j \in DOMAIN job : jobs[j].status = job[j].status
    BY <2>1, JobsAre DEF JobType
  <2>3. Ends(w, jobs, "retry") /\ UNCHANGED <<agenda, run, discoveryVars, replayVars>>
    BY <1>2, <1>5, <2>1 DEF replayVars
  <2> QED
    BY <1>3, <2>2, <2>3, EndsWith
<1>6. CASE Ends(w, job, "retry") /\ UNCHANGED <<run, authority>>
  <2>1. UNCHANGED <<agenda, run, discoveryVars, replayVars>>
    BY <1>2, <1>6 DEF replayVars
  <2> QED
    BY <1>3, <1>6, <2>1, EndsQuietly
<1> QED
  BY <1>1, <1>4, <1>5, <1>6 DEF FinalizeFinancialReplay

-----------------------------------------------------------------------------
(* The theorems                                                            *)

\* Nothing is scanned at first.
LEMMA Initially ==
  ASSUME Init
  PROVE  IInv
<1>1. WorldHolds
  BY DEF Init, WorldHolds, Null
<1>2. RunsHold
  BY DEF Init, RunsHold
<1>3. JobsHold
  BY DEF Init, JobsHold
<1>4. WorkersHold
  BY DEF Init, WorkersHold, WorkHolds
<1>5. LedgerHolds
  BY DEF Init, LedgerHolds, SubjectHolds, NotStaged, RowType, JobStatus
<1>6. CoverageHolds
  BY DEF Init, CoverageHolds
<1>7. CursorHasJob
  BY RowsAre DEF Init, CursorHasJob
<1> QED
  BY <1>1, <1>2, <1>3, <1>4, <1>5, <1>6, <1>7 DEF IInv

\* Every step keeps the invariant.
LEMMA StepInductive ==
  ASSUME IInv, [Next]_vars
  PROVE  IInv'
<1>1. ASSUME NEW w \in Workers, Work(w) PROVE IInv'
  BY <1>1, StartInductive, ResumeInductive, FreezeInductive, LoadInductive, CommitInductive,
     FinalizeInductive DEF Work
<1>2. CASE Progress
  BY <1>1, <1>2, ClaimInductive, ClassifyInductive, SettlesInductive DEF Progress
<1>3. CASE Tick \/ PayoutCreated \/ EnsureScans
  BY <1>3, TickInductive, PayoutInductive, EnsureInductive
<1>4. CASE \E w \in Workers : ScanJobThrows(w)
  BY <1>4, ThrowsInductive
<1>5. CASE \E s \in DOMAIN ledger : \/ \E i \in {"old", "new"} : StageBalanceTransaction(s, i)
                                    \/ RearmProjectionSubject(s)
  BY <1>5, StageInductive, RearmInductive
<1>6. CASE UNCHANGED vars
  <2>1. UNCHANGED <<agenda, discoveryVars, replayVars, scanVars, coverage, ledger>>
    BY <1>6 DEF vars, discoveryVars, replayVars
  <2>2. Smooth
    BY <2>1, SmoothStays
  <2> QED
    BY <2>1, <2>2, LedgerStays, AsideInductive
<1> QED
  BY <1>2, <1>3, <1>4, <1>5, <1>6 DEF Next

\* Runs, their jobs, the pages that workers hold and the ledger stay in order
\* through every overlap, retry, late commit and death of a worker.
THEOREM Inductive == Spec => []IInv
<1>1. Init => IInv
  BY Initially
<1>2. IInv /\ [Next]_vars => IInv'
  BY StepInductive
<1> QED
  BY <1>1, <1>2, PTL DEF Spec

\* No record and no payout is skipped: a run that has ended asked for all there
\* was, and the coverage that hourly discoveries build on is true.
THEOREM NothingIsSkipped == Spec => []ScansMissNothing
<1>1. IInv => ScansMissNothing
  <2> SUFFICES ASSUME IInv PROVE ScansMissNothing
    OBVIOUS
  <2>1. ASSUME NEW r \in DOMAIN run, run[r].state = "completed", Kind(r) # "replay"
        PROVE  /\ {"source_page"} \X agenda.sources \subseteq requested
               /\ {"incomplete_payout_run_page"} \X agenda.imports \subseteq requested
    <3>1. r \in agenda.roots /\ run[r] # NoRun
      BY <2>1, JobsAre, RowsAre
    <3>2. RowHolds(r, run[r])
      BY <3>1 DEF IInv, RunsHold
    <3>3. run[r].phase = "incomplete_payout_run_page"
      BY <2>1, <3>2 DEF RowHolds, PhasesOf
    <3>4. "source_page" \in Earlier(run[r].phase)
      BY <3>3 DEF Earlier
    <3>5. Unasked("source_page", run[r].window) = {}
      BY <3>2, <3>4 DEF RowHolds
    <3>6. Unasked("incomplete_payout_run_page", run[r].window) = {}
      BY <2>1, <3>2, <3>3 DEF RowHolds
    <3> QED
      BY <3>5, <3>6 DEF Unasked
  <2>2. CoverageHolds
    BY DEF IInv
  <2> QED
    BY <2>1, <2>2 DEF ScansMissNothing, CoverageHolds
<1> QED
  BY <1>1, Inductive, PTL

\* No cursor is left behind.
THEOREM CursorIsCarriedOn == Spec => []CursorHasJob
<1>1. IInv => CursorHasJob
  BY DEF IInv
<1> QED
  BY <1>1, Inductive, PTL

\* What the finalizer sees when it switches.
LEMMA SwitchStep ==
  ASSUME IInv, NEW w \in Workers, FinalizeFinancialReplay(w), authority'.active # authority.active,
         NEW s \in DOMAIN ledger, ledger[s].evidence > 0
  PROVE  ledger[s].built = ledger[s].evidence /\ ledger[s].job = "succeeded"
<1>1. PICK e, r : e = exec[w] /\ r = e.job.root
  OBVIOUS
<1>2. /\ e.pc = "loaded" /\ e.phase = "classification_replay_finalize"
      /\ Unmoved(e) /\ Unfinished = {} /\ authority'.active = "new"
  <2>1. e.pc = "loaded" /\ e.phase = "classification_replay_finalize"
    BY <1>1 DEF FinalizeFinancialReplay
  <2>2. \/ /\ Unmoved(e) /\ Unfinished = {}
           /\ authority' = [active |-> "new", pending |-> FALSE]
        \/ authority' = authority
    BY <1>1 DEF FinalizeFinancialReplay
  <2> QED
    BY <2>1, <2>2
<1>3. RowHolds(r, run[r])
  BY <1>1, <1>2, PageIs
<1>4. "classification_replay_page" \in Earlier(run[r].phase)
  BY <1>1, <1>2 DEF Unmoved, Earlier
<1>5. Unasked("classification_replay_page", run[r].window) = {}
  BY <1>3, <1>4 DEF RowHolds
<1>6. authority.active = "old"
  BY <1>2 DEF IInv, WorldHolds
<1>7. ledger[s].job # "none"
  BY <1>5, <1>6 DEF Unasked
<1>8. ledger[s].job = "succeeded"
  BY <1>2, <1>7 DEF Unfinished
<1> QED
  BY <1>8, RowIs DEF SubjectHolds

\* Reports switch to an implementation that has classified every row, from the
\* latest evidence.
THEOREM SwitchSeesAll == Spec => SwitchIsComplete
<1>1. ASSUME IInv, Next, authority'.active # authority.active
      PROVE  \E w \in Workers : FinalizeFinancialReplay(w)
  <2>1. CASE Progress
    <3>1. ASSUME NEW j \in DOMAIN job, NEW w \in Workers, ClaimScanJob(w, j) PROVE FALSE
      BY <1>1, <3>1 DEF ClaimScanJob, replayVars
    <3>2. ASSUME NEW w \in Workers, Work(w) PROVE FinalizeFinancialReplay(w)
      <4>1. CASE StartOrResumeFinancialScan(w)
        <5>1. authority \in [active : {"old", "new"}, pending : BOOLEAN]
          BY <1>1 DEF IInv, WorldHolds
        <5>2. PICK asks \in BOOLEAN :
                authority' = IF asks THEN [authority EXCEPT !.pending = TRUE] ELSE authority
          BY <4>1 DEF StartOrResumeFinancialScan
        <5> QED
          BY <1>1, <5>1, <5>2
      <4>2. CASE ResumeFinancialScanContinuation(w) \/ LoadPage(w)
        BY <1>1, <4>2 DEF ResumeFinancialScanContinuation, LoadPage, replayVars
      <4>3. CASE FreezePayoutDiscoveryWindow(w)
        BY <1>1, <4>3 DEF FreezePayoutDiscoveryWindow, StateChanged, replayVars
      <4>4. CASE CommitFinancialScanPage(w)
        BY <1>1, <4>4 DEF CommitFinancialScanPage, StateChanged, replayVars
      <4> QED
        BY <3>2, <4>1, <4>2, <4>3, <4>4 DEF Work
    <3>3. ASSUME NEW s \in DOMAIN ledger, ReplayFinancialClassification(s) \/ ClassificationSettles(s)
          PROVE  FALSE
      BY <1>1, <3>3 DEF ReplayFinancialClassification, ClassificationSettles
    <3> QED
      BY <2>1, <3>1, <3>2, <3>3 DEF Progress
  <2>2. CASE Tick \/ PayoutCreated \/ EnsureScans
    BY <1>1, <2>2 DEF Tick, PayoutCreated, EnsureScans, replayVars
  <2>3. CASE \E w \in Workers : ScanJobThrows(w)
    BY <1>1, <2>3 DEF ScanJobThrows, replayVars
  <2>4. CASE \E s \in DOMAIN ledger : \/ \E i \in {"old", "new"} : StageBalanceTransaction(s, i)
                                      \/ RearmProjectionSubject(s)
    BY <1>1, <2>4 DEF StageBalanceTransaction, RearmProjectionSubject
  <2> QED
    BY <1>1, <2>1, <2>2, <2>3, <2>4 DEF Next
<1>2. IInv /\ [Next]_vars => [Switches]_vars
  <2> SUFFICES ASSUME IInv, Next, authority'.active # authority.active,
                      NEW s \in DOMAIN ledger, ledger[s].evidence > 0
               PROVE  ledger[s].built = ledger[s].evidence /\ ledger[s].job = "succeeded"
    BY DEF Switches
  <2> QED
    BY <1>1, SwitchStep
<1> QED
  BY <1>2, Inductive, PTL DEF Spec, SwitchIsComplete
=============================================================================
