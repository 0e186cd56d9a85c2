--------------------------- MODULE JobQueueProofs ---------------------------
(***************************************************************************)
(* Proofs about JobQueue, and Outbox above it, for every number of jobs,   *)
(* entities, processes, slots, attempts and requests.                      *)
(*                                                                         *)
(* The inductive invariant IInv has a part for the table and one for the   *)
(* slots. To the types and the table's checks it adds what the properties  *)
(* of the model need: the attempts left to a row, who holds its lease, and *)
(* where in its loop a slot has a job.                                     *)
(*                                                                         *)
(* The last part is about Outbox, which runs on the queue: what a job says *)
(* of its message is true, and the queue below is JobQueue. Nothing keeps  *)
(* two dispatchers of one message apart, so BoxInv counts: every handler   *)
(* that has yet to send stands for an attempt of its own, and with the     *)
(* sends that happened there are no more of them than the job has used     *)
(* attempts.                                                               *)
(***************************************************************************)
EXTENDS Outbox, FiniteSetTheorems, TLAPS

GoodRow(r) == r \in Row /\ RowChecks(r)

\* r may stand in the table for j, whose latest claim was made by h
Fits(r, j, h) ==
  /\ GoodRow(r)
  /\ r.status = "pending" => r.attempts < MaxAttempts[j]
  /\ r.status = "running" => r.attempts <= MaxAttempts[j] /\ r.owner = h

RowInv ==
  /\ row \in [Jobs -> Row]
  /\ holder \in [Jobs -> Slots \cup {None}]
  /\ \A j \in Jobs : Fits(row[j], j, holder[j])

\* a slot has a job exactly while it handles or settles one, and settles what
\* the handler returned
Busy == {"handling", "settling", "recovering"}
GoodSlot(v) ==
  /\ v \in SlotState
  /\ v.pc \in Busy => v.job \in Jobs
  /\ v.pc \notin Busy => v.job = None
  /\ v.pc = "settling" => v.outcome # "none"
  /\ v.pc = "recovering" => v.outcome = "transient"
SlotInv == slot \in [Slots -> SlotState] /\ \A s \in Slots : GoodSlot(slot[s])

RestInv ==
  /\ proc \in [Procs -> {"new", "up", "stopping", "dead"}]
  /\ held \subseteq Gated
  /\ linked \subseteq Jobs
  /\ requests \in 0..MaxRequests
  /\ owed \in [Entities -> BOOLEAN]

IInv == RowInv /\ SlotInv /\ RestInv

USE KindAssumption, EntityAssumption, AttemptsAssumption, RequestsAssumption,
    NoneAssumption

-----------------------------------------------------------------------------
(* What the routines make of a row                                         *)

\* An absent row and a new one satisfy the table's checks.
LEMMA NewRowGood == GoodRow(NoRow) /\ GoodRow(NewRow)
<1>1. NoRow \in Row
  BY DEF Row, NoRow, Status
<1>2. NewRow \in Row
  BY <1>1 DEF NewRow, Row, Status
<1>3. RowChecks(NoRow)
  BY DEF RowChecks, NoRow
<1>4. RowChecks(NewRow)
  BY DEF RowChecks, NewRow, NoRow
<1> QED BY <1>1, <1>2, <1>3, <1>4 DEF GoodRow

\* So does a row that is queued anew.
LEMMA RequeuedGood ==
  ASSUME NEW r \in Row
  PROVE  GoodRow(Requeued(r))
  BY DEF GoodRow, Row, RowChecks, Status, Requeued

\* So does a running row with a rerun asked for.
LEMMA MarkedGood ==
  ASSUME NEW r \in Row, GoodRow(r), r.status = "running"
  PROVE  GoodRow(MarkedForRerun(r))
  BY DEF GoodRow, Row, RowChecks, MarkedForRerun

\* So does a row that succeeded or failed, when no rerun is asked for.
LEMMA FinishedGood ==
  ASSUME NEW r \in Row, ~r.rerun, NEW st \in {"succeeded", "failed"}
  PROVE  GoodRow(Finished(r, st))
  BY DEF GoodRow, Row, RowChecks, Status, Finished

\* So does a row that waits for its next attempt.
LEMMA RetriedGood ==
  ASSUME NEW r \in Row, ~r.rerun
  PROVE  GoodRow(Retried(r))
  BY DEF GoodRow, Row, RowChecks, Status, Retried

\* So does a row that was claimed.
LEMMA ClaimedGood ==
  ASSUME NEW r \in Row, NEW s \in Slots, r.status \in {"pending", "running"}, GoodRow(r)
  PROVE  GoodRow(Claimed(r, s))
<1>1. Claimed(r, s) \in Row
  <2>1. CASE r.status = "pending"
    <3>1. Claimed(r, s) = [r EXCEPT !.status = "running", !.attempts = r.attempts + 1,
                                    !.owner = s, !.expired = FALSE, !.rerun = r.rerun]
      BY <2>1 DEF Row, Claimed, LeaseOwner
    <3>2. r.attempts + 1 \in Nat
      BY DEF Row
    <3> QED BY <3>1, <3>2 DEF Row, Status
  <2>2. CASE r.status = "running" /\ r.rerun
    BY <2>2 DEF Row, Status, Claimed, LeaseOwner
  <2>3. CASE r.status = "running" /\ ~r.rerun
    <3>1. Claimed(r, s) = [r EXCEPT !.status = "running", !.attempts = r.attempts + 1,
                                    !.owner = s, !.expired = FALSE, !.rerun = FALSE]
      BY <2>3 DEF Row, Claimed, LeaseOwner
    <3>2. r.attempts + 1 \in Nat
      BY DEF Row
    <3> QED BY <3>1, <3>2 DEF Row, Status
  <2> QED BY <2>1, <2>2, <2>3
<1>2. Claimed(r, s).status = "running" /\ Claimed(r, s).owner = s
  BY DEF Row, Claimed, LeaseOwner
<1> QED BY <1>1, <1>2 DEF GoodRow, RowChecks

-----------------------------------------------------------------------------
(* The table                                                               *)

\* Replacing one row by one that may stand in its place keeps the table.
LEMMA ReplaceRow ==
  ASSUME RowInv, NEW j \in Jobs, NEW r, Fits(r, j, holder[j]),
         row' = [row EXCEPT ![j] = r], UNCHANGED holder
  PROVE  RowInv'
  BY DEF RowInv, Fits, GoodRow, RowChecks

\* Leaving the rows alone keeps the table.
LEMMA KeepRows ==
  ASSUME RowInv, UNCHANGED <<row, holder>>
  PROVE  RowInv'
  BY DEF RowInv, Fits, GoodRow, RowChecks

\* A row queued anew may stand in the table.
LEMMA RequeuedFits ==
  ASSUME RowInv, NEW j \in Jobs
  PROVE  Fits(Requeued(row[j]), j, holder[j])
<1>1. GoodRow(Requeued(row[j]))
  BY RequeuedGood DEF RowInv
<1>2. Requeued(row[j]).status = "pending" /\ Requeued(row[j]).attempts = 0
  BY DEF Requeued, RowInv, Row
<1> QED BY <1>1, <1>2 DEF Fits

\* A finished row may.
LEMMA FinishedFits ==
  ASSUME RowInv, NEW j \in Jobs, ~row[j].rerun, NEW st \in {"succeeded", "failed"}
  PROVE  Fits(Finished(row[j], st), j, holder[j])
<1>1. GoodRow(Finished(row[j], st))
  BY FinishedGood DEF RowInv
<1>2. Finished(row[j], st).status = st
  BY DEF Finished, RowInv, Row
<1> QED BY <1>1, <1>2 DEF Fits

\* A claim keeps the table.
LEMMA ClaimKeepsRows ==
  ASSUME RowInv, NEW s \in Slots, NEW j \in Jobs, TakeClaim(s, j)
  PROVE  RowInv'
<1>1. row[j] \in Row /\ GoodRow(row[j]) /\ row[j].status \in {"pending", "running"}
  BY DEF RowInv, Fits, TakeClaim, Candidate
<1>2. GoodRow(Claimed(row[j], s))
  BY <1>1, ClaimedGood
<1>3. Claimed(row[j], s).status = "running" /\ Claimed(row[j], s).owner = s
  BY <1>1 DEF Claimed, LeaseOwner, Row
<1>4. Claimed(row[j], s).attempts =
        IF row[j].status = "running" /\ row[j].rerun THEN 1 ELSE row[j].attempts + 1
  BY <1>1 DEF Claimed, Row
<1>5. Claimed(row[j], s).attempts <= MaxAttempts[j]
  BY <1>1, <1>4 DEF TakeClaim, Candidate, ExpiredFinalAttempt, RowInv, Fits, Row
<1>6. Fits(Claimed(row[j], s), j, s)
  BY <1>2, <1>3, <1>5 DEF Fits
<1> QED BY <1>6 DEF RowInv, TakeClaim, Fits, GoodRow, RowChecks

\* Failing a row whose last attempt was abandoned keeps it.
LEMMA FailExpiredKeepsRows ==
  ASSUME RowInv, NEW j \in Jobs, FailExpired(j)
  PROVE  RowInv'
<1>1. Fits(Finished(row[j], "failed"), j, holder[j])
  BY FinishedFits DEF FailExpired, ExpiredFinalAttempt
<1> QED BY <1>1, ReplaceRow DEF FailExpired

\* Completion keeps it.
LEMMA CompleteKeepsRows ==
  ASSUME RowInv, NEW s \in Slots, NEW j \in Jobs, Complete(s, j), UNCHANGED holder
  PROVE  RowInv'
<1>1. CASE Owns(s, j)
  <2>1. Fits(AfterCompletion(row[j]), j, holder[j])
    BY RequeuedFits, FinishedFits DEF AfterCompletion
  <2> QED BY <1>1, <2>1, ReplaceRow DEF Complete
<1>2. CASE ~Owns(s, j)
  BY <1>2, KeepRows DEF Complete
<1> QED BY <1>1, <1>2

\* The settlement of a failure keeps it.
LEMMA SettleFailureKeepsRows ==
  ASSUME RowInv, NEW s \in Slots, NEW j \in Jobs, NEW retryable \in BOOLEAN,
         SettleFailure(s, j, retryable), UNCHANGED holder
  PROVE  RowInv'
<1>1. CASE Owns(s, j)
  <2>1. Fits(AfterFailure(j, retryable), j, holder[j])
    <3>1. CASE row[j].rerun
      BY <3>1, RequeuedFits DEF AfterFailure
    <3>2. CASE ~row[j].rerun /\ (~retryable \/ row[j].attempts >= MaxAttempts[j])
      BY <3>2, FinishedFits DEF AfterFailure
    <3>3. CASE ~row[j].rerun /\ ~(~retryable \/ row[j].attempts >= MaxAttempts[j])
      <4>1. AfterFailure(j, retryable) = Retried(row[j])
        BY <3>3 DEF AfterFailure
      <4>2. GoodRow(Retried(row[j]))
        BY <3>3, RetriedGood DEF RowInv
      <4>3. Retried(row[j]).status = "pending" /\ Retried(row[j]).attempts = row[j].attempts
        BY DEF Retried, RowInv, Row
      <4>4. row[j].attempts < MaxAttempts[j]
        BY <3>3 DEF RowInv, Row
      <4> QED BY <4>1, <4>2, <4>3, <4>4 DEF Fits
    <3> QED BY <3>1, <3>2, <3>3
  <2> QED BY <1>1, <2>1, ReplaceRow DEF SettleFailure
<1>2. CASE ~Owns(s, j)
  BY <1>2, KeepRows DEF SettleFailure
<1> QED BY <1>1, <1>2

-----------------------------------------------------------------------------
(* The slots                                                               *)

\* A slot without a job is one.
LEMMA FreeSlotGood ==
  /\ GoodSlot(Idle) /\ GoodSlot(Off) /\ GoodSlot(Stopped)
  /\ \A s \in Slots : GoodSlot(Onward(s))
<1>1. GoodSlot(Idle)
  BY DEF GoodSlot, SlotState, PC, Outcome, Busy, Idle
<1>2. GoodSlot(Off)
  BY <1>1 DEF GoodSlot, SlotState, PC, Outcome, Busy, Idle, Off
<1>3. GoodSlot(Stopped)
  BY <1>1 DEF GoodSlot, SlotState, PC, Outcome, Busy, Idle, Stopped
<1> QED BY <1>1, <1>2, <1>3 DEF Onward

\* Replacing one slot's state keeps the slots.
LEMMA ReplaceSlot ==
  ASSUME SlotInv, NEW s \in Slots, NEW v, GoodSlot(v), slot' = [slot EXCEPT ![s] = v]
  PROVE  SlotInv'
  BY DEF SlotInv, GoodSlot

\* Leaving the slots alone keeps them.
LEMMA KeepSlots ==
  ASSUME SlotInv, UNCHANGED slot
  PROVE  SlotInv'
  BY DEF SlotInv, GoodSlot

\* A slot whose loop throws stops, its process with it, and keeps the slots.
LEMMA SlotFailsKeeps ==
  ASSUME SlotInv, RestInv, NEW s \in Slots, SlotFails(s),
         UNCHANGED <<held, linked, requests>>,
         owed' \in [Entities -> BOOLEAN]
  PROVE  SlotInv' /\ RestInv'
<1>1. SlotInv'
  BY FreeSlotGood, ReplaceSlot DEF SlotFails
<1>2. RestInv'
  BY DEF RestInv, SlotFails
<1> QED BY <1>1, <1>2

-----------------------------------------------------------------------------
(* IInv is inductive                                                       *)

\* The invariant holds initially.
LEMMA InitIInv == Init => IInv
<1> SUFFICES ASSUME Init PROVE IInv
  OBVIOUS
<1>1. \A j \in Jobs : Fits(NoRow, j, None)
  BY NewRowGood DEF Fits, NoRow
<1>2. RowInv
  BY <1>1, NewRowGood DEF Init, RowInv, GoodRow
<1>3. SlotInv
  BY FreeSlotGood DEF Init, SlotInv, GoodSlot
<1>4. RestInv
  BY DEF Init, RestInv
<1> QED BY <1>2, <1>3, <1>4 DEF IInv

\* A new row may stand in the table.
LEMMA NewRowFits == \A j \in Jobs : Fits(NewRow, j, holder[j])
  BY NewRowGood DEF Fits, NewRow, NoRow

\* A running row may be asked to run again.
LEMMA MarkedFits ==
  ASSUME RowInv, NEW j \in Jobs, row[j].status = "running"
  PROVE  Fits(MarkedForRerun(row[j]), j, holder[j])
<1>1. GoodRow(MarkedForRerun(row[j]))
  BY MarkedGood DEF RowInv, Fits
<1>2. /\ MarkedForRerun(row[j]).status = "running"
      /\ MarkedForRerun(row[j]).attempts = row[j].attempts
      /\ MarkedForRerun(row[j]).owner = row[j].owner
  BY DEF MarkedForRerun, RowInv, Row
<1> QED BY <1>1, <1>2 DEF RowInv, Fits

\* Every way of asking for a job keeps the invariant.
LEMMA AskKeepsIInv ==
  ASSUME IInv, NEW j \in Jobs, Ask(j)
  PROVE  IInv'
<1> USE DEF IInv
<1>1. CASE EnqueueActiveEntityJob(j)
  <2>1. RestInv' /\ SlotInv'
    BY <1>1, KeepSlots DEF EnqueueActiveEntityJob, Asked, RestInv
  <2>2. CASE row' = [row EXCEPT ![j] = NewRow]
    BY <1>1, <2>1, <2>2, NewRowFits, ReplaceRow DEF EnqueueActiveEntityJob, Asked
  <2>3. ASSUME NEW k \in ActivePeers(j),
               row' = [row EXCEPT ![k] = IF row[k].status = "running"
                                         THEN MarkedForRerun(row[k]) ELSE row[k]]
        PROVE  RowInv'
    <3>1. k \in Jobs
      BY DEF ActivePeers
    <3>2. Fits(row[k], k, holder[k])
      BY <3>1 DEF RowInv
    <3>3. Fits(IF row[k].status = "running" THEN MarkedForRerun(row[k]) ELSE row[k],
               k, holder[k])
      BY <3>1, <3>2, MarkedFits
    <3> QED BY <1>1, <2>3, <3>1, <3>3, ReplaceRow DEF EnqueueActiveEntityJob, Asked
  <2> QED BY <1>1, <2>1, <2>2, <2>3 DEF EnqueueActiveEntityJob
<1>2. CASE EnqueueJob(j)
  <2>1. RestInv' /\ SlotInv'
    BY <1>2, KeepSlots DEF EnqueueJob, Asked, RestInv
  <2>2. RowInv'
    BY <1>2, NewRowFits, ReplaceRow DEF EnqueueJob, Asked
  <2> QED BY <2>1, <2>2
<1>3. CASE RearmPendingStripeEventJob(j)
  <2>1. RestInv' /\ SlotInv'
    BY <1>3, KeepSlots DEF RearmPendingStripeEventJob, Asked, RestInv
  <2>2. RowInv'
    BY <1>3, RequeuedFits, ReplaceRow DEF RearmPendingStripeEventJob, Asked
  <2> QED BY <2>1, <2>2
<1>4. ASSUME NEW replay \in BOOLEAN, NEW rearm \in BOOLEAN,
             EnqueueFinancialClassificationJob(j, replay, rearm)
      PROVE  IInv'
  <2>1. SlotInv'
    BY <1>4, KeepSlots DEF EnqueueFinancialClassificationJob
  <2>2. RestInv'
    BY <1>4 DEF EnqueueFinancialClassificationJob, RestInv
  <2>3. Fits(row[j], j, holder[j])
    BY DEF RowInv
  <2>4. Fits(ClassificationRow(row[j], rearm), j, holder[j])
    BY <2>3, NewRowFits, MarkedFits, RequeuedFits DEF ClassificationRow
  <2>5. RowInv'
    BY <1>4, <2>4, ReplaceRow DEF EnqueueFinancialClassificationJob
  <2> QED BY <2>1, <2>2, <2>5
<1> QED BY <1>1, <1>2, <1>3, <1>4 DEF Ask

\* Processes that start, stop or die keep it.
LEMMA ProcessKeepsIInv ==
  ASSUME IInv, NEW p \in Procs, Process(p)
  PROVE  IInv'
<1> USE DEF IInv
<1>1. RowInv'
  BY KeepRows DEF Process, StartProcess, StopProcess, CrashProcess
<1>2. SlotInv'
  BY FreeSlotGood DEF Process, StartProcess, StopProcess, CrashProcess, SlotInv, GoodSlot
<1>3. RestInv'
  BY DEF Process, StartProcess, StopProcess, CrashProcess, RestInv
<1> QED BY <1>1, <1>2, <1>3

\* A poll keeps it.
LEMMA PollKeepsIInv ==
  ASSUME IInv, NEW s \in Slots, Poll(s)
  PROVE  IInv'
<1> USE DEF IInv
<1>1. ASSUME NEW j \in Jobs, ClaimNext(s, j)
      PROVE  IInv'
  <2>1. GoodSlot([Idle EXCEPT !.pc = "handling", !.job = j])
    BY FreeSlotGood DEF GoodSlot, SlotState, PC, Busy, Idle
  <2>2. SlotInv'
    BY <1>1, <2>1, ReplaceSlot DEF ClaimNext
  <2>3. RestInv'
    BY <1>1 DEF ClaimNext, TakeClaim, RestInv
  <2> QED BY <1>1, <2>2, <2>3, ClaimKeepsRows DEF ClaimNext
<1>2. ASSUME NEW j \in Jobs, ClaimNextFailsExpired(s, j)
      PROVE  IInv'
  <2>1. SlotInv' /\ RestInv'
    BY <1>2, KeepSlots DEF ClaimNextFailsExpired, FailExpired, RestInv
  <2> QED BY <1>2, <2>1, FailExpiredKeepsRows DEF ClaimNextFailsExpired
<1>3. CASE ClaimNextThrows(s)
  <2>1. SlotFails(s)
    BY <1>3 DEF ClaimNextThrows
  <2>2. CASE UNCHANGED <<row, held, linked, requests, owed, holder>>
    BY <2>1, <2>2, SlotFailsKeeps, KeepRows DEF RestInv
  <2>3. ASSUME NEW j \in Jobs, TakeClaim(s, j)
        PROVE  IInv'
    <3>1. owed' \in [Entities -> BOOLEAN] /\ UNCHANGED <<held, linked, requests>>
      BY <2>3 DEF TakeClaim, RestInv
    <3> QED BY <2>1, <2>3, <3>1, SlotFailsKeeps, ClaimKeepsRows
  <2>4. ASSUME NEW j \in Jobs, FailExpired(j)
        PROVE  IInv'
    <3>1. owed' \in [Entities -> BOOLEAN] /\ UNCHANGED <<held, linked, requests>>
      BY <2>4 DEF FailExpired, RestInv
    <3> QED BY <2>1, <2>4, <3>1, SlotFailsKeeps, FailExpiredKeepsRows
  <2> QED BY <1>3, <2>2, <2>3, <2>4 DEF ClaimNextThrows
<1> QED BY <1>1, <1>2, <1>3 DEF Poll

\* A lease may expire or be renewed.
LEMMA RenewedFits ==
  ASSUME RowInv, NEW j \in Jobs, row[j].status = "running", NEW b \in BOOLEAN
  PROVE  Fits([row[j] EXCEPT !.expired = b], j, holder[j])
<1>1. row[j] \in Row /\ RowChecks(row[j]) /\ Fits(row[j], j, holder[j])
  BY DEF RowInv, Fits, GoodRow
<1>2. [row[j] EXCEPT !.expired = b] \in Row
  BY <1>1 DEF Row
<1>3. RowChecks([row[j] EXCEPT !.expired = b])
  BY <1>1 DEF Row, RowChecks
<1> QED BY <1>1, <1>2, <1>3 DEF Fits, GoodRow, Row

\* Time that passes keeps it.
LEMMA TimeKeepsIInv ==
  ASSUME IInv, NEW j \in Jobs, Time(j)
  PROVE  IInv'
<1> USE DEF IInv
<1>1. SlotInv' /\ RestInv'
  BY KeepSlots DEF Time, LeaseExpires, BecomesDue, RestInv
<1>2. CASE LeaseExpires(j)
  <2>1. row' = [row EXCEPT ![j] = [row[j] EXCEPT !.expired = TRUE]]
    BY <1>2 DEF LeaseExpires
  <2> QED BY <1>1, <1>2, <2>1, RenewedFits, ReplaceRow DEF LeaseExpires
<1>3. CASE BecomesDue(j)
  <2>1. row' = [row EXCEPT ![j] = [row[j] EXCEPT !.due = TRUE]]
    BY <1>3 DEF BecomesDue
  <2>2. row[j] \in Row /\ Fits(row[j], j, holder[j])
    BY DEF RowInv
  <2>3. [row[j] EXCEPT !.due = TRUE] \in Row
    BY <2>2 DEF Row
  <2>4. Fits([row[j] EXCEPT !.due = TRUE], j, holder[j])
    BY <2>2, <2>3 DEF Fits, GoodRow, RowChecks, Row
  <2> QED BY <1>1, <1>3, <2>1, <2>4, ReplaceRow DEF BecomesDue
<1> QED BY <1>2, <1>3 DEF Time

\* a slot that goes on with the job it has
LEMMA SameJobGood ==
  ASSUME SlotInv, NEW s \in Slots, slot[s].pc \in Busy
  PROVE  /\ GoodSlot([slot[s] EXCEPT !.lost = TRUE])
         /\ \A o \in Outcome \ {"none"} : GoodSlot([slot[s] EXCEPT !.pc = "settling", !.outcome = o])
         /\ GoodSlot([slot[s] EXCEPT !.pc = "recovering", !.outcome = "transient"])
  BY DEF SlotInv, GoodSlot, SlotState, PC, Busy, Outcome

\* A busy slot has a job.
LEMMA BusyHasJob ==
  ASSUME SlotInv, NEW s \in Slots, slot[s].pc \in Busy
  PROVE  slot[s].job \in Jobs
  BY DEF SlotInv, GoodSlot

\* A slot that runs its job keeps it.
LEMMA RunKeepsIInv ==
  ASSUME IInv, NEW s \in Slots, Run(s)
  PROVE  IInv'
<1> USE DEF IInv
<1>0. slot[s].pc \in Busy /\ slot[s].job \in Jobs
  BY BusyHasJob DEF Run, RenewLease, RenewLeaseThrows, HandlerReturns, SettlesSuccess,
     CompleteThrows, SettlesFailure, SettleFailureThrows, Handling, Failing, Busy
<1>1. CASE RenewLease(s)
  <2>1. RestInv'
    BY <1>1 DEF RenewLease, RestInv
  <2>2. CASE Owns(s, slot[s].job)
    <3>1. row' = [row EXCEPT ![slot[s].job] = [row[slot[s].job] EXCEPT !.expired = FALSE]]
      BY <1>1, <2>2 DEF RenewLease
    <3>2. UNCHANGED <<slot, holder>> /\ row[slot[s].job].status = "running"
      BY <1>1, <2>2 DEF RenewLease, Owns
    <3>3. RowInv' /\ SlotInv'
      BY <1>0, <3>1, <3>2, RenewedFits, ReplaceRow, KeepSlots
    <3> QED BY <2>1, <3>3
  <2>3. CASE ~Owns(s, slot[s].job)
    <3>1. slot' = [slot EXCEPT ![s] = [slot[s] EXCEPT !.lost = TRUE]]
      BY <1>1, <2>3 DEF RenewLease
    <3>2. UNCHANGED <<row, holder>>
      BY <1>1, <2>3 DEF RenewLease
    <3>3. RowInv' /\ SlotInv'
      BY <1>0, <3>1, <3>2, SameJobGood, ReplaceSlot, KeepRows
    <3> QED BY <2>1, <3>3
  <2> QED BY <2>2, <2>3
<1>2. CASE RenewLeaseThrows(s)
  <2>1. RestInv' /\ UNCHANGED holder
    BY <1>2 DEF RenewLeaseThrows, RestInv
  <2>2. slot' = [slot EXCEPT ![s] = [slot[s] EXCEPT !.lost = TRUE]]
    BY <1>2 DEF RenewLeaseThrows
  <2>3. SlotInv'
    BY <1>0, <2>2, SameJobGood, ReplaceSlot
  <2>4. CASE UNCHANGED row
    BY <2>1, <2>3, <2>4, KeepRows
  <2>5. CASE /\ Owns(s, slot[s].job)
             /\ row' = [row EXCEPT ![slot[s].job].expired = FALSE]
    <3>1. row' = [row EXCEPT ![slot[s].job] = [row[slot[s].job] EXCEPT !.expired = FALSE]]
      BY <2>5
    <3>2. RowInv'
      BY <1>0, <2>1, <2>5, <3>1, RenewedFits, ReplaceRow DEF Owns
    <3> QED BY <2>1, <2>3, <3>2
  <2> QED BY <1>2, <2>4, <2>5 DEF RenewLeaseThrows
<1>3. ASSUME NEW o \in {"ok", "transient", "permanent"}, HandlerReturns(s, o)
      PROVE  IInv'
  <2>1. RestInv' /\ RowInv'
    BY <1>3, KeepRows DEF HandlerReturns, RestInv
  <2>2. CASE slot[s].lost
    <3>1. slot' = [slot EXCEPT ![s] = Onward(s)]
      BY <1>3, <2>2 DEF HandlerReturns
    <3> QED BY <2>1, <3>1, FreeSlotGood, ReplaceSlot
  <2>3. CASE ~slot[s].lost
    <3>1. slot' = [slot EXCEPT ![s] = [slot[s] EXCEPT !.pc = "settling", !.outcome = o]]
      BY <1>3, <2>3 DEF HandlerReturns
    <3> QED BY <1>0, <2>1, <3>1, SameJobGood, ReplaceSlot DEF Outcome
  <2> QED BY <2>2, <2>3
<1>4. CASE SettlesSuccess(s)
  <2>1. RestInv' /\ SlotInv'
    BY <1>4, FreeSlotGood, ReplaceSlot DEF SettlesSuccess, RestInv
  <2> QED BY <1>0, <1>4, <2>1, CompleteKeepsRows DEF SettlesSuccess
<1>5. CASE CompleteThrows(s)
  <2>1. RestInv'
    BY <1>5 DEF CompleteThrows, RestInv
  <2>2. slot' = [slot EXCEPT ![s] = [slot[s] EXCEPT !.pc = "recovering",
                                                    !.outcome = "transient"]]
    BY <1>5 DEF CompleteThrows
  <2>3. SlotInv'
    BY <1>0, <2>2, SameJobGood, ReplaceSlot
  <2> QED BY <1>0, <1>5, <2>1, <2>3, CompleteKeepsRows, KeepRows DEF CompleteThrows
<1>6. CASE SettlesFailure(s)
  <2>1. RestInv' /\ SlotInv'
    BY <1>6, FreeSlotGood, ReplaceSlot DEF SettlesFailure, RestInv
  <2> QED BY <1>0, <1>6, <2>1, SettleFailureKeepsRows DEF SettlesFailure, Retryable
<1>7. CASE SettleFailureThrows(s)
  <2>1. RestInv' /\ SlotInv'
    BY <1>7, SlotFailsKeeps DEF SettleFailureThrows, RestInv
  <2> QED BY <1>0, <1>7, <2>1, SettleFailureKeepsRows, KeepRows
          DEF SettleFailureThrows, Retryable
<1> QED BY <1>1, <1>2, <1>3, <1>4, <1>5, <1>6, <1>7 DEF Run

\* The gate may change.
LEMMA GateKeepsIInv ==
  ASSUME IInv, GateChanges
  PROVE  IInv'
<1>1. RestInv'
  BY DEF GateChanges, IInv, RestInv
<1> QED BY <1>1, KeepRows, KeepSlots DEF GateChanges, IInv

\* Every step of the queue keeps the invariant.
LEMMA StepKeepsIInv == IInv /\ [Next]_vars => IInv'
<1> SUFFICES ASSUME IInv, [Next]_vars PROVE IInv'
  OBVIOUS
<1>1. CASE Next
  BY <1>1, AskKeepsIInv, TimeKeepsIInv, GateKeepsIInv, ProcessKeepsIInv, PollKeepsIInv,
     RunKeepsIInv DEF Next
<1>2. CASE UNCHANGED vars
  BY <1>2, KeepRows, KeepSlots DEF vars, IInv, RestInv
<1> QED BY <1>1, <1>2

\* The strengthening that the theorems below use.
THEOREM Inductive == Spec => []IInv
BY InitIInv, StepKeepsIInv, PTL DEF Spec

\* What IInv says contains the types and the checks of the table.
THEOREM TypeCorrect == Spec => []TypeOK
<1>1. IInv => TypeOK
  BY DEF IInv, RowInv, SlotInv, RestInv, TypeOK, Fits, GoodRow
<1> QED BY <1>1, Inductive, PTL

\* What keeps claimNext from an active job is the gate, the job's time or a
\* lease that still runs, and nothing else: no path back to the queue (retry,
\* rerun, rearm) leaves a row with its attempts used up, none a running row
\* that no expiry frees. How long the gate stays closed is not the queue's to
\* say.
THEOREM NothingElseWaits == Spec => []WaitsForGateOrClock
<1>1. IInv => WaitsForGateOrClock
  BY DEF IInv, RowInv, Fits, WaitsForGateOrClock, Active, Candidate
<1> QED BY <1>1, Inductive, PTL

\* The owner guard of renewLease, complete and settleFailure is met only by
\* the slot that made the latest claim.
THEOREM OnlyHolderPasses == Spec => []Fenced
<1>1. IInv => Fenced
  <2> SUFFICES ASSUME IInv, NEW s \in Slots, slot[s].job # None, Owns(s, slot[s].job)
               PROVE  holder[slot[s].job] = s
    BY DEF Fenced
  <2>1. slot[s].job \in Jobs
    BY DEF IInv, SlotInv, GoodSlot
  <2> QED BY <2>1 DEF IInv, RowInv, Fits, Owns, LeaseOwner
<1> QED BY <1>1, Inductive, PTL

-----------------------------------------------------------------------------
(***************************************************************************)
(* The requests the queue takes: none is lost, an entity has one active    *)
(* job, and the queue implements JobPromise. The proofs argue from four    *)
(* kinds of step, which are all that Next does to rows and requests.       *)
(***************************************************************************)
\* an attempt of this row is still to begin
Wanted(r) == r.status = "pending" \/ (r.status = "running" /\ r.rerun)

OnlyRow(j) == \A k \in Jobs : k # j => row'[k] = row[k]

\* somebody asks for j's entity, and j takes the request
Asks(j) ==
  /\ OnlyRow(j)
  /\ owed' = [owed EXCEPT ![EntityOf[j]] = TRUE]
  /\ Wanted(row'[j])
  /\ Active(j) \/ \A k \in Jobs : EntityOf[k] = EntityOf[j] => ~Active(k)

\* an attempt of j begins
Begins(j) ==
  /\ OnlyRow(j)
  /\ owed' = [owed EXCEPT ![EntityOf[j]] = FALSE]
  /\ Active(j)
  /\ Passes(j)
  /\ row'[j].status = "running"

\* j is returned to the queue, renewed or ended
Goes(j) ==
  /\ OnlyRow(j)
  /\ owed' = owed
  /\ Active(j)
  /\ Wanted(row[j]) => Wanted(row'[j])

Quiet == UNCHANGED <<row, owed>>

\* Asking for a job changes nothing, or some job takes the request.
LEMMA AskEffect ==
  ASSUME IInv, NEW j \in Jobs, Ask(j)
  PROVE  Quiet \/ \E k \in Jobs : Asks(k)
<1> USE DEF IInv, RowInv
<1>0. ASSUME KindOf[j] # "entity", NEW k \in Jobs, EntityOf[k] = EntityOf[j]
      PROVE  k = j
  BY <1>0, AloneAssumption
<1>1. CASE EnqueueActiveEntityJob(j)
  <2>1. CASE ActivePeers(j) = {} /\ row' = [row EXCEPT ![j] = NewRow]
    <3>1. \A k \in Jobs : EntityOf[k] = EntityOf[j] => ~Active(k)
      BY <1>1, <2>1, AloneAssumption DEF ActivePeers, EnqueueActiveEntityJob, Active
    <3>2. Asks(j)
      BY <1>1, <2>1, <3>1 DEF EnqueueActiveEntityJob, Asked, Asks, OnlyRow, Wanted,
         NewRow, NoRow
    <3> QED BY <3>2
  <2>2. ASSUME NEW k \in ActivePeers(j),
               row' = [row EXCEPT ![k] = IF row[k].status = "running"
                                         THEN MarkedForRerun(row[k]) ELSE row[k]]
        PROVE  Asks(k)
    <3>1. k \in Jobs /\ EntityOf[k] = EntityOf[j] /\ Active(k) /\ row[k] \in Row
      BY DEF ActivePeers
    <3>2. Wanted(row'[k])
      BY <2>2, <3>1 DEF Wanted, MarkedForRerun, Active, Row
    <3> QED BY <1>1, <2>2, <3>1, <3>2 DEF EnqueueActiveEntityJob, Asked, Asks, OnlyRow
  <2> QED BY <1>1, <2>1, <2>2 DEF EnqueueActiveEntityJob, ActivePeers
<1>2. CASE EnqueueJob(j)
  <2>1. \A k \in Jobs : EntityOf[k] = EntityOf[j] => ~Active(k)
    BY <1>0, <1>2 DEF EnqueueJob, Active
  <2>2. Asks(j)
    BY <1>2, <2>1 DEF EnqueueJob, Asked, Asks, OnlyRow, Wanted, NewRow, NoRow
  <2> QED BY <2>2
<1>3. CASE RearmPendingStripeEventJob(j)
  <2>1. \A k \in Jobs : EntityOf[k] = EntityOf[j] => ~Active(k)
    BY <1>0, <1>3 DEF RearmPendingStripeEventJob, Active
  <2>2. Asks(j)
    BY <1>3, <2>1 DEF RearmPendingStripeEventJob, Asked, Asks, OnlyRow, Wanted,
       Requeued, Row
  <2> QED BY <2>2
<1>4. ASSUME NEW replay \in BOOLEAN, NEW rearm \in BOOLEAN,
             EnqueueFinancialClassificationJob(j, replay, rearm)
      PROVE  Quiet \/ Asks(j)
  <2>1. row[j] \in Row
    OBVIOUS
  <2>2. CASE Terminal(j) /\ ~rearm
    <3>1. ClassificationRow(row[j], rearm) = row[j]
      BY <2>2 DEF ClassificationRow, Terminal
    <3>2. owed' = [owed EXCEPT ![EntityOf[j]] = owed[EntityOf[j]]]
      BY <1>4, <2>2 DEF EnqueueFinancialClassificationJob, RestInv
    <3> QED BY <1>4, <3>1, <3>2 DEF EnqueueFinancialClassificationJob, Quiet, RestInv
  <2>3. CASE ~Terminal(j) \/ rearm
    <3>1. Wanted(ClassificationRow(row[j], rearm))
      BY <2>1, <2>3 DEF ClassificationRow, Wanted, Terminal, NewRow, NoRow,
         MarkedForRerun, Requeued, Row, Status
    <3>2. owed' = [owed EXCEPT ![EntityOf[j]] = TRUE]
      BY <1>4, <2>3 DEF EnqueueFinancialClassificationJob
    <3>3. Active(j) \/ \A k \in Jobs : EntityOf[k] = EntityOf[j] => ~Active(k)
      BY <1>0, <1>4 DEF EnqueueFinancialClassificationJob
    <3> QED BY <1>4, <3>1, <3>2, <3>3 DEF EnqueueFinancialClassificationJob, Asks, OnlyRow
  <2> QED BY <2>2, <2>3
<1> QED BY <1>1, <1>2, <1>3, <1>4 DEF Ask

\* A claim begins an attempt.
LEMMA ClaimEffect ==
  ASSUME IInv, NEW s \in Slots, NEW j \in Jobs, TakeClaim(s, j)
  PROVE  Begins(j)
<1>1. row'[j].status = "running"
  BY DEF IInv, RowInv, TakeClaim, Claimed, Row
<1> QED BY <1>1 DEF IInv, RowInv, TakeClaim, Begins, OnlyRow, Candidate, Active

\* A row whose last attempt was abandoned goes.
LEMMA FailExpiredEffect ==
  ASSUME IInv, NEW j \in Jobs, FailExpired(j)
  PROVE  Goes(j)
  BY DEF IInv, RowInv, FailExpired, ExpiredFinalAttempt, Goes, OnlyRow, Active, Wanted

\* A row queued anew has an attempt to begin.
LEMMA RequeuedWanted ==
  ASSUME IInv, NEW j \in Jobs
  PROVE  Wanted(Requeued(row[j]))
  BY DEF IInv, RowInv, Row, Wanted, Requeued

\* Completion changes nothing or its job goes.
LEMMA CompleteEffect ==
  ASSUME IInv, NEW s \in Slots, NEW j \in Jobs, Complete(s, j), UNCHANGED owed
  PROVE  Quiet \/ Goes(j)
<1>1. CASE Owns(s, j)
  <2>1. row[j].rerun => Wanted(AfterCompletion(row[j]))
    BY RequeuedWanted DEF AfterCompletion
  <2>2. row'[j] = AfterCompletion(row[j]) /\ OnlyRow(j)
    BY <1>1 DEF Complete, IInv, RowInv, OnlyRow
  <2> QED BY <1>1, <2>1, <2>2 DEF Owns, Goes, Active, Wanted
<1>2. CASE ~Owns(s, j)
  BY <1>2 DEF Complete, Quiet
<1> QED BY <1>1, <1>2

\* So does the settlement of a failure.
LEMMA SettleFailureEffect ==
  ASSUME IInv, NEW s \in Slots, NEW j \in Jobs, NEW retryable \in BOOLEAN,
         SettleFailure(s, j, retryable), UNCHANGED owed
  PROVE  Quiet \/ Goes(j)
<1>1. CASE Owns(s, j)
  <2>1. row[j].rerun => Wanted(AfterFailure(j, retryable))
    BY RequeuedWanted DEF AfterFailure
  <2>2. row'[j] = AfterFailure(j, retryable) /\ OnlyRow(j)
    BY <1>1 DEF SettleFailure, IInv, RowInv, OnlyRow
  <2> QED BY <1>1, <2>1, <2>2 DEF Owns, Goes, Active, Wanted
<1>2. CASE ~Owns(s, j)
  BY <1>2 DEF SettleFailure, Quiet
<1> QED BY <1>1, <1>2

\* A poll changes nothing, begins an attempt or ends a job.
LEMMA PollEffect ==
  ASSUME IInv, NEW s \in Slots, Poll(s)
  PROVE  Quiet \/ \E j \in Jobs : Begins(j) \/ Goes(j)
  BY ClaimEffect, FailExpiredEffect
     DEF Poll, ClaimNext, ClaimNextFailsExpired, ClaimNextThrows, Quiet

\* A lease that expires or is renewed lets its job go on.
LEMMA ExpiryEffect ==
  ASSUME IInv, NEW j \in Jobs, NEW b \in BOOLEAN, row[j].status = "running",
         row' = [row EXCEPT ![j].expired = b], UNCHANGED owed
  PROVE  Goes(j)
<1>1. row'[j] = [row[j] EXCEPT !.expired = b] /\ OnlyRow(j) /\ row[j] \in Row
  BY DEF IInv, RowInv, OnlyRow
<1>2. Wanted(row[j]) => Wanted(row'[j])
  BY <1>1 DEF Wanted, Row
<1> QED BY <1>1, <1>2 DEF Goes, Active

\* A slot that runs its job begins no attempt.
LEMMA RunEffect ==
  ASSUME IInv, NEW s \in Slots, Run(s)
  PROVE  Quiet \/ \E j \in Jobs : Goes(j)
<1>0. slot[s].job \in Jobs
  BY BusyHasJob DEF IInv, Run, RenewLease, RenewLeaseThrows, HandlerReturns, SettlesSuccess,
     CompleteThrows, SettlesFailure, SettleFailureThrows, Handling, Failing, Busy
<1>1. CASE RenewLease(s)
  BY <1>0, <1>1, ExpiryEffect DEF RenewLease, Owns, Quiet
<1>2. CASE RenewLeaseThrows(s)
  BY <1>0, <1>2, ExpiryEffect DEF RenewLeaseThrows, Owns, Quiet
<1>3. CASE \E o \in {"ok", "transient", "permanent"} : HandlerReturns(s, o)
  BY <1>3 DEF HandlerReturns, Quiet
<1>4. CASE SettlesSuccess(s)
  BY <1>0, <1>4, CompleteEffect DEF SettlesSuccess
<1>5. CASE CompleteThrows(s)
  BY <1>0, <1>5, CompleteEffect DEF CompleteThrows, Quiet
<1>6. CASE SettlesFailure(s)
  BY <1>0, <1>6, SettleFailureEffect DEF SettlesFailure, Retryable
<1>7. CASE SettleFailureThrows(s)
  BY <1>0, <1>7, SettleFailureEffect DEF SettleFailureThrows, Retryable, Quiet
<1> QED BY <1>1, <1>2, <1>3, <1>4, <1>5, <1>6, <1>7 DEF Run

\* Neither does time.
LEMMA TimeEffect ==
  ASSUME IInv, NEW j \in Jobs, Time(j)
  PROVE  Goes(j)
<1>1. CASE LeaseExpires(j)
  BY <1>1, ExpiryEffect DEF LeaseExpires
<1>2. CASE BecomesDue(j)
  <2>1. row'[j] = [row[j] EXCEPT !.due = TRUE] /\ OnlyRow(j) /\ row[j] \in Row
    BY <1>2 DEF BecomesDue, IInv, RowInv, OnlyRow
  <2>2. Wanted(row[j]) => Wanted(row'[j])
    BY <2>1 DEF Wanted, Row
  <2> QED BY <1>2, <2>1, <2>2 DEF Goes, Active, BecomesDue
<1> QED BY <1>1, <1>2 DEF Time

\* These four are all the steps there are.
LEMMA Effects ==
  ASSUME IInv, [Next]_vars
  PROVE  Quiet \/ \E j \in Jobs : Asks(j) \/ Begins(j) \/ Goes(j)
<1>1. CASE UNCHANGED vars
  BY <1>1 DEF vars, Quiet
<1>2. ASSUME NEW p \in Procs, Process(p)
      PROVE  Quiet
  BY <1>2 DEF Process, StartProcess, StopProcess, CrashProcess, Quiet
<1>3. CASE GateChanges
  BY <1>3 DEF GateChanges, Quiet
<1> QED BY <1>1, <1>2, <1>3, AskEffect, PollEffect, RunEffect, TimeEffect DEF Next

\* The gate changes in steps of its own.
LEMMA HeldStays ==
  ASSUME [Next]_vars, ~Quiet
  PROVE  held' = held
  BY DEF Next, vars, Quiet, GateChanges, Ask, Time, Process, Poll, Run,
     EnqueueActiveEntityJob, EnqueueJob, RearmPendingStripeEventJob,
     EnqueueFinancialClassificationJob, Asked, LeaseExpires, BecomesDue, StartProcess,
     StopProcess, CrashProcess, ClaimNext, TakeClaim, ClaimNextFailsExpired, FailExpired,
     ClaimNextThrows, RenewLease, RenewLeaseThrows, HandlerReturns, SettlesSuccess,
     CompleteThrows, SettlesFailure, SettleFailureThrows

-----------------------------------------------------------------------------
(* What the four kinds of step preserve                                    *)

\* None of them loses a request.
LEMMA StepKeepsRequests ==
  ASSUME IInv, [Next]_vars, NoLostRequest
  PROVE  NoLostRequest'
<1> SUFFICES ASSUME NEW e \in Entities, owed'[e]
             PROVE  \E j \in Jobs : EntityOf[j] = e /\ Wanted(row'[j])
  BY DEF NoLostRequest, Wanted
<1>0. owed \in [Entities -> BOOLEAN]
  BY DEF IInv, RestInv
<1>1. owed[e] => \E j \in Jobs : EntityOf[j] = e /\ Wanted(row[j])
  BY DEF NoLostRequest, Wanted
<1>2. CASE Quiet
  BY <1>1, <1>2 DEF Quiet
<1>3. ASSUME NEW j \in Jobs, Asks(j)
      PROVE  \E k \in Jobs : EntityOf[k] = e /\ Wanted(row'[k])
  <2>1. CASE EntityOf[j] = e
    BY <1>3, <2>1 DEF Asks
  <2>2. CASE EntityOf[j] # e
    BY <1>0, <1>1, <1>3, <2>2 DEF Asks, OnlyRow
  <2> QED BY <2>1, <2>2
<1>4. ASSUME NEW j \in Jobs, Begins(j)
      PROVE  \E k \in Jobs : EntityOf[k] = e /\ Wanted(row'[k])
  <2>1. EntityOf[j] # e
    BY <1>0, <1>4 DEF Begins
  <2> QED BY <1>0, <1>1, <1>4, <2>1 DEF Begins, OnlyRow
<1>5. ASSUME NEW j \in Jobs, Goes(j)
      PROVE  \E k \in Jobs : EntityOf[k] = e /\ Wanted(row'[k])
  BY <1>1, <1>5 DEF Goes, OnlyRow
<1> QED BY <1>2, <1>3, <1>4, <1>5, Effects

\* None of them makes two jobs of an entity active.
LEMMA StepKeepsOneActive ==
  ASSUME IInv, [Next]_vars, OneActivePerEntity
  PROVE  OneActivePerEntity'
<1> DEFINE ActiveNext(j) == row'[j].status \in {"pending", "running"}
<1> SUFFICES \A j, k \in Jobs : EntityOf[j] = EntityOf[k] /\ ActiveNext(j) /\ ActiveNext(k)
                                => j = k
  BY DEF OneActivePerEntity, Active
<1>1. CASE Quiet
  BY <1>1 DEF Quiet, OneActivePerEntity, Active
<1>2. ASSUME NEW i \in Jobs, Asks(i) \/ Begins(i) \/ Goes(i)
      PROVE  \A j, k \in Jobs : EntityOf[j] = EntityOf[k] /\ ActiveNext(j) /\ ActiveNext(k)
                                 => j = k
  <2>1. \A j \in Jobs : j # i => row'[j] = row[j]
    BY <1>2 DEF Asks, Begins, Goes, OnlyRow
  <2>2. Active(i) \/ \A k \in Jobs : EntityOf[k] = EntityOf[i] => ~Active(k)
    BY <1>2 DEF Asks, Begins, Goes
  <2> QED BY <2>1, <2>2 DEF OneActivePerEntity, Active
<1> QED BY <1>1, <1>2, Effects

\* A request that met a running job survives that job's completion, failure,
\* lease and worker: while an attempt is owed, some job of the entity is
\* pending or marked to run again.
THEOREM RequestsSurvive == Spec => []NoLostRequest
<1>1. Init => NoLostRequest
  BY DEF Init, NoLostRequest
<1> QED BY <1>1, Inductive, StepKeepsRequests, PTL DEF Spec

\* enqueueActiveEntityJob coalesces: an entity never has two active jobs.
THEOREM Coalesced == Spec => []OneActivePerEntity
<1>1. Init => OneActivePerEntity
  BY DEF Init, OneActivePerEntity, Active, NoRow
<1> QED BY <1>1, Inductive, StepKeepsOneActive, PTL DEF Spec

-----------------------------------------------------------------------------
(* Refinement                                                              *)

\* The promise's initial states are implemented.
LEMMA InitRefines == Init => Promise!Init
  BY DEF Init, Promise!Init, Live, Active, NoRow

\* So are its steps.
LEMMA StepRefines ==
  ASSUME IInv, IInv', NoLostRequest, NoLostRequest', [Next]_vars
  PROVE  [Promise!Next]_(Promise!vars)
<1> USE DEF Promise!vars, Promise!Next
<1> DEFINE LiveOf(e) == \E j \in Jobs : EntityOf[j] = e /\ row[j].status \in {"pending", "running"}
           NextLiveOf(e) == \E j \in Jobs : /\ EntityOf[j] = e
                                            /\ row'[j].status \in {"pending", "running"}
<1>0. /\ Live = [e \in Entities |-> LiveOf(e)]
      /\ Live' = [e \in Entities |-> NextLiveOf(e)]
      /\ owed \in [Entities -> BOOLEAN]
  BY DEF Live, Active, IInv, RestInv
<1>1. CASE Quiet
  <2>1. Live' = Live /\ owed' = owed
    BY <1>1 DEF Quiet, Live, Active
  <2>2. held' \in SUBSET Gated
    BY DEF IInv, RestInv
  <2> QED BY <2>1, <2>2 DEF Promise!Gate
<1> SUFFICES ASSUME ~Quiet PROVE [Promise!Next]_(Promise!vars)
  BY <1>1
<1>5. held' = held
  BY HeldStays
<1>2. ASSUME NEW j \in Jobs, Asks(j)
      PROVE  Promise!Request(EntityOf[j])
  <2>1. NextLiveOf(EntityOf[j])
    BY <1>2 DEF Asks, Wanted
  <2>2. \A e \in Entities : e # EntityOf[j] => (NextLiveOf(e) <=> LiveOf(e))
    BY <1>2 DEF Asks, OnlyRow
  <2>3. Live' = [Live EXCEPT ![EntityOf[j]] = TRUE]
    BY <1>0, <2>1, <2>2
  <2> QED BY <1>2, <1>5, <2>3 DEF Asks, Promise!Request
<1>3. ASSUME NEW j \in Jobs, Begins(j)
      PROVE  Promise!Begin(EntityOf[j])
  <2>1. \A e \in Entities : NextLiveOf(e) <=> LiveOf(e)
    BY <1>3 DEF Begins, OnlyRow, Active
  <2>2. Live' = Live
    BY <1>0, <2>1
  <2>3. Live[EntityOf[j]]
    BY <1>0, <1>3 DEF Begins, Active
  <2> QED BY <1>3, <1>5, <2>2, <2>3 DEF Begins, Passes, Promise!Begin
<1>4. ASSUME NEW j \in Jobs, Goes(j)
      PROVE  Promise!End(EntityOf[j]) \/ UNCHANGED <<Live, owed, held>>
  <2>1. \A e \in Entities : e # EntityOf[j] => (NextLiveOf(e) <=> LiveOf(e))
    BY <1>4 DEF Goes, OnlyRow
  <2>2. LiveOf(EntityOf[j])
    BY <1>4 DEF Goes, Active
  <2>3. CASE NextLiveOf(EntityOf[j])
    <3>1. Live' = Live
      BY <1>0, <2>1, <2>2, <2>3
    <3> QED BY <1>4, <1>5, <3>1 DEF Goes
  <2>4. CASE ~NextLiveOf(EntityOf[j])
    <3>1. Live' = [Live EXCEPT ![EntityOf[j]] = FALSE]
      <4>1. \A e \in Entities : NextLiveOf(e) = (LiveOf(e) /\ e # EntityOf[j])
        BY <2>1, <2>4
      <4>2. Live' = [e \in Entities |-> LiveOf(e) /\ e # EntityOf[j]]
        <5> HIDE DEF LiveOf, NextLiveOf
        <5> QED BY <1>0, <4>1, Zenon
      <4>3. [Live EXCEPT ![EntityOf[j]] = FALSE]
              = [e \in Entities |-> LiveOf(e) /\ e # EntityOf[j]]
        BY <1>0
      <4> QED BY <4>2, <4>3
    <3>2. ~owed[EntityOf[j]]
      BY <1>4, <2>4 DEF Goes, NoLostRequest
    <3>3. Live[EntityOf[j]]
      BY <1>0, <2>2
    <3> QED BY <1>4, <1>5, <3>1, <3>2, <3>3 DEF Goes, Promise!End
  <2> QED BY <2>3, <2>4
<1> QED BY <1>2, <1>3, <1>4, Effects

\* The queue implements JobPromise: work about an entity never ends while an
\* attempt is owed, and an attempt begins only where there is work.
THEOREM QueueKeepsPromise == Spec => KeepsPromise
<1>1. Spec => []NoLostRequest
  BY RequestsSurvive
<1>2. Spec => []IInv
  BY Inductive
<1> QED BY <1>1, <1>2, InitRefines, StepRefines, PTL DEF Spec, KeepsPromise, Promise!Spec

-----------------------------------------------------------------------------
(***************************************************************************)
(* The action properties: whose result may touch a row, when a job may     *)
(* fail, and when a lease may be taken over.                               *)
(***************************************************************************)
\* s changes the row of its job only as the holder of its latest claim
FencedStep(s) ==
  /\ slot[s].job # None
  /\ slot'[s] # slot[s]
  /\ row'[slot[s].job] # row[slot[s].job]
  => holder[slot[s].job] = s

\* Who owns a lease made the latest claim.
LEMMA OwnerIsHolder ==
  ASSUME IInv, NEW s \in Slots, NEW j \in Jobs, Owns(s, j)
  PROVE  holder[j] = s
  BY DEF IInv, RowInv, Fits, Owns, LeaseOwner

\* A slot that polls has no job.
LEMMA PollingHasNoJob ==
  ASSUME IInv, NEW s \in Slots, Polling(s)
  PROVE  slot[s].job = None
  BY DEF IInv, SlotInv, GoodSlot, Busy, Polling

\* A slot's step leaves the other slots alone.
LEMMA OtherSlots ==
  ASSUME NEW s \in Slots, NEW t \in Slots, t # s, IInv, Poll(s) \/ Run(s)
  PROVE  slot'[t] = slot[t]
  BY DEF IInv, SlotInv, Poll, ClaimNext, ClaimNextFailsExpired, ClaimNextThrows, Run,
     RenewLease, RenewLeaseThrows, HandlerReturns, SettlesSuccess, CompleteThrows,
     SettlesFailure, SettleFailureThrows, SlotFails

\* No slot settles the job of another claim.
LEMMA StepFenced ==
  ASSUME IInv, Next, NEW t \in Slots
  PROVE  FencedStep(t)
<1>1. ASSUME NEW j \in Jobs, Ask(j) \/ Time(j)
      PROVE  FencedStep(t)
  BY <1>1 DEF FencedStep, Ask, Time, LeaseExpires, BecomesDue, Asked,
     EnqueueActiveEntityJob, EnqueueJob, RearmPendingStripeEventJob,
     EnqueueFinancialClassificationJob
<1>2. ASSUME NEW p \in Procs, Process(p)
      PROVE  FencedStep(t)
  BY <1>2 DEF FencedStep, Process, StartProcess, StopProcess, CrashProcess
<1>5. CASE GateChanges
  BY <1>5 DEF FencedStep, GateChanges
<1>3. ASSUME NEW s \in Slots, Poll(s)
      PROVE  FencedStep(t)
  <2>1. CASE t = s
    BY <1>3, <2>1, PollingHasNoJob DEF FencedStep, Poll, ClaimNext, ClaimNextFailsExpired,
       ClaimNextThrows
  <2>2. CASE t # s
    BY <1>3, <2>2, OtherSlots DEF FencedStep
  <2> QED BY <2>1, <2>2
<1>4. ASSUME NEW s \in Slots, Run(s)
      PROVE  FencedStep(t)
  <2>1. CASE t = s
    <3>1. row' # row => Owns(s, slot[s].job)
      BY <1>4 DEF Run, RenewLease, RenewLeaseThrows, HandlerReturns, SettlesSuccess,
         CompleteThrows, SettlesFailure, SettleFailureThrows, Complete, SettleFailure
    <3>2. slot[s].job # None => slot[s].job \in Jobs
      BY DEF IInv, SlotInv, GoodSlot
    <3> QED BY <2>1, <3>1, <3>2, OwnerIsHolder DEF FencedStep
  <2>2. CASE t # s
    BY <1>4, <2>2, OtherSlots DEF FencedStep
  <2> QED BY <2>1, <2>2
<1> QED BY <1>1, <1>2, <1>3, <1>4, <1>5 DEF Next

\* The result of a handler that was overtaken has no effect on the row.
THEOREM OvertakenHasNoEffect == Spec => FencedSettlement
<1>1. ASSUME IInv, [Next]_vars
      PROVE  [\A s \in Slots : FencedStep(s)]_vars
  BY <1>1, StepFenced
<1>2. Spec => [][\A s \in Slots : FencedStep(s)]_vars
  BY <1>1, Inductive, PTL DEF Spec
<1> QED BY <1>2 DEF FencedSettlement, FencedStep

-----------------------------------------------------------------------------
(* When a job fails                                                        *)

SpentStep(j) ==
  row[j].status # "failed" /\ row'[j].status = "failed" =>
    /\ ~row[j].rerun
    /\ \/ row[j].attempts = MaxAttempts[j]
       \/ \E s \in Slots : /\ slot[s].job = j
                           /\ slot[s].outcome = "permanent"
                           /\ holder[j] = s

\* A row that has run out of attempts has used exactly its own.
LEMMA LastAttempt ==
  ASSUME IInv, NEW j \in Jobs, row[j].status = "running", row[j].attempts >= MaxAttempts[j]
  PROVE  row[j].attempts = MaxAttempts[j]
<1>1. row[j].attempts \in Nat /\ MaxAttempts[j] \in Nat
  BY DEF IInv, RowInv, Row
<1>2. row[j].attempts <= MaxAttempts[j]
  BY DEF IInv, RowInv, Fits
<1> QED BY <1>1, <1>2

\* A failure that is not retried was a permanent one.
LEMMA FailedIsPermanent ==
  ASSUME IInv, NEW s \in Slots, Failing(s), ~Retryable(s)
  PROVE  slot[s].outcome = "permanent"
  BY DEF IInv, SlotInv, GoodSlot, Failing, Retryable, SlotState, Outcome

\* The settlement of a failure fails a job for cause only.
LEMMA SettleFailureSpent ==
  ASSUME IInv, NEW s \in Slots, NEW i \in Jobs, slot[s].job = i,
         SettleFailure(s, i, Retryable(s)), Failing(s), NEW j \in Jobs
  PROVE  SpentStep(j)
<1> SUFFICES ASSUME row[j].status # "failed", row'[j].status = "failed"
             PROVE  /\ ~row[j].rerun
                    /\ \/ row[j].attempts = MaxAttempts[j]
                       \/ slot[s].job = j /\ slot[s].outcome = "permanent" /\ holder[j] = s
  BY DEF SpentStep
<1>1. j = i /\ Owns(s, j) /\ row'[j] = AfterFailure(j, Retryable(s)) /\ row[j] \in Row
  BY DEF SettleFailure, IInv, RowInv
<1>2. ~row[j].rerun /\ (~Retryable(s) \/ row[j].attempts >= MaxAttempts[j])
  BY <1>1 DEF AfterFailure, Requeued, Retried, Row
<1>3. CASE row[j].attempts >= MaxAttempts[j]
  BY <1>1, <1>2, <1>3, LastAttempt DEF Owns
<1>4. CASE ~Retryable(s)
  BY <1>1, <1>2, <1>4, OwnerIsHolder, FailedIsPermanent
<1> QED BY <1>2, <1>3, <1>4

\* So does the poll that finds an abandoned last attempt.
LEMMA FailExpiredSpent ==
  ASSUME IInv, NEW i \in Jobs, FailExpired(i), NEW j \in Jobs
  PROVE  SpentStep(j)
  BY LastAttempt DEF SpentStep, FailExpired, ExpiredFinalAttempt, IInv, RowInv

\* Completion fails no job.
LEMMA CompleteSpent ==
  ASSUME IInv, NEW s \in Slots, NEW i \in Jobs, Complete(s, i), NEW j \in Jobs
  PROVE  SpentStep(j)
<1>1. AfterCompletion(row[i]).status # "failed"
  BY DEF AfterCompletion, Requeued, Finished, IInv, RowInv, Row
<1> QED BY <1>1 DEF SpentStep, Complete, IInv, RowInv

\* A claim fails no job.
LEMMA ClaimSpent ==
  ASSUME IInv, NEW s \in Slots, NEW i \in Jobs, TakeClaim(s, i), NEW j \in Jobs
  PROVE  SpentStep(j)
<1>1. Claimed(row[i], s).status # "failed"
  BY DEF Claimed, IInv, RowInv, Row
<1> QED BY <1>1 DEF SpentStep, TakeClaim, IInv, RowInv

\* Nobody who asks for a job fails one.
LEMMA AskSpent ==
  ASSUME IInv, NEW i \in Jobs, Ask(i), NEW j \in Jobs
  PROVE  SpentStep(j)
<1>1. NewRow.status = "pending"
  BY DEF NewRow, NoRow
<1>2. \A k \in Jobs : /\ Requeued(row[k]).status = "pending"
                     /\ MarkedForRerun(row[k]).status = row[k].status
  BY DEF Requeued, MarkedForRerun, IInv, RowInv, Row
<1>3. \A rearm \in BOOLEAN : ClassificationRow(row[i], rearm).status = "failed"
                             => row[i].status = "failed"
  BY <1>1, <1>2 DEF ClassificationRow
<1> QED BY <1>1, <1>2, <1>3
        DEF SpentStep, Ask, EnqueueActiveEntityJob, EnqueueJob, RearmPendingStripeEventJob,
            EnqueueFinancialClassificationJob, ActivePeers, IInv, RowInv

\* A job fails for cause only, whatever the step.
LEMMA StepSpent ==
  ASSUME IInv, Next, NEW j \in Jobs
  PROVE  SpentStep(j)
<1>0. CASE UNCHANGED row
  BY <1>0 DEF SpentStep
<1>1. ASSUME NEW i \in Jobs, Ask(i) \/ Time(i)
      PROVE  SpentStep(j)
  <2>1. Time(i) => row[i].status # "failed" /\ row'[i].status = row[i].status
    BY DEF Time, LeaseExpires, BecomesDue, IInv, RowInv, Row
  <2>2. Time(i) => \A k \in Jobs : k # i => row'[k] = row[k]
    BY DEF Time, LeaseExpires, BecomesDue, IInv, RowInv
  <2> QED BY <1>1, <2>1, <2>2, AskSpent DEF SpentStep
<1>2. ASSUME NEW p \in Procs, Process(p)
      PROVE  SpentStep(j)
  BY <1>0, <1>2 DEF Process, StartProcess, StopProcess, CrashProcess
<1>3. ASSUME NEW s \in Slots, Poll(s)
      PROVE  SpentStep(j)
  BY <1>0, <1>3, ClaimSpent, FailExpiredSpent
     DEF Poll, ClaimNext, ClaimNextFailsExpired, ClaimNextThrows
<1>4. ASSUME NEW s \in Slots, Run(s)
      PROVE  SpentStep(j)
  <2>1. slot[s].job \in Jobs
    BY <1>4, BusyHasJob DEF IInv, Run, RenewLease, RenewLeaseThrows, HandlerReturns,
       SettlesSuccess, CompleteThrows, SettlesFailure, SettleFailureThrows, Handling,
       Failing, Busy
  <2>2. CASE RenewLease(s) \/ RenewLeaseThrows(s)
    <3>1. \A k \in Jobs : row'[k].status = row[k].status
      BY <2>2 DEF RenewLease, RenewLeaseThrows, IInv, RowInv, Row
    <3> QED BY <3>1 DEF SpentStep
  <2>3. CASE \E o \in {"ok", "transient", "permanent"} : HandlerReturns(s, o)
    BY <1>0, <2>3 DEF HandlerReturns
  <2>4. CASE SettlesSuccess(s) \/ CompleteThrows(s)
    BY <1>0, <2>1, <2>4, CompleteSpent DEF SettlesSuccess, CompleteThrows
  <2>5. CASE SettlesFailure(s) \/ SettleFailureThrows(s)
    BY <1>0, <2>1, <2>5, SettleFailureSpent DEF SettlesFailure, SettleFailureThrows
  <2> QED BY <1>4, <2>2, <2>3, <2>4, <2>5 DEF Run
<1>5. CASE GateChanges
  BY <1>0, <1>5 DEF GateChanges
<1> QED BY <1>1, <1>2, <1>3, <1>4, <1>5 DEF Next

\* A job fails only after its last attempt was claimed or its holder reported a
\* permanent error, and never while a rerun is requested.
THEOREM FailureIsEarned == Spec => FailsOnlyWhenSpent
<1>1. ASSUME IInv, [Next]_vars
      PROVE  [\A j \in Jobs : SpentStep(j)]_vars
  BY <1>1, StepSpent
<1>2. Spec => [][\A j \in Jobs : SpentStep(j)]_vars
  BY <1>1, Inductive, PTL DEF Spec
<1> QED BY <1>2 DEF FailsOnlyWhenSpent, SpentStep

-----------------------------------------------------------------------------
(* When a lease is taken over                                              *)

StolenStep(j) == row[j].status = "running" /\ holder'[j] # holder[j] => row[j].expired

\* A lease is taken over only when it has expired, whatever the step.
LEMMA StepStolen ==
  ASSUME IInv, Next, NEW j \in Jobs
  PROVE  StolenStep(j)
<1>1. holder' # holder => \E s \in Slots, i \in Jobs : TakeClaim(s, i)
  BY DEF Next, GateChanges, Ask, Time, Process, Poll, Run, EnqueueActiveEntityJob, EnqueueJob,
     RearmPendingStripeEventJob, EnqueueFinancialClassificationJob, Asked, LeaseExpires,
     BecomesDue, StartProcess, StopProcess, CrashProcess, ClaimNext,
     ClaimNextFailsExpired, FailExpired, ClaimNextThrows, RenewLease, RenewLeaseThrows,
     HandlerReturns, SettlesSuccess, CompleteThrows, SettlesFailure, SettleFailureThrows
<1> QED BY <1>1 DEF StolenStep, TakeClaim, Candidate, IInv, RowInv

\* A running job changes hands only after its lease expired.
THEOREM TakenOnlyExpired == Spec => StolenOnlyExpired
<1>1. ASSUME IInv, [Next]_vars
      PROVE  [\A j \in Jobs : StolenStep(j)]_vars
  BY <1>1, StepStolen
<1>2. Spec => [][\A j \in Jobs : StolenStep(j)]_vars
  BY <1>1, Inductive, PTL DEF Spec
<1> QED BY <1>2 DEF StolenOnlyExpired, StolenStep

-----------------------------------------------------------------------------
(* The outbox *)

\* the handlers that may still send message m
Unsent(m) == {s \in Slots : slot[s].job = m /\ stage[s] \in {"reading", "sending"}}

\* How far the handler of s is, what it did and how it will end. A result that
\* is to be settled as a success is true.
StageHolds(s) ==
  /\ stage[s] = "none" <=> ~Handling(s)
  /\ Handling(s) => message[Msg(s)] # "absent"
  /\ stage[s] = "delivering" => sent[Msg(s)] > 0
  /\ stage[s] = "failing" => cause[s] \in {"transient", "permanent"}
  /\ slot[s].pc = "settling" /\ slot[s].outcome = "ok" => message[Msg(s)] = "delivered"

AttemptsHold(m) ==
  /\ ~row[m].rerun
  /\ row[m].status = "absent" => row[m].attempts = 0
  /\ IsFiniteSet(Unsent(m))
  /\ sent[m] + Cardinality(Unsent(m)) <= row[m].attempts

MessageHolds(m) ==
  /\ row[m].status = "succeeded" => message[m] = "delivered"
  /\ message[m] = "delivered" => sent[m] > 0

BoxHolds ==
  /\ BoxTypeOK
  /\ \A s \in Slots : StageHolds(s)
  /\ \A m \in Jobs : AttemptsHold(m) /\ MessageHolds(m)

BoxInv == IInv /\ BoxHolds

-----------------------------------------------------------------------------
(* What the steps of the queue do to rows and slots                        *)

\* Row m goes on: nobody asked for a rerun, its attempts do not go back, and it
\* succeeds only with its message delivered.
RowGoes(m) ==
  /\ ~row'[m].rerun
  /\ row'[m].attempts >= row[m].attempts
  /\ row'[m].status = "absent" <=> row[m].status = "absent"
  /\ row[m].status = "absent" => row'[m].attempts = row[m].attempts
  /\ row'[m].status = "succeeded" => row[m].status = "succeeded" \/ message[m] = "delivered"

\* A handler that runs ran before, with the same job; a result that is to be
\* settled was there before.
SlotGoes(s) ==
  /\ slot'[s].pc = "handling" => Handling(s) /\ slot'[s].job = slot[s].job
  /\ slot'[s].pc = "settling" => slot'[s] = slot[s]

\* What the rows and slots are before a step.
LEMMA RowsAndSlots ==
  ASSUME BoxInv
  PROVE  /\ row \in [Jobs -> Row] /\ \A m \in Jobs : row[m].attempts \in Nat /\ ~row[m].rerun
         /\ slot \in [Slots -> SlotState] /\ \A s \in Slots : GoodSlot(slot[s])
         /\ holder \in [Jobs -> Slots \cup {None}]
BY DEF BoxInv, BoxHolds, AttemptsHold, IInv, RowInv, SlotInv, Row

\* Rows that stay go on.
LEMMA SameRowsGo ==
  ASSUME BoxInv, UNCHANGED row
  PROVE  \A m \in Jobs : RowGoes(m)
BY RowsAndSlots DEF RowGoes

\* So does one that is replaced.
LEMMA OneRowGoes ==
  ASSUME BoxInv, NEW j \in Jobs, \A m \in Jobs \ {j} : row'[m] = row[m],
         ~row'[j].rerun, row'[j].attempts >= row[j].attempts,
         row'[j].status # "absent", row[j].status # "absent",
         row'[j].status = "succeeded" => message[j] = "delivered"
  PROVE  \A m \in Jobs : RowGoes(m)
BY RowsAndSlots DEF RowGoes

\* A claim uses up one attempt.
LEMMA ClaimedRowGoes ==
  ASSUME BoxInv, NEW s \in Slots, NEW j \in Jobs, TakeClaim(s, j)
  PROVE  /\ \A m \in Jobs : RowGoes(m)
         /\ row'[j].attempts = row[j].attempts + 1
<1>1. row[j] \in Row /\ ~row[j].rerun /\ row[j].attempts \in Nat
  BY RowsAndSlots
<1>2. row' = [row EXCEPT ![j] = Claimed(row[j], s)] /\ row[j].status \in {"pending", "running"}
  BY DEF TakeClaim, Candidate
<1>3. /\ Claimed(row[j], s).attempts = row[j].attempts + 1
      /\ Claimed(row[j], s).status = "running" /\ ~Claimed(row[j], s).rerun
  BY <1>1 DEF Claimed, Row
<1>4. row'[j] = Claimed(row[j], s) /\ \A m \in Jobs \ {j} : row'[m] = row[m]
  BY <1>2, RowsAndSlots
<1>5. \A m \in Jobs : RowGoes(m)
  BY <1>1, <1>2, <1>3, <1>4, OneRowGoes
<1> QED
  BY <1>3, <1>4, <1>5

\* A row is failed when its last attempt was abandoned.
LEMMA AbandonedRowGoes ==
  ASSUME BoxInv, NEW j \in Jobs, FailExpired(j)
  PROVE  \A m \in Jobs : RowGoes(m)
<1>1. row[j] \in Row /\ ~row[j].rerun /\ row[j].attempts \in Nat
  BY RowsAndSlots
<1>2. row' = [row EXCEPT ![j] = Finished(row[j], "failed")] /\ row[j].status = "running"
  BY DEF FailExpired, ExpiredFinalAttempt
<1>3. /\ Finished(row[j], "failed").attempts = row[j].attempts
      /\ Finished(row[j], "failed").status = "failed" /\ ~Finished(row[j], "failed").rerun
  BY <1>1 DEF Finished, Row
<1>4. row'[j] = Finished(row[j], "failed") /\ \A m \in Jobs \ {j} : row'[m] = row[m]
  BY <1>2, RowsAndSlots
<1> QED
  BY <1>1, <1>2, <1>3, <1>4, OneRowGoes

\* A completion of a delivered message.
LEMMA CompletedRowGoes ==
  ASSUME BoxInv, NEW s \in Slots, NEW j \in Jobs, Complete(s, j), message[j] = "delivered"
  PROVE  \A m \in Jobs : RowGoes(m)
<1>1. row[j] \in Row /\ ~row[j].rerun /\ row[j].attempts \in Nat
  BY RowsAndSlots
<1>2. CASE Owns(s, j)
  <2>1. row' = [row EXCEPT ![j] = Finished(row[j], "succeeded")] /\ row[j].status = "running"
    BY <1>1, <1>2 DEF Complete, AfterCompletion, Owns
  <2>2. /\ Finished(row[j], "succeeded").attempts = row[j].attempts
        /\ Finished(row[j], "succeeded").status = "succeeded"
        /\ ~Finished(row[j], "succeeded").rerun
    BY <1>1 DEF Finished, Row
  <2>3. row'[j] = Finished(row[j], "succeeded") /\ \A m \in Jobs \ {j} : row'[m] = row[m]
    BY <2>1, RowsAndSlots
  <2>4. QED
    BY <1>1, <2>1, <2>2, <2>3, OneRowGoes
<1>3. CASE ~Owns(s, j)
  BY <1>3, SameRowsGo DEF Complete
<1> QED
  BY <1>2, <1>3

\* A failure that is settled.
LEMMA FailedRowGoes ==
  ASSUME BoxInv, NEW s \in Slots, NEW j \in Jobs, NEW retryable \in BOOLEAN,
         SettleFailure(s, j, retryable)
  PROVE  \A m \in Jobs : RowGoes(m)
<1>1. row[j] \in Row /\ ~row[j].rerun /\ row[j].attempts \in Nat
  BY RowsAndSlots
<1>2. CASE Owns(s, j)
  <2>1. PICK r \in {Finished(row[j], "failed"), Retried(row[j])} :
          row' = [row EXCEPT ![j] = r] /\ row[j].status = "running"
    BY <1>1, <1>2 DEF SettleFailure, AfterFailure, Owns
  <2>2. r.attempts = row[j].attempts /\ r.status \in {"failed", "pending"} /\ ~r.rerun
    BY <1>1 DEF Finished, Retried, Row
  <2>3. row'[j] = r /\ \A m \in Jobs \ {j} : row'[m] = row[m]
    BY <2>1, RowsAndSlots
  <2>4. QED
    BY <1>1, <2>1, <2>2, <2>3, OneRowGoes
<1>3. CASE ~Owns(s, j)
  BY <1>3, SameRowsGo DEF SettleFailure
<1> QED
  BY <1>2, <1>3

\* A lease or a due date that changes.
LEMMA TimedRowGoes ==
  ASSUME BoxInv, NEW j \in Jobs, NEW b \in BOOLEAN, row[j].status \in {"pending", "running"},
         \/ row' = [row EXCEPT ![j].expired = b]
         \/ row' = [row EXCEPT ![j].due = b]
  PROVE  \A m \in Jobs : RowGoes(m)
<1>1. row[j] \in Row /\ ~row[j].rerun /\ row[j].attempts \in Nat
  BY RowsAndSlots
<1>2. PICK r \in {[row[j] EXCEPT !.expired = b], [row[j] EXCEPT !.due = b]} :
        row' = [row EXCEPT ![j] = r]
  BY RowsAndSlots
<1>3. r.attempts = row[j].attempts /\ r.status = row[j].status /\ ~r.rerun
  BY <1>1 DEF Row
<1>4. row'[j] = r /\ \A m \in Jobs \ {j} : row'[m] = row[m]
  BY <1>2, RowsAndSlots
<1> QED
  BY <1>1, <1>3, <1>4, OneRowGoes

\* Slots that stay, or of which some are free now, go on.
LEMMA SlotsGo ==
  ASSUME BoxInv, \A s \in Slots : slot'[s] = slot[s] \/ slot'[s] \in {Idle, Stopped}
  PROVE  \A s \in Slots : SlotGoes(s)
BY DEF SlotGoes, Handling, Idle, Stopped

\* So does one that goes on with its job.
LEMMA OneSlotGoes ==
  ASSUME BoxInv, NEW s \in Slots, NEW v, slot' = [slot EXCEPT ![s] = v],
         \/ v \in {Idle, Stopped} \/ v.pc = "recovering"
         \/ v.pc = "handling" /\ Handling(s) /\ v.job = slot[s].job
  PROVE  \A t \in Slots : SlotGoes(t)
<1>1. slot'[s] = v /\ \A t \in Slots \ {s} : slot'[t] = slot[t]
  BY RowsAndSlots
<1> QED
  BY <1>1 DEF SlotGoes, Handling, Idle, Stopped

\* Slot s claims message m: a handler starts, for an attempt of its own.
Starts(s, m) ==
  /\ slot[s].pc = "polling"
  /\ slot'[s].pc = "handling" /\ slot'[s].job = m
  /\ \A t \in Slots \ {s} : slot'[t] = slot[t]
  /\ row'[m].attempts = row[m].attempts + 1

\* What a step of the queue does to a message's row and to the slots.
QueueGoes ==
  /\ \A m \in Jobs : RowGoes(m)
  /\ \/ \A s \in Slots : SlotGoes(s)
     \/ \E s \in Slots, m \in Jobs : Starts(s, m)

\* When the loop of a slot ends, slots go on.
LEMMA SlotFailsGoes ==
  ASSUME BoxInv, NEW s \in Slots, SlotFails(s)
  PROVE  \A t \in Slots : SlotGoes(t)
<1>1. slot' = [slot EXCEPT ![s] = Stopped]
  BY DEF SlotFails
<1> QED
  BY <1>1, OneSlotGoes

\* Time lets rows and slots go on.
LEMMA TimeGoes ==
  ASSUME BoxInv, NEW m \in Jobs, Time(m)
  PROVE  QueueGoes
<1>1. UNCHANGED slot
  BY DEF Time, LeaseExpires, BecomesDue
<1>2. /\ row[m].status \in {"pending", "running"}
      /\ \/ row' = [row EXCEPT ![m].expired = TRUE]
         \/ row' = [row EXCEPT ![m].due = TRUE]
  BY DEF Time, LeaseExpires, BecomesDue
<1>3. \A k \in Jobs : RowGoes(k)
  BY <1>2, TimedRowGoes
<1> QED
  BY <1>1, <1>3, SlotsGo DEF QueueGoes

\* So do processes that start, stop and crash.
LEMMA ProcessGoes ==
  ASSUME BoxInv, NEW p \in Procs, Process(p)
  PROVE  QueueGoes
<1>1. UNCHANGED row
  BY DEF Process, StartProcess, StopProcess, CrashProcess
<1>2. \A s \in Slots : slot'[s] = slot[s] \/ slot'[s] \in {Idle, Stopped}
  BY DEF Process, StartProcess, StopProcess, CrashProcess
<1> QED
  BY <1>1, <1>2, SameRowsGo, SlotsGo DEF QueueGoes

\* A poll starts a handler, or lets rows and slots go on.
LEMMA PollGoes ==
  ASSUME BoxInv, NEW s \in Slots, Poll(s)
  PROVE  QueueGoes
<1>1. ASSUME NEW m \in Jobs, ClaimNext(s, m) PROVE QueueGoes
  <2>1. /\ Polling(s) /\ TakeClaim(s, m)
        /\ slot' = [slot EXCEPT ![s] = [Idle EXCEPT !.pc = "handling", !.job = m]]
    BY <1>1 DEF ClaimNext
  <2>2. /\ slot'[s].pc = "handling" /\ slot'[s].job = m
        /\ \A t \in Slots \ {s} : slot'[t] = slot[t]
    BY <2>1, RowsAndSlots DEF Idle
  <2>3. (\A k \in Jobs : RowGoes(k)) /\ row'[m].attempts = row[m].attempts + 1
    BY <2>1, ClaimedRowGoes
  <2>4. QED
    BY <2>1, <2>2, <2>3 DEF QueueGoes, Starts, Polling
<1>2. ASSUME NEW m \in Jobs, ClaimNextFailsExpired(s, m) PROVE QueueGoes
  BY <1>2, AbandonedRowGoes, SlotsGo DEF ClaimNextFailsExpired, QueueGoes
<1>3. CASE ClaimNextThrows(s)
  <2>1. \A t \in Slots : SlotGoes(t)
    BY <1>3, SlotFailsGoes DEF ClaimNextThrows
  <2>2. \A m \in Jobs : RowGoes(m)
    <3>1. CASE UNCHANGED row
      BY <3>1, SameRowsGo
    <3>2. ASSUME NEW j \in Jobs, TakeClaim(s, j) PROVE \A m \in Jobs : RowGoes(m)
      BY <3>2, ClaimedRowGoes
    <3>3. ASSUME NEW j \in Jobs, FailExpired(j) PROVE \A m \in Jobs : RowGoes(m)
      BY <3>3, AbandonedRowGoes
    <3>4. QED
      BY <1>3, <3>1, <3>2, <3>3 DEF ClaimNextThrows
  <2>3. QED
    BY <2>1, <2>2 DEF QueueGoes
<1> QED
  BY <1>1, <1>2, <1>3 DEF Poll

\* The renewals and settlements of a slot let rows and slots go on; what it
\* settles as a success is a message that was delivered.
LEMMA RunGoes ==
  ASSUME BoxInv, NEW s \in Slots,
         \/ RenewLease(s) \/ RenewLeaseThrows(s)
         \/ SettlesSuccess(s) \/ CompleteThrows(s)
         \/ SettlesFailure(s) \/ SettleFailureThrows(s)
  PROVE  QueueGoes
<1> DEFINE j == slot[s].job
           RowsGo == \A m \in Jobs : RowGoes(m)
           AllGo == \A t \in Slots : SlotGoes(t)
<1>1. j \in Jobs
  BY RowsAndSlots DEF GoodSlot, Busy, RenewLease, RenewLeaseThrows, SettlesSuccess,
     CompleteThrows, SettlesFailure, SettleFailureThrows, Handling, Failing
<1>2. slot[s].pc = "settling" /\ slot[s].outcome = "ok" => message[j] = "delivered"
  BY DEF BoxInv, BoxHolds, StageHolds, Msg
<1>3. ASSUME RowsGo, AllGo PROVE QueueGoes
  BY <1>3 DEF QueueGoes
<1>4. ASSUME UNCHANGED row \/ (Owns(s, j) /\ row' = [row EXCEPT ![j].expired = FALSE]) PROVE RowsGo
  BY <1>1, <1>4, SameRowsGo, TimedRowGoes DEF Owns
<1>5. ASSUME Handling(s), slot' = [slot EXCEPT ![s].lost = TRUE] PROVE AllGo
  <2>1. slot[s] \in SlotState
    BY RowsAndSlots
  <2>2. slot' = [slot EXCEPT ![s] = [slot[s] EXCEPT !.lost = TRUE]]
    BY <1>5, RowsAndSlots
  <2>3. /\ [slot[s] EXCEPT !.lost = TRUE].pc = "handling"
        /\ [slot[s] EXCEPT !.lost = TRUE].job = slot[s].job
    BY <1>5, <2>1 DEF SlotState, Handling
  <2>4. QED
    BY <1>5, <2>2, <2>3, OneSlotGoes
<1>6. CASE RenewLease(s)
  <2>1. RowsGo
    BY <1>4, <1>6 DEF RenewLease
  <2>2. UNCHANGED slot \/ slot' = [slot EXCEPT ![s].lost = TRUE]
    BY <1>6 DEF RenewLease
  <2>3. AllGo
    BY <1>5, <1>6, <2>2, SlotsGo DEF RenewLease
  <2>4. QED
    BY <1>3, <2>1, <2>3
<1>7. CASE RenewLeaseThrows(s)
  <2>1. RowsGo
    BY <1>4, <1>7 DEF RenewLeaseThrows
  <2>2. AllGo
    BY <1>5, <1>7 DEF RenewLeaseThrows
  <2>3. QED
    BY <1>3, <2>1, <2>2
<1>8. CASE SettlesSuccess(s)
  <2>1. RowsGo
    BY <1>1, <1>2, <1>8, CompletedRowGoes DEF SettlesSuccess
  <2>2. AllGo
    BY <1>8, OneSlotGoes DEF SettlesSuccess, Onward
  <2>3. QED
    BY <1>3, <2>1, <2>2
<1>9. CASE CompleteThrows(s)
  <2>1. RowsGo
    BY <1>1, <1>2, <1>9, CompletedRowGoes, SameRowsGo DEF CompleteThrows
  <2>2. slot' = [slot EXCEPT ![s] = [slot[s] EXCEPT !.pc = "recovering", !.outcome = "transient"]]
    BY <1>9, RowsAndSlots DEF CompleteThrows
  <2>3. [slot[s] EXCEPT !.pc = "recovering", !.outcome = "transient"].pc = "recovering"
    BY RowsAndSlots DEF SlotState
  <2>4. AllGo
    BY <2>2, <2>3, OneSlotGoes
  <2>5. QED
    BY <1>3, <2>1, <2>4
<1>10. CASE SettlesFailure(s)
  <2>1. RowsGo
    BY <1>1, <1>10, FailedRowGoes DEF SettlesFailure, Retryable
  <2>2. AllGo
    BY <1>10, OneSlotGoes DEF SettlesFailure, Onward
  <2>3. QED
    BY <1>3, <2>1, <2>2
<1>11. CASE SettleFailureThrows(s)
  <2>1. RowsGo
    BY <1>1, <1>11, FailedRowGoes, SameRowsGo DEF SettleFailureThrows, Retryable
  <2>2. AllGo
    BY <1>11, SlotFailsGoes DEF SettleFailureThrows
  <2>3. QED
    BY <1>3, <2>1, <2>2
<1> QED
  BY <1>6, <1>7, <1>8, <1>9, <1>10, <1>11

\* So does every step of the queue that starts no handler.
LEMMA QueueStepGoes ==
  ASSUME BoxInv, QueueStep
  PROVE  QueueGoes
BY TimeGoes, ProcessGoes, PollGoes, RunGoes DEF QueueStep

-----------------------------------------------------------------------------
(* Handlers follow the queue                                               *)

\* What the handlers that have yet to send are, before a step.
LEMMA CountsAre ==
  ASSUME BoxInv, NEW m \in Jobs
  PROVE  /\ ~row[m].rerun /\ row[m].attempts \in Nat /\ sent[m] \in Nat
         /\ IsFiniteSet(Unsent(m)) /\ Cardinality(Unsent(m)) \in Nat
         /\ sent[m] + Cardinality(Unsent(m)) <= row[m].attempts
         /\ row[m].status = "absent" => row[m].attempts = 0
<1>1. /\ ~row[m].rerun /\ IsFiniteSet(Unsent(m))
      /\ row[m].status = "absent" => row[m].attempts = 0
      /\ sent[m] + Cardinality(Unsent(m)) <= row[m].attempts
      /\ sent[m] \in Nat
  BY DEF BoxInv, BoxHolds, BoxTypeOK, AttemptsHold
<1>2. Cardinality(Unsent(m)) \in Nat
  BY <1>1, FS_CardinalityType
<1> QED
  BY <1>1, <1>2, RowsAndSlots

\* The count holds when no more handlers have yet to send.
LEMMA CountShrinks ==
  ASSUME BoxInv, NEW m \in Jobs, Unsent(m)' \subseteq Unsent(m), sent'[m] = sent[m],
         RowGoes(m), row'[m].attempts \in Nat
  PROVE  AttemptsHold(m)'
<1>1. IsFiniteSet(Unsent(m)') /\ Cardinality(Unsent(m)') <= Cardinality(Unsent(m))
  BY CountsAre, FS_Subset
<1>2. Cardinality(Unsent(m)') \in Nat
  BY <1>1, FS_CardinalityType
<1>3. sent'[m] + Cardinality(Unsent(m)') <= row'[m].attempts
  BY <1>1, <1>2, CountsAre DEF RowGoes
<1> QED
  BY <1>1, <1>3, CountsAre DEF RowGoes, AttemptsHold

\* One more element is one more at most.
LEMMA OneMore ==
  ASSUME NEW S, IsFiniteSet(S), NEW x
  PROVE  /\ IsFiniteSet(S \cup {x})
         /\ Cardinality(S \cup {x}) \in Nat
         /\ Cardinality(S \cup {x}) <= Cardinality(S) + 1
<1>1. Cardinality(S) \in Nat
  BY FS_CardinalityType
<1>2. /\ IsFiniteSet(S \cup {x})
      /\ Cardinality(S \cup {x}) = Cardinality(S) \/ Cardinality(S \cup {x}) = Cardinality(S) + 1
  BY FS_AddElement
<1> QED
  BY <1>1, <1>2

\* It holds when one handler starts, for an attempt of its own.
LEMMA CountGrows ==
  ASSUME BoxInv, NEW m \in Jobs, NEW s \in Slots, Unsent(m)' \subseteq Unsent(m) \cup {s},
         UNCHANGED sent, row'[m].attempts = row[m].attempts + 1, RowGoes(m)
  PROVE  AttemptsHold(m)'
<1> DEFINE more == Unsent(m) \cup {s}
<1>1. IsFiniteSet(more) /\ Cardinality(more) \in Nat /\ Cardinality(more) <= Cardinality(Unsent(m)) + 1
  BY CountsAre, OneMore
<1> HIDE DEF more
<1>2. Unsent(m)' \subseteq more
  BY DEF more
<1>3. IsFiniteSet(Unsent(m)') /\ Cardinality(Unsent(m)') <= Cardinality(more)
  BY <1>1, <1>2, FS_Subset
<1>4. Cardinality(Unsent(m)') \in Nat
  BY <1>3, FS_CardinalityType
<1>5. sent'[m] + Cardinality(Unsent(m)') <= row'[m].attempts
  BY <1>1, <1>3, <1>4, CountsAre
<1>6. row'[m].status # "absent" /\ ~row'[m].rerun
  BY CountsAre DEF RowGoes
<1> QED
  BY <1>3, <1>5, <1>6 DEF AttemptsHold

\* A claim starts a handler at its first stage, a crash ends it wherever it
\* was; the other handlers stay where they are.
LEMMA FollowHolds ==
  ASSUME BoxInv, QueueGoes, HandlersFollow, IInv'
  PROVE  BoxHolds'
<1>1. /\ message \in [Jobs -> MessageStatus] /\ stage \in [Slots -> Stage]
      /\ cause \in [Slots -> Outcome] /\ sent \in [Jobs -> Nat]
      /\ \A s \in Slots : StageHolds(s)
      /\ \A m \in Jobs : MessageHolds(m) /\ (message[m] = "absent" <=> row[m].status = "absent")
  BY DEF BoxInv, BoxHolds, BoxTypeOK
<1>2. /\ UNCHANGED <<message, sent>>
      /\ stage' = [s \in Slots |-> IF slot'[s].pc # "handling" THEN "none"
                                   ELSE IF Handling(s) THEN stage[s] ELSE "reading"]
      /\ cause' = [s \in Slots |-> IF slot'[s].pc = "handling" THEN cause[s] ELSE "none"]
  BY DEF HandlersFollow
<1>3. ASSUME NEW s \in Slots
      PROVE  /\ slot'[s].pc # "handling" => stage'[s] = "none" /\ cause'[s] = "none"
             /\ slot'[s].pc = "handling" => cause'[s] = cause[s]
             /\ slot'[s].pc = "handling" /\ Handling(s) => stage'[s] = stage[s]
             /\ slot'[s].pc = "handling" /\ ~Handling(s) => stage'[s] = "reading"
  BY <1>2
<1>4. stage' \in [Slots -> Stage] /\ cause' \in [Slots -> Outcome]
  <2>1. \A s \in Slots : stage'[s] \in Stage /\ cause'[s] \in Outcome
    BY <1>1, <1>2, <1>3 DEF Stage, Outcome
  <2>2. QED
    BY <1>2, <2>1
<1>5. BoxTypeOK'
  BY <1>1, <1>2, <1>4 DEF BoxTypeOK, QueueGoes, RowGoes
<1>6. \A s \in Slots : SlotGoes(s) \/ \E m \in Jobs : Starts(s, m)
  BY DEF QueueGoes, Starts, SlotGoes, Handling
<1>7. ASSUME NEW s \in Slots PROVE StageHolds(s)'
  <2>1. CASE SlotGoes(s)
    BY <1>1, <1>2, <1>3, <2>1 DEF SlotGoes, StageHolds, Handling, Msg
  <2>2. ASSUME NEW m \in Jobs, Starts(s, m) PROVE StageHolds(s)'
    <3>1. slot[s].pc = "polling" /\ slot'[s].pc = "handling" /\ slot'[s].job = m
      BY <2>2 DEF Starts
    <3>2. row[m].status # "absent"
      BY <2>2, CountsAre DEF Starts, QueueGoes, RowGoes
    <3>3. message'[slot'[s].job] # "absent"
      BY <1>1, <1>2, <3>1, <3>2
    <3>4. QED
      BY <1>3, <3>1, <3>3 DEF StageHolds, Handling, Msg
  <2>3. QED
    BY <1>6, <2>1, <2>2
<1>8. ASSUME NEW m \in Jobs PROVE MessageHolds(m)'
  BY <1>1, <1>2 DEF QueueGoes, RowGoes, MessageHolds
<1>9. \A m \in Jobs : row'[m].attempts \in Nat
  BY DEF IInv, RowInv, Row
<1>10. ASSUME NEW m \in Jobs PROVE AttemptsHold(m)'
  <2>1. ASSUME NEW s \in Slots, s \in Unsent(m)', SlotGoes(s)
        PROVE  s \in Unsent(m)
    BY <1>3, <2>1 DEF Unsent, SlotGoes
  <2>2. CASE \A s \in Slots : SlotGoes(s)
    <3>1. Unsent(m)' \subseteq Unsent(m)
      BY <2>1, <2>2 DEF Unsent
    <3>2. QED
      BY <1>2, <1>9, <3>1, CountShrinks DEF QueueGoes
  <2>3. ASSUME NEW s \in Slots, NEW k \in Jobs, Starts(s, k)
        PROVE  AttemptsHold(m)'
    <3>1. \A t \in Slots \ {s} : SlotGoes(t)
      BY <2>3 DEF Starts, SlotGoes, Handling
    <3>2. Unsent(m)' \subseteq Unsent(m) \cup {s}
      BY <2>1, <3>1 DEF Unsent
    <3>3. CASE m = k
      <4>1. row'[m].attempts = row[m].attempts + 1 /\ RowGoes(m)
        BY <2>3, <3>3 DEF Starts, QueueGoes
      <4>2. QED
        BY <1>2, <3>2, <4>1, CountGrows
    <3>4. CASE m # k
      <4>1. s \notin Unsent(m)'
        BY <2>3, <3>4 DEF Starts, Unsent
      <4>2. Unsent(m)' \subseteq Unsent(m)
        BY <3>2, <4>1
      <4>3. QED
        BY <1>2, <1>9, <4>2, CountShrinks DEF QueueGoes
    <3>5. QED
      BY <3>3, <3>4
  <2>4. QED
    BY <2>2, <2>3 DEF QueueGoes
<1> QED
  BY <1>5, <1>7, <1>8, <1>10 DEF BoxHolds

-----------------------------------------------------------------------------
(* Messages that are stored and dispatched                                 *)

\* A new message has a new job, and nobody handles it.
LEMMA EnqueueHolds ==
  ASSUME BoxInv, NEW m \in Jobs, EnqueueOutboxMessage(m), IInv'
  PROVE  BoxHolds'
<1>1. /\ message[m] = "absent" /\ row[m].status = "absent"
      /\ row' = [row EXCEPT ![m] = NewRow] /\ message' = [message EXCEPT ![m] = "pending"]
      /\ UNCHANGED <<slot, stage, cause, sent>>
  BY DEF EnqueueOutboxMessage, EnqueueJob, Asked
<1>2. NewRow.status = "pending" /\ NewRow.attempts = 0 /\ ~NewRow.rerun
  BY DEF NewRow, NoRow
<1>3. /\ message \in [Jobs -> MessageStatus] /\ stage \in [Slots -> Stage]
      /\ cause \in [Slots -> Outcome] /\ sent \in [Jobs -> Nat]
      /\ \A s \in Slots : StageHolds(s)
      /\ \A k \in Jobs : MessageHolds(k) /\ (message[k] = "absent" <=> row[k].status = "absent")
  BY DEF BoxInv, BoxHolds, BoxTypeOK
<1>4. /\ row'[m].status = "pending" /\ row'[m].attempts = 0 /\ ~row'[m].rerun
      /\ \A k \in Jobs \ {m} : row'[k] = row[k]
      /\ message'[m] = "pending" /\ \A k \in Jobs \ {m} : message'[k] = message[k]
      /\ message' \in [Jobs -> MessageStatus]
  BY <1>1, <1>2, <1>3, RowsAndSlots DEF MessageStatus
<1>5. BoxTypeOK'
  BY <1>1, <1>3, <1>4 DEF BoxTypeOK
<1>6. \A s \in Slots : StageHolds(s)'
  <2>1. ASSUME NEW s \in Slots
        PROVE  /\ message[Msg(s)] = "delivered" => message'[Msg(s)] = "delivered"
               /\ message[Msg(s)] # "absent" => message'[Msg(s)] # "absent"
    BY <1>1, <1>3, <2>1
  <2>2. QED
    BY <1>1, <1>3, <2>1 DEF StageHolds, Handling, Msg
<1>7. \A k \in Jobs : MessageHolds(k)'
  BY <1>1, <1>3, <1>4 DEF MessageHolds
<1>8. ASSUME NEW k \in Jobs PROVE AttemptsHold(k)'
  <2>1. Unsent(k)' = Unsent(k)
    BY <1>1 DEF Unsent
  <2>2. CASE k # m
    BY <1>1, <1>4, <2>1, <2>2 DEF BoxInv, BoxHolds, AttemptsHold
  <2>3. CASE k = m
    BY <1>1, <1>4, <2>1, <2>3, CountsAre DEF AttemptsHold
  <2>4. QED
    BY <2>2, <2>3
<1> QED
  BY <1>5, <1>6, <1>7, <1>8 DEF BoxHolds

-----------------------------------------------------------------------------
(* The steps of a handler                                                  *)

\* The handler of s keeps the rows and what the other slots do; of s it keeps
\* the job as long as it runs or settles, and it sends no second time.
HandlerMoves(s) ==
  /\ UNCHANGED row
  /\ \A t \in Slots \ {s} : slot'[t] = slot[t] /\ stage'[t] = stage[t] /\ cause'[t] = cause[t]
  /\ stage'[s] \in {"reading", "sending"} =>
       stage[s] \in {"reading", "sending"} /\ slot'[s].job = slot[s].job

\* Message m is left as it is, delivered after it was sent, or failed unless it
\* was delivered.
MessageMoves(m) ==
  \/ UNCHANGED message
  \/ message' = [message EXCEPT ![m] = "delivered"] /\ sent[m] > 0
  \/ message' = [message EXCEPT ![m] = "failed"] /\ message[m] # "delivered"

\* The side effect of the message of s does not happen, or happens once as its
\* handler goes on from there.
SentMoves(s) ==
  \/ UNCHANGED sent
  \/ /\ sent' = [sent EXCEPT ![Msg(s)] = sent[Msg(s)] + 1]
     /\ stage[s] = "sending" /\ stage'[s] \notin {"reading", "sending"}

\* A message that moves is there after the step if it was before, stays
\* delivered, and becomes delivered only when it was sent.
LEMMA MessageMovesOn ==
  ASSUME BoxInv, NEW m \in Jobs, message[m] # "absent", MessageMoves(m)
  PROVE  /\ message' \in [Jobs -> MessageStatus]
         /\ \A k \in Jobs :
              /\ message'[k] = "absent" <=> message[k] = "absent"
              /\ message[k] = "delivered" => message'[k] = "delivered"
              /\ message'[k] = "delivered" => message[k] = "delivered" \/ sent[k] > 0
<1>1. message \in [Jobs -> MessageStatus]
  BY DEF BoxInv, BoxHolds, BoxTypeOK
<1>2. CASE UNCHANGED message
  BY <1>1, <1>2
<1>3. CASE message' = [message EXCEPT ![m] = "delivered"] /\ sent[m] > 0
  BY <1>1, <1>3 DEF MessageStatus
<1>4. CASE message' = [message EXCEPT ![m] = "failed"] /\ message[m] # "delivered"
  BY <1>1, <1>4 DEF MessageStatus
<1> QED
  BY <1>2, <1>3, <1>4 DEF MessageMoves

\* One element less is one less.
LEMMA OneLess ==
  ASSUME NEW S, IsFiniteSet(S), NEW x \in S
  PROVE  IsFiniteSet(S \ {x}) /\ Cardinality(S \ {x}) = Cardinality(S) - 1
BY FS_RemoveElement

\* The count holds when a handler has sent.
LEMMA CountPasses ==
  ASSUME BoxInv, NEW m \in Jobs, NEW s \in Slots, s \in Unsent(m),
         Unsent(m)' \subseteq Unsent(m) \ {s}, sent'[m] = sent[m] + 1, UNCHANGED row
  PROVE  AttemptsHold(m)'
<1> DEFINE rest == Unsent(m) \ {s}
<1>1. IsFiniteSet(rest) /\ Cardinality(rest) = Cardinality(Unsent(m)) - 1
  BY CountsAre, OneLess
<1> HIDE DEF rest
<1>2. Unsent(m)' \subseteq rest
  BY DEF rest
<1>3. IsFiniteSet(Unsent(m)') /\ Cardinality(Unsent(m)') <= Cardinality(rest)
  BY <1>1, <1>2, FS_Subset
<1>4. Cardinality(Unsent(m)') \in Nat
  BY <1>3, FS_CardinalityType
<1>5. sent'[m] + Cardinality(Unsent(m)') <= row'[m].attempts
  BY <1>1, <1>3, <1>4, CountsAre
<1> QED
  BY <1>3, <1>5, CountsAre DEF AttemptsHold

\* No message is sent more often than its job has attempts, whatever the
\* handlers do.
LEMMA HandlerCounts ==
  ASSUME BoxInv, NEW s \in Slots, Handling(s), HandlerMoves(s), SentMoves(s)
  PROVE  sent' \in [Jobs -> Nat] /\ \A m \in Jobs : AttemptsHold(m)' /\ sent'[m] >= sent[m]
<1>1. PICK m \in Jobs : m = Msg(s)
  BY RowsAndSlots DEF GoodSlot, Busy, Handling, Msg
<1>2. sent \in [Jobs -> Nat]
  BY DEF BoxInv, BoxHolds, BoxTypeOK
<1>3. \A k \in Jobs : RowGoes(k) /\ row'[k].attempts \in Nat
  BY RowsAndSlots, SameRowsGo DEF HandlerMoves
<1>4. \A k \in Jobs : Unsent(k)' \subseteq Unsent(k)
  BY DEF HandlerMoves, Unsent
<1>5. CASE UNCHANGED sent
  BY <1>2, <1>3, <1>4, <1>5, CountShrinks
<1>6. CASE /\ sent' = [sent EXCEPT ![m] = sent[m] + 1]
           /\ stage[s] = "sending" /\ stage'[s] \notin {"reading", "sending"}
  <2>1. /\ sent' \in [Jobs -> Nat] /\ sent'[m] = sent[m] + 1
        /\ \A k \in Jobs \ {m} : sent'[k] = sent[k]
    BY <1>2, <1>6
  <2>2. s \in Unsent(m) /\ s \notin Unsent(m)'
    BY <1>1, <1>6 DEF Unsent, Msg
  <2>3. \A k \in Jobs \ {m} : AttemptsHold(k)'
    BY <1>3, <1>4, <2>1, CountShrinks
  <2>4. AttemptsHold(m)'
    BY <1>4, <2>1, <2>2, CountPasses DEF HandlerMoves
  <2>5. QED
    BY <1>2, <2>1, <2>3, <2>4
<1> QED
  BY <1>1, <1>5, <1>6 DEF SentMoves

\* The invariant holds when the handler's own slot is in order.
LEMMA HandlerHolds ==
  ASSUME BoxInv, NEW s \in Slots, Handling(s), HandlerMoves(s), SentMoves(s),
         MessageMoves(Msg(s)), stage' \in [Slots -> Stage], cause' \in [Slots -> Outcome],
         StageHolds(s)'
  PROVE  BoxHolds'
<1>1. PICK m \in Jobs : m = Msg(s)
  BY RowsAndSlots DEF GoodSlot, Busy, Handling, Msg
<1>2. message[m] # "absent" /\ \A t \in Slots : StageHolds(t)
  BY <1>1 DEF BoxInv, BoxHolds, StageHolds
<1>3. /\ \A k \in Jobs : MessageHolds(k) /\ (message[k] = "absent" <=> row[k].status = "absent")
      /\ row' = row
  BY DEF BoxInv, BoxHolds, BoxTypeOK, HandlerMoves
<1>4. /\ message' \in [Jobs -> MessageStatus]
      /\ \A k \in Jobs :
           /\ message'[k] = "absent" <=> message[k] = "absent"
           /\ message[k] = "delivered" => message'[k] = "delivered"
           /\ message'[k] = "delivered" => message[k] = "delivered" \/ sent[k] > 0
  BY <1>1, <1>2, MessageMovesOn
<1>5. /\ sent' \in [Jobs -> Nat] /\ \A k \in Jobs : AttemptsHold(k)'
      /\ \A k \in Jobs : sent[k] \in Nat /\ sent'[k] \in Nat /\ sent'[k] >= sent[k]
  BY HandlerCounts, CountsAre
<1>6. BoxTypeOK'
  BY <1>3, <1>4, <1>5 DEF BoxTypeOK
<1>7. \A k \in Jobs : MessageHolds(k)'
  BY <1>3, <1>4, <1>5 DEF MessageHolds
<1>8. ASSUME NEW t \in Slots \ {s} PROVE StageHolds(t)'
  <2>1. slot'[t] = slot[t] /\ stage'[t] = stage[t] /\ cause'[t] = cause[t]
    BY DEF HandlerMoves
  <2>2. CASE slot[t].job \in Jobs
    BY <1>2, <1>4, <1>5, <2>1, <2>2 DEF StageHolds, Handling, Msg
  <2>3. CASE slot[t].job \notin Jobs
    <3>1. ~Handling(t) /\ slot[t].pc # "settling"
      BY <2>3, RowsAndSlots DEF GoodSlot, Busy, Handling
    <3>2. QED
      BY <1>2, <2>1, <3>1 DEF StageHolds, Handling
  <2>4. QED
    BY <2>2, <2>3
<1> QED
  BY <1>5, <1>6, <1>7, <1>8 DEF BoxHolds

\* A handler goes on to its next stage.
LEMMA AdvanceHolds ==
  ASSUME BoxInv, NEW s \in Slots, Handling(s), NEW to \in {"sending", "delivering", "failing"},
         Advances(s, to), NEW c \in Outcome, cause' = [cause EXCEPT ![s] = c],
         SentMoves(s), UNCHANGED message,
         to = "sending" => stage[s] = "reading",
         to = "delivering" => sent'[Msg(s)] > 0,
         to = "failing" => c \in {"transient", "permanent"}
  PROVE  BoxHolds'
<1>1. stage \in [Slots -> Stage] /\ cause \in [Slots -> Outcome] /\ message[Msg(s)] # "absent"
  BY DEF BoxInv, BoxHolds, BoxTypeOK, StageHolds
<1>2. stage' = [stage EXCEPT ![s] = to] /\ row' = row /\ slot' = slot
  BY DEF Advances, vars
<1>3. /\ stage' \in [Slots -> Stage] /\ stage'[s] = to
      /\ cause' \in [Slots -> Outcome] /\ cause'[s] = c
      /\ \A t \in Slots \ {s} : stage'[t] = stage[t] /\ cause'[t] = cause[t]
  BY <1>1, <1>2 DEF Stage
<1>4. HandlerMoves(s)
  BY <1>2, <1>3 DEF HandlerMoves
<1>5. StageHolds(s)'
  BY <1>1, <1>2, <1>3 DEF StageHolds, Handling, Msg
<1> QED
  BY <1>3, <1>4, <1>5, HandlerHolds DEF MessageMoves

\* A handler ends; it reports success only of a message that is delivered.
LEMMA ReturnHolds ==
  ASSUME BoxInv, NEW s \in Slots, Handling(s), NEW outcome \in Outcome, Returns(s, outcome),
         MessageMoves(Msg(s)), UNCHANGED sent,
         outcome = "ok" => message'[Msg(s)] = "delivered"
  PROVE  BoxHolds'
<1>1. stage \in [Slots -> Stage] /\ cause \in [Slots -> Outcome]
  BY DEF BoxInv, BoxHolds, BoxTypeOK
<1>2. /\ stage' = [stage EXCEPT ![s] = "none"] /\ cause' = [cause EXCEPT ![s] = "none"]
      /\ row' = row
      /\ slot' = [slot EXCEPT ![s] =
                    IF slot[s].lost THEN Onward(s)
                    ELSE [slot[s] EXCEPT !.pc = "settling", !.outcome = outcome]]
  BY DEF Returns, HandlerReturns
<1>3. /\ stage' \in [Slots -> Stage] /\ stage'[s] = "none"
      /\ cause' \in [Slots -> Outcome]
      /\ \A t \in Slots \ {s} : stage'[t] = stage[t] /\ cause'[t] = cause[t] /\ slot'[t] = slot[t]
  BY <1>1, <1>2, RowsAndSlots DEF Stage, Outcome
<1>4. HandlerMoves(s)
  BY <1>2, <1>3 DEF HandlerMoves
<1>5. CASE slot[s].lost
  <2>1. slot'[s] \in {Idle, Stopped}
    BY <1>2, <1>5, RowsAndSlots DEF Onward
  <2>2. slot'[s].pc \notin {"handling", "settling"}
    BY <2>1 DEF Idle, Stopped
  <2>3. StageHolds(s)'
    BY <1>3, <2>2 DEF StageHolds, Handling
  <2>4. QED
    BY <1>3, <1>4, <2>3, HandlerHolds DEF SentMoves
<1>6. CASE ~slot[s].lost
  <2>1. slot'[s] = [slot[s] EXCEPT !.pc = "settling", !.outcome = outcome]
    BY <1>2, <1>6, RowsAndSlots
  <2>2. slot'[s].pc = "settling" /\ slot'[s].outcome = outcome /\ slot'[s].job = slot[s].job
    BY <2>1, RowsAndSlots DEF SlotState
  <2>3. StageHolds(s)'
    BY <1>3, <2>2 DEF StageHolds, Handling, Msg
  <2>4. QED
    BY <1>3, <1>4, <2>3, HandlerHolds DEF SentMoves
<1> QED
  BY <1>5, <1>6

\* Whatever a handler does keeps the invariant.
LEMMA DispatchHolds ==
  ASSUME BoxInv, NEW s \in Slots, Dispatch(s)
  PROVE  BoxHolds'
<1>1. /\ StageHolds(s) /\ sent \in [Jobs -> Nat] /\ message \in [Jobs -> MessageStatus]
      /\ cause \in [Slots -> Outcome]
  BY DEF BoxInv, BoxHolds, BoxTypeOK
<1>2. Handling(s) /\ message[Msg(s)] # "absent"
  BY <1>1 DEF StageHolds, Dispatch, ReadMessage, TopicHandlerSucceeds, TopicHandlerThrows,
     RecordDelivered, RecordFailure, StoreThrows
<1>3. PICK m \in Jobs : m = Msg(s)
  BY <1>2, RowsAndSlots DEF GoodSlot, Busy, Handling, Msg
<1>4. cause' = cause => cause' = [cause EXCEPT ![s] = cause[s]] /\ cause[s] \in Outcome
  BY <1>1
<1>5. CASE ReadMessage(s)
  <2>1. stage[s] = "reading" /\ UNCHANGED <<message, sent>>
    BY <1>5 DEF ReadMessage
  <2>2. CASE AlreadyDelivered(Msg(s)) /\ Returns(s, "ok")
    BY <1>2, <2>1, <2>2, ReturnHolds DEF AlreadyDelivered, MessageMoves, Outcome
  <2>3. CASE cause' = [cause EXCEPT ![s] = "permanent"] /\ Advances(s, "failing")
    BY <1>2, <2>1, <2>3, AdvanceHolds DEF SentMoves, Outcome
  <2>4. CASE Advances(s, "sending") /\ UNCHANGED cause
    BY <1>2, <1>4, <2>1, <2>4, AdvanceHolds DEF SentMoves
  <2>5. QED
    BY <1>5, <2>2, <2>3, <2>4 DEF ReadMessage
<1>6. CASE TopicHandlerSucceeds(s)
  <2>1. /\ stage[s] = "sending" /\ Advances(s, "delivering") /\ UNCHANGED <<message, cause>>
        /\ sent' = [sent EXCEPT ![m] = sent[m] + 1]
    BY <1>3, <1>6 DEF TopicHandlerSucceeds
  <2>2. sent'[m] > 0
    BY <1>1, <2>1
  <2>3. stage'[s] = "delivering"
    BY <1>1, <2>1 DEF Advances, BoxInv, BoxHolds, BoxTypeOK
  <2>4. SentMoves(s)
    BY <1>3, <2>1, <2>3 DEF SentMoves
  <2>5. QED
    BY <1>2, <1>3, <1>4, <2>1, <2>2, <2>4, AdvanceHolds
<1>7. CASE TopicHandlerThrows(s)
  <2>1. /\ stage[s] = "sending" /\ Advances(s, "failing") /\ UNCHANGED message
        /\ \E c \in {"transient", "permanent"} : cause' = [cause EXCEPT ![s] = c]
        /\ \E n \in {0, 1} : sent' = [sent EXCEPT ![m] = sent[m] + n]
    BY <1>3, <1>7 DEF TopicHandlerThrows
  <2>2. PICK c \in {"transient", "permanent"} : cause' = [cause EXCEPT ![s] = c]
    BY <2>1
  <2>3. stage'[s] = "failing"
    BY <2>1 DEF Advances, BoxInv, BoxHolds, BoxTypeOK
  <2>4. sent' = sent \/ sent' = [sent EXCEPT ![m] = sent[m] + 1]
    <3>1. PICK n \in {0, 1} : sent' = [sent EXCEPT ![m] = sent[m] + n]
      BY <2>1
    <3>2. CASE n = 0
      <4>1. sent[m] + 0 = sent[m]
        BY <1>1
      <4>2. sent' = [sent EXCEPT ![m] = sent[m]]
        BY <3>1, <3>2, <4>1, Zenon
      <4>3. QED
        BY <1>1, <4>2
    <3>3. QED
      BY <3>1, <3>2
  <2>5. SentMoves(s)
    BY <1>3, <2>1, <2>3, <2>4 DEF SentMoves
  <2>6. QED
    BY <1>2, <2>1, <2>2, <2>5, AdvanceHolds DEF Outcome
<1>8. CASE RecordDelivered(s)
  <2>1. stage[s] = "delivering" /\ Delivered(m) /\ Returns(s, "ok") /\ UNCHANGED sent
    BY <1>3, <1>8 DEF RecordDelivered
  <2>2. MessageMoves(m) /\ message'[m] = "delivered"
    BY <1>1, <1>3, <2>1 DEF MessageMoves, Delivered, StageHolds
  <2>3. QED
    BY <1>2, <1>3, <2>1, <2>2, ReturnHolds DEF Outcome
<1>9. CASE RecordFailure(s)
  <2>1. stage[s] = "failing" /\ UNCHANGED sent /\ cause[s] \in {"transient", "permanent"}
    BY <1>1, <1>9 DEF RecordFailure, StageHolds
  <2>2. PICK outcome \in {"transient", "permanent"} : Returns(s, outcome)
    BY <1>9, <2>1 DEF RecordFailure
  <2>3. MessageMoves(m)
    BY <1>3, <1>9 DEF RecordFailure, MayFail, MessageMoves
  <2>4. QED
    BY <1>2, <1>3, <2>1, <2>2, <2>3, ReturnHolds DEF Outcome
<1>10. CASE StoreThrows(s)
  <2>1. Returns(s, "transient") /\ UNCHANGED sent
    BY <1>10 DEF StoreThrows
  <2>2. MessageMoves(m)
    BY <1>1, <1>3, <1>10 DEF StoreThrows, Delivered, MayFail, MessageMoves, StageHolds
  <2>3. QED
    BY <1>2, <1>3, <2>1, <2>2, ReturnHolds DEF Outcome
<1> QED
  BY <1>5, <1>6, <1>7, <1>8, <1>9, <1>10 DEF Dispatch

-----------------------------------------------------------------------------
(* The outbox runs on the queue                                            *)

\* Every step is a step of the queue below, or one that it does not see.
LEMMA BoxStepIsQueueStep ==
  ASSUME BoxInv, [BoxNext]_allVars
  PROVE  [Next]_vars
<1>1. CASE UNCHANGED allVars
  BY <1>1 DEF allVars
<1>2. CASE QueueStep
  BY <1>2 DEF QueueStep, Next, Run
<1>3. ASSUME NEW m \in Jobs, EnqueueOutboxMessage(m) PROVE Next
  BY <1>3 DEF EnqueueOutboxMessage, Next, Ask
<1>4. ASSUME NEW s \in Slots, Dispatch(s) PROVE [Next]_vars
  <2>1. ASSUME NEW o \in {"ok", "transient", "permanent"}, Returns(s, o) PROVE Next
    BY <2>1 DEF Returns, Next, Run
  <2>2. ASSUME NEW to, Advances(s, to) PROVE UNCHANGED vars
    BY <2>2 DEF Advances
  <2>3. stage[s] = "failing" => cause[s] \in {"transient", "permanent"}
    BY DEF BoxInv, BoxHolds, StageHolds
  <2>4. QED
    BY <1>4, <2>1, <2>2, <2>3 DEF Dispatch, ReadMessage, TopicHandlerSucceeds,
       TopicHandlerThrows, RecordDelivered, RecordFailure, StoreThrows
<1> QED
  BY <1>1, <1>2, <1>3, <1>4 DEF BoxNext

\* Nothing was stored, sent or claimed at first.
LEMMA InitBox == BoxInit => BoxInv
<1> SUFFICES ASSUME BoxInit PROVE BoxInv
  OBVIOUS
<1>1. /\ Init /\ message = [m \in Jobs |-> "absent"] /\ stage = [s \in Slots |-> "none"]
      /\ cause = [s \in Slots |-> "none"] /\ sent = [m \in Jobs |-> 0]
      /\ row = [m \in Jobs |-> NoRow] /\ slot = [s \in Slots |-> Off]
  BY DEF BoxInit, Init
<1>2. IInv
  BY <1>1, InitIInv
<1>3. NoRow.status = "absent" /\ NoRow.attempts = 0 /\ ~NoRow.rerun /\ Off.pc = "off"
  BY DEF NoRow, Off, Idle
<1>4. BoxTypeOK
  BY <1>1, <1>3 DEF BoxTypeOK, MessageStatus, Stage, Outcome
<1>5. \A s \in Slots : StageHolds(s)
  BY <1>1, <1>3 DEF StageHolds, Handling
<1>6. ASSUME NEW m \in Jobs PROVE AttemptsHold(m) /\ MessageHolds(m)
  <2>1. Unsent(m) = {}
    BY <1>1 DEF Unsent
  <2>2. IsFiniteSet(Unsent(m)) /\ Cardinality(Unsent(m)) = 0
    BY <2>1, FS_EmptySet
  <2>3. QED
    BY <1>1, <1>3, <2>2 DEF AttemptsHold, MessageHolds
<1> QED
  BY <1>2, <1>4, <1>5, <1>6 DEF BoxInv, BoxHolds

\* Every step keeps the invariant.
LEMMA StepKeepsBox == BoxInv /\ [BoxNext]_allVars => BoxInv'
<1> SUFFICES ASSUME BoxInv, [BoxNext]_allVars PROVE BoxInv'
  OBVIOUS
<1>1. IInv'
  BY BoxStepIsQueueStep, StepKeepsIInv DEF BoxInv
<1>2. CASE QueueStep /\ HandlersFollow
  BY <1>1, <1>2, QueueStepGoes, FollowHolds DEF BoxInv
<1>3. ASSUME NEW m \in Jobs, EnqueueOutboxMessage(m) PROVE BoxInv'
  BY <1>1, <1>3, EnqueueHolds DEF BoxInv
<1>4. ASSUME NEW s \in Slots, Dispatch(s) PROVE BoxInv'
  BY <1>1, <1>4, DispatchHolds DEF BoxInv
<1>5. CASE UNCHANGED allVars
  BY <1>1, <1>5 DEF allVars, vars, boxVars, BoxInv, BoxHolds, BoxTypeOK, StageHolds,
     AttemptsHold, MessageHolds, Unsent, Handling, Msg
<1> QED
  BY <1>2, <1>3, <1>4, <1>5 DEF BoxNext

\* The strengthening that the theorems below use.
THEOREM BoxInductive == BoxSpec => []BoxInv
BY InitBox, StepKeepsBox, PTL DEF BoxSpec

\* What BoxInv says contains the types and that a message and its job exist together.
THEOREM BoxTypeCorrect == BoxSpec => []BoxTypeOK
<1>1. BoxInv => BoxTypeOK
  BY DEF BoxInv, BoxHolds
<1> QED
  BY <1>1, BoxInductive, PTL

\* A job succeeded only with its message delivered, a message is delivered only
\* after it was sent, and never sent more often than its job used attempts.
THEOREM SucceededWasDelivered == BoxSpec => []SucceededIsDelivered
<1>1. ASSUME BoxInv PROVE SucceededIsDelivered
  <2>1. ASSUME NEW m \in Jobs PROVE sent[m] <= row[m].attempts
    BY <1>1, CountsAre
  <2>2. \A m \in Jobs : MessageHolds(m)
    BY <1>1 DEF BoxInv, BoxHolds
  <2>3. QED
    BY <2>1, <2>2 DEF SucceededIsDelivered, MessageHolds
<1> QED
  BY <1>1, BoxInductive, PTL

\* Below the outbox runs JobQueue: what is proved of its slots and rows holds
\* of the slots that dispatch messages and of their jobs.
THEOREM QueueUnderneath == BoxSpec => Spec
<1>1. BoxInit => Init
  BY DEF BoxInit
<1>2. BoxInv /\ [BoxNext]_allVars => [Next]_vars
  BY BoxStepIsQueueStep
<1> QED
  BY <1>1, <1>2, BoxInductive, PTL DEF BoxSpec, Spec
=============================================================================
