------------------------------ MODULE JobQueue ------------------------------
(***************************************************************************)
(* The durable job queue: table "jobs", the routines that enqueue, rearm,  *)
(* claim, renew and settle its rows (jobs/repository.ts), and the slots of *)
(* the worker processes that run claimed jobs (jobs/runner.ts).            *)
(*                                                                         *)
(* Every routine of the repository is one database transaction that locks  *)
(* the row it changes, so it is one action here; what a slot does between  *)
(* two transactions (run the handler, wait for a renewal) is interleaved   *)
(* with everything the other slots and the callers of enqueue do.          *)
(*                                                                         *)
(* Time is abstracted to the two comparisons the code makes with a clock:  *)
(* row.due is "run_at <= now" and row.expired is "locked_at <= now - lease"*)
(* They become true at any moment, for any lease and any backoff delay.    *)
(*                                                                         *)
(* The kinds of job differ in who may ask for them again:                  *)
(*   "entity"          enqueueActiveEntityJob: coalesced per entity        *)
(*   "once"            enqueueJob: outbox dispatches, e-mails, scan pages, *)
(*                     payout continuations                                *)
(*   "event"           enqueueJob, and rearmed after exhausting its        *)
(*                     attempts while its Stripe event is pending          *)
(*   "classification"  adopted by a replay and rearmed by a new graph      *)
(***************************************************************************)
EXTENDS Naturals, FiniteSets

CONSTANTS
  Jobs,          \* deduplication keys: a key names at most one row
  Entities,      \* what coalesced jobs are about (a source, a payout, ...)
  KindOf,        \* [Jobs -> Kinds]
  EntityOf,      \* [Jobs -> Entities]
  MaxAttempts,   \* [Jobs -> Nat \ {0}], column max_attempts
  Gated,         \* entities whose jobs the claim query may refuse
  Procs,         \* incarnations of the worker process, each with a fresh id
  SlotIds,       \* slots of one process
  MaxRequests,   \* BOUND: enqueue, adopt and rearm calls that change a row
  None           \* no job, no lease owner

Kinds == {"entity", "once", "event", "classification"}
Slots == Procs \X SlotIds

ASSUME KindAssumption == KindOf \in [Jobs -> Kinds]
ASSUME EntityAssumption == EntityOf \in [Jobs -> Entities]
ASSUME AttemptsAssumption == MaxAttempts \in [Jobs -> Nat \ {0}]
ASSUME GatedAssumption == Gated \subseteq Entities
ASSUME RequestsAssumption == MaxRequests \in Nat
ASSUME NoneAssumption == None \notin Jobs \cup Slots

(***************************************************************************)
(* Only coalesced jobs share an entity; any other job is alone in its own. *)
(***************************************************************************)
ASSUME AloneAssumption ==
  \A j, k \in Jobs : j # k /\ EntityOf[j] = EntityOf[k] => KindOf[j] = "entity"

VARIABLES
  row,       \* [Jobs -> Row]: the table
  slot,      \* [Slots -> Slot record]: where each slot of the loop stands
  proc,      \* [Procs -> ...]: the processes
  held,      \* entities whose jobs the claim query refuses now
  linked,    \* classification jobs that carry a replay's scanRunId
  requests,  \* BOUND counter for MaxRequests
  owed,      \* history: an attempt must still begin for what was asked of e
  holder     \* history: the slot that made the latest claim of a job

vars == <<row, slot, proc, held, linked, requests, owed, holder>>

Status == {"absent", "pending", "running", "succeeded", "failed"}
Row == [status : Status, attempts : Nat, owner : Slots \cup {None},
        expired : BOOLEAN, due : BOOLEAN, rerun : BOOLEAN]
Outcome == {"none", "ok", "transient", "permanent"}
PC == {"off", "polling", "handling", "settling", "recovering", "stopped"}
SlotState == [pc : PC, job : Jobs \cup {None}, outcome : Outcome, lost : BOOLEAN]

\* the check constraints of the table: jobs_running_has_lease and
\* jobs_rerun_requires_running
RowChecks(r) ==
  /\ (r.status = "running") <=> (r.owner # None)
  /\ r.rerun \/ r.expired => r.status = "running"

\* Every value has its type and every row passes the table's check constraints,
\* which the database would otherwise answer with an error.
TypeOK ==
  /\ row \in [Jobs -> Row]
  /\ \A j \in Jobs : RowChecks(row[j])
  /\ slot \in [Slots -> SlotState]
  /\ proc \in [Procs -> {"new", "up", "stopping", "dead"}]
  /\ held \subseteq Gated
  /\ linked \subseteq Jobs
  /\ requests \in 0..MaxRequests
  /\ owed \in [Entities -> BOOLEAN]
  /\ holder \in [Jobs -> Slots \cup {None}]

\* Mutants: an operator Name_fault, placed before Name, is Name with a
\* plausible fault; PROJECT.json says which property must notice it.

\* mutant: one lease owner for all the slots of a process
LeaseOwner_process(s) == <<s[1], CHOOSE i \in SlotIds : TRUE>>
\* runWorker gives each slot a name of its own, `workerId:slotId`
LeaseOwner(s) == s

NoRow == [status |-> "absent", attempts |-> 0, owner |-> None,
          expired |-> FALSE, due |-> FALSE, rerun |-> FALSE]
NewRow == [NoRow EXCEPT !.status = "pending", !.due = TRUE]
Idle == [pc |-> "polling", job |-> None, outcome |-> "none", lost |-> FALSE]
Off == [Idle EXCEPT !.pc = "off"]
Stopped == [Idle EXCEPT !.pc = "stopped"]

Active(j) == row[j].status \in {"pending", "running"}
Terminal(j) == row[j].status \in {"succeeded", "failed"}

Init ==
  /\ row = [j \in Jobs |-> NoRow]
  /\ slot = [s \in Slots |-> Off]
  /\ proc = [p \in Procs |-> "new"]
  /\ held \in SUBSET Gated
  /\ linked = {}
  /\ requests = 0
  /\ owed = [e \in Entities |-> FALSE]
  /\ holder = [j \in Jobs |-> None]

-----------------------------------------------------------------------------
(* Asking for work                                                         *)

\* attempts 0, due now, nothing owned: a row that starts over
Requeued(r) == [r EXCEPT !.status = "pending", !.attempts = 0, !.owner = None,
                         !.expired = FALSE, !.due = TRUE, !.rerun = FALSE]
MarkedForRerun(r) == [r EXCEPT !.rerun = TRUE]

Asked(j) ==
  /\ requests < MaxRequests
  /\ requests' = requests + 1
  /\ owed' = [owed EXCEPT ![EntityOf[j]] = TRUE]
  /\ UNCHANGED <<slot, proc, held, holder>>

\* mutant: a running job of the entity is overlooked
ActivePeers_pendingOnly(j) == {k \in Jobs : /\ KindOf[k] = KindOf[j]
                                            /\ EntityOf[k] = EntityOf[j]
                                            /\ row[k].status = "pending"}
\* the jobs enqueueActiveEntityJob coalesces j with
ActivePeers(j) == {k \in Jobs : /\ KindOf[k] = KindOf[j]
                                /\ EntityOf[k] = EntityOf[j]
                                /\ Active(k)}

(***************************************************************************)
(* A key that has a row is answered with that row and changes nothing.     *)
(* Otherwise an active job of the same entity takes the request: a running *)
(* one is marked, because its handler may already have read what the       *)
(* caller is changing; a pending one has read nothing yet.                 *)
(***************************************************************************)
EnqueueActiveEntityJob(j) ==
  /\ KindOf[j] = "entity"
  /\ row[j].status = "absent"
  /\ Asked(j)
  /\ \/ /\ ActivePeers(j) = {}
        /\ row' = [row EXCEPT ![j] = NewRow]
     \/ \E k \in ActivePeers(j) :
          row' = [row EXCEPT ![k] = IF row[k].status = "running"
                                    THEN MarkedForRerun(row[k]) ELSE row[k]]
  /\ UNCHANGED linked

\* insert .. on conflict (deduplication_key) do nothing
EnqueueJob(j) ==
  /\ KindOf[j] \in {"once", "event"}
  /\ row[j].status = "absent"
  /\ Asked(j)
  /\ row' = [row EXCEPT ![j] = NewRow]
  /\ UNCHANGED linked

\* the Stripe event is still pending and its job has used all its attempts
RearmPendingStripeEventJob(j) ==
  /\ KindOf[j] = "event"
  /\ row[j].status = "failed"
  /\ row[j].attempts >= MaxAttempts[j]
  /\ Asked(j)
  /\ row' = [row EXCEPT ![j] = Requeued(row[j])]
  /\ UNCHANGED linked

(***************************************************************************)
(* enqueueFinancialClassificationJobInternal: replay is "the spec names a  *)
(* scan run", rearm is rearmExisting. A terminal row is only revived by    *)
(* rearm; adoption alone links it to the run and leaves it as it is.       *)
(***************************************************************************)
ClassificationRow_unmarked(r, rearm) == \* mutant: a running row is left as it is
  CASE r.status = "absent" -> NewRow
    [] r.status # "absent" -> IF rearm /\ r.status # "running" THEN Requeued(r) ELSE r
ClassificationRow(r, rearm) ==
  CASE r.status = "absent" -> NewRow
    [] r.status = "running" -> MarkedForRerun(r)
    [] r.status \notin {"absent", "running"} -> IF rearm THEN Requeued(r) ELSE r

EnqueueFinancialClassificationJob(j, replay, rearm) ==
  /\ KindOf[j] = "classification"
  /\ row[j].status = "absent" \/ rearm \/ (replay /\ j \notin linked)
  /\ requests < MaxRequests
  /\ requests' = requests + 1
  /\ row' = [row EXCEPT ![j] = ClassificationRow(row[j], rearm)]
  /\ linked' = IF replay THEN linked \cup {j} ELSE linked
  /\ owed' = [owed EXCEPT ![EntityOf[j]] = @ \/ ~Terminal(j) \/ rearm]
  /\ UNCHANGED <<slot, proc, held, holder>>

-----------------------------------------------------------------------------
(* Claiming                                                                *)

(***************************************************************************)
(* claimableJob. The jobs of events, sources, payouts and provider scans   *)
(* are refused while a replay of the ledger is pending or another          *)
(* implementation than this build's is active; classification jobs, and    *)
(* the pages of a replay, while they are of another implementation; all of *)
(* the provider's, by a worker that is local-only. Jobs of one entity have *)
(* one type and one fate. Nothing here says that the gate opens again: a   *)
(* replay whose classification child failed for good stays pending until   *)
(* an administrator acts.                                                  *)
(***************************************************************************)
Passes(j) == EntityOf[j] \notin held

\* a replay is registered or its authority switched (FinancialScans has it), an
\* implementation is deployed: what it refuses changes for many jobs at once
GateChanges ==
  /\ held' \in SUBSET Gated
  /\ held' # held
  /\ UNCHANGED <<row, slot, proc, linked, requests, owed, holder>>

\* mutant: an expired lease is not looked at after the last attempt
Candidate_notAfterLast(j) ==
  /\ Passes(j)
  /\ IF row[j].status = "pending" THEN row[j].due
     ELSE row[j].status = "running" /\ row[j].expired
  /\ row[j].attempts < MaxAttempts[j]

\* the gate is asked of a pending row and of one whose lease ran out alike
Candidate(j) ==
  /\ Passes(j)
  /\ \/ /\ row[j].status = "pending"
        /\ row[j].due
        /\ row[j].attempts < MaxAttempts[j]
     \/ /\ row[j].status = "running"
        /\ row[j].expired

\* mutant: the rerun request is not looked at
ExpiredFinalAttempt_rerun(j) ==
  row[j].status = "running" /\ row[j].attempts >= MaxAttempts[j]
\* the lease of the last attempt ran out and nothing asks for another
ExpiredFinalAttempt(j) ==
  /\ row[j].status = "running"
  /\ row[j].attempts >= MaxAttempts[j]
  /\ ~row[j].rerun

Finished(r, status) == [r EXCEPT !.status = status, !.owner = None, !.expired = FALSE]

Claimed(r, s) ==
  [r EXCEPT !.status = "running",
            !.attempts = IF r.status = "running" /\ r.rerun THEN 1 ELSE @ + 1,
            !.owner = LeaseOwner(s),
            !.expired = FALSE,
            !.rerun = IF r.status = "running" THEN FALSE ELSE @]

Polling(s) == slot[s].pc = "polling" /\ proc[s[1]] = "up"

\* claimNext commits the claim of j for s
TakeClaim(s, j) ==
  /\ Candidate(j)
  /\ ~ExpiredFinalAttempt(j)
  /\ row' = [row EXCEPT ![j] = Claimed(row[j], s)]
  /\ holder' = [holder EXCEPT ![j] = s]
  /\ owed' = [owed EXCEPT ![EntityOf[j]] = FALSE]
  /\ UNCHANGED <<held, linked, requests>>

ClaimNext(s, j) ==
  /\ Polling(s)
  /\ TakeClaim(s, j)
  /\ slot' = [slot EXCEPT ![s] = [Idle EXCEPT !.pc = "handling", !.job = j]]
  /\ UNCHANGED proc

\* claimNext found an abandoned last attempt: it fails the row, returns null
FailExpired(j) ==
  /\ Candidate(j)
  /\ ExpiredFinalAttempt(j)
  /\ row' = [row EXCEPT ![j] = Finished(row[j], "failed")]
  /\ UNCHANGED <<held, linked, requests, owed, holder>>

ClaimNextFailsExpired(s, j) ==
  /\ Polling(s)
  /\ FailExpired(j)
  /\ UNCHANGED <<slot, proc>>

-----------------------------------------------------------------------------
(* Processes                                                               *)

(***************************************************************************)
(* BOUND: the deployment restarts a worker that ended; a process may end   *)
(* here only while another incarnation is up or can still be started.      *)
(***************************************************************************)
Survivor(p) == \E q \in Procs \ {p} : proc[q] \in {"new", "up"}

StartProcess(p) ==
  /\ proc[p] = "new"
  /\ proc' = [proc EXCEPT ![p] = "up"]
  /\ slot' = [s \in Slots |-> IF s[1] = p THEN Idle ELSE slot[s]]
  /\ UNCHANGED <<row, held, linked, requests, owed, holder>>

\* shutdown: no new claims, no renewals, handlers told to stop by their signal
StopProcess(p) ==
  /\ proc[p] = "up"
  /\ Survivor(p)
  /\ proc' = [proc EXCEPT ![p] = "stopping"]
  /\ UNCHANGED <<row, slot, held, linked, requests, owed, holder>>

\* a crash, or the exit at the fatal shutdown deadline: the slots are gone
CrashProcess(p) ==
  /\ proc[p] \in {"up", "stopping"}
  /\ Survivor(p)
  /\ proc' = [proc EXCEPT ![p] = "dead"]
  /\ slot' = [s \in Slots |-> IF s[1] = p THEN Stopped ELSE slot[s]]
  /\ UNCHANGED <<row, held, linked, requests, owed, holder>>

\* the loop of s threw: this slot ends, the others of its process are aborted
SlotFails(s) ==
  /\ Survivor(s[1])
  /\ slot' = [slot EXCEPT ![s] = Stopped]
  /\ proc' = [proc EXCEPT ![s[1]] = "stopping"]

\* claimNext threw, whether or not its transaction had committed
ClaimNextThrows(s) ==
  /\ Polling(s)
  /\ SlotFails(s)
  /\ \/ UNCHANGED <<row, held, linked, requests, owed, holder>>
     \/ \E j \in Jobs : TakeClaim(s, j) \/ FailExpired(j)

-----------------------------------------------------------------------------
(* Running a claimed job                                                   *)

\* the guard of renewLease, complete and settleFailure
Owns(s, j) == row[j].status = "running" /\ row[j].owner = LeaseOwner(s)

Handling(s) == slot[s].pc = "handling"

RenewLease(s) ==
  /\ Handling(s)
  /\ ~slot[s].lost
  /\ proc[s[1]] = "up"
  /\ LET j == slot[s].job IN
       IF Owns(s, j)
       THEN /\ row' = [row EXCEPT ![j].expired = FALSE]
            /\ UNCHANGED slot
       ELSE /\ slot' = [slot EXCEPT ![s].lost = TRUE]
            /\ UNCHANGED row
  /\ UNCHANGED <<proc, held, linked, requests, owed, holder>>

\* the renewal threw; the row may or may not have been renewed
RenewLeaseThrows(s) ==
  /\ Handling(s)
  /\ ~slot[s].lost
  /\ proc[s[1]] = "up"
  /\ slot' = [slot EXCEPT ![s].lost = TRUE]
  /\ \/ UNCHANGED row
     \/ /\ Owns(s, slot[s].job)
        /\ row' = [row EXCEPT ![slot[s].job].expired = FALSE]
  /\ UNCHANGED <<proc, held, linked, requests, owed, holder>>

\* where the loop goes on after a job: polls again, or ends with its process
Onward(s) == IF proc[s[1]] = "up" THEN Idle ELSE Stopped

\* a result that comes after the lease was found lost is thrown away
HandlerReturns(s, outcome) ==
  /\ Handling(s)
  /\ slot' = [slot EXCEPT ![s] =
                IF @.lost THEN Onward(s)
                ELSE [@ EXCEPT !.pc = "settling", !.outcome = outcome]]
  /\ UNCHANGED <<row, proc, held, linked, requests, owed, holder>>

Retried(r) == [r EXCEPT !.status = "pending", !.owner = None,
                        !.expired = FALSE, !.due = FALSE]

AfterCompletion_drops(r) == \* mutant: a rerun request is dropped
  Finished([r EXCEPT !.rerun = FALSE], "succeeded")
AfterCompletion(r) == IF r.rerun THEN Requeued(r) ELSE Finished(r, "succeeded")

\* mutant: one attempt too many
AfterFailure_late(j, retryable) ==
  IF row[j].rerun THEN Requeued(row[j])
  ELSE IF ~retryable \/ row[j].attempts > MaxAttempts[j]
       THEN Finished(row[j], "failed") ELSE Retried(row[j])

AfterFailure(j, retryable) ==
  IF row[j].rerun THEN Requeued(row[j])
  ELSE IF ~retryable \/ row[j].attempts >= MaxAttempts[j]
       THEN Finished(row[j], "failed")
       ELSE Retried(row[j])

\* complete and settleFailure: no effect unless s still owns the row
Complete(s, j) ==
  row' = IF Owns(s, j) THEN [row EXCEPT ![j] = AfterCompletion(row[j])] ELSE row
SettleFailure(s, j, retryable) ==
  row' = IF Owns(s, j) THEN [row EXCEPT ![j] = AfterFailure(j, retryable)] ELSE row

SettlesSuccess(s) ==
  /\ slot[s].pc = "settling"
  /\ slot[s].outcome = "ok"
  /\ Complete(s, slot[s].job)
  /\ slot' = [slot EXCEPT ![s] = Onward(s)]
  /\ UNCHANGED <<proc, held, linked, requests, owed, holder>>

\* complete threw, committed or not: the slot records a transient failure
CompleteThrows(s) ==
  /\ slot[s].pc = "settling"
  /\ slot[s].outcome = "ok"
  /\ UNCHANGED row \/ Complete(s, slot[s].job)
  /\ slot' = [slot EXCEPT ![s].pc = "recovering", ![s].outcome = "transient"]
  /\ UNCHANGED <<proc, held, linked, requests, owed, holder>>

Failing(s) == \/ slot[s].pc = "recovering"
              \/ slot[s].pc = "settling" /\ slot[s].outcome # "ok"
Retryable(s) == slot[s].outcome = "transient"

SettlesFailure(s) ==
  /\ Failing(s)
  /\ SettleFailure(s, slot[s].job, Retryable(s))
  /\ slot' = [slot EXCEPT ![s] = Onward(s)]
  /\ UNCHANGED <<proc, held, linked, requests, owed, holder>>

\* failWithDisposition threw, committed or not: the loop of the slot ends
SettleFailureThrows(s) ==
  /\ Failing(s)
  /\ SlotFails(s)
  /\ UNCHANGED row \/ SettleFailure(s, slot[s].job, Retryable(s))
  /\ UNCHANGED <<held, linked, requests, owed, holder>>

-----------------------------------------------------------------------------
(* Time                                                                    *)

LeaseExpires(j) ==
  /\ row[j].status = "running"
  /\ ~row[j].expired
  /\ row' = [row EXCEPT ![j].expired = TRUE]
  /\ UNCHANGED <<slot, proc, held, linked, requests, owed, holder>>

BecomesDue(j) ==
  /\ row[j].status = "pending"
  /\ ~row[j].due
  /\ row' = [row EXCEPT ![j].due = TRUE]
  /\ UNCHANGED <<slot, proc, held, linked, requests, owed, holder>>

-----------------------------------------------------------------------------
Ask(j) ==
  \/ EnqueueActiveEntityJob(j)
  \/ EnqueueJob(j)
  \/ RearmPendingStripeEventJob(j)
  \/ \E replay, rearm \in BOOLEAN : EnqueueFinancialClassificationJob(j, replay, rearm)

Process(p) == StartProcess(p) \/ StopProcess(p) \/ CrashProcess(p)

Poll(s) ==
  \/ \E j \in Jobs : ClaimNext(s, j) \/ ClaimNextFailsExpired(s, j)
  \/ ClaimNextThrows(s)

Run(s) ==
  \/ RenewLease(s)
  \/ RenewLeaseThrows(s)
  \/ \E outcome \in {"ok", "transient", "permanent"} : HandlerReturns(s, outcome)
  \/ SettlesSuccess(s)
  \/ CompleteThrows(s)
  \/ SettlesFailure(s)
  \/ SettleFailureThrows(s)

Time(j) == LeaseExpires(j) \/ BecomesDue(j)

Next ==
  \/ \E j \in Jobs : Ask(j) \/ Time(j)
  \/ GateChanges
  \/ \E p \in Procs : Process(p)
  \/ \E s \in Slots : Poll(s) \/ Run(s)

Spec == Init /\ [][Next]_vars

(***************************************************************************)
(* What the scheduling of the code provides: a started slot keeps polling, *)
(* a handler returns (its provider calls time out and its signal aborts),  *)
(* the database answers, time passes, and a worker is running. Claims are  *)
(* weakly fair, which asks nothing of a job while the gate is closed again *)
(* and again; of the gate itself nothing is assumed.                       *)
(***************************************************************************)
Fairness ==
  /\ \A p \in Procs : WF_vars(StartProcess(p))
  /\ \A j \in Jobs : WF_vars(LeaseExpires(j)) /\ WF_vars(BecomesDue(j))
  /\ WF_vars(\E s \in Slots, j \in Jobs : ClaimNext(s, j) \/ ClaimNextFailsExpired(s, j))
  /\ \A s \in Slots :
       /\ WF_vars(\E o \in {"ok", "transient", "permanent"} : HandlerReturns(s, o))
       /\ WF_vars(SettlesSuccess(s))
       /\ WF_vars(SettlesFailure(s))

FairSpec == Spec /\ Fairness

-----------------------------------------------------------------------------
(* Properties                                                              *)

\* An active job that no claim would take now waits for the gate, for its time
\* or for a lease to run out, and for nothing else: it is never left in a state
\* that claimNext does not select at all, also when the gate stands open.
WaitsForGateOrClock ==
  \A j \in Jobs : Active(j) /\ ~Candidate(j) =>
    \/ ~Passes(j)
    \/ row[j].status = "pending" /\ ~row[j].due
    \/ row[j].status = "running" /\ ~row[j].expired

\* Work that was asked for and has not begun since is still in the queue:
\* a request that met a running job survives that job's completion, its
\* failure, its expired lease and the crash of its worker.
NoLostRequest ==
  \A e \in Entities : owed[e] =>
    \E j \in Jobs : /\ EntityOf[j] = e
                    /\ \/ row[j].status = "pending"
                       \/ row[j].status = "running" /\ row[j].rerun

\* Coalescing keeps at most one active job for an entity, whatever the order
\* of requests, completions and lease expiries.
OneActivePerEntity ==
  \A j, k \in Jobs : EntityOf[j] = EntityOf[k] /\ Active(j) /\ Active(k) => j = k

\* A lease owner's guard is met only by the slot that made the latest claim:
\* a slot whose job was taken over cannot renew, complete or fail it, even
\* when another slot of the same process took it.
Fenced ==
  \A s \in Slots : slot[s].job # None /\ Owns(s, slot[s].job) => holder[slot[s].job] = s

\* A step in which a slot completes, fails or loses its job touches that
\* job's row only when the row's latest claim is the slot's own: the result
\* of a handler that was overtaken has no effect.
FencedSettlement ==
  [][\A s \in Slots :
       /\ slot[s].job # None
       /\ slot'[s] # slot[s]
       /\ row'[slot[s].job] # row[slot[s].job]
       => holder[slot[s].job] = s]_vars

\* A job fails only when every attempt it is allowed was claimed or its
\* holder reported a permanent error, and never while a rerun is requested.
FailsOnlyWhenSpent ==
  [][\A j \in Jobs :
       row[j].status # "failed" /\ row'[j].status = "failed" =>
         /\ ~row[j].rerun
         /\ \/ row[j].attempts = MaxAttempts[j]
            \/ \E s \in Slots : /\ slot[s].job = j
                                /\ slot[s].outcome = "permanent"
                                /\ holder[j] = s]_vars

\* A running job is taken from a slot only after its lease expired.
StolenOnlyExpired ==
  [][\A j \in Jobs :
       row[j].status = "running" /\ holder'[j] # holder[j] => row[j].expired]_vars

\* Once requests stop and the gate lets a job pass from some time on, the job
\* ends: crashes, lost leases, thrown settlements, shutdowns and a gate that
\* closed meanwhile use up attempts or time but never strand a row.
JobsEnd == \A j \in Jobs :
  <>[]Passes(j) => <>[](row[j].status \in {"absent", "succeeded", "failed"})

-----------------------------------------------------------------------------
(* The queue keeps the promise of JobPromise                               *)

Live == [e \in Entities |-> \E j \in Jobs : EntityOf[j] = e /\ Active(j)]
Promise == INSTANCE JobPromise WITH live <- Live

\* Every step of the queue is a step of the promise or changes nothing of it:
\* in particular no work ends while an attempt is owed.
KeepsPromise == Promise!Spec
\* And under the fairness above every request is followed by an attempt that
\* began after it, unless the gate closes for its entity again and again.
KeepsFairPromise == Promise!FairSpec
=============================================================================
