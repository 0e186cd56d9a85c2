--------------------------- MODULE OperationsRetry ---------------------------
(***************************************************************************)
(* Jobs that failed, and administrators who have them retried.             *)
(*                                                                         *)
(* A retry is a command like those of AdminCommands: given under the       *)
(* administrators' lock, carried out by a job of its own whose lease the   *)
(* database holds.  It names the failure the administrator has seen, by    *)
(* the job's updated_at; what it finds later may be another one.  Here the *)
(* retries are some of the commands, and their lock, rows, leases and      *)
(* workers are those of AdminCommands: the routines of drizzle/0015 differ *)
(* from those of 0012 where the actions below do.                          *)
(*                                                                         *)
(* The job to be retried runs as in JobQueue; of that there remains        *)
(* whether it failed, with its attempts spent, and whether its source (the *)
(* Stripe event, or the subject of a classification) still wants it.       *)
(***************************************************************************)
EXTENDS AdminCommands

CONSTANTS
  Retries,     \* the commands that ask for a retry
  MaxUpdates   \* bound: changes of the target after the first retry was asked for

ASSUME RetriesAssumption == Retries \subseteq Commands
ASSUME UpdatesAssumption == MaxUpdates \in Nat

VARIABLES
  target,   \* the job that failed; looked at once a retry is asked for
  seen      \* retry -> the updated_at of the failure it names

retryVars == <<target, seen>>
allVars == <<vars, retryVars>>

Target == [status : {"failed", "active", "succeeded"},
           spent : BOOLEAN,       \* failed with attempts >= max_attempts
           wanted : BOOLEAN,      \* the event is pending; the authority is the job's
           updated : 0 .. MaxUpdates]
NoTarget == [status |-> "none"]
FirstFailures == {t \in Target : t.status = "failed" /\ t.updated = 0}

RetryTypeOK ==
  /\ TypeOK
  /\ target \in Target \cup {NoTarget}
  /\ seen \in [Retries -> 0 .. MaxUpdates]

RetryInit == Init /\ target = NoTarget /\ seen = [c \in Retries |-> 0]

-----------------------------------------------------------------------------
(* The target, outside of retries *)

Updated(t, status, spent, wanted) ==
  /\ t.updated < MaxUpdates
  /\ target' = [status |-> status, spent |-> spent, wanted |-> wanted, updated |-> t.updated + 1]

Rearmed(t) == Updated(t, "active", FALSE, t.wanted)

\* Its source is settled in the transaction of the job's own handler, which
\* may fail afterwards.
TargetSettles ==
  /\ target.status = "active"
  /\ \/ Updated(target, "succeeded", FALSE, FALSE)
     \/ \E spent, wanted \in BOOLEAN :
          /\ wanted => target.wanted
          /\ Updated(target, "failed", spent, wanted)
  /\ UNCHANGED <<vars, seen>>

Rearmable == target.status = "failed" /\ target.spent /\ target.wanted

\* The provider delivers the event again, or a replay asks for the classification.
RearmedElsewhere ==
  /\ target # NoTarget /\ Rearmable
  /\ Rearmed(target)
  /\ UNCHANGED <<vars, seen>>

\* A newer classifier takes over, or the scan that asked for the job has ended.
SourceMovesOn ==
  /\ target # NoTarget /\ target.wanted /\ target.status = "failed"
  /\ target' = [target EXCEPT !.wanted = FALSE]
  /\ UNCHANGED <<vars, seen>>

-----------------------------------------------------------------------------
(* A retry and its job *)

\* Refused unless the job is still in the failure that the list showed.
SubmitJobRetryCommand(c) ==
  /\ SubmitCommand(c)
  /\ target' \in IF target = NoTarget THEN FirstFailures
                 ELSE {t \in {target} : t.status = "failed"}
  /\ seen' = [seen EXCEPT ![c] = target'.updated]

ClaimOperationsJob(c) == ClaimJob(c) /\ UNCHANGED retryVars

OperationsLeaseExpires(c) == LeaseExpires(c) /\ UNCHANGED retryVars

\* The claim of a job whose last lease ran out settles it instead.
ExhaustExpired(c) ==
  /\ Expired(c)
  /\ job[c].attempts = MaxAttempts
  /\ LeaseLockFree(c)
  /\ JobEnds(c, IF command[c] = "pending" THEN "failed" ELSE "succeeded")
  /\ command' = FailedWithJob(c)
  /\ UNCHANGED <<roleVars, effects, run, retryVars>>

\* plan7a_operations_lock_job_retry_command: nothing is read without the lease.
\* A commit whose answer is lost stops the process.
LockJobRetryCommand(c, n) ==
  /\ run[c][n] = "claimed"
  /\ LockFree
  /\ \/ ~Holds(c, n) /\ Goes(c, n, "retry")
     \/ Holds(c, n) /\ command[c] # "pending" /\ (Goes(c, n, "complete") \/ Goes(c, n, "done"))
     \/ Holds(c, n) /\ command[c] = "pending" /\ Goes(c, n, "inside")
  /\ UNCHANGED <<roleVars, command, effects, job, retryVars>>

SameFailure_any(c) == TRUE \* mutant: any failure will do
\* submittedSnapshotChanged: the failure is the one that was named
SameFailure(c) == target.updated = seen[c]

\* The policy locks the target and decides; its rearming and the command's
\* result are one commit, under the lease.
DecideRetry(c, n) ==
  /\ run[c][n] = "inside"
  /\ Holds(c, n)
  /\ command[c] = "pending"
  /\ IF Authorized(c) /\ SameFailure(c) /\ Rearmable
     THEN /\ Rearmed(target)
          /\ command' = [command EXCEPT ![c] = "succeeded"]
          /\ effects' = [effects EXCEPT ![c] = @ + 1]
     ELSE /\ command' = [command EXCEPT ![c] = "denied"]
          /\ UNCHANGED <<target, effects>>
  /\ Goes(c, n, "complete") \/ Goes(c, n, "done")
  /\ UNCHANGED <<roleVars, job, seen>>

\* Thrown, aborted or without the lease; or the rows are not what a retry needs.
RetryRollsBack(c, n) ==
  /\ run[c][n] = "inside"
  /\ Goes(c, n, "retry") \/ Goes(c, n, "fail")
  /\ UNCHANGED <<roleVars, command, effects, job, retryVars>>

CompleteOperationsJob(c, n) ==
  /\ run[c][n] = "complete"
  /\ LeaseLockFree(c)
  /\ IF Holds(c, n) /\ command[c] # "pending" THEN JobEnds(c, "succeeded") ELSE UNCHANGED job
  /\ Goes(c, n, "done")
  /\ UNCHANGED <<roleVars, command, effects, retryVars>>

\* failOperationsJob: relinquish with attempts left, else exhaust or fail. A
\* command that was decided makes its job succeed even then.
FailOperationsJob(c, n) ==
  LET open == command[c] = "pending" IN
  /\ run[c][n] \in {"retry", "fail"}
  /\ LeaseLockFree(c)
  /\ IF Holds(c, n) /\ (Exhausted(c, n) \/ open)
     THEN /\ JobEnds(c, IF ~Exhausted(c, n) THEN "pending" ELSE IF open THEN "failed" ELSE "succeeded")
          /\ command' = IF Exhausted(c, n) THEN FailedWithJob(c) ELSE command
     ELSE UNCHANGED <<job, command>>
  /\ Goes(c, n, "done")
  /\ UNCHANGED <<roleVars, effects, retryVars>>

RetryWorkerDies(c, n) == WorkerDies(c, n) /\ UNCHANGED retryVars

-----------------------------------------------------------------------------
RetryStep(c) ==
  \/ SubmitJobRetryCommand(c) \/ ClaimOperationsJob(c)
  \/ OperationsLeaseExpires(c) \/ ExhaustExpired(c)

RetryDecides(c, n) == DecideRetry(c, n) \/ RetryRollsBack(c, n)
RetrySettles(c, n) == CompleteOperationsJob(c, n) \/ FailOperationsJob(c, n)
RetryRunStep(c, n) ==
  \/ LockJobRetryCommand(c, n) \/ RetryDecides(c, n) \/ RetrySettles(c, n)
  \/ RetryWorkerDies(c, n)

Others == Commands \ Retries

RetryNext ==
  \/ /\ \/ \E u \in Users : RoleStep(u)
        \/ \E c \in Others : JobStep(c)
        \/ \E c \in Others, n \in Attempts : RunStep(c, n)
     /\ UNCHANGED retryVars
  \/ \E c \in Retries : RetryStep(c)
  \/ \E c \in Retries, n \in Attempts : RetryRunStep(c, n)
  \/ TargetSettles \/ RearmedElsewhere \/ SourceMovesOn

RetrySpec == RetryInit /\ [][RetryNext]_allVars

\* Workers poll and settle, transactions end, leases run out once nobody renews
\* them, and whoever waits for the advisory lock gets it in turn.
RoleChangeEnds == \E u \in Users : CommitRoleChange(u) \/ AbandonRoleChange(u)
JobMoves ==
  \/ \E c \in Commands : ClaimJob(c) \/ LeaseExpires(c)
  \/ \E c \in Others : AdoptFinalAttempt(c)
TakesTheLock == \E c \in Others, n \in Attempts : EnterCommand(c, n) \/ PersistTerminalFailure(c, n)
TransactionEnds == \E c \in Others, n \in Attempts : InsideEnds(c, n) \/ Settles(c, n)

RetryFairness ==
  /\ WF_allVars(RoleChangeEnds /\ UNCHANGED retryVars)
  /\ WF_allVars(\/ JobMoves /\ UNCHANGED retryVars
                \/ \E c \in Retries : ExhaustExpired(c))
  /\ SF_allVars(\/ TakesTheLock /\ UNCHANGED retryVars
                \/ \E c \in Retries, n \in Attempts : LockJobRetryCommand(c, n))
  /\ WF_allVars(\/ TransactionEnds /\ UNCHANGED retryVars
                \/ \E c \in Retries, n \in Attempts : RetryDecides(c, n) \/ RetrySettles(c, n))

RetryFairSpec == RetrySpec /\ RetryFairness

-----------------------------------------------------------------------------
(* Properties *)

\* A retry starts only the failure its administrator has seen, even when the
\* provider or a replay had the job run and fail again meanwhile; and no job,
\* by whomever, is started again once its source has been dealt with.
OnlyTheFailureSeen ==
  [][/\ \A c \in Retries : effects'[c] # effects[c] =>
          target.updated = seen[c] /\ target'.status = "active"
     /\ target # NoTarget /\ target.status # "active" /\ target'.status = "active" =>
          target.wanted]_allVars

\* A retry is decided, and its job tells the same: failed only if the retry
\* failed undecided, succeeded also for a denial.
RetryDecided(c) ==
  \/ command[c] = "succeeded" /\ effects[c] = 1 /\ job[c].status = "succeeded"
  \/ command[c] = "denied" /\ effects[c] = 0 /\ job[c].status = "succeeded"
  \/ command[c] = "failed" /\ effects[c] = 0 /\ job[c].status = "failed"

\* Every command, of either kind, is decided for good, and its job ends telling
\* the same, whichever of worker, database and final settlement came last.
EachCommandDecided ==
  \A c \in Commands :
    command[c] = "pending" ~> [](IF c \in Retries THEN RetryDecided(c) ELSE Decided(c))
=============================================================================
