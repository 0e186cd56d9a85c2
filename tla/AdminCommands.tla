---------------------------- MODULE AdminCommands ----------------------------
(***************************************************************************)
(* Administrators, and the financial commands they give.                   *)
(*                                                                         *)
(* Who is an administrator changes in transactions that take one advisory  *)
(* lock first (auth/roles.ts); so does every transaction that acts in an   *)
(* administrator's name.  A command is submitted together with its job; a  *)
(* worker executes it later, in a transaction that checks its actor again, *)
(* and records a refusal in a second one.  The database fences the job by  *)
(* a lease of its own: what a worker writes counts only with the secret of *)
(* the current lease (drizzle/0012).                                       *)
(*                                                                         *)
(* A transaction that decides on what it has read is two steps here, with  *)
(* the lock between them; the others are one step.                         *)
(***************************************************************************)
EXTENDS Naturals, FiniteSets

CONSTANTS
  Users,
  Commands,     \* idempotency keys under which a command may be submitted
  ActorOf,      \* command -> who submits it
  MaxAttempts,  \* max_attempts of a command's job
  MaxSubmitted  \* bound: how many of the commands are given in one behaviour

Attempts == 1 .. MaxAttempts

ASSUME ActorAssumption == ActorOf \in [Commands -> Users]
ASSUME AttemptsAssumption == MaxAttempts \in Nat \ {0}

VARIABLES
  admins,    \* users with the role admin
  change,    \* user -> the role change this user has asked for
  command,   \* command -> status of its row
  effects,   \* command -> how often what it asks for was done
  job,       \* command -> the row of its job with its lease
  run        \* command -> attempt -> where the worker of that attempt is

roleVars == <<admins, change>>
commandVars == <<command, effects, job, run>>
vars == <<roleVars, commandVars>>

NoChange == [stage |-> "none"]
Changes == [stage : {"waiting", "checked"}, target : Users, enabled : BOOLEAN]

Refusals == {"denied", "conflict", "failed"}
Terminal == Refusals \cup {"succeeded"}
Job == [status : {"absent", "pending", "running", "succeeded", "failed"},
        attempts : 0 .. MaxAttempts,
        live : BOOLEAN]                  \* the lease has not expired

TypeOK ==
  /\ admins \subseteq Users
  /\ change \in [Users -> Changes \cup {NoChange}]
  /\ command \in [Commands -> Terminal \cup {"absent", "pending"}]
  /\ effects \in [Commands -> Nat]
  /\ job \in [Commands -> Job]
  /\ run \in [Commands -> [Attempts ->
       Refusals \cup {"none", "claimed", "inside", "complete", "retry", "fail", "done"}]]

Init ==
  /\ admins = {}
  /\ change = [u \in Users |-> NoChange]
  /\ command = [c \in Commands |-> "absent"]
  /\ effects = [c \in Commands |-> 0]
  /\ job = [c \in Commands |-> [status |-> "absent", attempts |-> 0, live |-> FALSE]]
  /\ run = [c \in Commands |-> [n \in Attempts |-> "none"]]

LockFree_never == TRUE \* mutant: nobody takes the lock
\* The lock pale-orbit:user-roles:admin is held from a transaction's first
\* read to its end.
LockFree ==
  /\ \A u \in Users : change[u].stage # "checked"
  /\ \A c \in Commands, n \in Attempts : run[c][n] # "inside"

-----------------------------------------------------------------------------
(* Roles *)

BootstrapFirstAdministrator(u) ==
  /\ LockFree
  /\ admins' = admins \cup {u}
  /\ UNCHANGED <<change, commandVars>>

\* setAdminRole up to the lock; the actor's roles are those of the session
AskRoleChange(u, target, enabled) ==
  /\ change[u] = NoChange
  /\ u \in admins
  /\ change' = [change EXCEPT ![u] =
       [stage |-> "waiting", target |-> target, enabled |-> enabled]]
  /\ UNCHANGED <<admins, commandVars>>

LastAdministrator(u) == admins = {u}

\* Lock and reads: the actor must still be allowed, and the last
\* administrator stays.
CheckRoleChange(u) ==
  LET asked == change[u]
      refused == u \notin admins \/ (~asked.enabled /\ LastAdministrator(asked.target))
  IN /\ asked.stage = "waiting"
     /\ LockFree
     /\ change' = [change EXCEPT ![u] = IF refused THEN NoChange ELSE [@ EXCEPT !.stage = "checked"]]
     /\ UNCHANGED <<admins, commandVars>>

CommitRoleChange(u) ==
  /\ change[u].stage = "checked"
  /\ admins' = IF change[u].enabled THEN admins \cup {change[u].target}
               ELSE admins \ {change[u].target}
  /\ change' = [change EXCEPT ![u] = NoChange]
  /\ UNCHANGED commandVars

\* The request dies, before the lock or with the transaction.
AbandonRoleChange(u) ==
  /\ change[u] # NoChange
  /\ change' = [change EXCEPT ![u] = NoChange]
  /\ UNCHANGED <<admins, commandVars>>

-----------------------------------------------------------------------------
(* The job of a command and its lease *)

\* submitFinancialAdminCommand. Submitted again, the command is found and
\* returned, or rejected if its contents differ: nothing changes.
SubmitCommand(c) ==
  /\ LockFree
  /\ ActorOf[c] \in admins
  /\ command[c] = "absent"
  /\ Cardinality({d \in Commands : command[d] # "absent"}) < MaxSubmitted
  /\ command' = [command EXCEPT ![c] = "pending"]
  /\ job' = [job EXCEPT ![c].status = "pending"]
  /\ UNCHANGED <<roleVars, effects, run>>

\* The capability of attempt n is that of the current, unexpired lease.
Holds(c, n) == job[c] = [status |-> "running", attempts |-> n, live |-> TRUE]

\* A handler shares the lock of its job's lease; who takes or ends a lease
\* takes that lock alone.
LeaseLockFree(c) == \A n \in Attempts : run[c][n] # "inside"

Expired(c) == job[c].status = "running" /\ ~job[c].live

ClaimJob(c) ==
  LET n == job[c].attempts + 1 IN
  /\ job[c].status = "pending" \/ Expired(c)
  /\ job[c].attempts < MaxAttempts
  /\ LeaseLockFree(c)
  /\ job' = [job EXCEPT ![c] = [status |-> "running", attempts |-> n, live |-> TRUE]]
  /\ run' = [run EXCEPT ![c][n] = "claimed"]
  /\ UNCHANGED <<roleVars, command, effects>>

\* The worker of the lease is gone or does not come to renew it in time.
LeaseExpires(c) ==
  /\ job[c].status = "running" /\ job[c].live
  /\ job' = [job EXCEPT ![c].live = FALSE]
  /\ UNCHANGED <<roleVars, command, effects, run>>

FailedWithJob_never(c) == command \* mutant: the command is left pending
\* plan6bii_sync_failed_financial_admin_command: a job fails with its command
FailedWithJob(c) ==
  [command EXCEPT ![c] = IF @ = "pending" THEN "failed" ELSE @]

JobEnds(c, status) == job' = [job EXCEPT ![c].status = status, ![c].live = FALSE]

\* claimNext finds the lease of the final attempt expired, and settles the job
\* by what became of the command.
AdoptFinalAttempt(c) ==
  /\ Expired(c)
  /\ job[c].attempts = MaxAttempts
  /\ LeaseLockFree(c)
  /\ JobEnds(c, IF command[c] = "succeeded" THEN "succeeded" ELSE "failed")
  /\ command' = FailedWithJob(c)
  /\ UNCHANGED <<roleVars, effects, run>>

-----------------------------------------------------------------------------
(* The handler *)

Goes(c, n, where) == run' = [run EXCEPT ![c][n] = where]

Authorized_once(c) == TRUE \* mutant: submission is all the authority it takes
\* The actor is an administrator now, not only when the command was submitted.
Authorized(c) == ActorOf[c] \in admins

\* lockCommandIdentity and the checks before the executor. A transaction that
\* stops here writes nothing.
EnterCommand(c, n) ==
  /\ run[c][n] = "claimed"
  /\ LockFree
  /\ \/ command[c] = "succeeded" /\ Goes(c, n, "complete")
     \/ command[c] \in Refusals /\ Goes(c, n, "fail")
     \/ command[c] = "pending" /\ Goes(c, n, IF Authorized(c) THEN "inside" ELSE "denied")
  /\ UNCHANGED <<roleVars, command, effects, job>>

\* The executor's effect and the command's result are one commit, under the
\* lease; its answer may be lost, which the runner takes for a failure.
CommandSucceeds(c, n) ==
  /\ run[c][n] = "inside"
  /\ Holds(c, n)
  /\ command[c] = "pending"
  /\ command' = [command EXCEPT ![c] = "succeeded"]
  /\ effects' = [effects EXCEPT ![c] = @ + 1]
  /\ Goes(c, n, "complete") \/ Goes(c, n, "retry")
  /\ UNCHANGED <<roleVars, job>>

\* Rolled back: the executor refuses (to be recorded, or not: command_failed),
\* or throws, or the lease has expired.
CommandRollsBack(c, n) ==
  /\ run[c][n] = "inside"
  /\ \E next \in {"conflict", "failed", "fail", "retry"} : Goes(c, n, next)
  /\ UNCHANGED <<roleVars, command, effects, job>>

\* A transaction of its own, after the first was rolled back
PersistTerminalFailure(c, n) ==
  /\ run[c][n] \in Refusals
  /\ LockFree
  /\ \/ /\ command[c] = "pending" /\ Holds(c, n)
        /\ command' = [command EXCEPT ![c] = run[c][n]]
        /\ Goes(c, n, "fail") \/ Goes(c, n, "retry")
     \/ command[c] # "pending" /\ Goes(c, n, "fail") /\ UNCHANGED command
     \/ Goes(c, n, "retry") /\ UNCHANGED command
  /\ UNCHANGED <<roleVars, effects, job>>

-----------------------------------------------------------------------------
(* The runner settles the job *)

CompleteJob(c, n) ==
  /\ run[c][n] = "complete"
  /\ LeaseLockFree(c)
  /\ \/ /\ Holds(c, n) /\ command[c] = "succeeded"
        /\ JobEnds(c, "succeeded")
        /\ Goes(c, n, "done") \/ Goes(c, n, "retry")
     \/ ~Holds(c, n) /\ Goes(c, n, "done") /\ UNCHANGED job
     \/ Goes(c, n, "retry") /\ UNCHANGED job
  /\ UNCHANGED <<roleVars, command, effects>>

Exhausted(c, n) == run[c][n] = "fail" \/ job[c].attempts = MaxAttempts

\* The job of a command that succeeded never fails: the database rejects that,
\* and the lease runs out.
FailJob(c, n) ==
  /\ run[c][n] \in {"retry", "fail"}
  /\ LeaseLockFree(c)
  /\ \/ /\ Holds(c, n) /\ ~Exhausted(c, n)
        /\ JobEnds(c, "pending")
        /\ UNCHANGED command
     \/ /\ Holds(c, n) /\ Exhausted(c, n) /\ command[c] # "succeeded"
        /\ JobEnds(c, "failed")
        /\ command' = FailedWithJob(c)
     \/ /\ ~Holds(c, n) \/ (Exhausted(c, n) /\ command[c] = "succeeded")
        /\ UNCHANGED <<job, command>>
  /\ Goes(c, n, "done")
  /\ UNCHANGED <<roleVars, effects>>

WorkerDies(c, n) ==
  /\ run[c][n] \notin {"none", "done"}
  /\ Goes(c, n, "done")
  /\ UNCHANGED <<roleVars, command, effects, job>>

-----------------------------------------------------------------------------
RoleStep(u) ==
  \/ BootstrapFirstAdministrator(u)
  \/ \E target \in Users, enabled \in BOOLEAN : AskRoleChange(u, target, enabled)
  \/ CheckRoleChange(u) \/ CommitRoleChange(u) \/ AbandonRoleChange(u)

JobStep(c) == SubmitCommand(c) \/ ClaimJob(c) \/ LeaseExpires(c) \/ AdoptFinalAttempt(c)

InsideEnds(c, n) == CommandSucceeds(c, n) \/ CommandRollsBack(c, n)
Settles(c, n) == CompleteJob(c, n) \/ FailJob(c, n)
RunStep(c, n) ==
  \/ EnterCommand(c, n) \/ PersistTerminalFailure(c, n)
  \/ InsideEnds(c, n) \/ Settles(c, n) \/ WorkerDies(c, n)

Next ==
  \/ \E u \in Users : RoleStep(u)
  \/ \E c \in Commands : JobStep(c)
  \/ \E c \in Commands, n \in Attempts : RunStep(c, n)

Spec == Init /\ [][Next]_vars

-----------------------------------------------------------------------------
(* Properties *)

\* Once there is an administrator there always is one, whoever demotes whom at
\* the same moment.
AlwaysAdministered == [][admins # {} => admins' # {}]_vars

\* A command is carried out at most once, in the commit that records it as
\* succeeded, and only while the one who gave it is an administrator: not after
\* a demotion, a second attempt or a lost lease.
OnceByAnAdministrator ==
  [][\A c \in Commands : effects'[c] # effects[c] =>
       /\ effects[c] = 0 /\ effects'[c] = 1
       /\ command'[c] = "succeeded"
       /\ ActorOf[c] \in admins /\ ActorOf[c] \in admins']_vars

\* A financial command is decided, and its job tells the same.
Decided(c) ==
  \/ command[c] = "succeeded" /\ effects[c] = 1 /\ job[c].status = "succeeded"
  \/ command[c] \in Refusals /\ effects[c] = 0 /\ job[c].status = "failed"
=============================================================================
