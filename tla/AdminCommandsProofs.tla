------------------------- MODULE AdminCommandsProofs -------------------------
(***************************************************************************)
(* Proofs about AdminCommands and, from the same invariant, about          *)
(* OperationsRetry, for any users, commands, attempts and retries: there   *)
(* always is an administrator, and a command takes effect once, while its  *)
(* actor is one; a retry starts only the failure it names.                 *)
(*                                                                         *)
(* All rest on what holds between a transaction's reads and its commit,    *)
(* which the lock preserves: only one role change is past its check, and   *)
(* what it checked still holds; no handler is inside at that time, so that *)
(* the authority it found cannot be gone when it commits.                  *)
(***************************************************************************)
EXTENDS OperationsRetry, TLAPS

Checked(u) == change[u].stage = "checked"
Inside(c, n) == run[c][n] = "inside"

OneChecked == \A u, v \in Users : Checked(u) /\ Checked(v) => u = v
NotBoth == \A u \in Users, c \in Commands, n \in Attempts : ~(Checked(u) /\ Inside(c, n))
CheckHolds == \A u \in Users : Checked(u) =>
                /\ change[u] \in Changes
                /\ admins # {}
                /\ ~change[u].enabled => ~LastAdministrator(change[u].target)
\* S: the commands whose authority is checked before they go inside
AuthorityHolds(S) == \A c \in S, n \in Attempts : Inside(c, n) => Authorized(c)
EffectIsResult == \A c \in Commands : effects[c] = IF command[c] = "succeeded" THEN 1 ELSE 0

IInv(S) ==
  TypeOK /\ OneChecked /\ NotBoth /\ CheckHolds /\ AuthorityHolds(S) /\ EffectIsResult

-----------------------------------------------------------------------------
\* Initially nobody is past a check and nothing has had an effect.
LEMMA InitHolds ==
  ASSUME NEW S \in SUBSET Commands, Init
  PROVE  IInv(S)
BY ActorAssumption, AttemptsAssumption
   DEF Init, IInv, TypeOK, Job, Attempts, NoChange, Changes, Terminal, Refusals, OneChecked,
       NotBoth, CheckHolds, AuthorityHolds, EffectIsResult, Checked, Inside

\* A role change touches neither commands nor their jobs.
LEMMA RoleStepLeaves ==
  ASSUME NEW u \in Users, RoleStep(u)
  PROVE  UNCHANGED commandVars
BY DEF RoleStep, BootstrapFirstAdministrator, AskRoleChange, CheckRoleChange, CommitRoleChange,
       AbandonRoleChange

\* A role change leaves an administrator: the one that takes the role from
\* somebody has checked that another is left, and the lock kept that true.
LEMMA RoleStepKeepsOne ==
  ASSUME CheckHolds, admins # {}, NEW u \in Users, RoleStep(u)
  PROVE  admins' # {}
<1>1. CASE BootstrapFirstAdministrator(u)
  BY <1>1 DEF BootstrapFirstAdministrator
<1>2. CASE \E v \in Users, enabled \in BOOLEAN : AskRoleChange(u, v, enabled)
  BY <1>2 DEF AskRoleChange
<1>3. CASE CheckRoleChange(u)
  BY <1>3 DEF CheckRoleChange
<1>4. CASE CommitRoleChange(u)
  BY <1>4 DEF CommitRoleChange, CheckHolds, Checked, LastAdministrator, Changes
<1>5. CASE AbandonRoleChange(u)
  BY <1>5 DEF AbandonRoleChange
<1>6. QED
  BY <1>1, <1>2, <1>3, <1>4, <1>5 DEF RoleStep

\* A job's step outside its handler touches neither roles nor effects.
LEMMA JobStepLeaves ==
  ASSUME NEW c \in Commands, JobStep(c)
  PROVE  UNCHANGED roleVars /\ effects' = effects
BY DEF JobStep, SubmitCommand, ClaimJob, LeaseExpires, AdoptFinalAttempt

\* A handler leaves roles alone, and only its success has an effect.
LEMMA RunStepLeaves ==
  ASSUME NEW c \in Commands, NEW n \in Attempts, RunStep(c, n)
  PROVE  UNCHANGED roleVars /\ (effects' = effects \/ CommandSucceeds(c, n))
<1>1. CASE EnterCommand(c, n) \/ PersistTerminalFailure(c, n)
  BY <1>1 DEF EnterCommand, PersistTerminalFailure
<1>2. CASE CommandSucceeds(c, n)
  BY <1>2 DEF CommandSucceeds
<1>3. CASE CommandRollsBack(c, n)
  BY <1>3 DEF CommandRollsBack
<1>4. CASE CompleteJob(c, n) \/ FailJob(c, n)
  BY <1>4 DEF CompleteJob, FailJob
<1>5. CASE WorkerDies(c, n)
  BY <1>5 DEF WorkerDies
<1>6. QED
  BY <1>1, <1>2, <1>3, <1>4, <1>5 DEF RunStep, InsideEnds, Settles

\* A step of one user's role change keeps the invariant.
LEMMA RoleStepHolds ==
  ASSUME NEW S \in SUBSET Commands, IInv(S), NEW u \in Users, RoleStep(u)
  PROVE  IInv(S)'
<1> USE DEF IInv, TypeOK, OneChecked, NotBoth, CheckHolds, AuthorityHolds, EffectIsResult,
            Checked, Inside, Authorized, LastAdministrator, NoChange, Changes
<1>1. CASE BootstrapFirstAdministrator(u)
  BY <1>1 DEF BootstrapFirstAdministrator, LockFree, commandVars
<1>2. CASE \E v \in Users, enabled \in BOOLEAN : AskRoleChange(u, v, enabled)
  BY <1>2 DEF AskRoleChange, commandVars
<1>3. CASE CheckRoleChange(u)
  BY <1>3 DEF CheckRoleChange, LockFree, commandVars
<1>4. CASE CommitRoleChange(u)
  BY <1>4 DEF CommitRoleChange, commandVars
<1>5. CASE AbandonRoleChange(u)
  BY <1>5 DEF AbandonRoleChange, commandVars
<1>6. QED
  BY <1>1, <1>2, <1>3, <1>4, <1>5 DEF RoleStep

Where == Refusals \cup {"none", "claimed", "inside", "complete", "retry", "fail", "done"}

\* A worker that goes somewhere stays in its type and moves nobody else.
LEMMA GoesSomewhere ==
  ASSUME TypeOK, NEW c \in Commands, NEW n \in Attempts, NEW where \in Where, Goes(c, n, where)
  PROVE  /\ run' \in [Commands -> [Attempts -> Where]]
         /\ run'[c][n] = where
         /\ \A d \in Commands, m \in Attempts : <<d, m>> # <<c, n>> => run'[d][m] = run[d][m]
<1>1. run \in [Commands -> [Attempts -> Where]]
  BY DEF TypeOK, Where
<1>2. run' = [run EXCEPT ![c] = [run[c] EXCEPT ![n] = where]]
  BY <1>1 DEF Goes
<1>3. QED
  BY <1>1, <1>2

\* A job that ends stays in its type.
LEMMA JobStaysInType ==
  ASSUME TypeOK, NEW c \in Commands,
         NEW status \in {"pending", "succeeded", "failed"}, JobEnds(c, status)
  PROVE  job' \in [Commands -> Job]
<1>1. job' = [job EXCEPT ![c] = [job[c] EXCEPT !.status = status, !.live = FALSE]]
  BY DEF JobEnds, TypeOK
<1>2. [job[c] EXCEPT !.status = status, !.live = FALSE] \in Job
  <2> DEFINE row == job[c]
  <2>1. row \in Job
    BY DEF TypeOK
  <2> HIDE DEF row
  <2>2. [row EXCEPT !.status = status, !.live = FALSE] \in Job
    BY <2>1 DEF Job
  <2> QED
    BY <2>2 DEF row
<1>3. QED
  BY <1>1, <1>2 DEF TypeOK

\* So does a step of a command's job outside its handler. It leaves roles
\* alone, and only a claim changes where a worker is: to outside.
LEMMA JobStepHolds ==
  ASSUME NEW S \in SUBSET Commands, IInv(S), NEW c \in Commands, JobStep(c)
  PROVE  IInv(S)'
<1>1. UNCHANGED roleVars /\ effects' = effects
  BY DEF JobStep, SubmitCommand, ClaimJob, LeaseExpires, AdoptFinalAttempt, commandVars
<1>2. command' \in [Commands -> Terminal \cup {"absent", "pending"}] /\ job' \in [Commands -> Job]
  <2> USE DEF IInv, TypeOK, Job, Terminal, Refusals
  <2>1. CASE SubmitCommand(c)
    BY <2>1 DEF SubmitCommand
  <2>2. CASE ClaimJob(c)
    BY <2>2, AttemptsAssumption DEF ClaimJob
  <2>3. CASE LeaseExpires(c)
    BY <2>3 DEF LeaseExpires
  <2>4. CASE AdoptFinalAttempt(c)
    BY <2>4, JobStaysInType DEF AdoptFinalAttempt, FailedWithJob
  <2>5. QED
    BY <2>1, <2>2, <2>3, <2>4 DEF JobStep
<1>3. \A d \in Commands : (command'[d] = "succeeded") <=> (command[d] = "succeeded")
  BY DEF IInv, TypeOK, JobStep, SubmitCommand, ClaimJob, LeaseExpires, AdoptFinalAttempt, FailedWithJob
<1>4. run' = run \/ \E n \in Attempts : run' = [run EXCEPT ![c][n] = "claimed"]
  <2>1. CASE ClaimJob(c)
    <3>1. job[c].attempts + 1 \in Attempts
      BY <2>1, AttemptsAssumption DEF ClaimJob, IInv, TypeOK, Job, Attempts
    <3>2. QED
      BY <2>1, <3>1 DEF ClaimJob
  <2>2. CASE ~ClaimJob(c)
    BY <2>2 DEF JobStep, SubmitCommand, LeaseExpires, AdoptFinalAttempt
  <2>3. QED
    BY <2>1, <2>2
<1>5. TypeOK'
  BY <1>1, <1>2, <1>4 DEF IInv, TypeOK, roleVars
<1>6. \A d \in Commands, m \in Attempts : Inside(d, m)' => Inside(d, m)
  BY <1>4 DEF IInv, TypeOK, Inside
<1>7. QED
  BY <1>1, <1>3, <1>5, <1>6
     DEF IInv, OneChecked, NotBoth, CheckHolds, AuthorityHolds, EffectIsResult, Checked,
         Authorized, LastAdministrator, roleVars

\* And a step of a handler. It goes inside only with the lock free and its
\* actor an administrator, and effect and result change together.
LEMMA RunStepHolds ==
  ASSUME NEW S \in SUBSET Commands, IInv(S), NEW c \in Commands, NEW n \in Attempts, RunStep(c, n)
  PROVE  IInv(S)'
<1> USE DEF RunStep, InsideEnds, Settles
<1>1. UNCHANGED roleVars
  BY DEF EnterCommand, PersistTerminalFailure, CommandSucceeds, CommandRollsBack, CompleteJob,
         FailJob, WorkerDies
<1>2. command' \in [Commands -> Terminal \cup {"absent", "pending"}] /\ job' \in [Commands -> Job]
  <2> USE DEF IInv, TypeOK, Job, Terminal, Refusals
  <2>1. CASE PersistTerminalFailure(c, n) \/ CommandSucceeds(c, n)
    BY <2>1 DEF PersistTerminalFailure, CommandSucceeds
  <2>2. CASE CompleteJob(c, n) \/ FailJob(c, n)
    BY <2>2, JobStaysInType DEF CompleteJob, FailJob, FailedWithJob
  <2>3. CASE EnterCommand(c, n) \/ CommandRollsBack(c, n) \/ WorkerDies(c, n)
    BY <2>3 DEF EnterCommand, CommandRollsBack, WorkerDies
  <2>4. QED
    BY <2>1, <2>2, <2>3
<1>3. EffectIsResult' /\ effects' \in [Commands -> Nat]
  <2> USE DEF IInv, TypeOK, EffectIsResult
  <2>1. CASE CommandSucceeds(c, n)
    BY <2>1 DEF CommandSucceeds
  <2>2. CASE PersistTerminalFailure(c, n) \/ FailJob(c, n)
    BY <2>2 DEF PersistTerminalFailure, FailJob, FailedWithJob, Refusals
  <2>3. CASE EnterCommand(c, n) \/ CommandRollsBack(c, n) \/ CompleteJob(c, n) \/ WorkerDies(c, n)
    BY <2>3 DEF EnterCommand, CommandRollsBack, CompleteJob, WorkerDies
  <2>4. QED
    BY <2>1, <2>2, <2>3
<1>4. \E where \in Where :
        /\ Goes(c, n, where)
        /\ where = "inside" => LockFree /\ Authorized(c)
  BY DEF EnterCommand, PersistTerminalFailure, CommandSucceeds, CommandRollsBack, CompleteJob,
         FailJob, WorkerDies, Refusals, Where
<1>5. /\ run' \in [Commands -> [Attempts -> Where]]
      /\ \A d \in Commands, m \in Attempts :
           Inside(d, m)' => Inside(d, m) \/ (d = c /\ LockFree /\ Authorized(c))
  BY <1>4, GoesSomewhere DEF IInv, Inside
<1>6. TypeOK' /\ NotBoth' /\ AuthorityHolds(S)'
  <2>1. TypeOK'
    BY <1>1, <1>2, <1>3, <1>5 DEF IInv, TypeOK, Where, roleVars
  <2>2. NotBoth'
    BY <1>1, <1>5 DEF IInv, NotBoth, Checked, LockFree, roleVars
  <2>3. AuthorityHolds(S)'
    BY <1>1, <1>5 DEF IInv, AuthorityHolds, Authorized, roleVars
  <2>4. QED
    BY <2>1, <2>2, <2>3
<1>7. QED
  BY <1>1, <1>3, <1>6 DEF IInv, OneChecked, CheckHolds, Checked, LastAdministrator, roleVars

\* The invariant is inductive: every reachable state satisfies it.
THEOREM Inductive == Spec => []IInv(Commands)
<1>1. IInv(Commands) /\ UNCHANGED vars => IInv(Commands)'
  BY DEF IInv, TypeOK, OneChecked, NotBoth, CheckHolds, AuthorityHolds, EffectIsResult,
         Checked, Inside, Authorized, LastAdministrator, vars, roleVars, commandVars
<1>2. IInv(Commands) /\ [Next]_vars => IInv(Commands)'
  BY <1>1, RoleStepHolds, JobStepHolds, RunStepHolds DEF Next
<1>3. Init => IInv(Commands)
  BY InitHolds
<1>4. QED
  BY <1>2, <1>3, PTL DEF Spec

\* Roles, commands, jobs and workers stay in their types.
THEOREM TypeCorrect == Spec => []TypeOK
BY Inductive, PTL DEF IInv

-----------------------------------------------------------------------------
\* Two administrators who demote each other at the same moment do not both
\* succeed: the second one's check waits for the first one's commit.
THEOREM AdministratorRemains == Spec => AlwaysAdministered
<1>1. ASSUME IInv(Commands), Next, admins # {}
      PROVE  admins' # {}
  <2>1. CASE \E u \in Users : RoleStep(u)
    BY <2>1, <1>1, RoleStepKeepsOne DEF IInv
  <2>2. CASE \E c \in Commands : JobStep(c)
    BY <2>2, <1>1, JobStepLeaves DEF roleVars
  <2>3. CASE \E c \in Commands, n \in Attempts : RunStep(c, n)
    BY <2>3, <1>1, RunStepLeaves DEF roleVars
  <2>4. QED
    BY <1>1, <2>1, <2>2, <2>3 DEF Next
<1>2. IInv(Commands) /\ [Next]_vars => [admins # {} => admins' # {}]_vars
  BY <1>1
<1>3. QED
  BY <1>2, Inductive, PTL DEF Spec, AlwaysAdministered

\* What a command asks for is done at most once, with its result, by an
\* administrator of that moment.
THEOREM EffectIsAuthorized == Spec => OnceByAnAdministrator
<1> DEFINE Once(c) == effects'[c] # effects[c] =>
                        /\ effects[c] = 0 /\ effects'[c] = 1
                        /\ command'[c] = "succeeded"
                        /\ ActorOf[c] \in admins /\ ActorOf[c] \in admins'
<1>1. ASSUME IInv(Commands), Next, NEW c \in Commands
      PROVE  Once(c)
  <2>1. CASE \E d \in Commands, n \in Attempts : CommandSucceeds(d, n)
    <3>1. PICK d \in Commands, n \in Attempts : CommandSucceeds(d, n)
      BY <2>1
    <3>2. effects[d] = 0 /\ Authorized(d)
      BY <3>1, <1>1 DEF CommandSucceeds, IInv, EffectIsResult, AuthorityHolds, Inside
    <3>3. effects' = [effects EXCEPT ![d] = 1] /\ command' = [command EXCEPT ![d] = "succeeded"]
      BY <3>1, <3>2 DEF CommandSucceeds
    <3>4. admins' = admins
      BY <3>1 DEF CommandSucceeds, roleVars
    <3>5. QED
      BY <1>1, <3>2, <3>3, <3>4 DEF IInv, TypeOK, Authorized
  <2>2. CASE ~\E d \in Commands, n \in Attempts : CommandSucceeds(d, n)
    <3>1. effects' = effects
      BY <2>2, <1>1, RoleStepLeaves, JobStepLeaves, RunStepLeaves DEF Next, commandVars
    <3>2. QED
      BY <3>1
  <2>3. QED
    BY <2>1, <2>2
<1>2. IInv(Commands) /\ [Next]_vars => [\A c \in Commands : Once(c)]_vars
  BY <1>1
<1>3. QED
  BY <1>2, Inductive, PTL DEF Spec, OnceByAnAdministrator

-----------------------------------------------------------------------------
(***************************************************************************)
(* Retries: what is shown of commands survives beside them.                *)
(*                                                                         *)
(* The invariant is that of commands without the authority of a retry that *)
(* is inside: a retry's actor is looked at in the very step that commits,  *)
(* under the lock, so nothing need be remembered.                          *)
(***************************************************************************)
TargetTyped == target \in Target \cup {NoTarget} /\ seen \in [Retries -> 0 .. MaxUpdates]
RInv == IInv(Others) /\ TargetTyped

\* The commands with the handler of AdminCommands are commands.
LEMMA OthersAreCommands == Others \in SUBSET Commands
BY DEF Others

\* A retry that has no effect, changing its command to an undecided or refused
\* one, keeps the invariant of commands, if a worker that goes inside finds the
\* lock free.
LEMMA QuietStepHolds ==
  ASSUME IInv(Others), NEW c \in Retries, NEW n \in Attempts, NEW where \in Where,
         UNCHANGED roleVars,
         command' \in [Commands -> Terminal \cup {"absent", "pending"}],
         job' \in [Commands -> Job],
         run' = run \/ Goes(c, n, where),
         where = "inside" => LockFree,
         EffectIsResult', effects' \in [Commands -> Nat]
  PROVE  IInv(Others)'
<1>1. c \in Commands /\ c \notin Others
  BY RetriesAssumption DEF Others
<1>2. /\ run' \in [Commands -> [Attempts -> Where]]
      /\ \A d \in Commands, m \in Attempts :
           Inside(d, m)' => Inside(d, m) \/ (d = c /\ LockFree)
  <2>1. CASE run' = run
    BY <2>1 DEF IInv, TypeOK, Where, Inside
  <2>2. CASE Goes(c, n, where)
    BY <1>1, <2>2, GoesSomewhere DEF IInv, Inside
  <2>3. QED
    BY <2>1, <2>2
<1>3. TypeOK'
  BY <1>2 DEF IInv, TypeOK, Where, roleVars
<1>4. NotBoth'
  BY <1>2 DEF IInv, NotBoth, Checked, LockFree, roleVars
<1>5. AuthorityHolds(Others)'
  BY <1>1, <1>2, OthersAreCommands DEF IInv, AuthorityHolds, Authorized, roleVars
<1>6. QED
  BY <1>3, <1>4, <1>5 DEF IInv, OneChecked, CheckHolds, Checked, LastAdministrator, roleVars

\* Handing in, claiming and losing a retry are steps any command's job takes;
\* settling an expired one decides at most what was undecided.
LEMMA RetryStepHolds ==
  ASSUME IInv(Others), NEW c \in Retries, RetryStep(c)
  PROVE  IInv(Others)'
<1>1. c \in Commands
  BY RetriesAssumption
<1>2. CASE JobStep(c)
  BY <1>1, <1>2, JobStepHolds, OthersAreCommands
<1>3. CASE ExhaustExpired(c)
  <2>1. command' \in [Commands -> Terminal \cup {"absent", "pending"}] /\ EffectIsResult'
        /\ effects' \in [Commands -> Nat]
    BY <1>3 DEF ExhaustExpired, FailedWithJob, IInv, TypeOK, EffectIsResult, Terminal, Refusals
  <2>2. job' \in [Commands -> Job]
    BY <1>1, <1>3, JobStaysInType DEF ExhaustExpired, IInv
  <2>3. run' = run /\ UNCHANGED roleVars
    BY <1>3 DEF ExhaustExpired, roleVars
  <2>4. 1 \in Attempts /\ "done" \in Where
    BY AttemptsAssumption DEF Attempts, Where
  <2>5. QED
    BY <2>1, <2>2, <2>3, <2>4, QuietStepHolds
<1>4. QED
  BY <1>2, <1>3 DEF RetryStep, JobStep, SubmitJobRetryCommand, ClaimOperationsJob, OperationsLeaseExpires

\* What a retry's worker does keeps the invariant: it goes inside only with the
\* lock free, and effect and result change together.
LEMMA RetryRunStepHolds ==
  ASSUME IInv(Others), NEW c \in Retries, NEW n \in Attempts, RetryRunStep(c, n)
  PROVE  IInv(Others)'
<1> USE DEF RetryRunStep, RetryDecides, RetrySettles
<1>1. c \in Commands
  BY RetriesAssumption
<1>2. UNCHANGED roleVars
  BY DEF LockJobRetryCommand, DecideRetry, RetryRollsBack, CompleteOperationsJob, FailOperationsJob,
         RetryWorkerDies, WorkerDies
<1>3. job' \in [Commands -> Job]
  <2>1. CASE CompleteOperationsJob(c, n) \/ FailOperationsJob(c, n)
    BY <1>1, <2>1, JobStaysInType DEF CompleteOperationsJob, FailOperationsJob, IInv, TypeOK
  <2>2. CASE ~(CompleteOperationsJob(c, n) \/ FailOperationsJob(c, n))
    BY <2>2 DEF LockJobRetryCommand, DecideRetry, RetryRollsBack, RetryWorkerDies, WorkerDies, IInv, TypeOK
  <2>3. QED
    BY <2>1, <2>2
<1>4. /\ command' \in [Commands -> Terminal \cup {"absent", "pending"}]
      /\ effects' \in [Commands -> Nat] /\ EffectIsResult'
  <2> USE DEF IInv, TypeOK, EffectIsResult, Terminal, Refusals
  <2>1. CASE DecideRetry(c, n)
    BY <1>1, <2>1 DEF DecideRetry
  <2>2. CASE FailOperationsJob(c, n)
    BY <1>1, <2>2 DEF FailOperationsJob, FailedWithJob
  <2>3. CASE ~DecideRetry(c, n) /\ ~FailOperationsJob(c, n)
    BY <2>3 DEF LockJobRetryCommand, RetryRollsBack, CompleteOperationsJob, RetryWorkerDies, WorkerDies
  <2>4. QED
    BY <2>1, <2>2, <2>3
<1>5. \E where \in Where : Goes(c, n, where) /\ (where = "inside" => LockFree)
  BY DEF LockJobRetryCommand, DecideRetry, RetryRollsBack, CompleteOperationsJob, FailOperationsJob,
         RetryWorkerDies, WorkerDies, Where
<1>6. QED
  BY <1>2, <1>3, <1>4, <1>5, QuietStepHolds

\* A change of the target is one of its own type.
LEMMA TargetStaysInType ==
  ASSUME TargetTyped, target # NoTarget,
         NEW status \in {"failed", "active", "succeeded"}, NEW spent \in BOOLEAN,
         NEW wanted \in BOOLEAN, Updated(target, status, spent, wanted)
  PROVE  target' \in Target
BY UpdatesAssumption DEF TargetTyped, Target, Updated

\* So is every change a step makes.
LEMMA TargetStays ==
  ASSUME RInv, RetryNext
  PROVE  TargetTyped'
<1> USE DEF RInv
<1>1. CASE TargetSettles
  <2>1. target # NoTarget /\ seen' = seen
    BY <1>1 DEF TargetSettles, NoTarget
  <2>2. target' \in Target
    BY <1>1, <2>1, TargetStaysInType DEF TargetSettles
  <2>3. QED
    BY <2>1, <2>2 DEF TargetTyped
<1>2. CASE RearmedElsewhere \/ SourceMovesOn
  <2>1. target # NoTarget /\ target.wanted \in BOOLEAN /\ seen' = seen
    BY <1>2 DEF RearmedElsewhere, SourceMovesOn, TargetTyped, Target
  <2>2. target' \in Target
    BY <1>2, <2>1, TargetStaysInType DEF RearmedElsewhere, SourceMovesOn, Rearmed, TargetTyped, Target
  <2>3. QED
    BY <2>1, <2>2 DEF TargetTyped
<1>3. ASSUME NEW c \in Retries, SubmitJobRetryCommand(c)
      PROVE  TargetTyped'
  <2>1. target' \in Target
    BY <1>3 DEF SubmitJobRetryCommand, FirstFailures, TargetTyped, NoTarget
  <2>2. QED
    BY <1>3, <2>1 DEF SubmitJobRetryCommand, TargetTyped, Target
<1>4. ASSUME NEW c \in Retries, NEW n \in Attempts, DecideRetry(c, n)
      PROVE  TargetTyped'
  <2>1. CASE target' = target
    BY <1>4, <2>1 DEF DecideRetry, TargetTyped
  <2>2. CASE Rearmable /\ Rearmed(target)
    <3>1. target # NoTarget /\ target.wanted \in BOOLEAN
      BY <2>2 DEF Rearmable, TargetTyped, Target, NoTarget
    <3>2. target' \in Target
      BY <2>2, <3>1, TargetStaysInType DEF Rearmed
    <3>3. QED
      BY <1>4, <3>2 DEF DecideRetry, TargetTyped
  <2>3. QED
    BY <1>4, <2>1, <2>2 DEF DecideRetry
<1>5. CASE UNCHANGED retryVars
  BY <1>5 DEF retryVars, TargetTyped
<1>6. QED
  BY <1>1, <1>2, <1>3, <1>4, <1>5
     DEF RetryNext, RetryStep, RetryRunStep, RetryDecides, RetrySettles, ClaimOperationsJob,
         OperationsLeaseExpires, ExhaustExpired, LockJobRetryCommand, RetryRollsBack,
         CompleteOperationsJob, FailOperationsJob, RetryWorkerDies

\* The invariant is inductive: every reachable state satisfies it, retries or not.
THEOREM RetryInductive == RetrySpec => []RInv
<1>1. RetryInit => RInv
  BY InitHolds, OthersAreCommands, UpdatesAssumption DEF RetryInit, RInv, TargetTyped
<1>2. ASSUME RInv, RetryNext
      PROVE  RInv'
  <2>1. IInv(Others)'
    <3>1. CASE \/ \E u \in Users : RoleStep(u)
               \/ \E c \in Others : JobStep(c)
               \/ \E c \in Others, n \in Attempts : RunStep(c, n)
      BY <1>2, <3>1, RoleStepHolds, JobStepHolds, RunStepHolds, OthersAreCommands DEF RInv
    <3>2. CASE \/ \E c \in Retries : RetryStep(c)
               \/ \E c \in Retries, n \in Attempts : RetryRunStep(c, n)
      BY <1>2, <3>2, RetryStepHolds, RetryRunStepHolds DEF RInv
    <3>3. CASE TargetSettles \/ RearmedElsewhere \/ SourceMovesOn
      <4>1. UNCHANGED vars
        BY <3>3 DEF TargetSettles, RearmedElsewhere, SourceMovesOn
      <4>2. QED
        BY <1>2, <4>1
           DEF RInv, IInv, TypeOK, OneChecked, NotBoth, CheckHolds, AuthorityHolds, EffectIsResult,
               Checked, Inside, Authorized, LastAdministrator, vars, roleVars, commandVars
    <3>4. QED
      BY <1>2, <3>1, <3>2, <3>3 DEF RetryNext
  <2>2. QED
    BY <1>2, <2>1, TargetStays DEF RInv
<1>3. RInv /\ UNCHANGED allVars => RInv'
  BY DEF RInv, IInv, TypeOK, OneChecked, NotBoth, CheckHolds, AuthorityHolds, EffectIsResult,
         Checked, Inside, Authorized, LastAdministrator, TargetTyped, allVars, retryVars, vars,
         roleVars, commandVars
<1>4. QED
  BY <1>1, <1>2, <1>3, PTL DEF RetrySpec

\* Roles, commands, jobs, workers, the target and what was seen of it stay in
\* their types.
THEOREM RetryTypeCorrect == RetrySpec => []RetryTypeOK
<1>1. RInv => RetryTypeOK
  BY DEF RInv, IInv, TargetTyped, RetryTypeOK
<1>2. QED
  BY <1>1, RetryInductive, PTL

-----------------------------------------------------------------------------
\* Attempt n carries retry c out.
Carries(c, n) ==
  /\ DecideRetry(c, n)
  /\ Authorized(c) /\ SameFailure(c) /\ Rearmable /\ Rearmed(target)
  /\ command' = [command EXCEPT ![c] = "succeeded"]
  /\ effects' = [effects EXCEPT ![c] = @ + 1]

\* A retry's steps leave roles alone, and only one of them has an effect.
LEMMA RetryLeaves ==
  ASSUME NEW c \in Retries, RetryStep(c) \/ \E n \in Attempts : RetryRunStep(c, n)
  PROVE  /\ UNCHANGED roleVars
         /\ effects' = effects \/ \E n \in Attempts : Carries(c, n)
<1>1. CASE SubmitJobRetryCommand(c)
  BY <1>1 DEF SubmitJobRetryCommand, SubmitCommand
<1>2. CASE ClaimOperationsJob(c) \/ OperationsLeaseExpires(c)
  BY <1>2 DEF ClaimOperationsJob, ClaimJob, OperationsLeaseExpires, LeaseExpires
<1>3. CASE ExhaustExpired(c)
  BY <1>3 DEF ExhaustExpired
<1>4. CASE \E n \in Attempts : RetryRunStep(c, n)
  <2>1. PICK n \in Attempts : RetryRunStep(c, n)
    BY <1>4
  <2>2. CASE LockJobRetryCommand(c, n)
    BY <2>2 DEF LockJobRetryCommand
  <2>3. CASE DecideRetry(c, n)
    BY <2>3 DEF DecideRetry, Carries
  <2>4. CASE RetryRollsBack(c, n)
    BY <2>4 DEF RetryRollsBack
  <2>5. CASE CompleteOperationsJob(c, n)
    BY <2>5 DEF CompleteOperationsJob
  <2>6. CASE FailOperationsJob(c, n)
    BY <2>6 DEF FailOperationsJob
  <2>7. CASE RetryWorkerDies(c, n)
    BY <2>7 DEF RetryWorkerDies, WorkerDies
  <2>8. QED
    BY <2>1, <2>2, <2>3, <2>4, <2>5, <2>6, <2>7 DEF RetryRunStep, RetryDecides, RetrySettles
<1>5. QED
  BY <1>1, <1>2, <1>3, <1>4 DEF RetryStep

\* Only role changes touch roles, and only two steps change what commands have
\* done: a financial command that succeeds, and a retry that is carried out.
LEMMA WhoHasEffect ==
  ASSUME RetryNext
  PROVE  /\ (\E u \in Users : RoleStep(u)) \/ UNCHANGED roleVars
         /\ \/ effects' = effects
            \/ \E c \in Others, n \in Attempts : CommandSucceeds(c, n)
            \/ \E c \in Retries, n \in Attempts : Carries(c, n)
<1>1. CASE \E u \in Users : RoleStep(u)
  BY <1>1, RoleStepLeaves DEF commandVars
<1>2. CASE \E c \in Others : JobStep(c)
  BY <1>2, JobStepLeaves DEF Others
<1>3. CASE \E c \in Others, n \in Attempts : RunStep(c, n)
  BY <1>3, RunStepLeaves DEF Others
<1>4. CASE \E c \in Retries : RetryStep(c) \/ \E n \in Attempts : RetryRunStep(c, n)
  BY <1>4, RetryLeaves
<1>5. CASE TargetSettles \/ RearmedElsewhere \/ SourceMovesOn
  BY <1>5 DEF TargetSettles, RearmedElsewhere, SourceMovesOn, vars, roleVars, commandVars
<1>6. QED
  BY <1>1, <1>2, <1>3, <1>4, <1>5 DEF RetryNext

\* Beside retries too, two administrators who demote each other do not both
\* succeed.
THEOREM RetryAdministratorRemains == RetrySpec => AlwaysAdministered
<1>1. ASSUME RInv, RetryNext, admins # {}
      PROVE  admins' # {}
  <2>1. CASE \E u \in Users : RoleStep(u)
    BY <2>1, <1>1, RoleStepKeepsOne DEF RInv, IInv
  <2>2. CASE ~\E u \in Users : RoleStep(u)
    BY <2>2, <1>1, WhoHasEffect DEF roleVars
  <2>3. QED
    BY <2>1, <2>2
<1>2. ASSUME UNCHANGED allVars
      PROVE  UNCHANGED vars
  BY <1>2 DEF allVars
<1>3. RInv /\ [RetryNext]_allVars => [admins # {} => admins' # {}]_vars
  BY <1>1, <1>2
<1>4. QED
  BY <1>3, RetryInductive, PTL DEF RetrySpec, AlwaysAdministered

\* A command of either kind is carried out at most once, with its result, by an
\* administrator of that moment.
THEOREM RetryEffectIsAuthorized == RetrySpec => OnceByAnAdministrator
<1> DEFINE Once(c) == effects'[c] # effects[c] =>
                        /\ effects[c] = 0 /\ effects'[c] = 1
                        /\ command'[c] = "succeeded"
                        /\ ActorOf[c] \in admins /\ ActorOf[c] \in admins'
<1>1. ASSUME RInv, RetryNext, effects' # effects, NEW c \in Commands
      PROVE  Once(c)
  <2>1. CASE \E d \in Others, n \in Attempts : CommandSucceeds(d, n)
    <3>1. PICK d \in Others, n \in Attempts : CommandSucceeds(d, n)
      BY <2>1
    <3>2. d \in Commands /\ effects[d] = 0 /\ Authorized(d)
      BY <3>1, <1>1 DEF CommandSucceeds, RInv, IInv, EffectIsResult, AuthorityHolds, Inside, Others
    <3>3. effects' = [effects EXCEPT ![d] = 1] /\ command' = [command EXCEPT ![d] = "succeeded"]
      BY <3>1, <3>2 DEF CommandSucceeds
    <3>4. admins' = admins
      BY <3>1 DEF CommandSucceeds, roleVars
    <3>5. QED
      BY <1>1, <3>2, <3>3, <3>4 DEF RInv, IInv, TypeOK, Authorized
  <2>2. CASE \E d \in Retries, n \in Attempts : Carries(d, n)
    <3>1. PICK d \in Retries, n \in Attempts : Carries(d, n)
      BY <2>2
    <3>2. d \in Commands /\ effects[d] = 0 /\ admins' = admins
      BY <3>1, <1>1, RetriesAssumption DEF Carries, DecideRetry, RInv, IInv, EffectIsResult, roleVars
    <3>3. QED
      BY <1>1, <3>1, <3>2 DEF Carries, RInv, IInv, TypeOK, Authorized
  <2>3. QED
    BY <1>1, <2>1, <2>2, WhoHasEffect
<1>2. ASSUME UNCHANGED allVars
      PROVE  UNCHANGED vars
  BY <1>2 DEF allVars
<1>3. RInv /\ [RetryNext]_allVars => [\A c \in Commands : Once(c)]_vars
  BY <1>1, <1>2
<1>4. QED
  BY <1>3, RetryInductive, PTL DEF RetrySpec, OnceByAnAdministrator

\* A job is started again, by a retry, a redelivery or a replay, only while its
\* source wants it; by a retry only from the very failure that was named.
THEOREM RetryOfWhatWasSeen == RetrySpec => OnlyTheFailureSeen
<1> DEFINE Seen(c) == effects'[c] # effects[c] =>
                        target.updated = seen[c] /\ target'.status = "active"
           Starts == target # NoTarget /\ target.status # "active" /\ target'.status = "active"
<1>1. ASSUME RInv, RetryNext, NEW c \in Retries
      PROVE  Seen(c)
  <2>1. ASSUME effects'[c] # effects[c]
        PROVE  target.updated = seen[c] /\ target'.status = "active"
    <3>1. c \in Commands /\ c \notin Others /\ Others \subseteq Commands
      BY RetriesAssumption DEF Others
    <3>2. ~\E d \in Others, n \in Attempts : CommandSucceeds(d, n)
      BY <1>1, <2>1, <3>1 DEF CommandSucceeds, RInv, IInv, TypeOK
    <3>3. PICK d \in Retries, n \in Attempts :
             /\ SameFailure(d) /\ Rearmed(target)
             /\ effects' = [effects EXCEPT ![d] = @ + 1]
      BY <1>1, <2>1, <3>2, WhoHasEffect DEF Carries
    <3>4. d = c
      BY <1>1, <2>1, <3>1, <3>3 DEF RInv, IInv, TypeOK
    <3>5. QED
      BY <3>3, <3>4 DEF SameFailure, Rearmed, Updated
  <2>2. QED
    BY <2>1
<1>2. ASSUME RInv, RetryNext, Starts
      PROVE  target.wanted
  <2>1. target \in Target
    BY <1>2 DEF RInv, TargetTyped
  <2>2. CASE Rearmable
    BY <2>2 DEF Rearmable
  <2>3. CASE ~Rearmable
    <3>1. target' # target
      BY <1>2
    <3>2. \/ TargetSettles \/ SourceMovesOn
          \/ \E c \in Retries : SubmitJobRetryCommand(c)
      BY <1>2, <2>3, <3>1
         DEF RetryNext, retryVars, RetryStep, ClaimOperationsJob, OperationsLeaseExpires,
             ExhaustExpired, RetryRunStep, RetryDecides, RetrySettles, LockJobRetryCommand,
             DecideRetry, RetryRollsBack, CompleteOperationsJob, FailOperationsJob,
             RetryWorkerDies, RearmedElsewhere
    <3>3. QED
      BY <1>2, <2>1, <3>2 DEF TargetSettles, Updated, SourceMovesOn, SubmitJobRetryCommand, Target
  <2>4. QED
    BY <2>2, <2>3
<1>3. RInv /\ [RetryNext]_allVars => [(\A c \in Retries : Seen(c)) /\ (Starts => target.wanted)]_allVars
  BY <1>1, <1>2
<1>4. QED
  BY <1>3, RetryInductive, PTL DEF RetrySpec, OnlyTheFailureSeen
=============================================================================
