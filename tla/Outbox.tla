------------------------------- MODULE Outbox -------------------------------
(***************************************************************************)
(* The transactional outbox (outbox/repository.ts) and the handler of its  *)
(* dispatch jobs (outbox/dispatcher.ts), run by the slots of JobQueue.     *)
(*                                                                         *)
(* A message and its dispatch job are written in one transaction, so they  *)
(* share the identity m \in Jobs and neither exists without the other. The *)
(* handler reads the message, calls the topic's handler (the side effect:  *)
(* an e-mail leaves) and records the result, in three steps with no lock   *)
(* between them; a lease lost meanwhile lets a second slot do the same.    *)
(***************************************************************************)
EXTENDS JobQueue

CONSTANT Unroutable   \* messages whose topic has no registered handler

ASSUME UnroutableAssumption == Unroutable \subseteq Jobs

VARIABLES
  message,   \* [Jobs -> MessageStatus]: table outbox_messages
  stage,     \* [Slots -> Stage]: how far the dispatch handler of a slot is
  cause,     \* [Slots -> Outcome]: the error it is about to record
  sent       \* history: how often the side effect of a message happened

boxVars == <<message, stage, cause, sent>>
allVars == <<vars, boxVars>>

MessageStatus == {"absent", "pending", "delivered", "failed"}
Stage == {"none", "reading", "sending", "delivering", "failing"}

\* Types, and: a message exists exactly when its dispatch job does.
BoxTypeOK ==
  /\ message \in [Jobs -> MessageStatus]
  /\ stage \in [Slots -> Stage]
  /\ cause \in [Slots -> Outcome]
  /\ sent \in [Jobs -> Nat]
  /\ \A m \in Jobs : message[m] = "absent" <=> row[m].status = "absent"

BoxInit ==
  /\ Init
  /\ message = [m \in Jobs |-> "absent"]
  /\ stage = [s \in Slots |-> "none"]
  /\ cause = [s \in Slots |-> "none"]
  /\ sent = [m \in Jobs |-> 0]

Msg(s) == slot[s].job

\* the handler of s ends with this outcome
Returns(s, outcome) ==
  /\ HandlerReturns(s, outcome)
  /\ stage' = [stage EXCEPT ![s] = "none"]
  /\ cause' = [cause EXCEPT ![s] = "none"]

Advances(s, to) ==
  /\ stage' = [stage EXCEPT ![s] = to]
  /\ UNCHANGED vars

(***************************************************************************)
(* The same key with the same contents finds the message that is there;    *)
(* with other contents it is an error of the caller. Neither writes.       *)
(***************************************************************************)
EnqueueOutboxMessage(m) ==
  /\ message[m] = "absent"
  /\ EnqueueJob(m)
  /\ message' = [message EXCEPT ![m] = "pending"]
  /\ UNCHANGED <<stage, cause, sent>>

AlreadyDelivered(m) == message[m] = "delivered"

ReadMessage(s) ==
  /\ stage[s] = "reading"
  /\ UNCHANGED <<message, sent>>
  /\ \/ AlreadyDelivered(Msg(s)) /\ Returns(s, "ok")
     \/ /\ ~AlreadyDelivered(Msg(s))
        /\ Msg(s) \in Unroutable
        /\ cause' = [cause EXCEPT ![s] = "permanent"]
        /\ Advances(s, "failing")
     \/ /\ ~AlreadyDelivered(Msg(s))
        /\ Msg(s) \notin Unroutable
        /\ Advances(s, "sending")
        /\ UNCHANGED cause

TopicHandlerSucceeds(s) ==
  /\ stage[s] = "sending"
  /\ sent' = [sent EXCEPT ![Msg(s)] = @ + 1]
  /\ Advances(s, "delivering")
  /\ UNCHANGED <<message, cause>>

\* the topic handler rejects (its signal may have aborted it), after or
\* before the side effect
TopicHandlerThrows(s) ==
  /\ stage[s] = "sending"
  /\ \E c \in {"transient", "permanent"} : cause' = [cause EXCEPT ![s] = c]
  /\ \E n \in {0, 1} : sent' = [sent EXCEPT ![Msg(s)] = @ + n]
  /\ Advances(s, "failing")
  /\ UNCHANGED message

Delivered(m) == message' = [message EXCEPT ![m] = "delivered"]

\* mutant: an update of any row passes
MayFail_always(m) == TRUE
\* outbox_delivered_has_timestamp: the update sets no delivered_at, so the
\* database refuses it for a message that has one
MayFail(m) == message[m] # "delivered"

RecordDelivered(s) ==
  /\ stage[s] = "delivering"
  /\ Delivered(Msg(s))
  /\ Returns(s, "ok")
  /\ UNCHANGED sent

RecordFailure(s) ==
  /\ stage[s] = "failing"
  /\ \/ /\ MayFail(Msg(s))
        /\ message' = [message EXCEPT ![Msg(s)] = "failed"]
        /\ Returns(s, cause[s])
     \/ /\ ~MayFail(Msg(s))
        /\ UNCHANGED message
        /\ Returns(s, "transient")
  /\ UNCHANGED sent

\* the database call of a stage throws; an update may have committed
StoreThrows(s) ==
  /\ stage[s] \in {"reading", "delivering", "failing"}
  /\ \/ UNCHANGED message
     \/ stage[s] = "delivering" /\ Delivered(Msg(s))
     \/ /\ stage[s] = "failing"
        /\ MayFail(Msg(s))
        /\ message' = [message EXCEPT ![Msg(s)] = "failed"]
  /\ Returns(s, "transient")
  /\ UNCHANGED sent

(***************************************************************************)
(* Everything else the queue does: a claim starts a handler at its first   *)
(* stage, a crash ends it wherever it was, a lost lease does not.          *)
(***************************************************************************)
HandlersFollow ==
  /\ stage' = [s \in Slots |-> IF slot'[s].pc # "handling" THEN "none"
                               ELSE IF Handling(s) THEN stage[s] ELSE "reading"]
  /\ cause' = [s \in Slots |-> IF slot'[s].pc = "handling" THEN cause[s] ELSE "none"]
  /\ UNCHANGED <<message, sent>>

QueueStep ==
  \/ \E m \in Jobs : Time(m)
  \/ \E p \in Procs : Process(p)
  \/ \E s \in Slots : \/ Poll(s)
                      \/ RenewLease(s) \/ RenewLeaseThrows(s)
                      \/ SettlesSuccess(s) \/ CompleteThrows(s)
                      \/ SettlesFailure(s) \/ SettleFailureThrows(s)

Dispatch(s) ==
  \/ ReadMessage(s)
  \/ TopicHandlerSucceeds(s)
  \/ TopicHandlerThrows(s)
  \/ RecordDelivered(s)
  \/ RecordFailure(s)
  \/ StoreThrows(s)

BoxNext ==
  \/ QueueStep /\ HandlersFollow
  \/ \E m \in Jobs : EnqueueOutboxMessage(m)
  \/ \E s \in Slots : Dispatch(s)

BoxSpec == BoxInit /\ [][BoxNext]_allVars

BoxFairness ==
  /\ \A p \in Procs : WF_allVars(StartProcess(p) /\ HandlersFollow)
  /\ \A m \in Jobs : /\ WF_allVars(LeaseExpires(m) /\ HandlersFollow)
                     /\ WF_allVars(BecomesDue(m) /\ HandlersFollow)
  /\ WF_allVars(/\ \E s \in Slots, m \in Jobs : ClaimNext(s, m) \/ ClaimNextFailsExpired(s, m)
                /\ HandlersFollow)
  /\ \A s \in Slots : /\ WF_allVars(Dispatch(s))
                      /\ WF_allVars(SettlesSuccess(s) /\ HandlersFollow)
                      /\ WF_allVars(SettlesFailure(s) /\ HandlersFollow)

BoxFairSpec == BoxSpec /\ BoxFairness

-----------------------------------------------------------------------------
(* Properties                                                              *)

\* The job, the message and the world agree: a job has succeeded only with its
\* message delivered, also when a handler that lost its lease fails later and
\* writes its failure without looking; and that only once it was sent, again
\* after a crash or a lost lease, but never more often than the job has used
\* attempts.
SucceededIsDelivered ==
  \A m \in Jobs :
    /\ row[m].status = "succeeded" => message[m] = "delivered"
    /\ message[m] = "delivered" => sent[m] > 0
    /\ sent[m] <= row[m].attempts

\* Every message is delivered or its job fails; none waits for ever.
EveryMessageDecided ==
  \A m \in Jobs : message[m] # "absent" ~>
                    (message[m] = "delivered" \/ row[m].status = "failed")
=============================================================================
