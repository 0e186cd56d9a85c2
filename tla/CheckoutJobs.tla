---------------------------- MODULE CheckoutJobs ----------------------------
(***************************************************************************)
(* The checkout beside the jobs of its events, where attempts are counted. *)
(* A job is claimed a limited number of times, and only while the claim    *)
(* query lets the jobs of events through (JobQueue); when it has failed,   *)
(* only another delivery of the event arms it again, and the provider      *)
(* need not deliver an event again that was answered.                      *)
(***************************************************************************)
EXTENDS Checkout

CONSTANT MaxTries   \* attempts of an event's job (twelve in the code)

ASSUME MaxTriesAssumption == MaxTries \in Nat \ {0}

VARIABLES
  tries,    \* [Events -> attempts used], while the event is pending
  failed,   \* pending events whose job failed, its attempts used up
  held      \* the claim query refuses the jobs of events

jobVars == <<vars, tries, failed, held>>

JobTypeOK ==
  /\ TypeOK
  /\ tries \in [Events -> 0..MaxTries]
  /\ failed \subseteq Events
  /\ held \in BOOLEAN

JobInit ==
  /\ Init
  /\ tries = [e \in Events |-> 0]
  /\ failed = {}
  /\ held = FALSE

-----------------------------------------------------------------------------
JobsAlone == UNCHANGED <<tries, failed, held>>

\* an attempt begins: its handler runs, beside another one whose lease ran out
Claim(h, e) ==
  /\ ~held
  /\ tries[e] < MaxTries
  /\ tries' = [tries EXCEPT ![e] = @ + 1]
  /\ RetrieveCheckoutSession(h, e)
  /\ UNCHANGED <<failed, held>>

\* after the last attempt, or beside it when its lease ran out
JobFails(e) ==
  /\ event[e] = "pending"
  /\ tries[e] = MaxTries
  /\ e \notin failed
  /\ failed' = failed \cup {e}
  /\ UNCHANGED <<vars, tries, held>>

\* the event is delivered again: a pending one whose job has failed gets its
\* attempts back, any other stays as it is
RearmPendingStripeEventJob(e) ==
  /\ event[e] = "pending"
  /\ e \in failed
  /\ failed' = failed \ {e}
  /\ tries' = [tries EXCEPT ![e] = 0]
  /\ UNCHANGED <<vars, held>>

\* a replay of the ledger begins or ends, or an implementation is switched
GateChanges ==
  /\ held' = ~held
  /\ UNCHANGED <<vars, tries, failed>>

\* what a handler does after it has begun
Proceeds(h) ==
  RetrievePayment(h) \/ FulfillCheckoutEvent(h) \/ RecordFulfillmentException(h)

\* ... and nothing is asked any more of the job of an event that is settled
GoesOn(h) ==
  /\ Proceeds(h)
  /\ tries' = [e \in Events |-> IF event'[e] = "pending" THEN tries[e] ELSE 0]
  /\ failed' = {e \in failed : event'[e] = "pending"}
  /\ UNCHANGED held

JobNext ==
  \/ \E s \in Sessions : Provider(s) /\ JobsAlone
  \/ \E r \in Requests : Web(r) /\ JobsAlone
  \/ \E e \in Events : AcceptStripeEvent(e) /\ JobsAlone
  \/ \E h \in Handlers : GoesOn(h) \/ (HandlerStops(h) /\ JobsAlone)
  \/ \E h \in Handlers, e \in Events : Claim(h, e)
  \/ \E e \in Events : JobFails(e) \/ RearmPendingStripeEventJob(e)
  \/ GateChanges

JobSpec == JobInit /\ [][JobNext]_jobVars

Attempted(e) == \E h \in Handlers : handler[h].event = e

(***************************************************************************)
(* The provider delivers until it is answered, and perhaps never again. A  *)
(* job that may be claimed again and again is claimed: the query takes the *)
(* one that is due longest, and whatever fails or is armed meanwhile is    *)
(* due later. A handler does not stand still, but any attempt may stop     *)
(* short. A job whose last attempt is over is settled, or recovered by a   *)
(* claim, which has to pass the same gate.                                 *)
(***************************************************************************)
Fairness ==
  /\ \A e \in Events : /\ WF_jobVars(AcceptStripeEvent(e) /\ JobsAlone)
                       /\ SF_jobVars(\E h \in Handlers : Claim(h, e))
                       /\ WF_jobVars(~held /\ ~Attempted(e) /\ JobFails(e))
  /\ \A h \in Handlers : WF_jobVars(GoesOn(h))

FairJobSpec == JobSpec /\ Fairness

-----------------------------------------------------------------------------
\* the event that told last how the payment stands
Telling(s) ==
  IF event[<<s, "async_succeeded">>] = "unsent" THEN <<s, "completed">>
                                                ELSE <<s, "async_succeeded">>

\* Money taken is followed by a paid order, or by the failed job of the event
\* that tells of it, which administrators see: attempts are limited, handlers
\* may crash, and nobody need deliver the event again. It does not remain
\* unpaid in silence, unless the claim query refuses the jobs of events again
\* and again.
PaidIsFulfilled ==
  <>[]~held => \A s \in Sessions :
    provider[s].pay = "succeeded" ~> (order.status = "paid" \/ Telling(s) \in failed)
=============================================================================
