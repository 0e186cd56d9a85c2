------------------------------ MODULE Checkout ------------------------------
(***************************************************************************)
(* The checkout of one order: web requests accept the order, create the    *)
(* provider's session and attach it (commerce/orders.ts); the provider     *)
(* takes the payment and emits events; handlers of the events' jobs read   *)
(* the session, then the payment, and apply what they read in one          *)
(* transaction that locks event, order and payment (commerce/handler.ts,   *)
(* commerce/fulfillment.ts).                                               *)
(*                                                                         *)
(* What a handler read may be old when it is applied: handlers of one      *)
(* event overlap (JobQueue), events are handled in any order, and the      *)
(* provider moves on. A handler or a request may vanish at any point.      *)
(* Here a job may be tried for ever; CheckoutJobs limits the attempts.     *)
(***************************************************************************)
EXTENDS Naturals, FiniteSets

CONSTANTS
  Sessions,   \* sessions the provider may create for the order's idempotency key:
              \* one, unless it forgets the key
  Handlers,   \* jobs running at the same time
  Requests,   \* web requests running at the same time
  None        \* no session

ASSUME NoneAssumption == None \notin Sessions

Kinds == {"completed", "async_succeeded", "async_failed", "expired"}
Events == Sessions \X Kinds

VARIABLES
  order,      \* [status, session]: the row of orders
  payment,    \* status of the row of payments, "none" when there is none
  granted,    \* how often the order was finalized: grants and receipt
  event,      \* [Events -> status of the row of stripe_events, or before it]
  handler,    \* [Handlers -> what a running handler has read]
  request,    \* [Requests -> how far a web request is]
  provider,   \* external: [Sessions -> session status and payment state]
  handed      \* external: the sessions whose URL a customer received

vars == <<order, payment, granted, event, handler, request, provider, handed>>

OrderStatus == {"none", "checkout_pending", "checkout_open", "payment_pending",
                "paid", "failed", "expired", "exception"}
PayState == {"none", "pending", "failed", "succeeded"}
SessionState == {"absent", "open", "complete", "expired"}
EventStatus == {"unsent", "emitted", "pending", "processed", "exception"}
Idle == [pc |-> "idle", event |-> None, session |-> "absent", paid |-> FALSE, pay |-> "none"]
NoRequest == [pc |-> "idle", session |-> None]

\* Types, and: an order that left checkout_pending knows its session, unless a
\* conflict made it an exception.
TypeOK ==
  /\ order \in [status : OrderStatus, session : Sessions \cup {None}]
  /\ payment \in PayState
  /\ granted \in Nat
  /\ event \in [Events -> EventStatus]
  /\ handler \in [Handlers -> [pc : {"idle", "session", "evidence", "rejected"},
                               event : Events \cup {None},
                               session : SessionState, paid : BOOLEAN,
                               pay : PayState]]
  /\ request \in [Requests -> [pc : {"idle", "accepted", "created"},
                               session : Sessions \cup {None}]]
  /\ provider \in [Sessions -> [session : SessionState, pay : PayState]]
  /\ handed \subseteq Sessions
  /\ order.session = None => order.status \in {"none", "checkout_pending", "exception"}

Init ==
  /\ order = [status |-> "none", session |-> None]
  /\ payment = "none"
  /\ granted = 0
  /\ event = [e \in Events |-> "unsent"]
  /\ handler = [h \in Handlers |-> Idle]
  /\ request = [r \in Requests |-> NoRequest]
  /\ provider = [s \in Sessions |-> [session |-> "absent", pay |-> "none"]]
  /\ handed = {}

-----------------------------------------------------------------------------
(* The provider and its customer                                           *)

Emit(s, kind) == event' = [event EXCEPT ![<<s, kind>>] = "emitted"]
External == UNCHANGED <<order, payment, granted, handler, request, handed>>

\* the customer submits the form; the payment settles at once or later
CustomerPays(s) ==
  /\ s \in handed
  /\ provider[s].session = "open"
  /\ \E p \in {"pending", "succeeded"} :
       provider' = [provider EXCEPT ![s] = [session |-> "complete", pay |-> p]]
  /\ Emit(s, "completed")
  /\ External

AsyncPaymentSucceeds(s) ==
  /\ provider[s].session = "complete"
  /\ provider[s].pay \in {"pending", "failed"}
  /\ provider' = [provider EXCEPT ![s].pay = "succeeded"]
  /\ Emit(s, "async_succeeded")
  /\ External

AsyncPaymentFails(s) ==
  /\ provider[s].session = "complete"
  /\ provider[s].pay = "pending"
  /\ provider' = [provider EXCEPT ![s].pay = "failed"]
  /\ Emit(s, "async_failed")
  /\ External

SessionExpires(s) ==
  /\ provider[s].session = "open"
  /\ provider' = [provider EXCEPT ![s].session = "expired"]
  /\ Emit(s, "expired")
  /\ External

-----------------------------------------------------------------------------
(* Web requests                                                            *)

Requesting(r, pc) == request[r].pc = pc
Step(r, pc, s) == request' = [request EXCEPT ![r] = [pc |-> pc, session |-> s]]
Checkoutable == {"checkout_pending", "checkout_open"}
Replaceable == Checkoutable \cup {"payment_pending"}

\* accepts the order, or finds it and goes on with it
CreateAcceptedOrder(r) ==
  /\ Requesting(r, "idle")
  /\ \/ /\ order.status = "none"
        /\ order' = [order EXCEPT !.status = "checkout_pending"]
     \/ /\ order.status \in Checkoutable
        /\ UNCHANGED order
  /\ Step(r, "accepted", None)
  /\ UNCHANGED <<payment, granted, event, handler, provider, handed>>

\* the idempotency key is the order's id: a key the provider knows returns
\* the session it created for it
CreateCheckoutSession(r) ==
  /\ Requesting(r, "accepted")
  /\ \E s \in Sessions :
       /\ provider' = [provider EXCEPT ![s].session = IF @ = "absent" THEN "open" ELSE @]
       /\ Step(r, "created", s)
  /\ UNCHANGED <<order, payment, granted, event, handler, handed>>

Attached(s) == order.session = s /\ order.status \in Checkoutable

\* the order has no session yet and may take this one
Attachable == order.session = None /\ order.status = "checkout_pending"

AfterConflict_anyStatus(s) == \* mutant: a paid order is marked as well
  IF order.session # s THEN [order EXCEPT !.status = "exception"] ELSE order
AfterConflict(s) ==
  IF order.session # s /\ order.status \in Replaceable
  THEN [order EXCEPT !.status = "exception"] ELSE order

(***************************************************************************)
(* attachCheckoutSession. late: the session's expiry has passed by the     *)
(* clock of the request. The URL is returned only when nothing conflicts.  *)
(***************************************************************************)
AttachCheckoutSession(r) ==
  LET s == request[r].session IN
  /\ Requesting(r, "created")
  /\ \E late \in BOOLEAN :
       /\ provider[s].session = "expired" => late
       /\ \/ /\ Attached(s)
             /\ order' = [order EXCEPT !.status = "checkout_open"]
             /\ handed' = handed \cup {s}
          \/ /\ Attachable
             /\ order' = [status |-> "checkout_open", session |-> s]
             /\ handed' = IF late THEN handed ELSE handed \cup {s}
          \/ /\ ~Attached(s)
             /\ ~Attachable
             /\ order' = AfterConflict(s)
             /\ UNCHANGED handed
  /\ Step(r, "idle", None)
  /\ UNCHANGED <<payment, granted, event, handler, provider>>

\* the request ends where it is: a refusal, an error, a lost answer, a crash
AbandonRequest(r) ==
  /\ ~Requesting(r, "idle")
  /\ Step(r, "idle", None)
  /\ UNCHANGED <<order, payment, granted, event, handler, provider, handed>>

-----------------------------------------------------------------------------
(* Webhooks and the handlers of their jobs                                 *)

\* stores the event and enqueues its job; repeated deliveries change nothing
\* here (CheckoutJobs says what they do to the job)
AcceptStripeEvent(e) ==
  /\ event[e] = "emitted"
  /\ event' = [event EXCEPT ![e] = "pending"]
  /\ UNCHANGED <<order, payment, granted, handler, request, provider, handed>>

Running(h, pc) == handler[h].pc = pc
Ends(h) == handler' = [handler EXCEPT ![h] = Idle]
Session(h) == handler[h].event[1]

\* the snapshot says whether the session is paid, not how its payment stands
RetrieveCheckoutSession(h, e) ==
  /\ Running(h, "idle")
  /\ event[e] = "pending"
  /\ handler' = [handler EXCEPT ![h] =
                   [pc |-> "session", event |-> e, session |-> provider[e[1]].session,
                    paid |-> provider[e[1]].pay = "succeeded", pay |-> "none"]]
  /\ UNCHANGED <<order, payment, granted, event, request, provider, handed>>

\* mutant: the two reads are not compared
Consistent_always(paid, pay) == TRUE
Consistent(paid, pay) == paid <=> pay = "succeeded"

\* two reads that disagree are a retryable error: the job tries again
RetrievePayment(h) ==
  LET pay == provider[Session(h)].pay IN
  /\ Running(h, "session")
  /\ \/ /\ Consistent(handler[h].paid, pay)
        /\ handler' = [handler EXCEPT ![h].pc = "evidence", ![h].pay = pay]
     \/ ~Consistent(handler[h].paid, pay) /\ Ends(h)
  /\ UNCHANGED <<order, payment, granted, event, request, provider, handed>>

(***************************************************************************)
(* validateFulfillmentCommand: what the evidence asks for. "none" is       *)
(* evidence that contradicts itself, a permanent error.                    *)
(***************************************************************************)
Command(h) ==
  LET v == handler[h] IN
  CASE v.session = "expired" /\ ~v.paid -> "expired"
    [] v.session = "complete" /\ v.paid /\ v.pay = "succeeded" -> "paid"
    [] v.session = "complete" /\ ~v.paid /\ v.pay \in {"pending", "failed"} -> v.pay
    [] OTHER -> "none"

SessionMatches_any(s) == TRUE \* mutant: the session is not compared
\* the order knows this session, or none while it waits for one
SessionMatches(s) ==
  order.session = s \/ (order.session = None /\ order.status = "checkout_pending")

Rejects(h) ==
  \/ Command(h) = "none"
  \/ ~SessionMatches(Session(h))
  \/ order.status = "exception"
  \/ order.status = "expired" /\ Command(h) # "expired"
  \/ payment = "succeeded" /\ order.status # "paid" /\ Command(h) \in {"pending", "failed"}

StoredPayment_latest(command) == \* mutant: a failure is overwritten
  CASE command = "paid" -> "succeeded"
    [] command = "failed" -> "failed"
    [] command = "pending" -> "pending"
    [] OTHER -> payment
\* storePaymentEvidence: a failure is only overwritten by a success
StoredPayment(command) ==
  CASE command = "paid" -> "succeeded"
    [] command = "failed" -> "failed"
    [] command = "pending" -> IF payment = "failed" THEN "failed" ELSE "pending"
    [] OTHER -> payment

\* mutant: only an order that waits becomes paid
OrderAfter_waiting(command) ==
  CASE command = "paid" /\ order.status \in Replaceable -> "paid"
    [] command = "pending" /\ order.status \in Checkoutable -> "payment_pending"
    [] command = "failed" /\ order.status \in Replaceable -> "failed"
    [] command = "expired" /\ order.status \in Replaceable \cup {"failed"} -> "expired"
    [] OTHER -> order.status
OrderAfter(command) ==
  CASE command = "paid" -> "paid"
    [] command = "pending" /\ order.status \in Checkoutable -> "payment_pending"
    [] command = "failed" /\ order.status \in Replaceable -> "failed"
    [] command = "expired" /\ order.status \in Replaceable \cup {"failed"} -> "expired"
    [] OTHER -> order.status

\* mutant: a paid order is finalized again
AlreadyDone_never == FALSE
\* nothing is left to do for an order that is paid or expired
AlreadyDone == order.status \in {"paid", "expired"}

Applies(command, s) ==
  /\ payment' = StoredPayment(command)
  /\ order' = IF OrderAfter(command) = order.status THEN order
              ELSE [status |-> OrderAfter(command), session |-> s]
  /\ granted' = IF command = "paid" THEN granted + 1 ELSE granted

StillPending(e) == event[e] = "pending"

\* fulfillCheckoutEvent: one transaction, or none of it when it rejects
FulfillCheckoutEvent(h) ==
  LET e == handler[h].event IN
  /\ Running(h, "evidence")
  /\ \/ /\ ~StillPending(e)
        /\ Ends(h)
        /\ UNCHANGED <<order, payment, granted, event>>
     \/ /\ StillPending(e)
        /\ Rejects(h)
        /\ handler' = [handler EXCEPT ![h].pc = "rejected"]
        /\ UNCHANGED <<order, payment, granted, event>>
     \/ /\ StillPending(e)
        /\ ~Rejects(h)
        /\ IF AlreadyDone THEN UNCHANGED <<order, payment, granted>>
                          ELSE Applies(Command(h), Session(h))
        /\ event' = [event EXCEPT ![e] = "processed"]
        /\ Ends(h)
  /\ UNCHANGED <<request, provider, handed>>

Markable == order.status \notin {"paid", "expired"}

\* recordFulfillmentException, in a transaction of its own: the order of this
\* session, or the order that waits for one, becomes an exception
RecordFulfillmentException(h) ==
  LET e == handler[h].event IN
  /\ Running(h, "rejected")
  /\ IF StillPending(e)
     THEN /\ order' = IF SessionMatches(Session(h)) /\ Markable
                      THEN [order EXCEPT !.status = "exception"] ELSE order
          /\ event' = [event EXCEPT ![e] = "exception"]
     ELSE UNCHANGED <<order, event>>
  /\ Ends(h)
  /\ UNCHANGED <<payment, granted, request, provider, handed>>

\* a crash, an abort, a failed call: the job is claimed again
HandlerStops(h) ==
  /\ ~Running(h, "idle")
  /\ Ends(h)
  /\ UNCHANGED <<order, payment, granted, event, request, provider, handed>>

-----------------------------------------------------------------------------
Provider(s) ==
  CustomerPays(s) \/ AsyncPaymentSucceeds(s) \/ AsyncPaymentFails(s) \/ SessionExpires(s)

Web(r) ==
  \/ CreateAcceptedOrder(r) \/ CreateCheckoutSession(r) \/ AttachCheckoutSession(r)
  \/ AbandonRequest(r)

Work(h) ==
  \/ \E e \in Events : RetrieveCheckoutSession(h, e)
  \/ RetrievePayment(h) \/ FulfillCheckoutEvent(h) \/ RecordFulfillmentException(h)

Next ==
  \/ \E s \in Sessions : Provider(s)
  \/ \E r \in Requests : Web(r)
  \/ \E e \in Events : AcceptStripeEvent(e)
  \/ \E h \in Handlers : Work(h) \/ HandlerStops(h)

Spec == Init /\ [][Next]_vars

-----------------------------------------------------------------------------
(* Properties                                                              *)

\* The order is paid exactly when its payment is recorded as succeeded and it
\* was finalized exactly once, whatever handlers overlapped; and then the
\* provider took the money on the order's own session.
PaidOnce ==
  /\ order.status = "paid" <=> payment = "succeeded"
  /\ granted = IF order.status = "paid" THEN 1 ELSE 0
  /\ order.status = "paid" => provider[order.session].pay = "succeeded"

\* Old news never undoes what is settled: paid and expired orders stay what
\* they are, a recorded failure only turns into a success.
SettledStays ==
  [][/\ order.status \in {"paid", "expired"} => order' = order
     /\ payment = "succeeded" => payment' = "succeeded"
     /\ payment = "failed" => payment' \in {"failed", "succeeded"}]_vars

\* The provider has honoured the idempotency key: it created one session.
KeyHonoured ==
  \A s, t \in Sessions :
    provider[s].session # "absent" /\ provider[t].session # "absent" => s = t

\* With one session per order, no interleaving of requests, retries, stale
\* reads and late events is taken for a contradiction: nothing ends as an
\* exception that a person must look at.
NoExceptions ==
  /\ order.status # "exception"
  /\ \A e \in Events : event[e] # "exception"
NoFalseException == KeyHonoured => NoExceptions

\* When every event that was emitted has been processed, the order tells what
\* the provider knows, in whatever order the events were handled.
Caught == \A e \in Events : event[e] \in {"unsent", "processed"}
Converged ==
  KeyHonoured /\ Caught => \A s \in Sessions :
    /\ provider[s].pay = "succeeded" => order.status = "paid"
    /\ provider[s].pay = "failed" => order.status = "failed" /\ payment = "failed"
    /\ provider[s].pay = "pending" => order.status = "payment_pending"
    /\ provider[s].session = "expired" => order.status = "expired"

\* With several sessions: once all events are handled, money that was taken
\* belongs to a paid order or to one marked as an exception.
NoForgottenPayment ==
  (\A e \in Events : event[e] \in {"unsent", "processed", "exception"}) =>
    \A s \in Sessions : provider[s].pay = "succeeded" =>
      order.status \in {"paid", "exception"}
=============================================================================
