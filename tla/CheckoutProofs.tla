---------------------------- MODULE CheckoutProofs ----------------------------
(***************************************************************************)
(* Checkout, proved for every set of sessions, handlers and requests: an   *)
(* order is paid once and truly, what is settled stays settled, and money  *)
(* that was taken is remembered. With one session per order, nothing ends  *)
(* as an exception and the order converges to what the provider knows.     *)
(*                                                                         *)
(* A handler applies what it read some time ago. The invariant therefore   *)
(* says of each read what it still implies now: an expiry and a success    *)
(* are final, a failure may only have become a success, and a session      *)
(* whose payment this event tells of was read as paid.                     *)
(*                                                                         *)
(* CheckoutJobs only limits what Checkout allows, so all this is true of   *)
(* it as well.                                                             *)
(***************************************************************************)
EXTENDS CheckoutJobs, TLAPS

-----------------------------------------------------------------------------
\* on its way to a handler, or with one
Open(e) == event[e] \in {"emitted", "pending"}

\* The events that were sent tell how far session s is.
ProviderHolds(s) ==
  /\ provider[s].session = "complete" <=> provider[s].pay # "none"
  /\ provider[s].session = "complete" => s \in handed
  /\ event[<<s, "completed">>] # "unsent" <=> provider[s].session = "complete"
  /\ event[<<s, "expired">>] # "unsent" <=> provider[s].session = "expired"
  /\ event[<<s, "async_failed">>] # "unsent" => provider[s].pay \in {"failed", "succeeded"}
  /\ event[<<s, "async_succeeded">>] # "unsent" => provider[s].pay = "succeeded"
ProvidersHold == \A s \in Sessions : ProviderHolds(s)
RequestHolds == \A r \in Requests : request[r].pc = "created" => request[r].session \in Sessions

\* No customer has the URL of a session that is not the order's own.
HandedHolds == \A s \in handed : order.session = s

\* e is the event that told of the payment on s
Tells(e, s) ==
  \/ e = <<s, "async_succeeded">>
  \/ e = <<s, "completed">> /\ event[<<s, "async_succeeded">>] = "unsent"

\* What handler h has read of its session implies this of the session now.
ReadHolds(h) ==
  LET v == handler[h]
      s == v.event[1]
      now == provider[s].pay
  IN  v.pc # "idle" =>
        /\ v.event \in Events /\ event[v.event] \notin {"unsent", "emitted"}
        /\ v.session = provider[s].session
        /\ v.paid => now = "succeeded"
        /\ now = "succeeded" /\ Tells(v.event, s) => v.paid
        /\ v.pc # "session" =>
             /\ v.paid <=> v.pay = "succeeded"
             /\ v.session = "complete" <=> v.pay # "none"
             /\ v.pay = "failed" => now \in {"failed", "succeeded"}
             /\ v.event = <<s, "async_failed">> => v.pay \in {"failed", "succeeded"}
HandlerHolds == \A h \in Handlers : ReadHolds(h)

\* An order that failed or expired did so by its session.
OrderHolds ==
  /\ order.status = "none" => order.session = None
  /\ order.status = "expired" => provider[order.session].session = "expired"
  /\ order.status = "failed" => payment = "failed"
  /\ payment = "failed" =>
       order.session \in Sessions /\ provider[order.session].pay \in {"failed", "succeeded"}

\* Money that was taken is known to the order, or the event that tells of it is
\* on its way.
TakenHolds ==
  \A s \in Sessions : provider[s].pay = "succeeded" =>
    \/ order.status \in {"paid", "exception"}
    \/ \E e \in Events : Tells(e, s) /\ Open(e)

IInv ==
  /\ TypeOK /\ PaidOnce /\ ProvidersHold /\ RequestHolds /\ HandedHolds /\ HandlerHolds
  /\ OrderHolds /\ TakenHolds

-----------------------------------------------------------------------------
\* Initially nothing has been read, sent or taken.
LEMMA InitHolds == Init => IInv
BY NoneAssumption
   DEF Init, Idle, NoRequest, IInv, TypeOK, PaidOnce, ProvidersHold, ProviderHolds, RequestHolds,
       HandedHolds, HandlerHolds, ReadHolds, OrderHolds, TakenHolds, OrderStatus, PayState,
       SessionState, EventStatus, Events, Kinds

\* Session s goes on to now and emits an event of this kind. What is left to
\* show is named: the reads of s, and how its payment, once taken, is told.
MovesOnly(s, kind, now) ==
  /\ TypeOK' /\ PaidOnce' /\ RequestHolds' /\ HandedHolds' /\ OrderHolds'
  /\ provider'[s] = now /\ event'[<<s, kind>>] = "emitted"
  /\ \A t \in Sessions \ {s} : provider'[t] = provider[t]
  /\ \A e \in Events \ {<<s, kind>>} : event'[e] = event[e]
  /\ UNCHANGED <<handler, handed>>
  /\ \A h \in Handlers : handler[h].pc # "idle" =>
       handler[h].event \in Events \ {<<s, kind>>} /\ ReadHolds(h)
  /\ ProviderHolds(s)' => ProvidersHold'
  /\ (\A h \in Handlers : handler[h].pc # "idle" /\ Session(h) = s => ReadHolds(h)')
       => HandlerHolds'
  /\ (now.pay = "succeeded" => \E e \in Events : Tells(e, s)' /\ Open(e)')
       => TakenHolds'

\* What the provider's step on session s leaves alone, and what it keeps when
\* it takes back neither an expiry nor how a payment ended.
LEMMA ProviderMoves ==
  ASSUME IInv, NEW s \in Sessions, NEW kind \in Kinds,
         NEW now \in [session : SessionState, pay : PayState],
         provider' = [provider EXCEPT ![s] = now], Emit(s, kind), External,
         event[<<s, kind>>] = "unsent",
         provider[s].session \in {"open", "complete"},
         provider[s].pay \in {"failed", "succeeded"} => now.pay \in {"failed", "succeeded"},
         provider[s].pay = "succeeded" => now.pay = "succeeded"
  PROVE  MovesOnly(s, kind, now)
<1>1. <<s, kind>> \in Events
  BY DEF Events
<1>2. /\ provider'[s] = now /\ event'[<<s, kind>>] = "emitted"
      /\ \A t \in Sessions \ {s} : provider'[t] = provider[t]
      /\ \A e \in Events \ {<<s, kind>>} : event'[e] = event[e]
  BY <1>1 DEF IInv, TypeOK, Emit
<1>3. UNCHANGED <<order, payment, granted, handler, request, handed>>
  BY DEF External
<1>4. TypeOK'
  BY <1>3 DEF IInv, TypeOK, Emit, EventStatus
<1>5. RequestHolds' /\ HandedHolds'
  BY <1>3 DEF IInv, RequestHolds, HandedHolds
<1>6. PaidOnce' /\ OrderHolds'
  <2>1. order.status \in {"paid", "failed", "expired"} => order.session \in Sessions
    BY DEF IInv, TypeOK
  <2>2. QED
    BY <1>2, <1>3, <2>1 DEF IInv, PaidOnce, OrderHolds
<1>7. ASSUME NEW h \in Handlers, handler[h].pc # "idle"
      PROVE  handler[h].event \in Events \ {<<s, kind>>} /\ ReadHolds(h)
  BY <1>7 DEF IInv, HandlerHolds, ReadHolds
<1>8. ASSUME \A h \in Handlers : handler[h].pc # "idle" /\ Session(h) = s => ReadHolds(h)'
      PROVE  HandlerHolds'
  <2> SUFFICES ASSUME NEW h \in Handlers, handler[h].pc # "idle", Session(h) # s
               PROVE  ReadHolds(h)'
    BY <1>3, <1>8 DEF HandlerHolds, ReadHolds
  <2>1. PICK t \in Sessions, k \in Kinds : handler[h].event = <<t, k>>
    BY <1>7 DEF Events
  <2>2. t # s
    BY <2>1 DEF Session
  <2>3. provider'[t] = provider[t] /\ \A l \in Kinds : event'[<<t, l>>] = event[<<t, l>>]
    BY <1>2, <2>2 DEF Events
  <2>4. QED
    BY <1>3, <1>7, <2>1, <2>3 DEF ReadHolds, Tells, Kinds
<1>9. ASSUME now.pay = "succeeded" => \E e \in Events : Tells(e, s)' /\ Open(e)'
      PROVE  TakenHolds'
  <2> SUFFICES ASSUME NEW t \in Sessions, t # s, provider'[t].pay = "succeeded",
                      order.status \notin {"paid", "exception"}
               PROVE  \E e \in Events : Tells(e, t)' /\ Open(e)'
    BY <1>2, <1>3, <1>9 DEF TakenHolds
  <2>1. PICK e \in Events : Tells(e, t) /\ Open(e)
    BY <1>2 DEF IInv, TakenHolds
  <2>2. e # <<s, kind>> /\ <<t, "async_succeeded">> \in Events \ {<<s, kind>>}
    BY <2>1 DEF Tells, Events, Kinds
  <2>3. QED
    BY <1>2, <2>1, <2>2 DEF Tells, Open
<1>10. ASSUME ProviderHolds(s)'
       PROVE  ProvidersHold'
  <2> SUFFICES ASSUME NEW t \in Sessions \ {s}
               PROVE  ProviderHolds(t)'
    BY <1>10 DEF ProvidersHold
  <2>1. \A k \in Kinds : event'[<<t, k>>] = event[<<t, k>>]
    BY <1>2 DEF Events
  <2>2. QED
    BY <1>2, <1>3, <2>1 DEF IInv, ProvidersHold, ProviderHolds, Kinds
<1>11. QED
  BY <1>2, <1>3, <1>4, <1>5, <1>6, <1>7, <1>8, <1>9, <1>10 DEF MovesOnly

\* The customer pays: nothing had been sent, so nobody reads this session.
LEMMA CustomerPaysHolds ==
  ASSUME IInv, NEW s \in Sessions, CustomerPays(s)
  PROVE  IInv'
<1>1. /\ provider[s].session = "open" /\ provider[s].pay = "none"
      /\ \A k \in Kinds : event[<<s, k>>] = "unsent"
  BY DEF CustomerPays, IInv, ProvidersHold, ProviderHolds, TypeOK, PayState, Kinds
<1>2. PICK p \in {"pending", "succeeded"} :
        provider' = [provider EXCEPT ![s] = [session |-> "complete", pay |-> p]]
  BY DEF CustomerPays
<1> DEFINE now == [session |-> "complete", pay |-> p]
<1>3. now \in [session : SessionState, pay : PayState] /\ "completed" \in Kinds
  BY DEF SessionState, PayState, Kinds
<1>4. Emit(s, "completed") /\ External /\ s \in handed
  BY DEF CustomerPays
<1>5. MovesOnly(s, "completed", now)
  BY <1>1, <1>2, <1>3, <1>4, ProviderMoves
<1>6. ProviderHolds(s)'
  BY <1>1, <1>4, <1>5 DEF MovesOnly, ProviderHolds, Events, Kinds
<1>7. HandlerHolds'
  BY <1>1, <1>5 DEF MovesOnly, ReadHolds, Session, Events
<1>8. TakenHolds'
  BY <1>1, <1>3, <1>5 DEF MovesOnly, Tells, Open, Events, Kinds
<1>9. QED
  BY <1>5, <1>6, <1>7, <1>8 DEF MovesOnly, IInv

\* A late payment succeeds: its event is new, and older reads say nothing of a
\* success.
LEMMA AsyncPaymentSucceedsHolds ==
  ASSUME IInv, NEW s \in Sessions, AsyncPaymentSucceeds(s)
  PROVE  IInv'
<1> DEFINE now == [session |-> "complete", pay |-> "succeeded"]
<1>1. /\ provider[s].session = "complete" /\ provider[s].pay \in {"pending", "failed"}
      /\ event[<<s, "async_succeeded">>] = "unsent"
  BY DEF AsyncPaymentSucceeds, IInv, ProvidersHold, ProviderHolds, TypeOK, PayState, Kinds
<1>2. provider' = [provider EXCEPT ![s] = now]
  <2>1. provider' = [provider EXCEPT ![s] = [provider[s] EXCEPT !.pay = "succeeded"]]
    BY DEF AsyncPaymentSucceeds
  <2>2. provider[s] \in [session : SessionState, pay : PayState]
    BY DEF IInv, TypeOK
  <2>3. [provider[s] EXCEPT !.pay = "succeeded"] = now
    BY <1>1, <2>2
  <2>4. QED
    BY <2>1, <2>3
<1>3. now \in [session : SessionState, pay : PayState] /\ "async_succeeded" \in Kinds
  BY DEF SessionState, PayState, Kinds
<1>4. Emit(s, "async_succeeded") /\ External
  BY DEF AsyncPaymentSucceeds
<1>5. MovesOnly(s, "async_succeeded", now)
  BY <1>1, <1>2, <1>3, <1>4, ProviderMoves
<1>6. ProviderHolds(s)'
  <2>1. ProviderHolds(s) /\ \A k \in Kinds : <<s, k>> \in Events
    BY DEF IInv, ProvidersHold, Events
  <2>2. QED
    BY <1>1, <1>5, <2>1 DEF MovesOnly, ProviderHolds, Kinds
<1>7. HandlerHolds'
  <2> SUFFICES ASSUME NEW h \in Handlers, handler[h].pc # "idle", Session(h) = s
               PROVE  ReadHolds(h)'
    BY <1>5 DEF MovesOnly
  <2>1. /\ handler'[h] = handler[h] /\ ReadHolds(h)
        /\ handler[h].event # <<s, "async_succeeded">>
    BY <1>5 DEF MovesOnly
  <2>2. PICK k \in Kinds : handler[h].event = <<s, k>>
    BY <1>5 DEF MovesOnly, Events, Session
  <2>3. event'[<<s, k>>] = event[<<s, k>>] /\ <<s, "async_succeeded">> \in Events
    BY <1>5, <2>1, <2>2 DEF MovesOnly, Events, Kinds
  <2>4. QED
    BY <1>1, <1>5, <2>1, <2>2, <2>3 DEF MovesOnly, ReadHolds, Tells, Events
<1>8. TakenHolds'
  BY <1>1, <1>3, <1>5 DEF MovesOnly, Tells, Open, Events
<1>9. QED
  BY <1>5, <1>6, <1>7, <1>8 DEF MovesOnly, IInv

\* A late payment fails: nobody has read anything but that it was pending.
LEMMA AsyncPaymentFailsHolds ==
  ASSUME IInv, NEW s \in Sessions, AsyncPaymentFails(s)
  PROVE  IInv'
<1> DEFINE now == [session |-> "complete", pay |-> "failed"]
<1>1. /\ provider[s].session = "complete" /\ provider[s].pay = "pending"
      /\ event[<<s, "async_failed">>] = "unsent"
  BY DEF AsyncPaymentFails, IInv, ProvidersHold, ProviderHolds, TypeOK, PayState, Kinds
<1>2. provider' = [provider EXCEPT ![s] = now]
  <2>1. provider' = [provider EXCEPT ![s] = [provider[s] EXCEPT !.pay = "failed"]]
    BY DEF AsyncPaymentFails
  <2>2. provider[s] \in [session : SessionState, pay : PayState]
    BY DEF IInv, TypeOK
  <2>3. [provider[s] EXCEPT !.pay = "failed"] = now
    BY <1>1, <2>2
  <2>4. QED
    BY <2>1, <2>3
<1>3. now \in [session : SessionState, pay : PayState] /\ "async_failed" \in Kinds
  BY DEF SessionState, PayState, Kinds
<1>4. Emit(s, "async_failed") /\ External
  BY DEF AsyncPaymentFails
<1>5. MovesOnly(s, "async_failed", now)
  BY <1>1, <1>2, <1>3, <1>4, ProviderMoves
<1>6. ProviderHolds(s)'
  <2>1. ProviderHolds(s) /\ \A k \in Kinds : <<s, k>> \in Events
    BY DEF IInv, ProvidersHold, Events
  <2>2. QED
    BY <1>1, <1>5, <2>1 DEF MovesOnly, ProviderHolds, Kinds
<1>7. HandlerHolds'
  <2> SUFFICES ASSUME NEW h \in Handlers, handler[h].pc # "idle", Session(h) = s
               PROVE  ReadHolds(h)'
    BY <1>5 DEF MovesOnly
  <2>1. /\ handler'[h] = handler[h] /\ ReadHolds(h)
        /\ handler[h].event # <<s, "async_failed">>
    BY <1>5 DEF MovesOnly
  <2>2. PICK k \in Kinds : handler[h].event = <<s, k>>
    BY <1>5 DEF MovesOnly, Events, Session
  <2>3. event'[<<s, k>>] = event[<<s, k>>] /\ <<s, "async_succeeded">> \in Events
    BY <1>5, <2>1, <2>2 DEF MovesOnly, Events, Kinds
  <2>4. QED
    BY <1>1, <1>5, <2>1, <2>2, <2>3 DEF MovesOnly, ReadHolds, Tells, Events
<1>8. TakenHolds'
  BY <1>1, <1>3, <1>5 DEF MovesOnly, Tells, Open, Events
<1>9. QED
  BY <1>5, <1>6, <1>7, <1>8 DEF MovesOnly, IInv

\* A session expires unpaid: nothing had been sent, so nobody reads it.
LEMMA SessionExpiresHolds ==
  ASSUME IInv, NEW s \in Sessions, SessionExpires(s)
  PROVE  IInv'
<1> DEFINE now == [session |-> "expired", pay |-> "none"]
<1>1. /\ provider[s].session = "open" /\ provider[s].pay = "none"
      /\ \A k \in Kinds : event[<<s, k>>] = "unsent"
  BY DEF SessionExpires, IInv, ProvidersHold, ProviderHolds, TypeOK, PayState, Kinds
<1>2. provider' = [provider EXCEPT ![s] = now]
  <2>1. provider' = [provider EXCEPT ![s] = [provider[s] EXCEPT !.session = "expired"]]
    BY DEF SessionExpires
  <2>2. provider[s] \in [session : SessionState, pay : PayState]
    BY DEF IInv, TypeOK
  <2>3. [provider[s] EXCEPT !.session = "expired"] = now
    BY <1>1, <2>2
  <2>4. QED
    BY <2>1, <2>3
<1>3. now \in [session : SessionState, pay : PayState] /\ "expired" \in Kinds
  BY DEF SessionState, PayState, Kinds
<1>4. Emit(s, "expired") /\ External
  BY DEF SessionExpires
<1>5. MovesOnly(s, "expired", now)
  BY <1>1, <1>2, <1>3, <1>4, ProviderMoves
<1>6. ProviderHolds(s)'
  <2>1. ProviderHolds(s) /\ \A k \in Kinds : <<s, k>> \in Events
    BY DEF IInv, ProvidersHold, Events
  <2>2. QED
    BY <1>1, <1>5, <2>1 DEF MovesOnly, ProviderHolds, Kinds
<1>7. HandlerHolds'
  BY <1>1, <1>5 DEF MovesOnly, ReadHolds, Session, Events
<1>8. TakenHolds'
  BY <1>1, <1>3, <1>5 DEF MovesOnly, Tells, Open, Events
<1>9. QED
  BY <1>5, <1>6, <1>7, <1>8 DEF MovesOnly, IInv

-----------------------------------------------------------------------------
\* Nothing is sent, and what was sent is not taken back.
SentStays ==
  \A e \in Events :
    /\ event'[e] = "unsent" <=> event[e] = "unsent"
    /\ event[e] \notin {"unsent", "emitted"} => event'[e] \notin {"unsent", "emitted"}
\* No payment moves, and no session that exists.
PaymentsStay ==
  \A s \in Sessions :
    /\ provider'[s].pay = provider[s].pay
    /\ provider'[s].session # provider[s].session =>
         provider[s].session = "absent" /\ provider'[s].session = "open"

\* Then the events still tell how far each session is.
LEMMA ProvidersStay ==
  ASSUME IInv, SentStays, PaymentsStay, handed \subseteq handed'
  PROVE  ProvidersHold'
<1> SUFFICES ASSUME NEW s \in Sessions
             PROVE  ProviderHolds(s)'
  BY DEF ProvidersHold
<1>1. ProviderHolds(s)
  BY DEF IInv, ProvidersHold
<1>2. \A k \in Kinds : event'[<<s, k>>] = "unsent" <=> event[<<s, k>>] = "unsent"
  BY DEF SentStays, Events
<1>3. /\ provider'[s].pay = provider[s].pay
      /\ \/ provider'[s].session = provider[s].session
         \/ provider[s].session = "absent" /\ provider'[s].session = "open"
  BY DEF PaymentsStay
<1>4. QED
  BY <1>1, <1>2, <1>3 DEF ProviderHolds, Kinds

\* What handlers read stays as good as it was.
LEMMA ReadsStay ==
  ASSUME IInv, SentStays, PaymentsStay,
         \A h \in Handlers : handler'[h] = handler[h] \/ handler'[h].pc = "idle"
  PROVE  HandlerHolds'
<1> SUFFICES ASSUME NEW h \in Handlers, handler[h].pc # "idle", handler'[h] = handler[h]
             PROVE  ReadHolds(h)'
  BY DEF HandlerHolds, ReadHolds
<1>1. ReadHolds(h)
  BY DEF IInv, HandlerHolds
<1>2. PICK s \in Sessions, k \in Kinds : handler[h].event = <<s, k>>
  BY <1>1 DEF ReadHolds, Events
<1>3. <<s, k>> \in Events /\ <<s, "async_succeeded">> \in Events
  BY DEF Events, Kinds
<1>4. provider[s].session # "absent"
  <2>1. event[<<s, k>>] # "unsent"
    BY <1>1, <1>2 DEF ReadHolds
  <2>2. ProviderHolds(s)
    BY DEF IInv, ProvidersHold
  <2>3. QED
    BY <1>2, <2>1, <2>2 DEF ProviderHolds, Kinds
<1>5. QED
  BY <1>1, <1>2, <1>3, <1>4 DEF ReadHolds, Tells, SentStays, PaymentsStay

\* Money that was taken stays known as long as its events stay on their way.
LEMMA TakenStays ==
  ASSUME IInv, SentStays, PaymentsStay, \A e \in Events : Open(e) => Open(e)',
         order.status \in {"paid", "exception"} => order'.status \in {"paid", "exception"}
  PROVE  TakenHolds'
<1> SUFFICES ASSUME NEW s \in Sessions, provider[s].pay = "succeeded",
                    order.status \notin {"paid", "exception"}
             PROVE  \E e \in Events : Tells(e, s)' /\ Open(e)'
  BY DEF TakenHolds, PaymentsStay
<1>1. PICK e \in Events : Tells(e, s) /\ Open(e)
  BY DEF IInv, TakenHolds
<1>2. <<s, "async_succeeded">> \in Events
  BY DEF Events, Kinds
<1>3. QED
  BY <1>1, <1>2 DEF Tells, SentStays

\* Accepting the order, or finding it, keeps the invariant.
LEMMA CreateAcceptedOrderHolds ==
  ASSUME IInv, NEW r \in Requests, CreateAcceptedOrder(r)
  PROVE  IInv'
<1> USE DEF CreateAcceptedOrder, Requesting, Step
<1>1. UNCHANGED <<payment, granted, event, handler, provider, handed>>
  OBVIOUS
<1>2. order' = order \/ (order.status = "none" /\ order' = [order EXCEPT !.status = "checkout_pending"])
  OBVIOUS
<1>3. order'.session = order.session
  BY <1>2 DEF IInv, TypeOK
<1>4. TypeOK' /\ RequestHolds'
  BY <1>1, <1>2 DEF IInv, TypeOK, OrderStatus, RequestHolds
<1>5. PaidOnce' /\ OrderHolds' /\ HandedHolds'
  BY <1>1, <1>2, <1>3 DEF IInv, TypeOK, PaidOnce, OrderHolds, HandedHolds
<1>6. SentStays /\ PaymentsStay /\ ProvidersHold'
  BY <1>1 DEF SentStays, PaymentsStay, IInv, ProvidersHold, ProviderHolds
<1>7. HandlerHolds'
  BY <1>1, <1>6, ReadsStay
<1>8. TakenHolds'
  BY <1>1, <1>2, <1>6, TakenStays DEF Open
<1>9. QED
  BY <1>4, <1>5, <1>6, <1>7, <1>8 DEF IInv

\* So does creating the provider's session, or getting an old one back.
LEMMA CreateCheckoutSessionHolds ==
  ASSUME IInv, NEW r \in Requests, CreateCheckoutSession(r)
  PROVE  IInv'
<1> USE DEF Step
<1>1. PICK s \in Sessions :
        /\ provider' = [provider EXCEPT ![s].session = IF @ = "absent" THEN "open" ELSE @]
        /\ Step(r, "created", s)
  BY DEF CreateCheckoutSession
<1>2. UNCHANGED <<order, payment, granted, event, handler, handed>>
  BY DEF CreateCheckoutSession
<1>3. \A t \in Sessions :
        /\ provider'[t].pay = provider[t].pay
        /\ provider'[t].session # provider[t].session =>
             provider[t].session = "absent" /\ provider'[t].session = "open"
  BY <1>1 DEF IInv, TypeOK
<1>4. SentStays /\ PaymentsStay
  BY <1>2, <1>3 DEF SentStays, PaymentsStay
<1>5. TypeOK' /\ RequestHolds'
  BY <1>1, <1>2 DEF IInv, TypeOK, SessionState, RequestHolds
<1>6. PaidOnce' /\ OrderHolds' /\ HandedHolds'
  <2>1. order.status \in {"paid", "failed", "expired"} => order.session \in Sessions
    BY DEF IInv, TypeOK
  <2>2. QED
    BY <1>2, <1>3, <2>1 DEF IInv, PaidOnce, OrderHolds, HandedHolds
<1>7. ProvidersHold'
  BY <1>2, <1>4, ProvidersStay
<1>8. HandlerHolds'
  BY <1>2, <1>4, ReadsStay
<1>9. TakenHolds'
  BY <1>2, <1>4, TakenStays DEF Open
<1>10. QED
  BY <1>5, <1>6, <1>7, <1>8, <1>9 DEF IInv

\* So does attaching it. A session is handed to the customer only as the
\* order's own.
LEMMA AttachCheckoutSessionHolds ==
  ASSUME IInv, NEW r \in Requests, AttachCheckoutSession(r)
  PROVE  IInv'
<1> DEFINE s == request[r].session
<1>1. s \in Sessions
  BY DEF AttachCheckoutSession, Requesting, IInv, RequestHolds
<1>2. UNCHANGED <<payment, granted, event, handler, provider>> /\ Step(r, "idle", None)
  BY DEF AttachCheckoutSession
<1>3. \/ order' = order /\ handed' = handed
      \/ /\ order.status \in Checkoutable /\ order.session \in {s, None}
         /\ order' = [status |-> "checkout_open", session |-> s]
         /\ handed' \in {handed, handed \cup {s}}
      \/ /\ order.status \in Replaceable
         /\ order' = [order EXCEPT !.status = "exception"] /\ handed' = handed
  BY <1>1 DEF AttachCheckoutSession, Attached, Attachable, AfterConflict, Checkoutable, IInv, TypeOK
<1>4. TypeOK' /\ RequestHolds'
  <2>1. /\ order' \in [status : OrderStatus, session : Sessions \cup {None}]
        /\ order'.session = None => order'.status \in {"none", "checkout_pending", "exception"}
    BY <1>1, <1>3, NoneAssumption DEF IInv, TypeOK, OrderStatus
  <2>2. handed' \subseteq Sessions
    BY <1>1, <1>3 DEF IInv, TypeOK
  <2>3. /\ request' \in [Requests -> [pc : {"idle", "accepted", "created"},
                                     session : Sessions \cup {None}]]
        /\ RequestHolds'
    BY <1>2 DEF Step, IInv, TypeOK, RequestHolds
  <2>4. QED
    BY <1>2, <2>1, <2>2, <2>3 DEF IInv, TypeOK
<1>5. PaidOnce' /\ OrderHolds'
  <2>1. CASE order' = order
    BY <1>2, <2>1 DEF IInv, PaidOnce, OrderHolds
  <2>2. CASE order.status \in Replaceable /\ order'.status \in {"checkout_open", "exception"}
    <3>1. payment # "succeeded"
      BY <2>2 DEF IInv, PaidOnce, Checkoutable, Replaceable
    <3>2. payment = "failed" => order.session \in Sessions
      BY DEF IInv, OrderHolds
    <3>3. order.session # None => order'.session = order.session
      BY <1>3 DEF IInv, TypeOK
    <3>4. QED
      BY <1>2, <2>2, <3>1, <3>2, <3>3, NoneAssumption
         DEF IInv, PaidOnce, OrderHolds, Checkoutable, Replaceable
  <2>3. QED
    BY <1>3, <2>1, <2>2 DEF Checkoutable, Replaceable, IInv, TypeOK
<1>6. HandedHolds'
  BY <1>1, <1>3, NoneAssumption DEF IInv, TypeOK, HandedHolds
<1>7. SentStays /\ PaymentsStay
  BY <1>2 DEF SentStays, PaymentsStay
<1>8. ProvidersHold'
  BY <1>2, <1>3, <1>7, ProvidersStay
<1>9. HandlerHolds'
  BY <1>2, <1>7, ReadsStay
<1>10. TakenHolds'
  BY <1>2, <1>3, <1>7, TakenStays DEF Open, Checkoutable, IInv, TypeOK
<1>11. QED
  BY <1>4, <1>5, <1>6, <1>8, <1>9, <1>10 DEF IInv

\* So does a request that ends early.
LEMMA AbandonRequestHolds ==
  ASSUME IInv, NEW r \in Requests, AbandonRequest(r)
  PROVE  IInv'
<1>1. /\ UNCHANGED <<order, payment, granted, event, handler, provider, handed>>
      /\ request' = [request EXCEPT ![r] = NoRequest]
  BY DEF AbandonRequest, Step, NoRequest
<1>2. TypeOK' /\ RequestHolds'
  BY <1>1 DEF IInv, TypeOK, RequestHolds, NoRequest
<1>3. PaidOnce' /\ OrderHolds' /\ HandedHolds' /\ ProvidersHold'
  BY <1>1 DEF IInv, PaidOnce, OrderHolds, HandedHolds, ProvidersHold, ProviderHolds
<1>4. SentStays /\ PaymentsStay
  BY <1>1 DEF SentStays, PaymentsStay
<1>5. HandlerHolds' /\ TakenHolds'
  BY <1>1, <1>4, ReadsStay, TakenStays DEF Open
<1>6. QED
  BY <1>2, <1>3, <1>5 DEF IInv

\* So does a webhook that is accepted.
LEMMA AcceptStripeEventHolds ==
  ASSUME IInv, NEW e \in Events, AcceptStripeEvent(e)
  PROVE  IInv'
<1>1. /\ UNCHANGED <<order, payment, granted, handler, request, provider, handed>>
      /\ event[e] = "emitted" /\ event' = [event EXCEPT ![e] = "pending"]
  BY DEF AcceptStripeEvent
<1>2. SentStays /\ PaymentsStay /\ \A f \in Events : Open(f) => Open(f)'
  BY <1>1 DEF SentStays, PaymentsStay, Open, IInv, TypeOK
<1>3. TypeOK' /\ RequestHolds'
  BY <1>1 DEF IInv, TypeOK, EventStatus, RequestHolds
<1>4. PaidOnce' /\ OrderHolds' /\ HandedHolds'
  BY <1>1 DEF IInv, PaidOnce, OrderHolds, HandedHolds
<1>5. ProvidersHold'
  BY <1>1, <1>2, ProvidersStay
<1>6. HandlerHolds' /\ TakenHolds'
  BY <1>1, <1>2, ReadsStay, TakenStays
<1>7. QED
  BY <1>3, <1>4, <1>5, <1>6 DEF IInv

-----------------------------------------------------------------------------
\* A handler's first read keeps the invariant: a session whose payment is told
\* by this event is read as paid.
LEMMA RetrieveCheckoutSessionHolds ==
  ASSUME IInv, NEW h \in Handlers, NEW e \in Events, RetrieveCheckoutSession(h, e)
  PROVE  IInv'
<1> DEFINE v == [pc |-> "session", event |-> e, session |-> provider[e[1]].session,
                 paid |-> provider[e[1]].pay = "succeeded", pay |-> "none"]
<1>1. /\ handler' = [handler EXCEPT ![h] = v] /\ event[e] = "pending"
      /\ UNCHANGED <<order, payment, granted, event, request, provider, handed>>
  BY DEF RetrieveCheckoutSession
<1>2. e[1] \in Sessions
  BY DEF Events
<1>3. TypeOK'
  BY <1>1, <1>2 DEF IInv, TypeOK, PayState
<1>4. PaidOnce' /\ OrderHolds' /\ HandedHolds' /\ ProvidersHold' /\ RequestHolds'
  BY <1>1 DEF IInv, PaidOnce, OrderHolds, HandedHolds, ProvidersHold, ProviderHolds, RequestHolds
<1>5. HandlerHolds'
  <2>1. ReadHolds(h)'
    BY <1>1 DEF ReadHolds, IInv, TypeOK
  <2>2. ASSUME NEW g \in Handlers, g # h
        PROVE  ReadHolds(g)'
    BY <1>1, <2>2 DEF IInv, TypeOK, HandlerHolds, ReadHolds, Tells
  <2>3. QED
    BY <2>1, <2>2 DEF HandlerHolds
<1>6. TakenHolds'
  BY <1>1, TakenStays DEF SentStays, PaymentsStay, Open
<1>7. QED
  BY <1>3, <1>4, <1>5, <1>6 DEF IInv

\* So does its second read: what agrees with the first is true of the payment.
LEMMA RetrievePaymentHolds ==
  ASSUME IInv, NEW h \in Handlers, RetrievePayment(h)
  PROVE  IInv'
<1>1. /\ UNCHANGED <<order, payment, granted, event, request, provider, handed>>
      /\ handler[h].pc = "session"
  BY DEF RetrievePayment, Running
<1>2. PICK s \in Sessions, k \in Kinds : handler[h].event = <<s, k>>
  BY <1>1 DEF IInv, HandlerHolds, ReadHolds, Events
<1>3. \/ handler' = [handler EXCEPT ![h] = Idle]
      \/ /\ handler[h].paid <=> provider[s].pay = "succeeded"
         /\ handler' = [handler EXCEPT ![h].pc = "evidence", ![h].pay = provider[s].pay]
  BY <1>2 DEF RetrievePayment, Consistent, Session, Ends
<1>4. TypeOK'
  <2> DEFINE Read == [pc : {"idle", "session", "evidence", "rejected"}, event : Events \cup {None},
                      session : SessionState, paid : BOOLEAN, pay : PayState]
  <2>1. handler \in [Handlers -> Read] /\ provider[s].pay \in PayState
    BY DEF IInv, TypeOK
  <2>2. Idle \in Read
    BY DEF Idle, PayState, SessionState
  <2>3. [handler[h] EXCEPT !.pc = "evidence", !.pay = provider[s].pay] \in Read
    BY <2>1
  <2>4. handler' \in [Handlers -> Read]
    BY <1>3, <2>1, <2>2, <2>3
  <2>5. QED
    BY <1>1, <2>4 DEF IInv, TypeOK
<1>5. PaidOnce' /\ OrderHolds' /\ HandedHolds' /\ ProvidersHold' /\ RequestHolds'
  BY <1>1 DEF IInv, PaidOnce, OrderHolds, HandedHolds, ProvidersHold, ProviderHolds, RequestHolds
<1>6. SentStays /\ PaymentsStay
  BY <1>1 DEF SentStays, PaymentsStay
<1>7. HandlerHolds'
  <2>1. CASE handler' = [handler EXCEPT ![h] = Idle]
    BY <1>6, <2>1, ReadsStay DEF IInv, TypeOK, Idle
  <2>2. CASE /\ handler[h].paid <=> provider[s].pay = "succeeded"
             /\ handler' = [handler EXCEPT ![h].pc = "evidence", ![h].pay = provider[s].pay]
    <3>1. ReadHolds(h)'
      <4>1. /\ handler'[h].event = <<s, k>> /\ handler'[h].session = handler[h].session
            /\ handler'[h].paid = handler[h].paid /\ handler'[h].pay = provider[s].pay
            /\ handler[h].paid <=> provider[s].pay = "succeeded"
        BY <1>2, <2>2 DEF IInv, TypeOK
      <4>2. ReadHolds(h) /\ ProviderHolds(s)
        BY DEF IInv, HandlerHolds, ProvidersHold
      <4>3. <<s, k>> \in Events /\ event[<<s, k>>] \notin {"unsent", "emitted"}
        BY <1>1, <1>2, <4>2 DEF ReadHolds
      <4>4. /\ handler[h].session = provider[s].session
            /\ provider[s].pay = "succeeded" /\ Tells(<<s, k>>, s) => handler[h].paid
        BY <1>1, <1>2, <4>2 DEF ReadHolds
      <4>5. /\ provider[s].session = "complete" <=> provider[s].pay # "none"
            /\ k = "async_failed" => provider[s].pay \in {"failed", "succeeded"}
        BY <4>2, <4>3 DEF ProviderHolds
      <4>6. QED
        BY <1>1, <4>1, <4>3, <4>4, <4>5 DEF ReadHolds, Tells
    <3>2. ASSUME NEW g \in Handlers, g # h
          PROVE  ReadHolds(g)'
      <4>1. handler'[g] = handler[g]
        BY <2>2, <3>2 DEF IInv, TypeOK
      <4>2. ReadHolds(g)
        BY DEF IInv, HandlerHolds
      <4>3. QED
        BY <1>1, <4>1, <4>2 DEF ReadHolds, Tells
    <3>3. QED
      BY <3>1, <3>2 DEF HandlerHolds
  <2>3. QED
    BY <1>3, <2>1, <2>2
<1>8. TakenHolds'
  BY <1>1, <1>6, TakenStays DEF Open
<1>9. QED
  BY <1>4, <1>5, <1>7, <1>8 DEF IInv

\* What the evidence of a handler asks for is true of the provider's session,
\* and never contradicts itself.
LEMMA EvidenceHolds ==
  ASSUME IInv, NEW h \in Handlers, handler[h].pc = "evidence",
         NEW s \in Sessions, NEW k \in Kinds, handler[h].event = <<s, k>>
  PROVE  /\ Command(h) \in {"paid", "pending", "failed", "expired"}
         /\ Command(h) = "paid" <=> handler[h].paid
         /\ Command(h) = "paid" => provider[s].pay = "succeeded"
         /\ Command(h) = "expired" <=> provider[s].session = "expired"
         /\ Command(h) = "failed" => provider[s].pay \in {"failed", "succeeded"}
         /\ Command(h) \in {"paid", "failed", "pending"} => provider[s].session = "complete"
         /\ k = "async_failed" => Command(h) \in {"failed", "paid"}
         /\ provider[s].pay = "succeeded" /\ Tells(<<s, k>>, s) => Command(h) = "paid"
<1>1. ReadHolds(h) /\ ProviderHolds(s)
  BY DEF IInv, HandlerHolds, ProvidersHold
<1>2. handler[h].session = provider[s].session /\ provider[s].session \in {"complete", "expired"}
  <2>1. event[<<s, k>>] # "unsent"
    BY <1>1 DEF ReadHolds
  <2>2. QED
    BY <1>1, <2>1 DEF ReadHolds, ProviderHolds, Kinds
<1>3. /\ handler[h].paid \in BOOLEAN /\ handler[h].pay \in PayState
      /\ handler[h].paid <=> handler[h].pay = "succeeded"
      /\ handler[h].session = "complete" <=> handler[h].pay # "none"
      /\ handler[h].paid => provider[s].pay = "succeeded"
  BY <1>1 DEF ReadHolds, IInv, TypeOK
<1>4. Command(h) = CASE provider[s].session = "expired" -> "expired"
                     [] handler[h].paid -> "paid"
                     [] OTHER -> handler[h].pay
  BY <1>2, <1>3 DEF Command, PayState
<1>5. QED
  BY <1>1, <1>2, <1>3, <1>4 DEF ReadHolds, ProviderHolds, PayState

\* What one applied evidence makes of order, payment and grants.
LEMMA AppliedOrder ==
  ASSUME IInv, NEW h \in Handlers, handler[h].pc = "evidence",
         NEW s \in Sessions, NEW k \in Kinds, handler[h].event = <<s, k>>,
         ~Rejects(h), ~AlreadyDone, Applies(Command(h), s)
  PROVE  /\ order.status \in Replaceable \cup {"failed"} /\ order.session \in {s, None}
         /\ order.session = None => order.status = "checkout_pending"
         /\ payment # "succeeded" /\ granted = 0
         /\ order'.session = s \/ order' = order
         /\ \/ /\ Command(h) = "paid" /\ order' = [status |-> "paid", session |-> s]
               /\ payment' = "succeeded" /\ granted' = 1
            \/ /\ Command(h) = "pending"
               /\ order' = IF order.status \in Checkoutable
                           THEN [status |-> "payment_pending", session |-> s] ELSE order
               /\ payment' = (IF payment = "failed" THEN "failed" ELSE "pending") /\ granted' = 0
            \/ /\ Command(h) = "failed" /\ order' = [status |-> "failed", session |-> s]
               /\ payment' = "failed" /\ granted' = 0
            \/ /\ Command(h) = "expired" /\ order' = [status |-> "expired", session |-> s]
               /\ payment' = payment /\ granted' = 0
<1>1. Command(h) \in {"paid", "pending", "failed", "expired"}
  BY EvidenceHolds
<1>2. /\ order.status \in Replaceable \cup {"failed"} /\ order.session \in {s, None}
      /\ order.session = None => order.status = "checkout_pending"
  <2>1. SessionMatches(s) /\ order.status \notin {"paid", "expired", "exception"}
    BY DEF Rejects, AlreadyDone, Session
  <2>2. order.status # "none"
    BY <2>1, NoneAssumption DEF SessionMatches, IInv, OrderHolds
  <2>3. QED
    BY <2>1, <2>2 DEF SessionMatches, IInv, TypeOK, OrderStatus, Replaceable, Checkoutable
<1>3. payment # "succeeded" /\ granted = 0
  BY DEF AlreadyDone, IInv, PaidOnce
<1>4. order \in [status : OrderStatus, session : Sessions \cup {None}]
  BY DEF IInv, TypeOK
<1>5. CASE Command(h) = "paid"
  <2>1. OrderAfter("paid") = "paid" /\ StoredPayment("paid") = "succeeded" /\ order.status # "paid"
    BY <1>2 DEF OrderAfter, StoredPayment, Replaceable, Checkoutable
  <2>2. QED
    BY <1>2, <1>3, <1>5, <2>1 DEF Applies
<1>6. CASE Command(h) = "pending"
  <2>1. /\ OrderAfter("pending") = IF order.status \in Checkoutable THEN "payment_pending" ELSE order.status
        /\ StoredPayment("pending") = IF payment = "failed" THEN "failed" ELSE "pending"
    BY DEF OrderAfter, StoredPayment
  <2>2. QED
    BY <1>2, <1>3, <1>6, <2>1 DEF Applies, Checkoutable
<1>7. CASE Command(h) = "failed"
  <2>1. OrderAfter("failed") = "failed"
    BY <1>2 DEF OrderAfter
  <2>2. order.status = "failed" => order = [status |-> "failed", session |-> s]
    BY <1>2, <1>4
  <2>3. QED
    BY <1>2, <1>3, <1>7, <2>1, <2>2 DEF Applies, StoredPayment
<1>8. CASE Command(h) = "expired"
  <2>1. OrderAfter("expired") = "expired" /\ StoredPayment("expired") = payment
    BY <1>2 DEF OrderAfter, StoredPayment
  <2>2. order.status # "expired"
    BY <1>2 DEF Replaceable, Checkoutable
  <2>3. QED
    BY <1>2, <1>3, <1>8, <2>1, <2>2 DEF Applies
<1>9. QED
  BY <1>1, <1>2, <1>3, <1>5, <1>6, <1>7, <1>8

\* Applying evidence keeps order, payment and grants as they must be.
LEMMA AppliesHolds ==
  ASSUME IInv, NEW h \in Handlers, handler[h].pc = "evidence",
         NEW s \in Sessions, NEW k \in Kinds, handler[h].event = <<s, k>>,
         ~Rejects(h), ~AlreadyDone, Applies(Command(h), s), UNCHANGED <<provider, handed>>
  PROVE  /\ order' \in [status : OrderStatus, session : Sessions \cup {None}]
         /\ order'.session = None => order'.status \in {"none", "checkout_pending", "exception"}
         /\ payment' \in PayState /\ granted' \in Nat
         /\ PaidOnce' /\ OrderHolds' /\ HandedHolds'
<1> DEFINE Becomes(status, paid) == order' = [status |-> status, session |-> s] /\ payment' = paid
<1>1. /\ order.status \in Replaceable \cup {"failed"} /\ order.session \in {s, None}
      /\ order.session = None => order.status = "checkout_pending"
      /\ payment # "succeeded"
      /\ order'.session = s \/ order' = order
  BY AppliedOrder
<1>2. order.status \notin {"none", "paid", "expired", "exception"}
  BY <1>1 DEF Replaceable, Checkoutable
<1>3. \/ Becomes("paid", "succeeded") /\ granted' = 1 /\ provider[s].pay = "succeeded"
      \/ /\ Becomes("payment_pending", payment') \/ order' = order
         /\ payment' = (IF payment = "failed" THEN "failed" ELSE "pending") /\ granted' = 0
      \/ Becomes("failed", "failed") /\ granted' = 0 /\ provider[s].pay \in {"failed", "succeeded"}
      \/ Becomes("expired", payment) /\ granted' = 0 /\ provider[s].session = "expired"
  <2>1. /\ Command(h) = "paid" => provider[s].pay = "succeeded"
        /\ Command(h) = "expired" => provider[s].session = "expired"
        /\ Command(h) = "failed" => provider[s].pay \in {"failed", "succeeded"}
    BY EvidenceHolds
  <2>2. \/ Command(h) = "paid" /\ Becomes("paid", "succeeded") /\ granted' = 1
        \/ /\ Becomes("payment_pending", payment') \/ order' = order
           /\ payment' = (IF payment = "failed" THEN "failed" ELSE "pending") /\ granted' = 0
        \/ Command(h) = "failed" /\ Becomes("failed", "failed") /\ granted' = 0
        \/ Command(h) = "expired" /\ Becomes("expired", payment) /\ granted' = 0
    BY AppliedOrder
  <2>3. QED
    BY <2>1, <2>2
<1>4. /\ order.status = "failed" => payment = "failed"
      /\ payment = "failed" => order.session = s /\ provider[s].pay \in {"failed", "succeeded"}
  BY <1>1, NoneAssumption DEF IInv, OrderHolds
<1>5. /\ order' \in [status : OrderStatus, session : Sessions \cup {None}]
      /\ order'.session = None => order'.status \in {"none", "checkout_pending", "exception"}
      /\ payment' \in PayState /\ granted' \in Nat
  BY <1>3, NoneAssumption DEF IInv, TypeOK, OrderStatus, PayState
<1>6. PaidOnce' /\ OrderHolds'
  <2>1. CASE Becomes("paid", "succeeded") /\ granted' = 1 /\ provider[s].pay = "succeeded"
    BY <2>1 DEF PaidOnce, OrderHolds
  <2>2. CASE /\ Becomes("payment_pending", payment') \/ order' = order
             /\ payment' = (IF payment = "failed" THEN "failed" ELSE "pending") /\ granted' = 0
    BY <1>2, <1>4, <2>2 DEF PaidOnce, OrderHolds
  <2>3. CASE Becomes("failed", "failed") /\ granted' = 0 /\ provider[s].pay \in {"failed", "succeeded"}
    BY <2>3 DEF PaidOnce, OrderHolds
  <2>4. CASE Becomes("expired", payment) /\ granted' = 0 /\ provider[s].session = "expired"
    BY <1>1, <1>4, <2>4 DEF PaidOnce, OrderHolds
  <2>5. QED
    BY <1>3, <2>1, <2>2, <2>3, <2>4
<1>7. HandedHolds'
  <2>1. \A t \in handed : t = order.session /\ t # None
    BY NoneAssumption DEF IInv, HandedHolds, TypeOK
  <2>2. QED
    BY <1>1, <2>1 DEF HandedHolds
<1>8. QED
  BY <1>5, <1>6, <1>7

\* Applying what was read, or finding that nothing is left to do or that
\* something is wrong, keeps the invariant.
LEMMA FulfillCheckoutEventHolds ==
  ASSUME IInv, NEW h \in Handlers, FulfillCheckoutEvent(h)
  PROVE  IInv'
<1>1. handler[h].pc = "evidence" /\ UNCHANGED <<request, provider, handed>>
  BY DEF FulfillCheckoutEvent, Running
<1>2. ReadHolds(h)
  BY DEF IInv, HandlerHolds
<1>3. PICK s \in Sessions, k \in Kinds : handler[h].event = <<s, k>>
  BY <1>1, <1>2 DEF ReadHolds, Events
<1>4. <<s, k>> \in Events /\ Session(h) = s
  BY <1>3 DEF Events, Session
<1>5. RequestHolds' /\ PaymentsStay
  BY <1>1 DEF IInv, RequestHolds, PaymentsStay
<1>6. CASE Ends(h) /\ UNCHANGED <<order, payment, granted, event>>
  <2>1. TypeOK'
    BY <1>1, <1>6 DEF Ends, Idle, IInv, TypeOK, PayState, SessionState
  <2>2. PaidOnce' /\ OrderHolds' /\ HandedHolds' /\ ProvidersHold'
    BY <1>1, <1>6 DEF IInv, PaidOnce, OrderHolds, HandedHolds, ProvidersHold, ProviderHolds
  <2>3. HandlerHolds'
    BY <1>5, <1>6, ReadsStay DEF SentStays, Ends, Idle, IInv, TypeOK
  <2>4. TakenHolds'
    BY <1>5, <1>6, TakenStays DEF SentStays, Open
  <2>5. QED
    BY <1>5, <2>1, <2>2, <2>3, <2>4 DEF IInv
<1>7. CASE handler' = [handler EXCEPT ![h].pc = "rejected"] /\ UNCHANGED <<order, payment, granted, event>>
  <2>1. TypeOK'
    BY <1>1, <1>7 DEF IInv, TypeOK
  <2>2. PaidOnce' /\ OrderHolds' /\ HandedHolds' /\ ProvidersHold'
    BY <1>1, <1>7 DEF IInv, PaidOnce, OrderHolds, HandedHolds, ProvidersHold, ProviderHolds
  <2>3. HandlerHolds'
    <3>1. ReadHolds(h)'
      BY <1>1, <1>2, <1>7 DEF ReadHolds, Tells, IInv, TypeOK
    <3>2. ASSUME NEW g \in Handlers, g # h
          PROVE  ReadHolds(g)'
      BY <1>1, <1>7, <3>2 DEF IInv, TypeOK, HandlerHolds, ReadHolds, Tells
    <3>3. QED
      BY <3>1, <3>2 DEF HandlerHolds
  <2>4. TakenHolds'
    BY <1>5, <1>7, TakenStays DEF SentStays, Open
  <2>5. QED
    BY <1>5, <2>1, <2>2, <2>3, <2>4 DEF IInv
<1>8. CASE /\ event[<<s, k>>] = "pending" /\ ~Rejects(h)
           /\ IF AlreadyDone THEN UNCHANGED <<order, payment, granted>> ELSE Applies(Command(h), s)
           /\ event' = [event EXCEPT ![<<s, k>>] = "processed"]
           /\ Ends(h)
  <2>1. /\ order' \in [status : OrderStatus, session : Sessions \cup {None}]
        /\ order'.session = None => order'.status \in {"none", "checkout_pending", "exception"}
        /\ payment' \in PayState /\ granted' \in Nat
        /\ PaidOnce' /\ OrderHolds' /\ HandedHolds'
    <3>1. CASE AlreadyDone
      BY <1>1, <1>8, <3>1 DEF IInv, TypeOK, PaidOnce, OrderHolds, HandedHolds
    <3>2. CASE ~AlreadyDone
      BY <1>1, <1>3, <1>8, <3>2, AppliesHolds
    <3>3. QED
      BY <3>1, <3>2
  <2>2. TypeOK'
    BY <1>1, <1>8, <2>1 DEF Ends, Idle, IInv, TypeOK, PayState, SessionState, EventStatus
  <2>3. SentStays
    BY <1>4, <1>8 DEF SentStays, IInv, TypeOK
  <2>4. ProvidersHold'
    BY <1>1, <1>5, <2>3, ProvidersStay
  <2>5. HandlerHolds'
    BY <1>5, <1>8, <2>3, ReadsStay DEF Ends, Idle, IInv, TypeOK
  <2>6. TakenHolds'
    <3> SUFFICES ASSUME NEW t \in Sessions, provider[t].pay = "succeeded",
                        order'.status \notin {"paid", "exception"}
                 PROVE  \E e \in Events : Tells(e, t)' /\ Open(e)'
      BY <1>1 DEF TakenHolds
    <3>1. order.status \notin {"paid", "exception"}
      BY <1>8 DEF AlreadyDone, Rejects
    <3>2. PICK e \in Events : Tells(e, t) /\ Open(e)
      BY <3>1 DEF IInv, TakenHolds
    <3>3. e # <<s, k>>
      <4> SUFFICES ASSUME e = <<s, k>>
                   PROVE  FALSE
        OBVIOUS
      <4>1. t = s
        BY <3>2 DEF Tells
      <4>2. Command(h) = "paid" /\ provider[s].session = "complete"
        BY <1>1, <1>3, <3>2, <4>1, EvidenceHolds
      <4>3. CASE AlreadyDone
        BY <1>4, <1>8, <3>1, <4>2, <4>3 DEF AlreadyDone, Rejects
      <4>4. CASE ~AlreadyDone
        BY <1>1, <1>3, <1>8, <4>2, <4>4, AppliedOrder
      <4>5. QED
        BY <4>3, <4>4
    <3>4. Tells(e, t)'
      BY <2>3, <3>2 DEF Tells, SentStays, Events, Kinds
    <3>5. Open(e)'
      BY <1>8, <3>2, <3>3 DEF Open, IInv, TypeOK
    <3>6. QED
      BY <3>4, <3>5
  <2>7. QED
    BY <1>5, <2>1, <2>2, <2>4, <2>5, <2>6 DEF IInv
<1>9. QED
  BY <1>3, <1>4, <1>6, <1>7, <1>8 DEF FulfillCheckoutEvent, StillPending

\* Recording an exception keeps the invariant: where the evidence was the only
\* news of money taken, the order is marked or has been paid.
LEMMA RecordFulfillmentExceptionHolds ==
  ASSUME IInv, NEW h \in Handlers, RecordFulfillmentException(h)
  PROVE  IInv'
<1>1. /\ handler[h].pc = "rejected" /\ Ends(h)
      /\ UNCHANGED <<payment, granted, request, provider, handed>>
  BY DEF RecordFulfillmentException, Running
<1>2. PICK s \in Sessions, k \in Kinds : handler[h].event = <<s, k>>
  BY <1>1 DEF IInv, HandlerHolds, ReadHolds, Events
<1>3. <<s, k>> \in Events /\ Session(h) = s
  BY <1>2 DEF Events, Session
<1>4. /\ \/ order' = order
         \/ order' = [order EXCEPT !.status = "exception"] /\ Markable
      /\ \/ order' = order /\ event' = event
         \/ /\ event[<<s, k>>] = "pending" /\ event' = [event EXCEPT ![<<s, k>>] = "exception"]
            /\ SessionMatches(s) /\ Markable => order'.status = "exception"
  BY <1>2, <1>3 DEF RecordFulfillmentException, StillPending, IInv, TypeOK
<1>5. SentStays /\ PaymentsStay
  BY <1>1, <1>3, <1>4 DEF SentStays, PaymentsStay, IInv, TypeOK
<1>6. TypeOK' /\ RequestHolds'
  <2>1. /\ order' \in [status : OrderStatus, session : Sessions \cup {None}]
        /\ order'.session = None => order'.status \in {"none", "checkout_pending", "exception"}
    BY <1>4 DEF IInv, TypeOK, OrderStatus
  <2>2. event' \in [Events -> EventStatus]
    BY <1>4 DEF IInv, TypeOK, EventStatus
  <2>3. QED
    BY <1>1, <2>1, <2>2
       DEF Ends, Idle, IInv, TypeOK, PayState, SessionState, RequestHolds
<1>7. PaidOnce' /\ OrderHolds' /\ HandedHolds'
  <2>1. order'.session = order.session
    BY <1>4 DEF IInv, TypeOK
  <2>2. order'.status = order.status \/ (order.status \notin {"paid", "expired"} /\ order'.status = "exception")
    BY <1>4 DEF Markable, IInv, TypeOK
  <2>3. QED
    BY <1>1, <2>1, <2>2 DEF IInv, PaidOnce, OrderHolds, HandedHolds
<1>8. ProvidersHold'
  BY <1>1, <1>5, ProvidersStay
<1>9. HandlerHolds'
  BY <1>1, <1>5, ReadsStay DEF Ends, Idle, IInv, TypeOK
<1>10. TakenHolds'
  <2>1. CASE order' = order /\ event' = event
    BY <1>5, <2>1, TakenStays DEF Open
  <2>2. CASE /\ event[<<s, k>>] = "pending" /\ event' = [event EXCEPT ![<<s, k>>] = "exception"]
             /\ SessionMatches(s) /\ Markable => order'.status = "exception"
    <3> SUFFICES ASSUME NEW t \in Sessions, provider[t].pay = "succeeded",
                        order'.status \notin {"paid", "exception"}
                 PROVE  \E e \in Events : Tells(e, t)' /\ Open(e)'
      BY <1>1 DEF TakenHolds
    <3>1. order' = order
      BY <1>4 DEF IInv, TypeOK
    <3>2. PICK e \in Events : Tells(e, t) /\ Open(e)
      BY <3>1 DEF IInv, TakenHolds
    <3>3. order.session = t /\ provider[t].session = "complete"
      BY DEF IInv, HandedHolds, ProvidersHold, ProviderHolds
    <3>4. Markable
      BY <3>1, <3>3 DEF Markable, IInv, OrderHolds
    <3>5. e # <<s, k>>
      BY <2>2, <3>2, <3>3, <3>4 DEF Tells, SessionMatches
    <3>6. QED
      BY <1>5, <2>2, <3>2, <3>5 DEF Tells, Open, SentStays, IInv, TypeOK, Events, Kinds
  <2>3. QED
    BY <1>4, <2>1, <2>2
<1>11. QED
  BY <1>6, <1>7, <1>8, <1>9, <1>10 DEF IInv

\* A handler that stops leaves everything else as it was.
LEMMA HandlerStopsHolds ==
  ASSUME IInv, NEW h \in Handlers, HandlerStops(h)
  PROVE  IInv'
<1>1. Ends(h) /\ UNCHANGED <<order, payment, granted, event, request, provider, handed>>
  BY DEF HandlerStops
<1>2. TypeOK'
  BY <1>1 DEF Ends, Idle, IInv, TypeOK, PayState, SessionState
<1>3. /\ PaidOnce' /\ OrderHolds' /\ HandedHolds' /\ ProvidersHold' /\ RequestHolds'
      /\ SentStays /\ PaymentsStay
  BY <1>1 DEF IInv, PaidOnce, OrderHolds, HandedHolds, ProvidersHold, ProviderHolds, RequestHolds,
              SentStays, PaymentsStay
<1>4. HandlerHolds' /\ TakenHolds'
  BY <1>1, <1>3, ReadsStay, TakenStays DEF Ends, Idle, Open, IInv, TypeOK
<1>5. QED
  BY <1>2, <1>3, <1>4 DEF IInv

\* The invariant is inductive: every reachable state satisfies it.
THEOREM Inductive == Spec => []IInv
<1>1. IInv /\ UNCHANGED vars => IInv'
  <2> SUFFICES ASSUME IInv, UNCHANGED vars
               PROVE  IInv'
    OBVIOUS
  <2>1. TypeOK' /\ PaidOnce' /\ RequestHolds' /\ HandedHolds' /\ OrderHolds'
    BY DEF vars, IInv, TypeOK, PaidOnce, RequestHolds, HandedHolds, OrderHolds
  <2>2. ProvidersHold'
    BY DEF vars, IInv, ProvidersHold, ProviderHolds
  <2>3. HandlerHolds'
    <3> SUFFICES ASSUME NEW h \in Handlers
                 PROVE  ReadHolds(h)'
      BY DEF HandlerHolds
    <3>1. ReadHolds(h) /\ handler' = handler /\ event' = event /\ provider' = provider
      BY DEF vars, IInv, HandlerHolds
    <3>2. QED
      BY <3>1 DEF ReadHolds, Tells
  <2>4. TakenHolds'
    BY DEF vars, IInv, TakenHolds, Tells, Open
  <2>5. QED
    BY <2>1, <2>2, <2>3, <2>4 DEF IInv
<1>2. ASSUME IInv, Next
      PROVE  IInv'
  <2>1. CASE \E s \in Sessions : Provider(s)
    BY <1>2, <2>1, CustomerPaysHolds, AsyncPaymentSucceedsHolds, AsyncPaymentFailsHolds,
       SessionExpiresHolds DEF Provider
  <2>2. CASE \E r \in Requests : Web(r)
    BY <1>2, <2>2, CreateAcceptedOrderHolds, CreateCheckoutSessionHolds, AttachCheckoutSessionHolds,
       AbandonRequestHolds DEF Web
  <2>3. CASE \E e \in Events : AcceptStripeEvent(e)
    BY <1>2, <2>3, AcceptStripeEventHolds
  <2>4. CASE \E h \in Handlers : Work(h) \/ HandlerStops(h)
    BY <1>2, <2>4, RetrieveCheckoutSessionHolds, RetrievePaymentHolds, FulfillCheckoutEventHolds,
       RecordFulfillmentExceptionHolds, HandlerStopsHolds DEF Work
  <2>5. QED
    BY <1>2, <2>1, <2>2, <2>3, <2>4 DEF Next
<1>3. QED
  BY <1>1, <1>2, InitHolds, PTL DEF Spec

\* Orders, payments, events and what handlers have read stay in their types.
THEOREM TypeCorrect == Spec => []TypeOK
BY Inductive, PTL DEF IInv

\* However handlers overlap and whatever sessions there are, an order is
\* finalized once, exactly when its payment is recorded as succeeded, and the
\* provider then took the money on the order's own session.
THEOREM OrderPaidOnce == Spec => []PaidOnce
BY Inductive, PTL DEF IInv

\* Once all events are handled, no money was taken for an order that is neither
\* paid nor marked for a person to look at, even with several sessions.
THEOREM MoneyIsRemembered == Spec => []NoForgottenPayment
<1>1. IInv => NoForgottenPayment
  BY DEF IInv, TakenHolds, NoForgottenPayment, Open
<1>2. QED
  BY <1>1, Inductive, PTL

-----------------------------------------------------------------------------
\* A step that settles nothing anew and takes back nothing that is settled
Settles ==
  /\ order.status \in {"paid", "expired"} => order' = order
  /\ payment = "succeeded" => payment' = "succeeded"
  /\ payment = "failed" => payment' \in {"failed", "succeeded"}

\* Old news never undoes what is settled.
THEOREM SettledIsFinal == Spec => SettledStays
<1>1. ASSUME IInv, Next
      PROVE  Settles
  <2>1. CASE \E s \in Sessions : Provider(s)
    BY <2>1 DEF Provider, CustomerPays, AsyncPaymentSucceeds, AsyncPaymentFails, SessionExpires,
                External, Settles
  <2>2. CASE \E r \in Requests : Web(r)
    <3>1. PICK r \in Requests : Web(r)
      BY <2>2
    <3>2. payment' = payment
      BY <3>1 DEF Web, CreateAcceptedOrder, CreateCheckoutSession, AttachCheckoutSession, AbandonRequest
    <3>3. order.status \in {"paid", "expired"} => order' = order
      BY <3>1 DEF Web, CreateAcceptedOrder, CreateCheckoutSession, AttachCheckoutSession,
                  AbandonRequest, Attached, Attachable, AfterConflict, Checkoutable, Replaceable
    <3>4. QED
      BY <3>2, <3>3 DEF Settles
  <2>3. CASE \E e \in Events : AcceptStripeEvent(e)
    BY <2>3 DEF AcceptStripeEvent, Settles
  <2>4. ASSUME NEW h \in Handlers, FulfillCheckoutEvent(h)
        PROVE  Settles
    <3>1. CASE UNCHANGED <<order, payment, granted>>
      BY <3>1 DEF Settles
    <3>2. CASE /\ handler[h].pc = "evidence" /\ ~Rejects(h) /\ ~AlreadyDone
               /\ Applies(Command(h), Session(h))
      <4>1. PICK s \in Sessions, k \in Kinds : handler[h].event = <<s, k>>
        BY <1>1, <3>2 DEF IInv, HandlerHolds, ReadHolds, Events
      <4>2. Session(h) = s
        BY <4>1 DEF Session
      <4>3. /\ payment # "succeeded"
            /\ payment = "failed" => payment' \in {"failed", "succeeded"}
        BY <1>1, <3>2, <4>1, <4>2, AppliedOrder
      <4>4. QED
        BY <3>2, <4>3 DEF Settles, AlreadyDone
    <3>3. QED
      BY <2>4, <3>1, <3>2 DEF FulfillCheckoutEvent, Running
  <2>5. ASSUME NEW h \in Handlers, Work(h) \/ HandlerStops(h), ~FulfillCheckoutEvent(h)
        PROVE  Settles
    BY <2>5 DEF Work, HandlerStops, RetrieveCheckoutSession, RetrievePayment,
                RecordFulfillmentException, Markable, Settles
  <2>6. QED
    BY <1>1, <2>1, <2>2, <2>3, <2>4, <2>5 DEF Next, Work
<1>2. IInv /\ [Next]_vars => [Settles]_vars
  BY <1>1
<1>3. QED
  BY <1>2, Inductive, PTL DEF Spec, SettledStays, Settles

-----------------------------------------------------------------------------
(* One session per order *)

\* What the provider's session has come to, but for a payment taken, the order
\* tells as well, or will when it has heard of it.
NewsHolds(s) ==
  /\ provider[s].pay = "pending" => order.status = "payment_pending" \/ Open(<<s, "completed">>)
  /\ provider[s].pay = "failed" => order.status = "failed" \/ Open(<<s, "async_failed">>)
  /\ provider[s].session = "expired" => order.status = "expired" \/ Open(<<s, "expired">>)
AcceptedFirst ==
  order.status = "none" =>
    /\ \A r \in Requests : request[r].pc = "idle"
    /\ \A s \in Sessions : provider[s].session = "absent"
NobodyRejects == \A h \in Handlers : handler[h].pc # "rejected"

\* What requests and the order name has been created.
Existing ==
  /\ \A r \in Requests : request[r].pc = "created" => provider[request[r].session].session # "absent"
  /\ order.session # None => provider[order.session].session # "absent"

OneInv ==
  /\ IInv /\ Existing /\ NoExceptions /\ NobodyRejects /\ AcceptedFirst
  /\ \A s \in Sessions : NewsHolds(s)

\* No session disappears, and only those that exist are named.
LEMMA ExistingStays ==
  ASSUME IInv, Existing, Next
  PROVE  /\ Existing'
         /\ \A s \in Sessions : provider[s].session # "absent" => provider'[s].session # "absent"
<1>1. CASE \E s \in Sessions : Provider(s)
  <2>1. PICK s \in Sessions : Provider(s)
    BY <1>1
  <2>2. UNCHANGED <<order, request>>
    BY <2>1 DEF Provider, CustomerPays, AsyncPaymentSucceeds, AsyncPaymentFails, SessionExpires, External
  <2>3. \A t \in Sessions : provider[t].session # "absent" => provider'[t].session # "absent"
    BY <2>1 DEF Provider, CustomerPays, AsyncPaymentSucceeds, AsyncPaymentFails, SessionExpires, IInv, TypeOK
  <2>4. QED
    BY <2>2, <2>3 DEF Existing, IInv, TypeOK, RequestHolds
<1>2. ASSUME NEW r \in Requests, Web(r)
      PROVE  /\ Existing'
             /\ \A s \in Sessions : provider[s].session # "absent" => provider'[s].session # "absent"
  <2>1. CASE CreateAcceptedOrder(r) \/ AbandonRequest(r)
    <3>1. provider' = provider /\ order'.session = order.session
      BY <2>1 DEF CreateAcceptedOrder, AbandonRequest, IInv, TypeOK
    <3>2. \A q \in Requests : request'[q].pc = "created" => request'[q] = request[q]
      BY <2>1 DEF CreateAcceptedOrder, AbandonRequest, Step, IInv, TypeOK
    <3>3. QED
      BY <3>1, <3>2 DEF Existing
  <2>2. CASE CreateCheckoutSession(r)
    <3>1. order' = order
      BY <2>2 DEF CreateCheckoutSession
    <3>2. \A s \in Sessions : provider[s].session # "absent" => provider'[s].session # "absent"
      BY <2>2 DEF CreateCheckoutSession, IInv, TypeOK
    <3>3. PICK s \in Sessions :
            /\ provider' = [provider EXCEPT ![s].session = IF @ = "absent" THEN "open" ELSE @]
            /\ Step(r, "created", s)
      BY <2>2 DEF CreateCheckoutSession
    <3>4. provider'[s].session # "absent"
      BY <3>3 DEF IInv, TypeOK
    <3>5. \A q \in Requests : request'[q].session = s \/ request'[q] = request[q]
      BY <3>3 DEF Step, IInv, TypeOK
    <3>6. QED
      BY <3>1, <3>2, <3>4, <3>5 DEF Existing, IInv, TypeOK, RequestHolds
  <2>3. CASE AttachCheckoutSession(r)
    <3>1. provider' = provider /\ provider[request[r].session].session # "absent"
      BY <2>3 DEF AttachCheckoutSession, Requesting, Existing
    <3>2. order'.session \in {order.session, request[r].session}
      BY <2>3 DEF AttachCheckoutSession, AfterConflict, IInv, TypeOK
    <3>3. \A q \in Requests : request'[q].pc = "created" => request'[q] = request[q]
      BY <2>3 DEF AttachCheckoutSession, Step, IInv, TypeOK
    <3>4. QED
      BY <3>1, <3>2, <3>3 DEF Existing
  <2>4. QED
    BY <1>2, <2>1, <2>2, <2>3 DEF Web
<1>3. CASE \E e \in Events : AcceptStripeEvent(e)
  BY <1>3 DEF AcceptStripeEvent, Existing
<1>4. ASSUME NEW h \in Handlers, Work(h) \/ HandlerStops(h)
      PROVE  Existing' /\ provider' = provider
  <2>1. provider' = provider /\ request' = request
    BY <1>4 DEF Work, HandlerStops, RetrieveCheckoutSession, RetrievePayment, FulfillCheckoutEvent,
                RecordFulfillmentException
  <2>2. CASE order'.session = order.session
    BY <2>1, <2>2 DEF Existing
  <2>3. CASE order'.session # order.session
    <3>1. FulfillCheckoutEvent(h)
      BY <1>4, <2>3 DEF Work, HandlerStops, RetrieveCheckoutSession, RetrievePayment,
                        RecordFulfillmentException, IInv, TypeOK
    <3>2. /\ handler[h].pc = "evidence" /\ ~Rejects(h) /\ ~AlreadyDone
          /\ Applies(Command(h), Session(h))
      BY <2>3, <3>1 DEF FulfillCheckoutEvent, Running
    <3>3. PICK s \in Sessions, k \in Kinds : handler[h].event = <<s, k>>
      BY <3>2 DEF IInv, HandlerHolds, ReadHolds, Events
    <3>4. Session(h) = s
      BY <3>3 DEF Session
    <3>5. order'.session = s
      BY <2>3, <3>2, <3>3, <3>4, AppliedOrder
    <3>6. provider[s].session \in {"complete", "expired"}
      BY <3>2, <3>3, EvidenceHolds DEF Rejects
    <3>7. QED
      BY <2>1, <3>5, <3>6 DEF Existing
  <2>4. QED
    BY <2>1, <2>2, <2>3
<1>5. QED
  BY <1>1, <1>2, <1>3, <1>4 DEF Next

\* So it is always, however many sessions there are.
LEMMA ExistingAlways == Spec => []Existing
<1>1. Init => Existing
  BY DEF Init, NoRequest, Existing
<1>2. IInv /\ Existing /\ [Next]_vars => Existing'
  BY ExistingStays DEF Existing, vars
<1>3. QED
  BY <1>1, <1>2, Inductive, PTL DEF Spec

\* No evidence contradicts the order of its session.
LEMMA NothingIsRejected ==
  ASSUME OneInv, KeyHonoured, NEW h \in Handlers, handler[h].pc = "evidence"
  PROVE  ~Rejects(h)
<1>1. PICK s \in Sessions, k \in Kinds : handler[h].event = <<s, k>>
  BY DEF OneInv, IInv, HandlerHolds, ReadHolds, Events
<1>2. /\ Command(h) \in {"paid", "pending", "failed", "expired"}
      /\ Command(h) = "expired" <=> provider[s].session = "expired"
      /\ Command(h) \in {"paid", "failed", "pending"} => provider[s].session = "complete"
  BY <1>1, EvidenceHolds DEF OneInv
<1>3. order.status # "none"
  BY <1>2 DEF OneInv, AcceptedFirst
<1>4. order.status # "exception"
  BY DEF OneInv, NoExceptions
<1>5. order.session = s \/ (order.session = None /\ order.status = "checkout_pending")
  BY <1>1, <1>2, <1>3, <1>4 DEF OneInv, Existing, IInv, TypeOK, KeyHonoured
<1>6. order.status = "expired" => Command(h) = "expired"
  BY <1>2, <1>5 DEF OneInv, IInv, OrderHolds
<1>7. payment = "succeeded" => order.status = "paid"
  BY DEF OneInv, IInv, PaidOnce
<1>8. QED
  BY <1>1, <1>2, <1>4, <1>5, <1>6, <1>7 DEF Rejects, SessionMatches, Session

\* The provider's steps keep this.
LEMMA OneProvider ==
  ASSUME OneInv, NEW s \in Sessions, Provider(s), KeyHonoured
  PROVE  NoExceptions' /\ NobodyRejects' /\ AcceptedFirst' /\ \A t \in Sessions : NewsHolds(t)'
<1>1. PICK now \in [session : SessionState, pay : PayState], kind \in Kinds :
        /\ provider'[s] = now /\ provider[s].session \notin {"absent", "expired"}
        /\ event' = [event EXCEPT ![<<s, kind>>] = "emitted"]
        /\ now.pay = "pending" => kind = "completed"
        /\ now.pay = "failed" => kind = "async_failed"
        /\ now.session = "expired" => kind = "expired"
  <2>1. provider[s] \in [session : SessionState, pay : PayState] /\ ProviderHolds(s)
    BY DEF OneInv, IInv, TypeOK, ProvidersHold
  <2>2. CASE CustomerPays(s)
    <3>1. PICK p \in {"pending", "succeeded"} :
            provider' = [provider EXCEPT ![s] = [session |-> "complete", pay |-> p]]
      BY <2>2 DEF CustomerPays
    <3>2. provider'[s] = [session |-> "complete", pay |-> p]
      BY <3>1 DEF OneInv, IInv, TypeOK
    <3>3. QED
      BY <2>2, <3>2 DEF CustomerPays, Emit, SessionState, PayState, Kinds
  <2>3. CASE AsyncPaymentSucceeds(s)
    <3>1. provider'[s] = [provider[s] EXCEPT !.pay = "succeeded"]
      BY <2>3 DEF AsyncPaymentSucceeds, OneInv, IInv, TypeOK
    <3>2. QED
      BY <2>1, <2>3, <3>1 DEF AsyncPaymentSucceeds, Emit, SessionState, PayState, Kinds
  <2>4. CASE AsyncPaymentFails(s)
    <3>1. provider'[s] = [provider[s] EXCEPT !.pay = "failed"]
      BY <2>4 DEF AsyncPaymentFails, OneInv, IInv, TypeOK
    <3>2. QED
      BY <2>1, <2>4, <3>1 DEF AsyncPaymentFails, Emit, SessionState, PayState, Kinds
  <2>5. CASE SessionExpires(s)
    <3>1. provider'[s] = [provider[s] EXCEPT !.session = "expired"]
      BY <2>5 DEF SessionExpires, OneInv, IInv, TypeOK
    <3>2. QED
      BY <2>1, <2>5, <3>1 DEF SessionExpires, Emit, ProviderHolds, SessionState, PayState, Kinds
  <2>6. QED
    BY <2>2, <2>3, <2>4, <2>5 DEF Provider
<1>2. UNCHANGED <<order, payment, granted, handler, request, handed>>
  BY DEF Provider, CustomerPays, AsyncPaymentSucceeds, AsyncPaymentFails, SessionExpires, External
<1>3. event' \in [Events -> EventStatus] /\ <<s, kind>> \in Events
  BY <1>1 DEF OneInv, IInv, TypeOK, EventStatus, Events
<1>4. NoExceptions' /\ NobodyRejects'
  BY <1>1, <1>2 DEF OneInv, IInv, TypeOK, NoExceptions, NobodyRejects
<1>5. AcceptedFirst'
  BY <1>1, <1>2 DEF OneInv, AcceptedFirst
<1>6. NewsHolds(s)'
  BY <1>1, <1>2, <1>3 DEF NewsHolds, Open, OneInv, IInv, TypeOK
<1>7. ASSUME NEW t \in Sessions, t # s
      PROVE  NewsHolds(t)'
  <2>1. provider'[t] = provider[t]
    BY <1>7 DEF Provider, CustomerPays, AsyncPaymentSucceeds, AsyncPaymentFails, SessionExpires,
                OneInv, IInv, TypeOK
  <2>2. provider[t].session = "absent" /\ provider[t].pay = "none"
    BY <1>1, <1>7 DEF KeyHonoured, OneInv, IInv, TypeOK, ProvidersHold, ProviderHolds
  <2>3. QED
    BY <2>1, <2>2 DEF NewsHolds
<1>8. QED
  BY <1>4, <1>5, <1>6, <1>7

\* So do the web requests: the one session they meet is the order's own.
LEMMA OneWeb ==
  ASSUME OneInv, NEW r \in Requests, Web(r), KeyHonoured
  PROVE  NoExceptions' /\ NobodyRejects' /\ AcceptedFirst' /\ \A t \in Sessions : NewsHolds(t)'
<1>1. event' = event /\ handler' = handler
  BY DEF Web, CreateAcceptedOrder, CreateCheckoutSession, AttachCheckoutSession, AbandonRequest
<1>2. NobodyRejects'
  BY <1>1 DEF OneInv, NobodyRejects
<1>3. order'.status = order.status \/ {order.status, order'.status} \subseteq {"none"} \cup Checkoutable
  <2>1. CASE CreateAcceptedOrder(r)
    BY <2>1 DEF CreateAcceptedOrder, Checkoutable, OneInv, IInv, TypeOK
  <2>2. CASE CreateCheckoutSession(r) \/ AbandonRequest(r)
    BY <2>2 DEF CreateCheckoutSession, AbandonRequest
  <2>3. CASE AttachCheckoutSession(r)
    <3> DEFINE s == request[r].session
    <3>1. s \in Sessions /\ order.status # "none"
      BY <2>3 DEF AttachCheckoutSession, Requesting, OneInv, IInv, RequestHolds, AcceptedFirst
    <3>2. order.session = s \/ Attachable \/ order.status \notin Replaceable
      BY <2>3, <3>1 DEF AttachCheckoutSession, Requesting, OneInv, Existing, IInv, TypeOK, KeyHonoured,
                        Attachable, Replaceable, Checkoutable
    <3>3. QED
      BY <2>3, <3>1, <3>2 DEF AttachCheckoutSession, Attached, Attachable, AfterConflict, Checkoutable,
                              OneInv, IInv, TypeOK
  <2>4. QED
    BY <2>1, <2>2, <2>3 DEF Web
<1>4. NoExceptions'
  BY <1>1, <1>3 DEF OneInv, NoExceptions, Checkoutable
<1>5. AcceptedFirst'
  <2>1. CASE CreateAcceptedOrder(r)
    BY <2>1 DEF CreateAcceptedOrder, Checkoutable, AcceptedFirst, OneInv, IInv, TypeOK
  <2>2. CASE CreateCheckoutSession(r) \/ AttachCheckoutSession(r) \/ AbandonRequest(r)
    <3>1. order.status # "none"
      BY <2>2 DEF CreateCheckoutSession, AttachCheckoutSession, AbandonRequest, Requesting,
                  OneInv, AcceptedFirst
    <3>2. order'.status # "none"
      BY <2>2, <3>1 DEF CreateCheckoutSession, AttachCheckoutSession, AbandonRequest, AfterConflict,
                        OneInv, IInv, TypeOK
    <3>3. QED
      BY <3>2 DEF AcceptedFirst
  <2>3. QED
    BY <2>1, <2>2 DEF Web
<1>6. PaymentsStay
  <2>1. CASE CreateCheckoutSession(r)
    BY <2>1 DEF CreateCheckoutSession, PaymentsStay, OneInv, IInv, TypeOK
  <2>2. CASE ~CreateCheckoutSession(r)
    BY <2>2 DEF Web, CreateAcceptedOrder, AttachCheckoutSession, AbandonRequest, PaymentsStay
  <2>3. QED
    BY <2>1, <2>2
<1>7. ASSUME NEW s \in Sessions
      PROVE  NewsHolds(s)'
  BY <1>1, <1>3, <1>6 DEF OneInv, NewsHolds, PaymentsStay, Open, Checkoutable
<1>8. QED
  BY <1>2, <1>4, <1>5, <1>7

\* And the handlers: whatever they read, the order ends up telling what its
\* session has come to.
LEMMA OneFulfillment ==
  ASSUME OneInv, NEW h \in Handlers, FulfillCheckoutEvent(h), KeyHonoured
  PROVE  NoExceptions' /\ NobodyRejects' /\ AcceptedFirst' /\ \A t \in Sessions : NewsHolds(t)'
<1>1. handler[h].pc = "evidence" /\ UNCHANGED <<request, provider, handed>> /\ IInv
  BY DEF FulfillCheckoutEvent, Running, OneInv
<1>2. PICK s \in Sessions, k \in Kinds : handler[h].event = <<s, k>>
  BY <1>1 DEF IInv, HandlerHolds, ReadHolds, Events
<1>3. ~Rejects(h) /\ Session(h) = s
  BY <1>1, <1>2, NothingIsRejected DEF Session
<1>4. Ends(h)
  BY <1>3 DEF FulfillCheckoutEvent
<1>5. NobodyRejects'
  BY <1>4 DEF Ends, Idle, OneInv, IInv, TypeOK, NobodyRejects
<1>6. CASE UNCHANGED <<order, payment, granted, event>>
  BY <1>1, <1>5, <1>6 DEF OneInv, NoExceptions, AcceptedFirst, NewsHolds, Open
<1>7. CASE /\ event' = [event EXCEPT ![<<s, k>>] = "processed"]
           /\ IF AlreadyDone THEN UNCHANGED <<order, payment, granted>> ELSE Applies(Command(h), s)
  <2>1. /\ Command(h) \in {"paid", "pending", "failed", "expired"}
        /\ Command(h) = "paid" => provider[s].pay = "succeeded"
        /\ Command(h) = "expired" <=> provider[s].session = "expired"
        /\ Command(h) = "failed" => provider[s].pay \in {"failed", "succeeded"}
        /\ k = "async_failed" => Command(h) \in {"failed", "paid"}
    BY <1>1, <1>2, EvidenceHolds
  <2>2. \/ /\ order.status \in {"paid", "expired"} /\ order' = order
        \/ /\ order.status \in Replaceable \cup {"failed"} /\ order.session \in {s, None}
           /\ order'.status = CASE Command(h) = "pending" ->
                                     IF order.status \in Checkoutable THEN "payment_pending" ELSE order.status
                                [] OTHER -> Command(h)
    <3>1. CASE AlreadyDone
      BY <1>7, <3>1 DEF AlreadyDone
    <3>2. CASE ~AlreadyDone
      BY <1>1, <1>2, <1>3, <1>7, <2>1, <3>2, AppliedOrder
    <3>3. QED
      BY <3>1, <3>2
  <2>3. NoExceptions'
    BY <1>7, <2>1, <2>2 DEF OneInv, IInv, TypeOK, NoExceptions, Replaceable, Checkoutable
  <2>4. AcceptedFirst'
    BY <2>1, <2>2 DEF AcceptedFirst, Replaceable, Checkoutable
  <2>5. /\ order.status = "paid" => provider[s].pay = "succeeded"
        /\ order.status = "expired" => provider[s].session = "expired"
        /\ order.status = "failed" => provider[s].pay \in {"failed", "succeeded"}
        /\ provider[s].session = "complete" <=> provider[s].pay # "none"
    <3>1. provider[s].session # "absent"
      BY <1>1, <1>2, <2>1, EvidenceHolds
    <3>2. order.session # None => order.session = s
      BY <3>1 DEF OneInv, Existing, IInv, TypeOK, KeyHonoured
    <3>3. QED
      BY <3>2 DEF OneInv, IInv, PaidOnce, OrderHolds, TypeOK, ProvidersHold, ProviderHolds
  <2>6. NewsHolds(s)'
    <3>1. provider[s].pay = "pending" => order'.status = "payment_pending"
      BY <2>1, <2>2, <2>5 DEF Replaceable
    <3>2. provider[s].session = "expired" => order'.status = "expired"
      BY <2>1, <2>2, <2>5
    <3>3. ASSUME provider[s].pay = "failed"
          PROVE  order'.status = "failed" \/ Open(<<s, "async_failed">>)'
      <4>1. CASE k = "async_failed"
        BY <2>1, <2>2, <2>5, <3>3, <4>1
      <4>2. CASE k # "async_failed"
        <5>1. order.status = "failed" \/ Open(<<s, "async_failed">>)
          BY <3>3 DEF OneInv, NewsHolds
        <5>2. Open(<<s, "async_failed">>) => Open(<<s, "async_failed">>)'
          BY <1>7, <4>2 DEF Open, IInv, OneInv, TypeOK, Events, Kinds
        <5>3. order.status = "failed" => order'.status = "failed"
          BY <2>1, <2>2, <2>5, <3>3 DEF Checkoutable
        <5>4. QED
          BY <5>1, <5>2, <5>3
      <4>3. QED
        BY <4>1, <4>2
    <3>4. QED
      BY <1>1, <3>1, <3>2, <3>3 DEF NewsHolds
  <2>7. ASSUME NEW t \in Sessions, t # s
        PROVE  NewsHolds(t)'
    <3>1. provider[s].session # "absent"
      BY <1>1, <1>2, <2>1, EvidenceHolds
    <3>2. provider[t].session = "absent" /\ provider[t].pay = "none"
      BY <2>7, <3>1 DEF KeyHonoured, OneInv, IInv, TypeOK, ProvidersHold, ProviderHolds
    <3>3. QED
      BY <1>1, <3>2 DEF NewsHolds
  <2>8. QED
    BY <1>5, <2>3, <2>4, <2>6, <2>7
<1>8. QED
  BY <1>2, <1>3, <1>6, <1>7 DEF FulfillCheckoutEvent

\* As long as one session was created the stronger invariant holds.
THEOREM OneInductive == Spec => [](KeyHonoured => OneInv)
<1>1. Init => OneInv
  BY InitHolds DEF Init, Idle, NoRequest, OneInv, NoExceptions, NobodyRejects, AcceptedFirst,
                   Existing, NewsHolds
<1>2. ASSUME OneInv, KeyHonoured, Next, IInv'
      PROVE  OneInv'
  <2> Existing'
    BY <1>2, ExistingStays DEF OneInv
  <2>1. CASE \E s \in Sessions : Provider(s)
    BY <1>2, <2>1, OneProvider DEF OneInv
  <2>2. CASE \E r \in Requests : Web(r)
    BY <1>2, <2>2, OneWeb DEF OneInv
  <2>3. CASE \E e \in Events : AcceptStripeEvent(e)
    <3>1. PICK e \in Events : AcceptStripeEvent(e)
      BY <2>3
    <3>2. \A f \in Events : Open(f) => Open(f)'
      BY <3>1 DEF AcceptStripeEvent, Open, OneInv, IInv, TypeOK
    <3>3. NoExceptions'
      BY <1>2, <3>1 DEF AcceptStripeEvent, NoExceptions, OneInv, IInv, TypeOK
    <3>4. \A s \in Sessions : NewsHolds(s)'
      BY <1>2, <3>1, <3>2 DEF AcceptStripeEvent, OneInv, NewsHolds, Events, Kinds
    <3>5. QED
      BY <1>2, <3>1, <3>3, <3>4 DEF AcceptStripeEvent, OneInv, AcceptedFirst, NobodyRejects
  <2>4. ASSUME NEW h \in Handlers, FulfillCheckoutEvent(h)
        PROVE  OneInv'
    BY <1>2, <2>4, OneFulfillment DEF OneInv
  <2>5. ASSUME NEW h \in Handlers, Work(h) \/ HandlerStops(h), ~FulfillCheckoutEvent(h)
        PROVE  OneInv'
    <3>1. ~RecordFulfillmentException(h)
      BY <1>2 DEF RecordFulfillmentException, Running, OneInv, NobodyRejects
    <3>2. UNCHANGED <<order, payment, granted, event, request, provider, handed>>
      BY <2>5, <3>1 DEF Work, HandlerStops, RetrieveCheckoutSession, RetrievePayment
    <3>3. NobodyRejects'
      BY <1>2, <2>5, <3>1 DEF Work, HandlerStops, RetrieveCheckoutSession, RetrievePayment, Ends, Idle,
                              NobodyRejects, OneInv, IInv, TypeOK
    <3>4. QED
      BY <1>2, <3>2, <3>3 DEF OneInv, NoExceptions, AcceptedFirst, NewsHolds, Open
  <2>6. QED
    BY <1>2, <2>1, <2>2, <2>3, <2>4, <2>5 DEF Next, Work
<1>3. OneInv /\ UNCHANGED vars /\ IInv' => OneInv'
  BY DEF vars, OneInv, Existing, NoExceptions, AcceptedFirst, NobodyRejects, NewsHolds, Open
<1>4. ASSUME KeyHonoured', IInv, [Next]_vars, Existing
      PROVE  KeyHonoured
  BY <1>4, ExistingStays DEF KeyHonoured, vars
<1>5. QED
  BY <1>1, <1>2, <1>3, <1>4, Inductive, ExistingAlways, PTL DEF Spec

\* Unless the provider forgets the key, no interleaving ends as an exception.
THEOREM NoConflictWithOneSession == Spec => []NoFalseException
<1>1. (KeyHonoured => OneInv) => NoFalseException
  BY DEF OneInv, NoFalseException
<1>2. QED
  BY <1>1, OneInductive, PTL

\* Unless the provider forgets the key, the order tells what the provider knows
\* once its events have been handled, in whatever order that was.
THEOREM ConvergesWithOneSession == Spec => []Converged
<1>1. (KeyHonoured => OneInv) => Converged
  <2> SUFFICES ASSUME OneInv, Caught, NEW s \in Sessions
               PROVE  /\ provider[s].pay = "succeeded" => order.status = "paid"
                      /\ provider[s].pay = "failed" => order.status = "failed" /\ payment = "failed"
                      /\ provider[s].pay = "pending" => order.status = "payment_pending"
                      /\ provider[s].session = "expired" => order.status = "expired"
    BY DEF Converged
  <2>1. \A e \in Events : ~Open(e)
    BY DEF Caught, Open
  <2>2. \A k \in Kinds : <<s, k>> \in Events
    BY DEF Events
  <2>3. QED
    BY <2>1, <2>2 DEF OneInv, IInv, NewsHolds, OrderHolds, TakenHolds, NoExceptions, Kinds
<1>2. QED
  BY <1>1, OneInductive, PTL

-----------------------------------------------------------------------------
(* With the jobs of the events                                             *)

\* A limit of attempts, failed jobs, further deliveries and the gate of the
\* claim query add no behaviour to the checkout: whatever is proved of it
\* holds beside its jobs.
THEOREM JobsOnlyLimit == JobSpec => Spec
<1>1. JobInit => Init
  BY DEF JobInit
<1>2. [JobNext]_jobVars => [Next]_vars
  <2> SUFFICES ASSUME [JobNext]_jobVars
               PROVE  [Next]_vars
    OBVIOUS
  <2>1. ASSUME NEW s \in Sessions, Provider(s)
        PROVE  Next
    BY <2>1 DEF Next
  <2>2. ASSUME NEW r \in Requests, Web(r)
        PROVE  Next
    BY <2>2 DEF Next
  <2>3. ASSUME NEW e \in Events, AcceptStripeEvent(e)
        PROVE  Next
    BY <2>3 DEF Next
  <2>4. ASSUME NEW h \in Handlers, GoesOn(h) \/ HandlerStops(h)
        PROVE  Next
    BY <2>4 DEF Next, GoesOn, Proceeds, Work
  <2>5. ASSUME NEW h \in Handlers, NEW e \in Events, Claim(h, e)
        PROVE  Next
    BY <2>5 DEF Next, Claim, Work
  <2>6. ASSUME NEW e \in Events, JobFails(e) \/ RearmPendingStripeEventJob(e)
        PROVE  UNCHANGED vars
    BY <2>6 DEF JobFails, RearmPendingStripeEventJob
  <2>7. ASSUME GateChanges
        PROVE  UNCHANGED vars
    BY <2>7 DEF GateChanges
  <2>8. CASE UNCHANGED jobVars
    BY <2>8 DEF jobVars
  <2>9. QED
    BY <2>1, <2>2, <2>3, <2>4, <2>5, <2>6, <2>7, <2>8 DEF JobNext
<1>3. QED
  BY <1>1, <1>2, PTL DEF JobSpec, Spec

\* Attempts are counted up to their limit, and only a job whose attempts are
\* used up has failed.
JobInv ==
  /\ tries \in [Events -> 0..MaxTries]
  /\ failed \subseteq Events
  /\ held \in BOOLEAN
  /\ \A e \in failed : tries[e] = MaxTries

\* Each step keeps it: a claim finds an attempt left, so its job has not failed.
LEMMA JobsKeep ==
  ASSUME JobInv, [JobNext]_jobVars
  PROVE  JobInv'
<1> USE MaxTriesAssumption DEF JobInv
<1>1. ASSUME JobsAlone
      PROVE  JobInv'
  BY <1>1 DEF JobsAlone
<1>2. ASSUME NEW h \in Handlers, GoesOn(h)
      PROVE  JobInv'
  BY <1>2 DEF GoesOn
<1>3. ASSUME NEW h \in Handlers, NEW e \in Events, Claim(h, e)
      PROVE  JobInv'
  BY <1>3 DEF Claim
<1>4. ASSUME NEW e \in Events, JobFails(e)
      PROVE  JobInv'
  BY <1>4 DEF JobFails
<1>5. ASSUME NEW e \in Events, RearmPendingStripeEventJob(e)
      PROVE  JobInv'
  BY <1>5 DEF RearmPendingStripeEventJob
<1>6. CASE GateChanges
  BY <1>6 DEF GateChanges
<1>7. CASE UNCHANGED jobVars
  BY <1>7 DEF jobVars
<1>8. QED
  BY <1>1, <1>2, <1>3, <1>4, <1>5, <1>6, <1>7 DEF JobNext

\* The types of the checkout beside its jobs.
THEOREM JobTypeCorrect == JobSpec => []JobTypeOK
<1>1. ASSUME JobInit
      PROVE  JobInv
  <2>1. 0 \in 0..MaxTries
    BY MaxTriesAssumption
  <2>2. tries = [e \in Events |-> 0] /\ failed = {} /\ held = FALSE
    BY <1>1 DEF JobInit
  <2>3. QED
    BY <2>1, <2>2 DEF JobInv
<1>2. TypeOK /\ JobInv => JobTypeOK
  BY DEF JobTypeOK, JobInv
<1>3. QED
  BY <1>1, <1>2, JobsKeep, JobsOnlyLimit, TypeCorrect, PTL DEF JobSpec
=============================================================================
