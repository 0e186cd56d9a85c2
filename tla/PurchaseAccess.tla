----------------------------- MODULE PurchaseAccess -----------------------------
(***************************************************************************)
(* What a paid order still gives its buyer: the refunds and disputes of    *)
(* its payment, their attribution to the order's items, the purchase grant *)
(* of each item and the entitlement the reader checks.                     *)
(*                                                                         *)
(* Stripe events arrive in any order.  A handler reads the provider first  *)
(* and applies what it read in a transaction later (handler.ts), while     *)
(* other handlers, a guest's claim, and an administrator who drafts,       *)
(* finalizes or repairs an attribution do the same.  Every transaction     *)
(* locks the order first, so each is one step here.                        *)
(***************************************************************************)
EXTENDS RefundAllocation

CONSTANTS
  Disputes,   \* disputes of the payment
  MaxEvents,  \* bound: events the provider sends about one refund or dispute
  MaxReads,   \* bound: provider reads in flight
  Orders      \* orders to start from: who bought, and a bound on the events about each object

Objects == Refunds \cup Disputes
Times == 1 .. MaxEvents

\* The checks of allocateDeterministicRefunds: there are items, none free, and no
\* refund is empty.
ASSUME AmountsAssumption ==
  /\ ItemCount \in Nat \ {0} /\ RefundCount \in Nat
  /\ Subtotal \in [Items -> Nat] /\ Tax \in [Items -> Nat]
  /\ \A i \in Items : Total(i) > 0
  /\ Amount \in [Refunds -> Nat \ {0}]
ASSUME ObjectsAssumption == Disputes \cap Refunds = {}
ASSUME BoundsAssumption == MaxEvents \in Nat /\ MaxReads \in Nat
ASSUME OrdersAssumption ==
  Orders \subseteq [account : BOOLEAN, events : [Objects -> 0 .. MaxEvents]]

VARIABLES
  provider,     \* refund or dispute -> what Stripe says of it
  event,        \* refund or dispute -> n -> the n-th event about it
  reads,        \* provider reads that a handler has not applied yet
  paid,         \* the order is fulfilled (Checkout)
  owner,        \* the purchase grants have a user
  refund,       \* refund -> local status and attribution
  parts,        \* refund -> item -> allocation with its component
  draft,        \* refund -> proposal of its active draft
  dispute,      \* dispute -> local status and the time of the event behind it
  grant,        \* item -> state of its purchase grant
  effects,      \* items whose grant a finalization revoked
  recovery,     \* item -> state of its administrative recovery grant
  entitlement   \* item -> the owner may read its title

vars == <<provider, event, reads, paid, owner, refund, parts, draft, dispute,
          grant, effects, recovery, entitlement>>

Proposals == [Items -> 0 .. OrderTotal]
NoDraft == [i \in Items |-> -1]
Proposed(p) == SumFunction(p)

RefundStatus == {"none", "pending", "succeeded", "failed"}
DisputeStatus == {"none", "open", "won", "lost"}
Attribution == {"not_applicable", "needs_review", "draft", "finalized", "exception"}
GrantState == {"none", "unclaimed", "active", "suspended", "revoked"}

Reads == [object : Objects, time : Times, status : RefundStatus \cup DisputeStatus]

TypeOK ==
  /\ provider \in [Objects -> RefundStatus \cup DisputeStatus]
  /\ event \in [Objects -> [Times -> {"unsent", "pending", "processed", "exception", "never"}]]
  /\ reads \subseteq Reads
  /\ paid \in BOOLEAN /\ owner \in BOOLEAN
  /\ refund \in [Refunds -> [status : RefundStatus, attribution : Attribution]]
  /\ parts \in [Refunds -> [Items -> Part]]
  /\ \A r \in Refunds : draft[r] # NoDraft =>
       draft[r] \in Proposals /\ Proposed(draft[r]) = Amount[r]
  /\ dispute \in [Disputes -> [status : DisputeStatus, at : 0 .. MaxEvents]]
  /\ grant \in [Items -> GrantState]
  /\ effects \subseteq Items
  /\ recovery \in [Items -> {"none", "active", "revoked"}]
  /\ entitlement \in [Items -> BOOLEAN]

Init ==
  /\ provider = [o \in Objects |-> "none"]
  /\ \E order \in Orders :
       /\ owner = order.account
       /\ event = [o \in Objects |-> [n \in Times |->
                     IF n <= order.events[o] THEN "unsent" ELSE "never"]]
  /\ reads = {}
  /\ paid = FALSE
  /\ refund = [r \in Refunds |-> [status |-> "none", attribution |-> "not_applicable"]]
  /\ parts = Nothing
  /\ draft = [r \in Refunds |-> NoDraft]
  /\ dispute = [d \in Disputes |-> [status |-> "none", at |-> 0]]
  /\ grant = [i \in Items |-> "none"]
  /\ effects = {}
  /\ recovery = [i \in Items |-> "none"]
  /\ entitlement = [i \in Items |-> FALSE]

-----------------------------------------------------------------------------
(***************************************************************************)
(* The provider (external).  A refund may fail even after it succeeded;    *)
(* what is refunded at a time never exceeds the payment.  A dispute opens  *)
(* and is won or lost.  Every change is told by an event, numbered in the  *)
(* order of its time.                                                      *)
(***************************************************************************)
Later(o) ==
  IF o \in Refunds
  THEN CASE provider[o] = "none" -> {"pending", "succeeded"}
         [] provider[o] = "pending" -> {"succeeded", "failed"}
         [] provider[o] = "succeeded" -> {"failed"}
         [] OTHER -> {}
  ELSE CASE provider[o] = "none" -> {"open"}
         [] provider[o] = "open" -> {"open", "won", "lost"}
         [] OTHER -> {}

ProviderChanges(o, n) ==
  /\ event[o][n] = "unsent"
  /\ n > 1 => event[o][n - 1] # "unsent"
  /\ provider' \in {[provider EXCEPT ![o] = s] : s \in Later(o)}
  /\ RefundedBy({r \in Refunds : provider'[r] \in {"pending", "succeeded"}}) <= OrderTotal
  /\ event' = [event EXCEPT ![o][n] = "pending"]
  /\ UNCHANGED <<reads, paid, owner, refund, parts, draft, dispute, grant,
                 effects, recovery, entitlement>>

-----------------------------------------------------------------------------
(* Grants and entitlements *)

Succeeded_pending(rf) == \* mutant: a pending refund counts already
  {r \in Refunds : rf[r].status \in {"pending", "succeeded"}}
Succeeded(rf) == {r \in Refunds : rf[r].status = "succeeded"}

\* deriveDisputedPurchaseGrantState, and the same rules in the claim's SQL
DerivedGrant(i, g, ps, ds, hasUser) ==
  IF \/ g = "revoked"
     \/ FullyAllocated(ps, i)
     \/ \E d \in Disputes : ds[d].status = "lost"
  THEN "revoked"
  ELSE IF \E d \in Disputes : ds[d].status = "open" THEN "suspended"
  ELSE IF hasUser THEN "active" ELSE "unclaimed"

\* The owner reads a title while some grant for it is active.
Effective(g, rec, i) == g[i] = "active" \/ rec[i] = "active"

\* projectEffectiveEntitlement for the items in the set
Projected(items, g, rec) ==
  [i \in Items |-> IF i \in items /\ owner THEN Effective(g, rec, i) ELSE entitlement[i]]

Changed(g) == {i \in Items : g[i] # grant[i]}

\* recomputeRefundPurchaseAccess: only what is fully refunded is revoked
Recomputed(ps) ==
  [i \in Items |-> IF FullyAllocated(ps, i) THEN "revoked" ELSE grant[i]]

\* finalizePaidOrder creates one purchase grant per item
PaymentFulfilled ==
  /\ ~paid
  /\ paid' = TRUE
  /\ grant' = [i \in Items |-> IF owner THEN "active" ELSE "unclaimed"]
  /\ entitlement' = [i \in Items |-> owner]
  /\ UNCHANGED <<provider, event, reads, owner, refund, parts, draft, dispute,
                 effects, recovery>>

-----------------------------------------------------------------------------
(* Event handlers *)

\* retrieveRefund or retrieveDispute for a pending event
RetrieveObject(o, n) ==
  /\ event[o][n] = "pending"
  /\ Cardinality(reads) < MaxReads
  /\ reads' = reads \cup {[object |-> o, time |-> n, status |-> provider[o]]}
  /\ UNCHANGED <<provider, event, paid, owner, refund, parts, draft, dispute,
                 grant, effects, recovery, entitlement>>

\* The attempt ends without effect: the worker dies, the job is aborted, the
\* event is no longer pending, or the order is not fulfilled yet
\* (LocalCommerceNotReadyError) and the job is retried.
HandlerStops(x) ==
  /\ reads' = reads \ {x}
  /\ UNCHANGED <<provider, event, paid, owner, refund, parts, draft, dispute,
                 grant, effects, recovery, entitlement>>

\* The transaction's guard: event row locked and pending, payment succeeded.
Handled(x) ==
  /\ event[x.object][x.time] = "pending"
  /\ paid
  /\ reads' = reads \ {x}

Completed(x, outcome) == [event EXCEPT ![x.object][x.time] = outcome]

RefundConflict_never(r, incoming) == FALSE \* mutant: the last word wins
\* storeCanonicalRefund rejects a second final status
RefundConflict(r, incoming) ==
  refund[r].status \notin {"none", "pending", incoming} /\ incoming # "pending"

StoredRefund_latest(r, incoming) == \* mutant: old news of a pending refund is stored
  [status |-> incoming,
   attribution |-> IF incoming = "succeeded" THEN "needs_review" ELSE "not_applicable"]
\* storeCanonicalRefund, when it accepts
StoredRefund(r, incoming) ==
  LET known == refund[r].status
      status == IF known \in {"none", "pending"} THEN incoming ELSE known
  IN [status |-> status,
      attribution |->
        IF status # "succeeded" THEN "not_applicable"
        ELSE IF known = "none" THEN "needs_review" ELSE refund[r].attribution]

OutOfOrderResult_unchecked(state, new) == state \* mutant: late news is attributed as if in order
OutOfOrderResult(state, new) ==
  IF state = "allocated" /\ OutOfOrder(parts, new) THEN "exception" ELSE state

\* The loop over all refunds that sets refunds.allocationStatus.
NextAttribution_keepDone(rf, state, ps) == \* mutant: a review status outlives the automatic attribution
  [r \in Refunds |->
    IF rf[r].status # "succeeded" THEN "not_applicable"
    ELSE IF state = "exception" THEN "exception"
    ELSE IF rf[r].attribution = "draft" THEN "draft"
    ELSE IF RefundAllocated(ps, r) = Amount[r] THEN "finalized"
    ELSE IF state = "needs_review" THEN "needs_review" ELSE "exception"]
NextAttribution(rf, state, ps) ==
  [r \in Refunds |->
    IF rf[r].status # "succeeded" THEN "not_applicable"
    ELSE IF state = "exception" THEN "exception"
    ELSE IF RefundAllocated(ps, r) = Amount[r] THEN "finalized"
    ELSE IF state # "needs_review" THEN "exception"
    ELSE IF rf[r].attribution = "draft" THEN "draft" ELSE "needs_review"]

FulfillRefundEvent(x) ==
  LET r == x.object
      stored == [refund EXCEPT ![r] = StoredRefund(r, x.status)]
      new == NewAmounts(Succeeded(stored), parts)
      state == OutOfOrderResult(AllocationState(Succeeded(stored), parts), new)
      after == IF state = "allocated" THEN WithComponents(parts, new) ELSE parts
      access == IF state \in {"allocated", "noop"} THEN Recomputed(after) ELSE grant
      attribution == NextAttribution(stored, state, after)
  IN /\ r \in Refunds
     /\ Handled(x)
     /\ IF RefundConflict(r, x.status) \/ (state = "allocated" /\ Rejected(parts, new))
        THEN /\ event' = Completed(x, "exception")  \* recordFulfillmentException
             /\ UNCHANGED <<refund, parts, grant, entitlement>>
        ELSE /\ event' = Completed(x, IF state \in {"allocated", "noop"}
                                      THEN "processed" ELSE "exception")
             /\ refund' = [q \in Refunds |->
                  [status |-> stored[q].status, attribution |-> attribution[q]]]
             /\ parts' = after
             /\ grant' = access
             /\ entitlement' = Projected(Changed(access), access, recovery)
     /\ UNCHANGED <<provider, paid, owner, draft, dispute, effects, recovery>>

DisputeConflict(d, incoming) ==
  dispute[d].status \notin {"none", "open", incoming} /\ incoming # "open"

\* storeDispute, when it accepts: older news is ignored, and a closed dispute
\* does not open again
StoredDispute(d, incoming, at) ==
  IF /\ dispute[d].status # "none"
     /\ at < dispute[d].at \/ (dispute[d].status # "open" /\ incoming = "open")
  THEN dispute[d]
  ELSE [status |-> incoming, at |-> at]

FulfillDisputeEvent(x) ==
  LET d == x.object
      stored == [dispute EXCEPT ![d] = StoredDispute(d, x.status, x.time)]
      access == [i \in Items |-> DerivedGrant(i, grant[i], parts, stored, owner)]
  IN /\ d \in Disputes
     /\ Handled(x)
     /\ IF DisputeConflict(d, x.status)
        THEN /\ event' = Completed(x, "exception")
             /\ UNCHANGED <<dispute, grant, entitlement>>
        ELSE /\ event' = Completed(x, "processed")
             /\ dispute' = stored
             /\ grant' = access
             /\ entitlement' = Projected(Changed(access), access, recovery)
     /\ UNCHANGED <<provider, paid, owner, refund, parts, draft, effects, recovery>>

-----------------------------------------------------------------------------
(* The guest's claim *)

ClaimedGrant_active(i) == "active" \* mutant: a claim activates every grant
ClaimedGrant(i) == DerivedGrant(i, grant[i], parts, dispute, TRUE)

\* claim_guest_purchases_after_authorization, for an eligible identity
ClaimGuestPurchases ==
  /\ paid /\ ~owner
  /\ owner' = TRUE
  /\ grant' = [i \in Items |-> ClaimedGrant(i)]
  /\ entitlement' = [i \in Items |-> Effective(grant', recovery, i)]
  /\ UNCHANGED <<provider, event, reads, paid, refund, parts, draft, dispute,
                 effects, recovery>>

-----------------------------------------------------------------------------
(* The administrator *)

\* prepareRefundDraftFacts; anything else is a refusal that changes nothing
Draftable(r) ==
  /\ paid
  /\ refund[r].status = "succeeded"
  /\ RefundAllocated(parts, r) = 0
  /\ \/ refund[r].attribution = "needs_review" /\ draft[r] = NoDraft
     \/ refund[r].attribution = "draft" /\ draft[r] # NoDraft

\* completeSnapshot: within what each item has left, for the whole refund
Proposable(r, p) ==
  /\ \A i \in Items : p[i] <= ItemRest(parts, i)
  /\ Proposed(p) = Amount[r]

SaveRefundDraft(r, p) ==
  /\ Draftable(r)
  /\ Proposable(r, p)
  /\ draft' = [draft EXCEPT ![r] = p]
  /\ refund' = [refund EXCEPT ![r].attribution = "draft"]
  /\ UNCHANGED <<provider, event, reads, paid, owner, parts, dispute, grant,
                 effects, recovery, entitlement>>

DiscardRefundDraft(r) ==
  /\ Draftable(r)
  /\ draft[r] # NoDraft
  /\ draft' = [draft EXCEPT ![r] = NoDraft]
  /\ refund' = [refund EXCEPT ![r].attribution = "needs_review"]
  /\ UNCHANGED <<provider, event, reads, paid, owner, parts, dispute, grant,
                 effects, recovery, entitlement>>

\* hasCompleteFinalizedAttribution
Complete(r) ==
  refund[r].attribution = "finalized" /\ RefundAllocated(parts, r) = Amount[r]

\* Every earlier refund is done, and no later one has touched these items.
InChronology(r, new) ==
  /\ \A q \in Succeeded(refund) : q < r => Complete(q)
  /\ ~OutOfOrder(parts, new)

\* executeRefundAllocationFinalizeLocked: the preview's facts are derived again
\* under lock; a changed fingerprint, or financial evidence that is not
\* reconciled, refuses.
FinalizeRefund(r) ==
  LET new == [q \in Refunds |-> [i \in Items |-> IF q = r THEN draft[r][i] ELSE 0]]
      after == WithComponents(parts, new)
      access == Recomputed(after)
  IN /\ paid
     /\ refund[r].status = "succeeded" /\ refund[r].attribution = "draft"
     /\ RefundAllocated(parts, r) = 0
     /\ draft[r] # NoDraft
     /\ Proposable(r, draft[r])
     /\ InChronology(r, new)
     /\ ~Rejected(parts, new)
     /\ parts' = after
     /\ draft' = [draft EXCEPT ![r] = NoDraft]
     /\ refund' = [refund EXCEPT ![r].attribution = "finalized"]
     /\ grant' = access
     /\ effects' = effects \cup {i \in Changed(access) : draft[r][i] > 0}
     /\ entitlement' = Projected(Changed(access), access, recovery)
     /\ UNCHANGED <<provider, event, reads, paid, owner, dispute, recovery>>

\* transition_administrative_recovery_grant_after_admin_command, activation;
\* it also wants a reporting correction of that refund.
ActivateRecovery(i) ==
  /\ i \in effects /\ owner
  /\ grant[i] = "revoked"
  /\ recovery[i] # "active"
  /\ \A r \in Succeeded(refund) : Complete(r) /\ draft[r] = NoDraft
  /\ recovery' = [recovery EXCEPT ![i] = "active"]
  /\ entitlement' = Projected({i}, grant, recovery')
  /\ UNCHANGED <<provider, event, reads, paid, owner, refund, parts, draft,
                 dispute, grant, effects>>

DeactivateRecovery(i) ==
  /\ recovery[i] = "active"
  /\ recovery' = [recovery EXCEPT ![i] = "revoked"]
  /\ entitlement' = Projected({i}, grant, recovery')
  /\ UNCHANGED <<provider, event, reads, paid, owner, refund, parts, draft,
                 dispute, grant, effects>>

-----------------------------------------------------------------------------
Next ==
  \/ \E o \in Objects, n \in Times : ProviderChanges(o, n) \/ RetrieveObject(o, n)
  \/ \E x \in reads : HandlerStops(x) \/ FulfillRefundEvent(x) \/ FulfillDisputeEvent(x)
  \/ PaymentFulfilled
  \/ ClaimGuestPurchases
  \/ \E r \in Refunds, p \in Proposals : SaveRefundDraft(r, p)
  \/ \E r \in Refunds : DiscardRefundDraft(r) \/ FinalizeRefund(r)
  \/ \E i \in Items : ActivateRecovery(i) \/ DeactivateRecovery(i)

Spec == Init /\ [][Next]_vars

-----------------------------------------------------------------------------
(* Properties *)

\* What the buyer may read is what the stored facts say, whichever of the event
\* handlers, the claim and the administrator came last: a purchase grant is
\* revoked for good once its item is fully refunded or a dispute is lost, and
\* suspended while one is open; and the owner is entitled to a title exactly
\* while its purchase grant or its recovery grant is active.
AccessFollowsFacts ==
  LET lost == \E d \in Disputes : dispute[d].status = "lost"
      open == \E d \in Disputes : dispute[d].status = "open"
  IN \A i \in Items :
       /\ grant[i] = IF ~paid THEN "none"
                     ELSE IF lost \/ FullyAllocated(parts, i) THEN "revoked"
                     ELSE IF open THEN "suspended"
                     ELSE IF owner THEN "active" ELSE "unclaimed"
       /\ entitlement[i] <=> owner /\ Effective(grant, recovery, i)

\* Nobody is refunded more than was paid: attribution stays within each
\* refund, within each item's price and tax, and is all or nothing per refund.
WithinAmounts ==
  /\ \A i \in Items :
       /\ SumFunction([r \in Refunds |-> parts[r][i].subtotal]) <= Subtotal[i]
       /\ SumFunction([r \in Refunds |-> parts[r][i].tax]) <= Tax[i]
  /\ \A r \in Refunds : RefundAllocated(parts, r) \in
       IF refund[r].status = "succeeded" THEN {0, Amount[r]} ELSE {0}

\* The stored split of every allocation is the one that attributing all refunds
\* in chronological order would give, though they were attributed as the news
\* came in, some by the worker and some by hand.
SplitAsInOrder ==
  parts = WithComponents(Nothing, [r \in Refunds |-> [i \in Items |-> Minor(parts[r][i])]])

\* What the review screen shows is true: a refund shown as finalized is
\* attributed in full, one that waits for review or has a draft not at all.
AttributionIsComplete ==
  \A r \in Refunds :
    /\ refund[r].attribution = "finalized" => RefundAllocated(parts, r) = Amount[r]
    /\ refund[r].attribution \in {"needs_review", "draft"} => RefundAllocated(parts, r) = 0

\* No step takes back an attribution, a final status, a lost dispute or a
\* revocation.
NothingTakenBack ==
  [][/\ \A r \in Refunds, i \in Items :
          Minor(parts[r][i]) > 0 => parts'[r][i] = parts[r][i]
     /\ \A r \in Refunds : refund[r].status \in {"succeeded", "failed"} =>
          refund'[r].status = refund[r].status
     /\ \A d \in Disputes : dispute[d].status \in {"won", "lost"} =>
          dispute'[d].status = dispute[d].status
     /\ \A i \in Items : grant[i] = "revoked" => grant'[i] = "revoked"]_vars

\* When every event that was sent has been handled, in whatever order, the
\* local status is the provider's; only a refund that failed after it had
\* succeeded stays succeeded, and is an exception.
Converged ==
  /\ \A r \in Refunds : (\A n \in Times : event[r][n] # "pending") =>
       \/ refund[r].status = provider[r]
       \/ /\ refund[r].status = "succeeded" /\ provider[r] = "failed"
          /\ \E n \in Times : event[r][n] = "exception"
  /\ \A d \in Disputes : (\A n \in Times : event[d][n] # "pending") =>
       dispute[d].status = provider[d]

\* An active draft belongs to a refund whose attribution status is draft: what
\* every reader of a draft asserts (drafts.ts, query.ts).
ActiveDraftMeansDraft ==
  \A r \in Refunds : draft[r] # NoDraft => refund[r].attribution = "draft"
=============================================================================
