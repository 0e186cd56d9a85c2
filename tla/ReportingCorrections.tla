------------------------- MODULE ReportingCorrections -------------------------
(***************************************************************************)
(* How the refunds of one payment are reported per item, and how that is   *)
(* corrected (commerce/financial).  A refund's own attribution never       *)
(* changes.  Each implementation of the ledger builds an allocation set    *)
(* over it; an administrator may approve another distribution, which is    *)
(* anchored at the set of one implementation and carried over to the next  *)
(* when the refund is replayed.  A refund is reported through its head,    *)
(* the view current_financial_projection_heads: the active set, with the   *)
(* correction if one fits, or nothing while something is wrong.            *)
(*                                                                         *)
(* The currency the provider settles in is left out: its amounts follow    *)
(* the distribution, except that a rebase may refuse them.  So are the     *)
(* disputes of the payment, categories the classifier does not know, and   *)
(* refunds that fail after they succeeded.  A fault is told by the name of *)
(* its issue, `rebase' for correction_rebase_required and `missing' for    *)
(* missing_source.                                                         *)
(***************************************************************************)
EXTENDS Integers, FiniteSets, Sequences, Functions

CONSTANTS
  Purchases,      \* the orders to choose from, with what their refunds were attributed
  Latest,         \* bound: the implementations are 1 .. Latest
  MaxCorrections  \* bound: corrections approved of one refund

Versions == 1 .. Latest
None == 0

VARIABLES
  order,    \* items, prices, refunds, their attribution, and the refunds whose
            \* balance transaction has been imported (constant)
  active,   \* the implementation reports are made with
  pending,  \* the one a replay prepares, or None
  ledger    \* refund -> its sets, corrections, open issues, evidence and jobs

reportVars == <<order, active, pending, ledger>>

A == INSTANCE RefundAllocation WITH
       ItemCount <- order.items, RefundCount <- order.refunds,
       Subtotal <- order.subtotal, Tax <- order.tax, Amount <- order.amount

\* The immutable attribution: refund_allocation_components.
Attributed == order.attributed

ComponentOf(o) == (1 .. o.items) \X {"subtotal", "tax"}
PaidIn(o, c) == IF c[2] = "subtotal" THEN o.subtotal[c[1]] ELSE o.tax[c[1]]
Component == ComponentOf(order)
Paid(c) == PaidIn(order, c)
At(parts, c) == parts[c[1]][c[2]]

Staged == order.staged

\* What PurchaseAccess keeps: succeeded refunds are attributed within what each
\* item cost.  Reports are made of succeeded refunds only.
IsAttributed(o) ==
  /\ o.items \in Nat
  /\ o.subtotal \in [1 .. o.items -> Nat] /\ o.tax \in [1 .. o.items -> Nat]
  /\ IsFiniteSet(o.succeeded) /\ o.staged \subseteq o.succeeded
  /\ \A r \in o.succeeded :
       /\ o.amount[r] \in Nat
       /\ o.attributed[r] \in [1 .. o.items -> [subtotal : Nat, tax : Nat]]
  /\ \A c \in ComponentOf(o) :
       SumFunction([r \in o.succeeded |-> At(o.attributed[r], c)]) <= PaidIn(o, c)

ASSUME PurchasesAssumption == \A o \in Purchases : IsAttributed(o)
ASSUME VersionsAssumption == Latest \in Nat \ {0} /\ MaxCorrections \in Nat
Unseen == [sets |-> {}, corrections |-> << >>, issues |-> [v \in Versions |-> {}],
           evidence |-> "pending", due |-> {}]

ReportsInit ==
  /\ order \in Purchases
  /\ active = 1 /\ pending = None
  /\ ledger = [r \in order.staged |-> Unseen]

-----------------------------------------------------------------------------
(* current_financial_projection_heads, of the implementation v *)

\* correction_tip_candidates: anchored at v and not followed by one that is
Candidates(l, v, r) ==
  LET chain == l[r].corrections IN
  {k \in DOMAIN chain : chain[k].base = v /\ (k = Len(chain) \/ chain[k + 1].base # v)}

\* effective_presentment_components; a refund without evidence has its own
EffectiveAmount(l, v, r, c) ==
  IF r \notin Staged \/ Candidates(l, v, r) = {} THEN At(Attributed[r], c)
  ELSE SumFunction([k \in Candidates(l, v, r) |-> At(l[r].corrections[k].approved, c)])

WithinPaid(l, v, c) ==
  SumFunction([r \in order.succeeded |-> EffectiveAmount(l, v, r, c)]) <= Paid(c)

\* the components a correction of refund r has a row for
Listed(r, approved) ==
  {c \in Component : At(approved, c) > 0 \/ At(Attributed[r], c) > 0}

\* mutant: a correction is compatible with whatever the other refunds take
Compatible_alone(l, v, r) == Cardinality(Candidates(l, v, r)) = 1
Compatible(l, v, r) ==
  /\ Cardinality(Candidates(l, v, r)) = 1
  /\ \A k \in Candidates(l, v, r) :
       \A c \in Listed(r, l[r].corrections[k].approved) : WithinPaid(l, v, c)

\* proposed_issue_code
HeadIssue(l, v, r) ==
  IF "rebase" \in l[r].issues[v] THEN "rebase"
  ELSE IF l[r].issues[v] # {} \/ v \in l[r].due \/ v \notin l[r].sets THEN "missing"
  ELSE IF Candidates(l, v, r) # {} /\ ~Compatible(l, v, r) THEN "rebase"
  ELSE "none"
HeadComplete(l, v, r) == HeadIssue(l, v, r) = "none"

\* compatible_correction_tip_id: the correction the head shows
CompatibleTip(l, v, r) ==
  IF HeadComplete(l, v, r) THEN Candidates(l, v, r) ELSE {}

\* current_financial_projection_items of a complete head
Shown(l, v, r, c) == EffectiveAmount(l, v, r, c)

RawTip(chain) == chain[Len(chain)]
Approvals(chain) == {k \in DOMAIN chain : chain[k].kind = "approved"}

\* What planner and rebase count for another refund: its attribution, unless
\* the correction of a head replaces it.
Sibling(l, r, c, tips) ==
  IF tips = {} THEN At(Attributed[r], c)
  ELSE At(l[r].corrections[CHOOSE k \in tips : TRUE].approved, c)

-----------------------------------------------------------------------------
(* recomputeLockedRefundFinancialProjection: the refund's source job *)

\* The set at v is built once; an older one is never added behind a newer.
CanPersist(row, v) == v \in row.sets \/ \A w \in row.sets : w < v

Resolved(row, v) == [row EXCEPT !.sets = @ \cup {v}, !.issues[v] = {}]

\* ordinarySelectedSetIds get the issue, the refund its status, and its
\* classification is armed again
Recorded(row, v, issue) ==
  [row EXCEPT !.issues[v] = IF v \in row.sets THEN @ \cup {issue} ELSE @,
              !.evidence = IF issue = "missing" THEN "pending" ELSE "exception",
              !.due = @ \cup {v}]

\* With everything that was open resolved, the head is complete or the
\* projection is rolled back: to what was open, or else to what is wrong.
Recompute(r) ==
  LET row == ledger[r]
      tried == [ledger EXCEPT ![r] = Resolved(row, active)]
      issue == IF row.issues[active] = {} THEN HeadIssue(tried, active, r)
               ELSE HeadIssue([tried EXCEPT ![r].issues = row.issues], active, r)
      recorded == Recorded(row, active, issue)
  IN IF HeadComplete(tried, active, r)
     THEN [tried[r] EXCEPT !.evidence = "fee_reconciled"]
     ELSE [recorded EXCEPT !.sets = @ \cup {active}]

Reconcile(r) ==
  /\ pending = None
  /\ ledger' = [ledger EXCEPT ![r] = Recompute(r)]
  /\ UNCHANGED <<order, active, pending>>

-----------------------------------------------------------------------------
(* planRefundReportingCorrection and executeReportingCorrectionCreate *)

Rest(r, c) ==
  Paid(c) - SumFunction([q \in order.succeeded \ {r} |->
    Sibling(ledger, q, c, IF q \in Staged THEN CompatibleTip(ledger, active, q) ELSE {})])
RestOf(r, i) == [subtotal |-> Rest(r, <<i, "subtotal">>), tax |-> Rest(r, <<i, "tax">>)]

\* readiness, and the planner's first guards: reporting is complete with the
\* newest correction if there is one, or it is to be repaired
Ready(r) ==
  LET row == ledger[r]
      tips == CompatibleTip(ledger, active, r)
  IN /\ row.evidence = "fee_reconciled"
     /\ active \in row.sets
     /\ IF HeadComplete(ledger, active, r)
        THEN tips = (IF row.corrections = << >> THEN {} ELSE {Len(row.corrections)})
        ELSE HeadIssue(ledger, active, r) = "rebase" /\ row.corrections # << >>

Baseline(r) ==
  [i \in A!Items |-> [subtotal |-> Sibling(ledger, r, <<i, "subtotal">>, CompatibleTip(ledger, active, r)),
                      tax |-> Sibling(ledger, r, <<i, "tax">>, CompatibleTip(ledger, active, r))]]

Distributions(r) ==
  {d \in [A!Items -> 0 .. order.amount[r]] : SumFunction(d) = order.amount[r]}

Planned(r, totals) ==
  [i \in A!Items |-> IF totals[i] = 0 THEN A!NoPart ELSE A!Split(RestOf(r, i), totals[i])]

\* mutant: a correction is approved while a replay prepares the next implementation
CanonicalAuthority_any == TRUE
CanonicalAuthority == pending = None

\* the row with the correction written and its issues resolved
Corrected(r, approved) ==
  [Resolved(ledger[r], active) EXCEPT
     !.corrections = Append(@, [base |-> active, approved |-> approved, kind |-> "approved"])]

Correct(r) ==
  LET baseline == Baseline(r) IN
  /\ CanonicalAuthority
  /\ Cardinality(Approvals(ledger[r].corrections)) < MaxCorrections \* bound
  /\ Ready(r)
  /\ \A c \in Component : At(Attributed[r], c) <= Rest(r, c) /\ At(baseline, c) <= Rest(r, c)
  /\ \E totals \in Distributions(r) :
       LET approved == Planned(r, totals)
           after == [ledger EXCEPT ![r] = Corrected(r, approved)]
       IN /\ \A i \in A!Items : totals[i] <= A!Minor(RestOf(r, i))
          /\ approved # baseline \/ ~HeadComplete(ledger, active, r)
          \* verifyPostResolutionHeads
          /\ Len(after[r].corrections) \in CompatibleTip(after, active, r)
          /\ ledger' = after
  /\ UNCHANGED <<order, active, pending>>

-----------------------------------------------------------------------------
(* replayFinancialClassification, and the correction it carries over *)

\* mutant: the correction that was approved first is the one carried over
Carried_first(chain) == chain[1]
Carried(chain) == RawTip(chain)

\* buildRebasedItems: the rest of the other refunds is theirs in the heads of
\* the active implementation
RebaseFits(r, v, approved) ==
  \A c \in Listed(r, approved) :
    At(approved, c) + SumFunction([q \in order.succeeded \ {r} |->
      Sibling(ledger, q, c,
        IF q \in Staged
        THEN CompatibleTip(ledger, active, q) \cap {Len(ledger[q].corrections)} ELSE {})])
    <= Paid(c)

\* the set at v replaces the one the correction is anchored at
Anchored(row, v, base) ==
  base < v /\ base \in row.sets /\ \A w \in row.sets : w <= base \/ w = v

Flagged_not(row, v) == row \* mutant: a rebase that fails is only logged
Flagged(row, v) == [row EXCEPT !.issues[v] = @ \cup {"rebase"}]

\* what the replay makes of the row; settles: the amounts in the currency of
\* settlement can be carried over too
Replayed(r, v, settles) ==
  LET row == [ledger[r] EXCEPT !.sets = @ \cup {v}, !.issues[v] = @ \ {"missing"}, !.due = @ \ {v}]
      clear == [row EXCEPT !.issues[v] = @ \ {"rebase"}]
      tip == RawTip(row.corrections)
      approved == Carried(row.corrections).approved
  IN IF row.corrections = << >> THEN row
     ELSE IF tip.base = v THEN clear
     ELSE IF Anchored(row, v, tip.base) /\ settles /\ RebaseFits(r, v, approved)
     THEN [clear EXCEPT !.corrections =
             Append(@, [base |-> v, approved |-> approved, kind |-> "rebase"])]
     ELSE Flagged(row, v)

\* A job of an older implementation just ends; one that cannot build its set
\* fails, and stays due.  Workers of both implementations may be running.
Replay(r, v) ==
  /\ v \in ledger[r].due
  /\ IF v < active THEN ledger' = [ledger EXCEPT ![r].due = @ \ {v}]
     ELSE /\ CanPersist(ledger[r], v)
          /\ \E settles \in BOOLEAN : ledger' = [ledger EXCEPT ![r] = Replayed(r, v, settles)]
  /\ UNCHANGED <<order, active, pending>>

-----------------------------------------------------------------------------
(* What arms the jobs, and the switch of FinancialScans *)

\* an event about the purchase: rearmCurrentProjectionSubjectsForFinancialSources
Rearm(r) ==
  /\ ledger' = [ledger EXCEPT ![r].due = @ \cup ({active, pending} \ {None})]
  /\ ledger' # ledger
  /\ UNCHANGED <<order, active, pending>>

\* the replay's scan registers, and asks for a job of every refund (page by page,
\* in FinancialScans, where the switch is shown to wait for them)
RegisterPending ==
  /\ pending = None /\ active < Latest /\ Staged # {}
  /\ pending' = active + 1
  /\ ledger' = [r \in Staged |-> [ledger[r] EXCEPT !.due = @ \cup {active + 1}]]
  /\ UNCHANGED <<order, active>>

\* its finalizer, when these jobs have succeeded
Activate ==
  /\ pending # None
  /\ \A r \in Staged : pending \notin ledger[r].due
  /\ active' = pending /\ pending' = None
  /\ UNCHANGED <<order, ledger>>

-----------------------------------------------------------------------------
ReportsNext ==
  \/ \E r \in Staged : Reconcile(r) \/ Correct(r) \/ Rearm(r)
  \/ \E r \in Staged, v \in Versions : Replay(r, v)
  \/ RegisterPending \/ Activate

ReportsSpec == ReportsInit /\ [][ReportsNext]_reportVars

-----------------------------------------------------------------------------
(* Properties *)

\* Whatever of the order's refunds has been attributed, the loops over refunds and
\* items that attribute the others give the overlap of their intervals.
GreedyIsOverlap == A!GivesOverlaps(order.succeeded, Attributed)

\* What the worker adds to the order's attribution is complete to the unit, within
\* the prices, and split exactly; what is reported is the outcome.
AttributionIsExact == A!IsExact(order.succeeded, Attributed)

Reported == {r \in Staged : HeadComplete(ledger, active, r)}

\* All the refunds that are reported together never give back more of an item's
\* price, or of its tax, than was paid, whatever was corrected and in whichever
\* order the corrections were carried over, lost or repaired.
ReportsWithinPaid ==
  \A c \in Component :
    SumFunction([r \in Reported |-> Shown(ledger, active, r, c)]) <= Paid(c)

\* A report that shows a correction shows the one approved last, exactly.
NewestApprovalShown ==
  \A r \in Reported :
    LET chain == ledger[r].corrections
    IN Candidates(ledger, active, r) # {} =>
         \A c \in Component : Shown(ledger, active, r, c) = At(chain[A!Max(Approvals(chain))].approved, c)

\* What is reported of a refund changes under the reader's eyes only when a
\* correction of that very refund is approved: not by a correction of another
\* one, nor by replays, nor by the switch to another implementation.
ReportChangesByApproval ==
  [][\A r \in Reported :
       \/ ~HeadComplete(ledger', active', r)
       \/ \A c \in Component : Shown(ledger', active', r, c) = Shown(ledger, active, r, c)
       \/ /\ Len(ledger'[r].corrections) > Len(ledger[r].corrections)
          /\ RawTip(ledger'[r].corrections).kind = "approved"]_reportVars
=============================================================================
