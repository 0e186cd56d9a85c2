--------------------------- MODULE RefundAllocation ---------------------------
(***************************************************************************)
(* The money arithmetic of refunds: which items a set of succeeded refunds *)
(* pays back when nobody has to decide (allocateDeterministicRefunds), and *)
(* how each amount is divided between an item's price and its tax          *)
(* (planRefundAllocationComponents).  No state: PurchaseAccess and         *)
(* ReportingCorrections apply these operators.  What they give is stated   *)
(* at the end without the loops.                                           *)
(*                                                                         *)
(* Items are numbered in the order of their ids, refunds in the order of   *)
(* compareRefundChronology.  What is already attributed is a function      *)
(* `parts' of refund and item; a part of nothing stands for no row.        *)
(***************************************************************************)
EXTENDS Integers, FiniteSetsExt, SequencesExt

CONSTANTS
  ItemCount,    \* order items of the order
  RefundCount,  \* refunds of its payment
  Subtotal,     \* item -> unitSubtotalMinor
  Tax,          \* item -> taxMinor
  Amount        \* refund -> amountMinor

Items == 1 .. ItemCount
Refunds == 1 .. RefundCount

Part == [subtotal : Nat, tax : Nat]
NoPart == [subtotal |-> 0, tax |-> 0]
Nothing == [r \in Refunds |-> [i \in Items |-> NoPart]]

Total(i) == Subtotal[i] + Tax[i]
Minor(part) == part.subtotal + part.tax

OrderTotal == SumFunction([i \in Items |-> Total(i)])
RefundedBy(rs) == SumFunction([r \in rs |-> Amount[r]])

\* The minor units of item i that are attributed to some refund, of refund r
\* that are attributed to some item, and what is left of each.
ItemAllocated(parts, i) == SumFunction([r \in Refunds |-> Minor(parts[r][i])])
RefundAllocated(parts, r) == SumFunction([i \in Items |-> Minor(parts[r][i])])
ItemRest(parts, i) == Total(i) - ItemAllocated(parts, i)
RefundRest(parts, r) == Amount[r] - RefundAllocated(parts, r)
FullyAllocated(parts, i) == ItemAllocated(parts, i) = Total(i)

-----------------------------------------------------------------------------
(* allocateDeterministicRefunds *)

Inconsistent(succeeded, parts) ==
  \/ \E r \in Refunds \ succeeded : RefundAllocated(parts, r) > 0
  \/ RefundedBy(succeeded) > OrderTotal
  \/ \E r \in succeeded : RefundRest(parts, r) < 0
  \/ \E i \in Items : ItemRest(parts, i) < 0

\* The state of the result.  One item takes whatever is refunded; several
\* items only when the refunds still open pay back everything still open.
AllocationState(succeeded, parts) ==
  LET open == SumFunction([r \in succeeded |-> RefundRest(parts, r)])
      room == SumFunction([i \in Items |-> ItemRest(parts, i)])
  IN IF Inconsistent(succeeded, parts) \/ (ItemCount > 1 /\ open > room) THEN "exception"
     ELSE IF open = 0 THEN "noop"
     ELSE IF ItemCount = 1 \/ open = room THEN "allocated" ELSE "needs_review"

\* mutant: the refunds are taken newest first
Cells_newestFirst == [k \in 1 .. RefundCount * ItemCount |->
  <<RefundCount - ((k - 1) \div ItemCount), ((k - 1) % ItemCount) + 1>>]
\* Every (refund, item) pair, refund by refund.
Cells == [k \in 1 .. RefundCount * ItemCount |->
            <<((k - 1) \div ItemCount) + 1, ((k - 1) % ItemCount) + 1>>]

NoAmounts == [r \in Refunds |-> [i \in Items |-> 0]]

\* What refund r and item i still have when `new' is given.
RefundOpen(parts, new, r) == RefundRest(parts, r) - SumFunction(new[r])
ItemOpen(parts, new, i) == ItemRest(parts, i) - SumFunction([r \in Refunds |-> new[r][i]])

\* Each pair takes what both sides still have.  With a single item a refund
\* simply gives its remainder.
Give(succeeded, parts, new, cell) ==
  LET r == cell[1]
      i == cell[2]
      refundOpen == RefundOpen(parts, new, r)
      itemOpen == ItemOpen(parts, new, i)
  IN IF r \notin succeeded THEN new
     ELSE [new EXCEPT ![r][i] = IF ItemCount = 1 THEN refundOpen
                                ELSE Min({refundOpen, itemOpen})]

\* The loop over refunds and, inside it, over items.
Given(succeeded, parts) ==
  LET new[k \in 0 .. RefundCount * ItemCount] ==
        IF k = 0 THEN NoAmounts ELSE Give(succeeded, parts, new[k - 1], Cells[k])
  IN new
NewAmounts(succeeded, parts) == Given(succeeded, parts)[RefundCount * ItemCount]

-----------------------------------------------------------------------------
(* planRefundAllocationComponents *)

\* mutant: what rounding loses always goes to the tax
Split_floor(left, amount) ==
  LET subtotal == (amount * left.subtotal) \div Minor(left)
  IN [subtotal |-> subtotal, tax |-> amount - subtotal]
\* An amount is divided in proportion to what the item has left; the unit lost
\* to rounding goes to the larger remainder, to the subtotal on a tie.
Split(left, amount) ==
  LET whole == Minor(left)
      subtotal == (amount * left.subtotal) \div whole
      tax == (amount * left.tax) \div whole
      leftover == amount - subtotal - tax
      subtotalFirst ==
        (amount * left.subtotal) % whole >= (amount * left.tax) % whole
  IN [subtotal |-> subtotal + (IF subtotalFirst THEN leftover ELSE 0),
      tax |-> tax + (IF subtotalFirst THEN 0 ELSE leftover)]

Minus(left, part) ==
  [subtotal |-> left.subtotal - part.subtotal, tax |-> left.tax - part.tax]

\* What item i has left when `parts' is taken from it.
Left(parts, i) ==
  [subtotal |-> Subtotal[i] - SumFunction([r \in Refunds |-> parts[r][i].subtotal]),
   tax |-> Tax[i] - SumFunction([r \in Refunds |-> parts[r][i].tax])]

Fits(left, part, amount) ==
  /\ part.subtotal \in 0 .. left.subtotal
  /\ part.tax \in 0 .. left.tax
  /\ Minor(part) = amount

\* Refund r gets its part of what the item has left.
Plan(plan, r, amount) ==
  LET part == Split(plan.left, amount)
  IN IF amount = 0 \/ plan.rejected THEN plan
     ELSE IF amount > Minor(plan.left) \/ ~Fits(plan.left, part, amount)
          THEN [plan EXCEPT !.rejected = TRUE]
     ELSE [plan EXCEPT !.left = Minus(plan.left, part), !.part[r] = part]

\* The parts of item i once its new amounts are split, in chronological order;
\* `rejected' is permanentReconciliationFailure.
Plans(parts, new, i) ==
  LET plan[k \in 0 .. RefundCount] ==
        IF k = 0 THEN [left |-> Left(parts, i), rejected |-> FALSE,
                       part |-> [r \in Refunds |-> parts[r][i]]]
        ELSE Plan(plan[k - 1], k, new[k][i])
  IN plan
PlannedItem(parts, new, i) == Plans(parts, new, i)[RefundCount]

Rejected(parts, new) == \E i \in Items : PlannedItem(parts, new, i).rejected

\* The attribution after the new rows are written.
WithComponents(parts, new) ==
  [r \in Refunds |-> [i \in Items |-> PlannedItem(parts, new, i).part[r]]]

\* A refund may not be attributed to an item after a later one was: the split of
\* the later one has been computed without it.
OutOfOrder(parts, new) ==
  \E i \in Items, early \in Refunds, late \in Refunds :
    /\ early < late
    /\ new[early][i] > 0
    /\ Minor(parts[late][i]) > 0
-----------------------------------------------------------------------------
(* What the loops give, without a loop *)

\* What lies before refund r (item i) when the open remainders of the succeeded
\* refunds (of the items) are laid end to end.
RefundsBefore(succeeded, parts, r) ==
  SumFunction([q \in {q \in succeeded : q < r} |-> RefundRest(parts, q)])
ItemsBefore(parts, i) ==
  SumFunction([j \in {j \in Items : j < i} |-> ItemRest(parts, j)])

Overlap(from, length, fromOther, lengthOther) ==
  LET start == Max({from, fromOther})
      stop == Min({from + length, fromOther + lengthOther})
  IN Max({0, stop - start})

\* The nested loops give refund r and item i exactly the overlap of their
\* intervals when the remainders of both sides are laid end to end: the
\* attribution depends on the order of refunds and items and on nothing else.
GivesOverlaps(succeeded, parts) ==
  AllocationState(succeeded, parts) = "allocated" =>
    \A r \in Refunds, i \in Items :
      NewAmounts(succeeded, parts)[r][i] =
        IF r \notin succeeded THEN 0
        ELSE Overlap(RefundsBefore(succeeded, parts, r), RefundRest(parts, r),
                     ItemsBefore(parts, i), ItemRest(parts, i))

\* What item i has left when refund r gets its part.
LeftFor(parts, after, r, i) ==
  Left([q \in Refunds |-> IF q < r \/ Minor(parts[q][i]) > 0 THEN after[q] ELSE parts[q]], i)

\* The arithmetic finds an exception exactly in refunds that exceed the order.  An
\* automatic attribution leaves no unit of a succeeded refund open and, with
\* several items, no unit of an item: the loops never end in their exception.
\* Splitting never fails and never takes more price or more tax than the item has
\* left, whatever was attributed before; each price part is the exact proportion
\* rounded to the nearest unit, halves up.
IsExact(succeeded, parts) ==
  LET state == AllocationState(succeeded, parts)
      new == NewAmounts(succeeded, parts)
      after == WithComponents(parts, new)
  IN /\ state = "exception" <=> RefundedBy(succeeded) > OrderTotal
     /\ state = "allocated" /\ ~OutOfOrder(parts, new) =>
          /\ ~Rejected(parts, new)
          /\ \A r \in succeeded : RefundRest(after, r) = 0
          /\ \A i \in Items :
               /\ ItemCount > 1 => FullyAllocated(after, i)
               /\ Left(after, i).subtotal \in 0 .. Subtotal[i]
               /\ Left(after, i).tax \in 0 .. Tax[i]
               /\ \A r \in Refunds :
                    LET left == LeftFor(parts, after, r, i)
                        whole == Minor(left)
                    IN new[r][i] > 0 =>
                         after[r][i].subtotal =
                           (2 * new[r][i] * left.subtotal + whole) \div (2 * whole)
=============================================================================
