--------------------------- MODULE MCPurchaseAccess ---------------------------
(***************************************************************************)
(* Instances of PurchaseAccess for TLC: two items, prices chosen so that a *)
(* refund can be partial, complete an item, or complete the order, and so  *)
(* that splitting it between price and tax rounds.                         *)
(***************************************************************************)
EXTENDS PurchaseAccess

CONSTANTS d1, d2

NoDispute == {}
TwoDisputes == {d1, d2}

\* Of 2 + 2 and 1 + 0. The first refund pays the second item or a part of the
\* first; the first two pay the first item; all three pay the order.
MCSubtotal == <<2, 1>>
MCTax == <<2, 0>>
MCAmount == <<1, 3, 1>>

\* What is refunded of an account's order: most happens to the second refund.
Refunded == [account |-> TRUE,
             events |-> [o \in Objects |-> IF o = 2 THEN MaxEvents
                                          ELSE IF o \in Refunds THEN 1 ELSE 0]]
\* The payment is disputed twice and refunded once.
Disputed(account) ==
  [account |-> account,
   events |-> [o \in Objects |-> IF o = d1 THEN MaxEvents ELSE IF o = d2 THEN 2
                                ELSE IF o = 1 THEN 1 ELSE 0]]
MCOrders == {Refunded, Disputed(TRUE), Disputed(FALSE)}

\* two items of 1 + 1 and 1 + 0, each refunded by a refund of its own
EvenSubtotal == <<1, 1>>
EvenTax == <<1, 0>>
OneOfTwo == <<2, 1>>
EachRefunded == {[account |-> TRUE, events |-> [o \in Objects |-> 1]]}
=============================================================================
