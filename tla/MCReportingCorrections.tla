------------------------ MODULE MCReportingCorrections ------------------------
(***************************************************************************)
(* ReportingCorrections on one order whose two refunds were attributed by  *)
(* hand, and RefundAllocation on every small order: prices, taxes, refunds *)
(* and an administrator's attribution of the first refund are chosen, and  *)
(* what the loops of the code give is compared with reference definitions  *)
(* that run none.  Nothing is reported of the small orders.                *)
(***************************************************************************)
EXTENDS ReportingCorrections

CONSTANTS
  ItemCounts, RefundCount, MaxPrice, MaxTax, MaxAmount \* the small orders

M == INSTANCE FiniteSetsExt
Of(o) == INSTANCE RefundAllocation WITH
           ItemCount <- o.items, RefundCount <- o.refunds,
           Subtotal <- o.subtotal, Tax <- o.tax, Amount <- o.amount

\* The order once its proposals are attributed by hand, split by the code's own rule.
ByHand(o, proposal) == [o EXCEPT !.attributed = Of(o)!WithComponents(Of(o)!Nothing, proposal)]

SmallOrder(n, subtotal, tax, amount, succeeded) ==
  [items |-> n, refunds |-> RefundCount, subtotal |-> subtotal, tax |-> tax,
   amount |-> amount, succeeded |-> succeeded, attributed |-> << >>, staged |-> {}]
IsSmallOrder(o) ==
  /\ \A i \in 1 .. o.items : o.subtotal[i] + o.tax[i] > 0
  /\ \A r \in 1 .. RefundCount : r \in o.succeeded \/ o.amount[r] = 1 \* which is not read

UnattributedOrders ==
  UNION {{o \in {SmallOrder(n, subtotal, tax, amount, succeeded) :
                   subtotal \in [1 .. n -> 0 .. MaxPrice], tax \in [1 .. n -> 0 .. MaxTax],
                   amount \in [1 .. RefundCount -> 1 .. MaxAmount],
                   succeeded \in SUBSET (1 .. RefundCount)} : IsSmallOrder(o)} : n \in ItemCounts}

\* What the administrator attributed to the first refund: nothing, or all of it.
Proposals(o) ==
  {p \in [1 .. o.items -> 0 .. MaxAmount] :
     LET proposed == M!MapThenSumSet(LAMBDA i : p[i], 1 .. o.items)
     IN /\ \A i \in 1 .. o.items : p[i] <= o.subtotal[i] + o.tax[i]
        /\ proposed # 0 => 1 \in o.succeeded /\ proposed = o.amount[1]}

SmallOrders ==
  UNION {{ByHand(o, [r \in 1 .. RefundCount |->
                       IF r = 1 THEN first ELSE [i \in 1 .. o.items |-> 0]]) :
          first \in Proposals(o)} : o \in UnattributedOrders}

\* Two units of the first item were given back and all of the second, and one
\* unit was not; the balance transactions of both refunds, or of one, are known.
ReportedOrders ==
  {ByHand([items |-> 2, refunds |-> 2, subtotal |-> <<2, 1>>, tax |-> <<1, 0>>,
           amount |-> <<2, 1>>, succeeded |-> {1, 2}, attributed |-> << >>, staged |-> staged],
          <<<<2, 0>>, <<0, 1>>>>) :
   staged \in {{1}, {1, 2}}}

AllOrders == SmallOrders \cup ReportedOrders
=============================================================================
