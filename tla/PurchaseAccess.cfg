\* An order refunded three times, and one that is refunded once and disputed twice.
SPECIFICATION Spec
CONSTANTS
  d1 = d1
  d2 = d2
  ItemCount = 2
  RefundCount = 3
  Subtotal <- MCSubtotal
  Tax <- MCTax
  Amount <- MCAmount
  Disputes <- TwoDisputes
  MaxEvents = 3
  MaxReads = 2
  Orders <- MCOrders
CHECK_DEADLOCK FALSE
INVARIANTS
  WithinAmounts
  SplitAsInOrder
  AttributionIsComplete
  Converged
  AccessFollowsFacts
PROPERTIES
  NothingTakenBack
