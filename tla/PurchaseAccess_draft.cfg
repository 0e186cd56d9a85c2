\* Two items, two refunds: what readers of a draft assert.
SPECIFICATION Spec
CONSTANTS
  d1 = d1
  d2 = d2
  ItemCount = 2
  RefundCount = 2
  Subtotal <- EvenSubtotal
  Tax <- EvenTax
  Amount <- OneOfTwo
  Disputes <- NoDispute
  MaxEvents = 1
  MaxReads = 1
  Orders <- EachRefunded
CHECK_DEADLOCK FALSE
INVARIANTS
  ActiveDraftMeansDraft
