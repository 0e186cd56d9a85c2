\* Every order of one or two items with up to three refunds, one of them attributed
\* by hand; and two refunds of two items, each corrected up to twice in the reports,
\* while the ledger moves on to its second implementation.
SPECIFICATION ReportsSpec
CONSTANTS
  Purchases <- AllOrders
  ItemCounts = {1, 2}
  RefundCount = 3
  MaxPrice = 2
  MaxTax = 1
  MaxAmount = 3
  Latest = 2
  MaxCorrections = 2
CHECK_DEADLOCK FALSE
INVARIANTS
  GreedyIsOverlap
  AttributionIsExact
  ReportsWithinPaid
  NewestApprovalShown
PROPERTIES
  ReportChangesByApproval
