\* Two handlers, two requests; the provider may forget the key: two sessions for one order.
SPECIFICATION Spec
CONSTANTS
  s1 = s1
  s2 = s2
  h1 = h1
  h2 = h2
  r1 = r1
  r2 = r2
  None = None
  Sessions <- TwoSessions
  Handlers <- TwoHandlers
  Requests <- TwoRequests
SYMMETRY Symmetric
CHECK_DEADLOCK FALSE
INVARIANTS
  PaidOnce
  NoForgottenPayment
  NoFalseException
  Converged
PROPERTIES
  SettledStays
