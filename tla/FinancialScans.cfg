\* Overlapping discoveries, a replay under a growing ledger, and both at once.
SPECIFICATION Spec
CONSTANTS
  w1 = w1
  w2 = w2
  NoWorker = NoWorker
  MaxEvidence = 2
  Overlap = 1
  Workers <- TwoWorkers
  Agendas <- MCAgendas
SYMMETRY Symmetric
CHECK_DEADLOCK FALSE
INVARIANTS
  ScansMissNothing
  CursorHasJob
PROPERTIES
  SwitchIsComplete
