--------------------------- MODULE MCFinancialScans ---------------------------
(***************************************************************************)
(* Instances of FinancialScans for TLC: hourly discoveries that overlap,   *)
(* a missed hour, an initial scan and an hourly one, a scan over several   *)
(* pages of everything, a replay while the ledger grows and changes, and a *)
(* scan that meets a replay.                                               *)
(***************************************************************************)
EXTENDS FinancialScans, TLC

CONSTANTS w1, w2
TwoWorkers == {w1, w2}
Symmetric == Permutations(TwoWorkers)

A(roots, retried, sources, imports, rows, hours) ==
  [roots |-> roots, retried |-> retried, sources |-> sources, imports |-> imports,
   ledger |-> rows, hours |-> hours]

Discovery == A({Hourly(1), Hourly(2)}, {<<Hourly(1), "root">>}, {}, {}, {}, 2)
MissedHour == A({Hourly(1), Hourly(3)}, {}, {}, {}, {}, 3)
InitialAndHourly == A({Initial, Hourly(2)}, {}, {1}, {}, {}, 2)
Sweep == A({Initial}, {Initial} \X {"root", "source_page"}, {1, 2}, {1, 2}, {}, 1)
LedgerReplay ==
  A({Replay}, {Replay} \X {"root", "classification_replay_finalize"}, {}, {}, {1, 2}, 1)
ScanAndReplay == A({Initial, Replay}, {}, {1}, {}, {1}, 1)
MCAgendas == {Discovery, MissedHour, InitialAndHourly, Sweep, LedgerReplay, ScanAndReplay}
=============================================================================
