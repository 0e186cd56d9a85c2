---------------------------- MODULE MCReaderState ----------------------------
(***************************************************************************)
(* An instance of ReaderState for TLC: two devices, two revisions, and a   *)
(* place that is in both revisions beside one that is not.                 *)
(***************************************************************************)
EXTENDS ReaderState, TLC

CONSTANTS r1, r2, d1, d2

TwoRevisions == {r1, r2}
TwoDevices == {d1, d2}
MCPlaces == {"cover", "page"}
OnlyCover == {"cover"}
TwoThenOne == [d \in Devices |-> IF d = d1 THEN 2 ELSE 1]
OnlyFirst == [d \in Devices |-> IF d = d1 THEN 1 ELSE 0]
Once == [d \in Devices |-> 1]
Symmetric == Permutations({r1, r2})
============================================================================
