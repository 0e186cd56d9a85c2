------------------------------- MODULE MCCatalog -------------------------------
(***************************************************************************)
(* An instance of Catalog for TLC: one revision that is retried once, with *)
(* two attempts of its first job, and one cover.                           *)
(***************************************************************************)
EXTENDS Catalog

CONSTANTS r1, a1, c1

OneRevision == {r1}
OneAdmin == {a1}
OneCover == {c1}
RetriedOnce == [r \in Revisions |-> 1]
TwoThenOne == [j \in Jobs |-> IF j[2] = 0 THEN 2 ELSE 1]
=============================================================================
