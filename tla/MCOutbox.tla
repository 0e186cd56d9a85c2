------------------------------ MODULE MCOutbox ------------------------------
(***************************************************************************)
(* Instances of Outbox for TLC: a message with a handler and two attempts, *)
(* and one without a handler. No clause of the claim gate names the type   *)
(* of a dispatch job.                                                      *)
(***************************************************************************)
EXTENDS Outbox

CONSTANTS mail, stray, p1, p2, i1

Messages == {mail, stray}
BoxKind == [m \in Messages |-> "once"]
BoxEntity == [m \in Messages |-> m]
BoxAttempts == [m \in Messages |-> IF m = mail THEN 2 ELSE 1]
NoHandler == {stray}
NotGated == {}
MCProcs == {p1, p2}
MCSlotIds == {i1}
=============================================================================
