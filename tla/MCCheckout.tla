----------------------------- MODULE MCCheckout -----------------------------
(***************************************************************************)
(* An instance of Checkout for TLC: two sessions, of which the second is   *)
(* created when the provider has forgotten the idempotency key.            *)
(***************************************************************************)
EXTENDS Checkout, TLC

CONSTANTS s1, s2, h1, h2, r1, r2

TwoSessions == {s1, s2}
TwoHandlers == {h1, h2}
TwoRequests == {r1, r2}
Symmetric == Permutations({h1, h2}) \cup Permutations({r1, r2})
=============================================================================
