--------------------------- MODULE MCCheckoutJobs ---------------------------
(***************************************************************************)
(* An instance of CheckoutJobs for TLC: one session, overlapping handlers, *)
(* one request.                                                            *)
(***************************************************************************)
EXTENDS CheckoutJobs

CONSTANTS s1, h1, h2, r1

OneSession == {s1}
TwoHandlers == {h1, h2}
OneRequest == {r1}
=============================================================================
