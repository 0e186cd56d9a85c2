----------------------------- MODULE JobPromise -----------------------------
(***************************************************************************)
(* What the job queue promises the code that enqueues: whoever asks for    *)
(* work about an entity gets an attempt that begins after the request.     *)
(* Attempts may repeat and may overlap; they are never owed and forgotten. *)
(* Work may be held for a time, or for ever; what is owed stays owed.      *)
(***************************************************************************)
CONSTANTS
  Entities,
  Gated      \* entities about which work may be held

VARIABLES
  live,   \* live[e]: the queue still holds work about e
  owed,   \* owed[e]: an attempt must still begin for the latest request
  held    \* the entities about which no attempt may begin now

vars == <<live, owed, held>>

Init ==
  /\ live = [e \in Entities |-> FALSE]
  /\ owed = [e \in Entities |-> FALSE]
  /\ held \in SUBSET Gated

Request(e) ==
  /\ owed' = [owed EXCEPT ![e] = TRUE]
  /\ live' = [live EXCEPT ![e] = TRUE]
  /\ UNCHANGED held

Begin(e) ==
  /\ live[e]
  /\ e \notin held
  /\ owed' = [owed EXCEPT ![e] = FALSE]
  /\ UNCHANGED <<live, held>>

End(e) ==
  /\ live[e]
  /\ ~owed[e]
  /\ live' = [live EXCEPT ![e] = FALSE]
  /\ UNCHANGED <<owed, held>>

\* what is held changes by itself
Gate ==
  /\ held' \in SUBSET Gated
  /\ UNCHANGED <<live, owed>>

Next ==
  \/ \E e \in Entities : Request(e) \/ Begin(e) \/ End(e)
  \/ Gate

Spec == Init /\ [][Next]_vars

\* an attempt is made for every request about an entity that is not held again
\* and again
Fairness == \A e \in Entities : WF_vars(owed[e] /\ Begin(e))

FairSpec == Spec /\ Fairness
=============================================================================
