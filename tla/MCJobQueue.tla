----------------------------- MODULE MCJobQueue -----------------------------
(***************************************************************************)
(* Instances of JobQueue for TLC.                                          *)
(*   coalesced: two triggers of one entity, the first allowed one attempt  *)
(*   kinds:     a Stripe event's job and a classification job              *)
(***************************************************************************)
EXTENDS JobQueue, TLC

CONSTANTS trigger1, trigger2, event, subject, p1, p2, i1, i2

CoalescedJobs == {trigger1, trigger2}
CoalescedKind == [j \in CoalescedJobs |-> "entity"]
CoalescedEntity == [j \in CoalescedJobs |-> "source"]
CoalescedAttempts == [j \in CoalescedJobs |-> IF j = trigger1 THEN 1 ELSE 2]
CoalescedEntities == {"source"}
CoalescedGated == {"source"}

KindsJobs == {event, subject}
KindsKind == [j \in KindsJobs |-> IF j = event THEN "event" ELSE "classification"]
KindsEntity == [j \in KindsJobs |-> IF j = event THEN "event" ELSE "subject"]
KindsAttempts == [j \in KindsJobs |-> IF j = event THEN 1 ELSE 2]
KindsEntities == {"event", "subject"}
KindsGated == {"event"}

MCProcs == {p1, p2}
OneSlot == {i1}
TwoSlots == {i1, i2}
Symmetric == Permutations({p1, p2}) \cup Permutations({i1, i2})
=============================================================================
