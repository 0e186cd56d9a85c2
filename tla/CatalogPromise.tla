----------------------------- MODULE CatalogPromise -----------------------------
(***************************************************************************)
(* What a title promises its readers: the revision it shows is one whose   *)
(* content is complete, and complete content is never written again.       *)
(***************************************************************************)
CONSTANTS Revisions, NoRevision, NoContent

VARIABLES
  shown,    \* the revision readers are given
  content   \* revision -> what it consists of

promiseVars == <<shown, content>>

PromiseInit ==
  /\ shown = NoRevision
  /\ content = [r \in Revisions |-> NoContent]

Completes(r) ==
  /\ content[r] = NoContent
  /\ \A q \in Revisions \ {r} : content'[q] = content[q]
  /\ UNCHANGED shown

Shows(r) ==
  /\ content[r] # NoContent
  /\ shown' = r
  /\ UNCHANGED content

PromiseNext == \E r \in Revisions : Completes(r) \/ Shows(r)

Promise == PromiseInit /\ [][PromiseNext]_promiseVars
=============================================================================
