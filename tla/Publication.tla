------------------------------ MODULE Publication ------------------------------
(***************************************************************************)
(* A title and its revisions: which revision readers are given             *)
(* (catalog/publication.ts) and the settings they are given with           *)
(* (catalog/presentations.ts).  Every administrative transaction locks the *)
(* title and then its revisions, so each is one step.  Ingestion and       *)
(* Catalog add how a revision comes about, ReaderState who reads it.       *)
(***************************************************************************)
EXTENDS Naturals, FiniteSets

CONSTANTS
  Revisions,   \* revisions of one title
  NoRevision

ASSUME NoRevisionAssumption == NoRevision \notin Revisions

VARIABLES
  rev,        \* revision -> state and generation: table title_revisions
  title,      \* visibility and active revision: table titles
  published   \* revisions with published reader settings

publicationVars == <<rev, title, published>>

RevisionState == {"none", "uploading", "abandoned", "uploaded", "processing",
                  "failed", "ready_for_review", "active", "retired"}
Unfinished == {"uploaded", "processing", "failed"}
Final == {"ready_for_review", "active", "retired"}

PublicationTypeOK ==
  /\ rev \in [Revisions -> [state : RevisionState, gen : Nat]]
  /\ title \in [visibility : {"private", "public"}, active : Revisions \cup {NoRevision}]
  /\ published \subseteq Revisions

PublicationInit(state) ==
  /\ rev = [r \in Revisions |-> [state |-> state, gen |-> 0]]
  /\ title = [visibility |-> "private", active |-> NoRevision]
  /\ published = {}

-----------------------------------------------------------------------------
\* Saving the draft of the settings changes nothing readers see.
PublishReaderSettings(r) ==
  /\ rev[r].state \in Final
  /\ r \notin published
  /\ published' = published \cup {r}
  /\ UNCHANGED <<rev, title>>

SetActiveRevision_keepsCurrent(r) == \* mutant: the current revision is not retired
  /\ rev' = [rev EXCEPT ![r].state = "active"]
  /\ title' = [title EXCEPT !.active = r]
SetActiveRevision(r) ==
  LET current == title.active IN
  /\ current # NoRevision => rev[current].state = "active" /\ current # r
  /\ rev' = [q \in Revisions |->
       IF q = r THEN [rev[q] EXCEPT !.state = "active"]
       ELSE IF q = current THEN [rev[q] EXCEPT !.state = "retired"] ELSE rev[q]]
  /\ title' = [title EXCEPT !.active = r]

Shown(r) ==
  /\ r \in published
  /\ SetActiveRevision(r)
  /\ UNCHANGED published

ActivatePrivateRevision(r) ==
  /\ title.visibility = "private"
  /\ rev[r].state = "ready_for_review"
  /\ Shown(r)

PublishReplacementRevision(r) ==
  /\ title.visibility = "public"
  /\ title.active \notin {NoRevision, r}
  /\ rev[r].state = "ready_for_review"
  /\ Shown(r)

RollbackRevision(r) ==
  /\ title.active \notin {NoRevision, r}
  /\ rev[r].state = "retired"
  /\ Shown(r)

PublishTitleToStorefront ==
  /\ title.visibility = "private"
  /\ title.active # NoRevision
  /\ rev[title.active].state = "active"
  /\ title.active \in published
  /\ title' = [title EXCEPT !.visibility = "public"]
  /\ UNCHANGED <<rev, published>>

WithdrawTitle ==
  /\ title.visibility = "public" /\ title.active # NoRevision
  /\ title' = [title EXCEPT !.visibility = "private"]
  /\ UNCHANGED <<rev, published>>

PublicationStep ==
  \/ \E r \in Revisions : \/ PublishReaderSettings(r)
                          \/ ActivatePrivateRevision(r)
                          \/ PublishReplacementRevision(r)
                          \/ RollbackRevision(r)
  \/ PublishTitleToStorefront
  \/ WithdrawTitle

\* The revision a title names is the only one in the state active and its
\* settings are published; a public title names one.
ActiveIsPublished ==
  /\ title.visibility = "public" => title.active # NoRevision
  /\ \A r \in Revisions : rev[r].state = "active" <=> title.active = r
  /\ title.active # NoRevision => title.active \in published
=============================================================================
