--------------------------- MODULE PublicationProofs ---------------------------
(***************************************************************************)
(* Lemmas about the steps of Publication, for any revisions: readers are   *)
(* given one revision, with published settings, and no step makes an       *)
(* unfinished revision a finished one or the reverse. CatalogProofs and    *)
(* ReaderStateProofs put them together with the steps of their models.     *)
(***************************************************************************)
EXTENDS Publication, TLAPS

\* Whatever state a title's revisions start in, but for active, none is shown.
LEMMA PublicationInitHolds ==
  ASSUME NEW state \in RevisionState \ {"active"}, PublicationInit(state)
  PROVE  PublicationTypeOK /\ ActiveIsPublished
<1>1. PublicationTypeOK
  BY DEF PublicationInit, PublicationTypeOK
<1>2. \A r \in Revisions : rev[r].state = state /\ title.active # r
  BY NoRevisionAssumption DEF PublicationInit
<1>3. ActiveIsPublished
  BY <1>2, NoRevisionAssumption DEF PublicationInit, ActiveIsPublished
<1> QED
  BY <1>1, <1>3

\* What showing revision r changes: r is active and the revision that was is
\* retired.
LEMMA SetActiveRevisionChanges ==
  ASSUME PublicationTypeOK, NEW r \in Revisions, SetActiveRevision(r)
  PROVE  /\ rev' \in [Revisions -> [state : RevisionState, gen : Nat]]
         /\ title' \in [visibility : {"private", "public"}, active : Revisions \cup {NoRevision}]
         /\ title'.visibility = title.visibility /\ title'.active = r
         /\ rev'[r].state = "active"
         /\ \A q \in Revisions \ {r} : rev'[q].state =
              IF q = title.active THEN "retired" ELSE rev[q].state
         /\ \A q \in Revisions : rev'[q].gen = rev[q].gen
         /\ \A q \in Revisions \ {r, title.active} : rev'[q] = rev[q]
<1>1. title' = [title EXCEPT !.active = r]
  BY DEF SetActiveRevision
<1>2. \A q \in Revisions : rev'[q] =
        IF q = r THEN [rev[q] EXCEPT !.state = "active"]
        ELSE IF q = title.active THEN [rev[q] EXCEPT !.state = "retired"] ELSE rev[q]
  BY DEF SetActiveRevision
<1>3. DOMAIN rev' = Revisions /\ rev' = [q \in Revisions |-> rev'[q]]
  BY DEF SetActiveRevision
<1>4. \A q \in Revisions : rev[q] \in [state : RevisionState, gen : Nat]
  BY DEF PublicationTypeOK
<1>5. \A q \in Revisions : rev'[q] \in [state : RevisionState, gen : Nat]
  <2> SUFFICES ASSUME NEW q \in Revisions
               PROVE  rev'[q] \in [state : RevisionState, gen : Nat]
    OBVIOUS
  <2>1. \A s \in RevisionState :
          [rev[q] EXCEPT !.state = s] \in [state : RevisionState, gen : Nat]
    BY <1>4
  <2>2. "active" \in RevisionState /\ "retired" \in RevisionState
    BY DEF RevisionState
  <2> QED
    BY <1>2, <1>4, <2>1, <2>2
<1>6. rev' \in [Revisions -> [state : RevisionState, gen : Nat]]
  BY <1>3, <1>5
<1>7. /\ title' \in [visibility : {"private", "public"}, active : Revisions \cup {NoRevision}]
      /\ title'.visibility = title.visibility /\ title'.active = r
  BY <1>1 DEF PublicationTypeOK
<1>8. /\ rev'[r].state = "active"
      /\ \A q \in Revisions \ {r} : rev'[q].state =
           IF q = title.active THEN "retired" ELSE rev[q].state
      /\ \A q \in Revisions : rev'[q].gen = rev[q].gen
      /\ \A q \in Revisions \ {r, title.active} : rev'[q] = rev[q]
  BY <1>2, <1>4
<1> QED
  BY <1>6, <1>7, <1>8

\* Showing a finished revision with published settings keeps the title right.
LEMMA ShownHolds ==
  ASSUME PublicationTypeOK, ActiveIsPublished, NEW r \in Revisions, Shown(r)
  PROVE  PublicationTypeOK' /\ ActiveIsPublished'
<1>1. SetActiveRevision(r) /\ published' = published /\ r \in published
  BY DEF Shown
<1>2. PublicationTypeOK'
  BY <1>1, SetActiveRevisionChanges DEF PublicationTypeOK
<1>3. \A q \in Revisions : rev'[q].state = "active" <=> title'.active = q
  BY <1>1, SetActiveRevisionChanges DEF ActiveIsPublished
<1>4. title'.active # NoRevision /\ title'.active \in published'
  BY <1>1, SetActiveRevisionChanges, NoRevisionAssumption
<1> QED
  BY <1>2, <1>3, <1>4 DEF ActiveIsPublished

\* Every step of an administrator keeps the title and its revisions right.
LEMMA PublicationStepHolds ==
  ASSUME PublicationTypeOK, ActiveIsPublished, PublicationStep
  PROVE  PublicationTypeOK' /\ ActiveIsPublished'
<1>1. CASE \E r \in Revisions : Shown(r)
  BY <1>1, ShownHolds
<1>2. CASE \E r \in Revisions : PublishReaderSettings(r)
  BY <1>2 DEF PublishReaderSettings, PublicationTypeOK, ActiveIsPublished
<1>3. CASE PublishTitleToStorefront
  BY <1>3 DEF PublishTitleToStorefront, PublicationTypeOK, ActiveIsPublished
<1>4. CASE WithdrawTitle
  BY <1>4 DEF WithdrawTitle, PublicationTypeOK, ActiveIsPublished
<1> QED
  BY <1>1, <1>2, <1>3, <1>4
     DEF PublicationStep, ActivatePrivateRevision, PublishReplacementRevision, RollbackRevision

\* What they leave alone: generations, revisions that are not finished, and
\* that the finished ones are; settings stay published.
PublicationLeaves ==
  /\ \A r \in Revisions : /\ rev'[r].gen = rev[r].gen
                          /\ rev'[r].state \in Final <=> rev[r].state \in Final
                          /\ rev[r].state \notin Final => rev'[r] = rev[r]
  /\ published \subseteq published'
  /\ title'.active # title.active =>
       title'.active \in Revisions /\ rev[title'.active].state \in Final

\* No step of an administrator does more.
LEMMA PublicationStepLeaves ==
  ASSUME PublicationTypeOK, ActiveIsPublished, PublicationStep
  PROVE  PublicationLeaves
<1>1. CASE \E r \in Revisions : Shown(r) /\ rev[r].state \in Final
  <2>1. PICK r \in Revisions : Shown(r) /\ rev[r].state \in Final
    BY <1>1
  <2>2. SetActiveRevision(r) /\ published' = published
    BY <2>1 DEF Shown
  <2>3. title.active \in Revisions => rev[title.active].state \in Final
    BY DEF ActiveIsPublished, Final
  <2>4. \A q \in Revisions : /\ rev'[q].gen = rev[q].gen
                             /\ rev'[q].state \in Final <=> rev[q].state \in Final
                             /\ rev[q].state \notin Final => rev'[q] = rev[q]
    BY <2>1, <2>2, <2>3, SetActiveRevisionChanges DEF Final
  <2> QED
    BY <2>1, <2>2, <2>4, SetActiveRevisionChanges DEF PublicationLeaves
<1>2. CASE \E r \in Revisions : PublishReaderSettings(r)
  BY <1>2 DEF PublishReaderSettings, PublicationLeaves
<1>3. CASE PublishTitleToStorefront
  BY <1>3 DEF PublishTitleToStorefront, PublicationTypeOK, PublicationLeaves
<1>4. CASE WithdrawTitle
  BY <1>4 DEF WithdrawTitle, PublicationTypeOK, PublicationLeaves
<1>5. \A r \in Revisions :
        ActivatePrivateRevision(r) \/ PublishReplacementRevision(r) \/ RollbackRevision(r)
          => Shown(r) /\ rev[r].state \in Final
  BY DEF ActivatePrivateRevision, PublishReplacementRevision, RollbackRevision, Final
<1> QED
  BY <1>1, <1>2, <1>3, <1>4, <1>5 DEF PublicationStep
=============================================================================
