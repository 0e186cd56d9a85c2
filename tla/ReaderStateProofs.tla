--------------------------- MODULE ReaderStateProofs ---------------------------
(***************************************************************************)
(* ReaderState, proved for any revisions, devices, places and bounds: no   *)
(* request overwrites a row its sender has not seen, and no place a reader *)
(* went to is forgotten on an open page.                                   *)
(*                                                                         *)
(* A request carries a version, not a row. What makes the version enough   *)
(* is that rows only grow: the invariant says that a row a device or a     *)
(* request knows has no later version than the table's, and is the same    *)
(* row if the version is.                                                  *)
(***************************************************************************)
EXTENDS ReaderState, PublicationProofs

-----------------------------------------------------------------------------
RowType == {NoRow} \cup [version : Nat \ {0}, rev : Revisions, place : Places]
FlightType == {NoFlight} \cup [phase : {"sent", "waiting"}, place : Places, retry : Nat]
PageType ==
  [open : {TRUE}, rev : Revisions, seen : RowType, pending : Places \cup {NoPlace},
   debounce : BOOLEAN, waiter : BOOLEAN, flight : FlightType, status : Status,
   last : Places \cup {NoPlace}]
RequestType == [by : Devices, rev : Revisions, place : Places, basis : RowType, n : Nat]

\* Somebody was given row as the row of r, when the table had rows or before.
Known(rows, row, r) ==
  row.version <= rows[r].version /\ (row.version = rows[r].version => row = rows[r])

\* The last place is pending, in flight, told of or confirmed.
KeepsPlace(s) ==
  /\ s.pending # NoPlace => s.debounce \/ s.flight # NoFlight
  /\ s.last # NoPlace =>
       /\ s.pending # NoPlace => s.pending = s.last
       /\ s.pending = NoPlace /\ s.flight # NoFlight => s.flight.place = s.last
       /\ s.pending = NoPlace /\ s.flight = NoFlight =>
            \/ s.status \in {"failed", "conflict"}
            \/ s.status = "synced" /\ s.seen.rev = s.rev /\ s.seen.place = s.last

GoodPage(rows, s) == s \in PageType /\ Known(rows, s.seen, s.rev) /\ KeepsPlace(s)
GoodRequest(rows, q) == q \in RequestType /\ Known(rows, q.basis, q.rev)

GoodRows(rows) ==
  /\ rows \in [Revisions -> RowType]
  /\ \A r \in Revisions : rows[r] # NoRow => rows[r].rev = r

DeviceType == [page : {Closed} \cup PageType, navigations : Nat, disposals : Nat]
DevicesHold ==
  /\ device \in [Devices -> DeviceType]
  /\ \A d \in Devices : IsOpen(d) => GoodPage(progress, Page(d))
WireHolds == \A q \in wire : GoodRequest(progress, q)

IInv ==
  PublicationTypeOK /\ ActiveIsPublished /\ GoodRows(progress) /\ DevicesHold /\ WireHolds

-----------------------------------------------------------------------------
(* Rows *)

\* Rows that grow: one that is there is replaced one version on.
Grow ==
  /\ GoodRows(progress')
  /\ \A r \in Revisions :
       progress'[r] = progress[r] \/ progress'[r].version = progress[r].version + 1

\* A version is a number, and only an absent row has none.
LEMMA RowsAre ==
  /\ \A row \in RowType : row.version \in Nat /\ (row.version = 0 <=> row = NoRow)
  /\ \A r \in Revisions, p \in Places, v \in Nat \ {0} :
       /\ Row(r, p, v) \in RowType
       /\ Row(r, p, v).version = v /\ Row(r, p, v).rev = r /\ Row(r, p, v).place = p
BY DEF RowType, NoRow, Row

\* What was known still is when rows grow.
LEMMA StillKnown ==
  ASSUME GoodRows(progress), Grow, NEW row \in RowType, NEW r \in Revisions,
         Known(progress, row, r)
  PROVE  Known(progress', row, r)
<1>1. /\ progress[r].version \in Nat /\ row.version \in Nat
      /\ progress'[r] = progress[r] \/ progress'[r].version = progress[r].version + 1
  BY RowsAre DEF GoodRows, Grow
<1> QED
  BY <1>1 DEF Known

\* Pages and requests stay good.
LEMMA StillGood ==
  ASSUME IInv, Grow
  PROVE  /\ \A d \in Devices : IsOpen(d) => GoodPage(progress', Page(d))
         /\ \A q \in wire : GoodRequest(progress', q)
<1>1. GoodRows(progress)
  BY DEF IInv
<1>2. ASSUME NEW d \in Devices, IsOpen(d)
      PROVE  GoodPage(progress', Page(d))
  <2>1. GoodPage(progress, Page(d)) /\ Page(d).seen \in RowType /\ Page(d).rev \in Revisions
    BY <1>2 DEF IInv, DevicesHold, GoodPage, PageType
  <2>2. QED
    BY <1>1, <2>1, StillKnown DEF GoodPage
<1>3. ASSUME NEW q \in wire
      PROVE  GoodRequest(progress', q)
  <2>1. GoodRequest(progress, q) /\ q.basis \in RowType /\ q.rev \in Revisions
    BY <1>3 DEF IInv, WireHolds, GoodRequest, RequestType
  <2>2. QED
    BY <1>1, <2>1, StillKnown DEF GoodRequest
<1> QED
  BY <1>2, <1>3

\* Nothing changes in the rows.
LEMMA NoRowGrows ==
  ASSUME IInv, UNCHANGED progress
  PROVE  Grow
BY DEF IInv, Grow

\* One row is written, a version on.
LEMMA RowGrows ==
  ASSUME IInv, NEW r \in Revisions, NEW p \in Places,
         progress' = [progress EXCEPT ![r] = Row(r, p, progress[r].version + 1)]
  PROVE  Grow /\ progress'[r] = Row(r, p, progress[r].version + 1)
<1>1. GoodRows(progress) /\ progress[r].version \in Nat
  BY RowsAre DEF IInv, GoodRows
<1>2. /\ Row(r, p, progress[r].version + 1) \in RowType
      /\ Row(r, p, progress[r].version + 1).version = progress[r].version + 1
      /\ Row(r, p, progress[r].version + 1).rev = r
  BY <1>1, RowsAre
<1>3. /\ progress'[r] = Row(r, p, progress[r].version + 1)
      /\ \A q \in Revisions \ {r} : progress'[q] = progress[q]
      /\ progress' \in [Revisions -> RowType]
  BY <1>1, <1>2 DEF GoodRows
<1> QED
  BY <1>1, <1>2, <1>3 DEF Grow, GoodRows

\* The migration writes the row of r, when there is none, or no row.
LEMMA MigrateWrites ==
  ASSUME NEW r \in Revisions, Migrate(r)
  PROVE  \/ UNCHANGED progress
         \/ /\ progress[r] = NoRow
            /\ \E p \in Places : progress' = [progress EXCEPT ![r] = Row(r, p, 1)]
<1>1. \A p : Counterpart(p) \in Places
  BY PlacesAssumption DEF Counterpart
<1> QED
  BY <1>1 DEF Migrate, MigratesOnto

\* So rows grow.
LEMMA MigrateGrows ==
  ASSUME IInv, NEW r \in Revisions, Migrate(r)
  PROVE  Grow
<1>1. CASE UNCHANGED progress
  BY <1>1, NoRowGrows
<1>2. CASE progress[r] = NoRow /\ \E p \in Places : progress' = [progress EXCEPT ![r] = Row(r, p, 1)]
  <2>1. progress[r].version + 1 = 1
    BY <1>2 DEF NoRow
  <2>2. QED
    BY <1>2, <2>1, RowGrows
<1> QED
  BY <1>1, <1>2, MigrateWrites

-----------------------------------------------------------------------------
(* Pages *)

\* The page of device d is replaced.
LEMMA PageShown ==
  ASSUME IInv, NEW d \in Devices, NEW page \in {Closed} \cup PageType, Showing(d, page)
  PROVE  /\ device' \in [Devices -> DeviceType] /\ device'[d].page = page
         /\ \A e \in Devices \ {d} : device'[e] = device[e]
<1>1. device[d] \in DeviceType
  BY DEF IInv, DevicesHold
<1>2. device'[d] = [device[d] EXCEPT !.page = page] /\ \A e \in Devices \ {d} : device'[e] = device[e]
  BY DEF IInv, DevicesHold, Showing
<1>3. [device[d] EXCEPT !.page = page] \in DeviceType
  BY <1>1 DEF DeviceType
<1>4. [device[d] EXCEPT !.page = page].page = page
  BY <1>1 DEF DeviceType
<1>5. device' \in [Devices -> DeviceType]
  BY <1>2, <1>3 DEF IInv, DevicesHold, Showing
<1> QED
  BY <1>2, <1>4, <1>5

\* The invariant goes on when the page of d and what is sent are good.
LEMMA PageHolds ==
  ASSUME IInv, Grow, UNCHANGED publicationVars, NEW d \in Devices,
         device' \in [Devices -> DeviceType],
         Page(d)'.open => GoodPage(progress', Page(d)'),
         \A e \in Devices \ {d} : device'[e] = device[e],
         \A q \in wire' : q \in wire \/ GoodRequest(progress', q)
  PROVE  IInv'
<1>1. PublicationTypeOK' /\ ActiveIsPublished'
  BY DEF IInv, PublicationTypeOK, ActiveIsPublished, publicationVars
<1>2. \A e \in Devices : IsOpen(e)' => GoodPage(progress', Page(e)')
  BY StillGood DEF IsOpen, Page
<1>3. DevicesHold' /\ WireHolds'
  BY <1>2, StillGood DEF DevicesHold, WireHolds
<1> QED
  BY <1>1, <1>3 DEF IInv, Grow

\* Taking what is pending makes a page and a request that are good.
LEMMA SentGood ==
  ASSUME NEW rows, NEW d \in Devices, NEW s \in PageType, Known(rows, s.seen, s.rev),
         s.pending # NoPlace, s.last # NoPlace => s.pending = s.last
  PROVE  GoodPage(rows, Sent(s)) /\ GoodRequest(rows, FlightRequest(d, Sent(s)))
<1> DEFINE flight == [phase |-> "sent", place |-> s.pending, retry |-> 0]
           t == Sent(s)
<1>1. flight \in FlightType /\ flight # NoFlight /\ flight.place = s.pending /\ flight.retry = 0
  BY DEF PageType, FlightType, NoFlight
<1>2. t = [s EXCEPT !.flight = flight, !.pending = NoPlace, !.waiter = FALSE]
  BY DEF Sent
<1> HIDE DEF flight, t
<1>3. /\ t \in PageType /\ t.flight = flight /\ t.pending = NoPlace
      /\ t.seen = s.seen /\ t.rev = s.rev /\ t.last = s.last
  BY <1>1, <1>2 DEF PageType
<1>4. GoodPage(rows, t)
  BY <1>1, <1>3 DEF GoodPage, KeepsPlace
<1>5. FlightRequest(d, t) = [by |-> d, rev |-> s.rev, place |-> s.pending, basis |-> s.seen, n |-> 1]
  BY <1>1, <1>3 DEF FlightRequest, Request
<1>6. GoodRequest(rows, FlightRequest(d, t))
  BY <1>5 DEF GoodRequest, RequestType, PageType
<1> QED
  BY <1>4, <1>6 DEF t

\* A save that ends with s leaves a good page: it goes on with what is pending,
\* or the last place is told of or confirmed.
LEMMA EndedHolds ==
  ASSUME IInv, Grow, UNCHANGED publicationVars, NEW d \in Devices, NEW s \in PageType,
         NEW requests \in SUBSET wire, Ended(d, s, requests),
         Known(progress', s.seen, s.rev),
         s.last # NoPlace =>
           IF s.pending # NoPlace THEN s.pending = s.last
           ELSE \/ s.status \in {"failed", "conflict"}
                \/ s.status = "synced" /\ s.seen.rev = s.rev /\ s.seen.place = s.last
  PROVE  IInv'
<1> DEFINE done == [s EXCEPT !.flight = NoFlight]
           over == [done EXCEPT !.waiter = FALSE]
<1>1. /\ done \in PageType /\ done.flight = NoFlight /\ done.pending = s.pending
      /\ done.seen = s.seen /\ done.rev = s.rev /\ done.last = s.last /\ done.status = s.status
      /\ done.debounce = s.debounce
  BY DEF PageType, FlightType
<1>2. \/ /\ GoesOn(done) /\ Showing(d, Sent(done))
         /\ wire' = requests \cup {FlightRequest(d, Sent(done))}
      \/ ~GoesOn(done) /\ Showing(d, over) /\ wire' = requests
  BY DEF Ended
<1> HIDE DEF done
<1>3. CASE GoesOn(done)
  <2>1. GoodPage(progress', Sent(done)) /\ GoodRequest(progress', FlightRequest(d, Sent(done)))
    BY <1>1, <1>3, SentGood DEF GoesOn
  <2>2. Sent(done) \in PageType
    BY <2>1 DEF GoodPage
  <2>3. /\ device' \in [Devices -> DeviceType] /\ device'[d].page = Sent(done)
        /\ \A e \in Devices \ {d} : device'[e] = device[e]
    BY <1>2, <1>3, <2>2, PageShown
  <2>4. QED
    BY <1>2, <1>3, <2>1, <2>3, PageHolds DEF Page
<1>4. CASE ~GoesOn(done)
  <2>1. /\ over \in PageType /\ over.flight = NoFlight /\ over.pending = s.pending
        /\ over.seen = s.seen /\ over.rev = s.rev /\ over.last = s.last /\ over.status = s.status
        /\ over.debounce = s.debounce
    BY <1>1 DEF PageType
  <2> HIDE DEF over
  <2>2. s.pending # NoPlace => s.debounce
    BY <1>1, <1>4 DEF GoesOn, PageType
  <2>3. GoodPage(progress', over)
    BY <2>1, <2>2 DEF GoodPage, KeepsPlace
  <2>4. /\ device' \in [Devices -> DeviceType] /\ device'[d].page = over
        /\ \A e \in Devices \ {d} : device'[e] = device[e]
    BY <1>2, <1>4, <2>1, PageShown
  <2>5. QED
    BY <1>2, <1>4, <2>3, <2>4, PageHolds DEF Page
<1> QED
  BY <1>3, <1>4

-----------------------------------------------------------------------------
(* The synchronizer *)

\* What an open page has.
LEMMA OpenPage ==
  ASSUME IInv, NEW d \in Devices, IsOpen(d)
  PROVE  /\ Page(d) \in PageType /\ GoodPage(progress, Page(d)) /\ device[d] \in DeviceType
         /\ Page(d).rev \in Revisions /\ Page(d).seen \in RowType
BY DEF IInv, DevicesHold, GoodPage, PageType

\* The page opens with the row its revision has now.
LEMMA OpenHolds ==
  ASSUME IInv, NEW d \in Devices, Open(d)
  PROVE  IInv'
<1> DEFINE r == title.active
           s == Opened(r, progress'[r])
<1>1. /\ r \in Revisions /\ Migrate(r) /\ Showing(d, s) /\ UNCHANGED <<publicationVars, wire>>
  BY DEF Open, Readable, IInv, PublicationTypeOK
<1>2. Grow
  BY <1>1, MigrateGrows
<1>3. progress'[r] \in RowType /\ progress'[r].version \in Nat
  BY <1>1, <1>2, RowsAre DEF Grow, GoodRows
<1>4. s \in PageType /\ s.seen = progress'[r] /\ s.rev = r /\ s.pending = NoPlace /\ s.last = NoPlace
  BY <1>1, <1>3 DEF Opened, PageType, FlightType, Status
<1> HIDE DEF s
<1>5. GoodPage(progress', s)
  BY <1>3, <1>4 DEF GoodPage, KeepsPlace, Known
<1>6. /\ device' \in [Devices -> DeviceType] /\ device'[d].page = s
      /\ \A e \in Devices \ {d} : device'[e] = device[e]
  BY <1>1, <1>4, PageShown
<1> QED
  BY <1>1, <1>2, <1>5, <1>6, PageHolds DEF Page

\* The page of a device and one of its counters are replaced.
LEMMA TwoPartsGo ==
  ASSUME device \in [Devices -> DeviceType], NEW d \in Devices, NEW page \in {Closed} \cup PageType,
         \/ device' = [device EXCEPT ![d].navigations = @ + 1, ![d].page = page]
         \/ device' = [device EXCEPT ![d].page = page, ![d].disposals = @ + 1]
  PROVE  /\ device' \in [Devices -> DeviceType] /\ device'[d].page = page
         /\ \A e \in Devices \ {d} : device'[e] = device[e]
<1>1. /\ device[d] \in DeviceType /\ device[d].navigations \in Nat /\ device[d].disposals \in Nat
      /\ device[d].navigations + 1 \in Nat /\ device[d].disposals + 1 \in Nat
  BY DEF DeviceType
<1>2. \A n, m \in Nat : [page |-> page, navigations |-> n, disposals |-> m] \in DeviceType
  BY DEF DeviceType
<1>3. device'[d] \in DeviceType /\ device'[d].page = page
  <2>1. CASE device' = [device EXCEPT ![d].navigations = @ + 1, ![d].page = page]
    <3>1. device'[d] = [device[d] EXCEPT !.navigations = device[d].navigations + 1, !.page = page]
      BY <2>1
    <3>2. device'[d] = [page |-> page, navigations |-> device[d].navigations + 1,
                        disposals |-> device[d].disposals]
      BY <1>1, <3>1 DEF DeviceType
    <3>3. QED
      BY <1>1, <1>2, <3>2
  <2>2. CASE device' = [device EXCEPT ![d].page = page, ![d].disposals = @ + 1]
    <3>1. device'[d] = [device[d] EXCEPT !.page = page, !.disposals = device[d].disposals + 1]
      BY <2>2
    <3>2. device'[d] = [page |-> page, navigations |-> device[d].navigations,
                        disposals |-> device[d].disposals + 1]
      BY <1>1, <3>1 DEF DeviceType
    <3>3. QED
      BY <1>1, <1>2, <3>2
  <2>3. QED
    BY <2>1, <2>2
<1>4. \A e \in Devices \ {d} : device'[e] = device[e]
  OBVIOUS
<1> QED
  BY <1>3, <1>4

\* The reader goes to another place.
LEMMA NavigateHolds ==
  ASSUME IInv, NEW d \in Devices, NEW p \in Places, Navigate(d, p)
  PROVE  IInv'
<1> DEFINE s == [Page(d) EXCEPT !.pending = p, !.debounce = TRUE, !.status = "pending", !.last = p]
<1>1. Page(d) \in PageType /\ GoodPage(progress, Page(d)) /\ device[d] \in DeviceType
  BY OpenPage DEF Navigate
<1>2. /\ s \in PageType /\ s.pending = p /\ s.debounce = TRUE /\ s.last = p
      /\ s.seen = Page(d).seen /\ s.rev = Page(d).rev
  BY <1>1 DEF PageType, Status
<1>3. /\ device' = [device EXCEPT ![d].navigations = @ + 1, ![d].page = s]
      /\ UNCHANGED <<publicationVars, progress, wire>>
  BY DEF Navigate
<1> HIDE DEF s
<1>4. GoodPage(progress, s)
  BY <1>1, <1>2 DEF GoodPage, KeepsPlace
<1>5. /\ device' \in [Devices -> DeviceType] /\ device'[d].page = s
      /\ \A e \in Devices \ {d} : device'[e] = device[e]
  BY <1>1, <1>2, <1>3, TwoPartsGo DEF IInv, DevicesHold, DeviceType
<1>6. Page(d)' = s /\ GoodPage(progress', s)
  BY <1>3, <1>4, <1>5 DEF Page
<1> QED
  BY <1>3, <1>5, <1>6, NoRowGrows, PageHolds

\* The timer is over, or cleared.
LEMMA DebounceEndsHolds ==
  ASSUME IInv, NEW d \in Devices, DebounceEnds(d)
  PROVE  IInv'
<1> DEFINE s == [Page(d) EXCEPT !.debounce = FALSE]
           waits == [s EXCEPT !.waiter = TRUE]
<1>1. Page(d) \in PageType /\ GoodPage(progress, Page(d))
  BY OpenPage DEF DebounceEnds
<1>2. /\ s \in PageType /\ s.debounce = FALSE /\ s.pending = Page(d).pending /\ s.last = Page(d).last
      /\ s.flight = Page(d).flight /\ s.status = Page(d).status
      /\ s.seen = Page(d).seen /\ s.rev = Page(d).rev
  BY <1>1 DEF PageType
<1>3. /\ UNCHANGED <<publicationVars, progress>>
      /\ \/ s.flight # NoFlight /\ Showing(d, waits) /\ UNCHANGED wire
         \/ s.flight = NoFlight /\ s.pending = NoPlace /\ Showing(d, s) /\ UNCHANGED wire
         \/ /\ s.flight = NoFlight /\ s.pending # NoPlace /\ Showing(d, Sent(s))
            /\ wire' = wire \cup {FlightRequest(d, Sent(s))}
  BY DEF DebounceEnds
<1>4. Known(progress, s.seen, s.rev)
  BY <1>1, <1>2 DEF GoodPage
<1> HIDE DEF s
<1>5. ASSUME NEW page \in PageType, Showing(d, page), GoodPage(progress, page),
             \A q \in wire' : q \in wire \/ GoodRequest(progress, q)
      PROVE  IInv'
  <2>1. /\ device' \in [Devices -> DeviceType] /\ device'[d].page = page
        /\ \A e \in Devices \ {d} : device'[e] = device[e]
    BY <1>5, PageShown
  <2>2. Page(d)' = page /\ progress' = progress
    BY <1>3, <2>1 DEF Page
  <2>3. Grow
    BY <1>3, NoRowGrows
  <2>4. QED
    BY <1>3, <1>5, <2>1, <2>2, <2>3, PageHolds
<1>6. CASE s.flight # NoFlight /\ Showing(d, waits) /\ UNCHANGED wire
  <2>1. /\ waits \in PageType /\ waits.pending = s.pending /\ waits.flight = s.flight
        /\ waits.last = s.last /\ waits.seen = s.seen /\ waits.rev = s.rev
    BY <1>2 DEF PageType
  <2> HIDE DEF waits
  <2>2. GoodPage(progress, waits)
    BY <1>1, <1>2, <1>4, <1>6, <2>1 DEF GoodPage, KeepsPlace
  <2>3. QED
    BY <1>5, <1>6, <2>1, <2>2
<1>7. CASE s.flight = NoFlight /\ s.pending = NoPlace /\ Showing(d, s) /\ UNCHANGED wire
  <2>1. GoodPage(progress, s)
    BY <1>1, <1>2, <1>4, <1>7 DEF GoodPage, KeepsPlace
  <2>2. QED
    BY <1>2, <1>5, <1>7, <2>1
<1>8. CASE /\ s.flight = NoFlight /\ s.pending # NoPlace /\ Showing(d, Sent(s))
           /\ wire' = wire \cup {FlightRequest(d, Sent(s))}
  <2>1. GoodPage(progress, Sent(s)) /\ GoodRequest(progress, FlightRequest(d, Sent(s)))
    BY <1>1, <1>2, <1>4, <1>8, SentGood DEF GoodPage, KeepsPlace
  <2>2. Sent(s) \in PageType
    BY <2>1 DEF GoodPage
  <2>3. QED
    BY <1>5, <1>8, <2>1, <2>2
<1> QED
  BY <1>3, <1>6, <1>7, <1>8

\* The flight of a page has the place that was sent, and its request is good.
LEMMA InFlight ==
  ASSUME NEW rows, NEW d \in Devices, NEW s \in PageType, s.flight.phase \in {"sent", "waiting"},
         Known(rows, s.seen, s.rev)
  PROVE  /\ s.flight # NoFlight /\ s.flight.place \in Places /\ s.flight.retry \in Nat
         /\ s.flight \in [phase : {"sent", "waiting"}, place : Places, retry : Nat]
         /\ FlightRequest(d, s).rev = s.rev /\ FlightRequest(d, s).place = s.flight.place
         /\ GoodRequest(rows, FlightRequest(d, s))
<1>1. s.flight # NoFlight /\ s.flight \in FlightType
  BY DEF PageType, NoFlight
<1>2. s.flight \in [phase : {"sent", "waiting"}, place : Places, retry : Nat]
  BY <1>1 DEF FlightType
<1>3. s.flight.place \in Places /\ s.flight.retry \in Nat /\ s.rev \in Revisions /\ s.seen \in RowType
  BY <1>2 DEF PageType
<1>4. FlightRequest(d, s) = [by |-> d, rev |-> s.rev, place |-> s.flight.place, basis |-> s.seen,
                             n |-> s.flight.retry + 1]
  BY DEF FlightRequest, Request
<1>5. GoodRequest(rows, FlightRequest(d, s))
  BY <1>3, <1>4 DEF GoodRequest, RequestType
<1> QED
  BY <1>1, <1>2, <1>3, <1>4, <1>5

\* A flight waits, and is sent again.
LEMMA FlightGoes ==
  ASSUME NEW f \in [phase : {"sent", "waiting"}, place : Places, retry : Nat]
  PROVE  /\ [f EXCEPT !.phase = "waiting"] = [phase |-> "waiting", place |-> f.place, retry |-> f.retry]
         /\ [f EXCEPT !.phase = "sent", !.retry = @ + 1] =
              [phase |-> "sent", place |-> f.place, retry |-> f.retry + 1]
<1> DEFINE n == f.retry + 1
           new == [f EXCEPT !.phase = "sent", !.retry = n]
<1>1. [f EXCEPT !.phase = "waiting"] = [phase |-> "waiting", place |-> f.place, retry |-> f.retry]
  OBVIOUS
<1>2. n \in Nat
  OBVIOUS
<1> HIDE DEF n
<1>3. new \in [phase : {"sent", "waiting"}, place : Places, retry : Nat]
  BY <1>2
<1>4. new.phase = "sent" /\ new.place = f.place /\ new.retry = n
  OBVIOUS
<1> HIDE DEF new
<1>5. new = [phase |-> "sent", place |-> f.place, retry |-> n]
  BY <1>3, <1>4
<1> QED
  BY <1>1, <1>5 DEF n, new

\* The device hears nothing, or 503.
LEMMA RequestFailsHolds ==
  ASSUME IInv, NEW d \in Devices, RequestFails(d)
  PROVE  IInv'
<1> DEFINE failed == [Page(d) EXCEPT !.status = "failed"]
           waits == [Page(d) EXCEPT !.flight.phase = "waiting", !.status = "retrying"]
<1>1. /\ Page(d) \in PageType /\ GoodPage(progress, Page(d)) /\ Page(d).flight.phase = "sent"
      /\ Known(progress, Page(d).seen, Page(d).rev)
  BY OpenPage DEF RequestFails, GoodPage
<1>2. /\ UNCHANGED <<publicationVars, progress>>
      /\ \/ Ended(d, failed, wire)
         \/ Showing(d, waits) /\ UNCHANGED wire
  BY DEF RequestFails
<1>3. Page(d).flight # NoFlight
      /\ Page(d).flight \in [phase : {"sent", "waiting"}, place : Places, retry : Nat]
  BY <1>1, InFlight
<1>4. Grow /\ progress' = progress
  BY <1>2, NoRowGrows
<1>5. CASE Ended(d, failed, wire)
  <2>1. /\ failed \in PageType /\ failed.status = "failed" /\ failed.pending = Page(d).pending
        /\ failed.last = Page(d).last /\ failed.seen = Page(d).seen /\ failed.rev = Page(d).rev
    BY <1>1 DEF PageType, Status
  <2> HIDE DEF failed
  <2>2. failed.last # NoPlace => failed.pending = NoPlace \/ failed.pending = failed.last
    BY <1>1, <2>1 DEF GoodPage, KeepsPlace
  <2>3. Known(progress', failed.seen, failed.rev)
    BY <1>1, <1>4, <2>1
  <2>4. QED
    BY <1>2, <1>4, <1>5, <2>1, <2>2, <2>3, EndedHolds
<1>6. CASE Showing(d, waits) /\ UNCHANGED wire
  <2> DEFINE flight == [phase |-> "waiting", place |-> Page(d).flight.place,
                        retry |-> Page(d).flight.retry]
  <2>1. /\ [Page(d).flight EXCEPT !.phase = "waiting"] = flight
        /\ flight \in [phase : {"sent", "waiting"}, place : Places, retry : Nat]
        /\ flight.place = Page(d).flight.place
    BY <1>3, FlightGoes
  <2>2. waits = [Page(d) EXCEPT !.flight = flight, !.status = "retrying"]
    BY <1>1, <2>1 DEF PageType
  <2> HIDE DEF waits, flight
  <2>3. flight \in FlightType /\ flight # NoFlight
    BY <2>1 DEF FlightType, NoFlight
  <2>4. /\ waits \in PageType /\ waits.flight = flight /\ waits.pending = Page(d).pending
        /\ waits.last = Page(d).last /\ waits.seen = Page(d).seen /\ waits.rev = Page(d).rev
    BY <1>1, <2>2, <2>3 DEF PageType, Status
  <2>5. GoodPage(progress, waits)
    BY <1>1, <1>3, <2>1, <2>3, <2>4 DEF GoodPage, KeepsPlace
  <2>6. /\ device' \in [Devices -> DeviceType] /\ device'[d].page = waits
        /\ \A e \in Devices \ {d} : device'[e] = device[e]
    BY <1>6, <2>4, PageShown
  <2>7. Page(d)' = waits /\ GoodPage(progress', waits)
    BY <1>4, <2>5, <2>6 DEF Page
  <2>8. QED
    BY <1>2, <1>4, <1>6, <2>6, <2>7, PageHolds
<1> QED
  BY <1>2, <1>5, <1>6

\* It sends the same place again.
LEMMA ResendHolds ==
  ASSUME IInv, NEW d \in Devices, Resend(d)
  PROVE  IInv'
<1> DEFINE s == [Page(d) EXCEPT !.flight.phase = "sent", !.flight.retry = @ + 1]
           flight == [phase |-> "sent", place |-> Page(d).flight.place,
                      retry |-> Page(d).flight.retry + 1]
<1>1. /\ Page(d) \in PageType /\ GoodPage(progress, Page(d)) /\ Page(d).flight.phase = "waiting"
      /\ Known(progress, Page(d).seen, Page(d).rev)
  BY OpenPage DEF Resend, GoodPage
<1>2. /\ UNCHANGED <<publicationVars, progress>> /\ Showing(d, s)
      /\ wire' = wire \cup {FlightRequest(d, s)}
  BY DEF Resend
<1>3. /\ Page(d).flight # NoFlight /\ Page(d).flight.retry \in Nat /\ Page(d).flight.place \in Places
      /\ Page(d).flight \in [phase : {"sent", "waiting"}, place : Places, retry : Nat]
  BY <1>1, InFlight
<1>4. Grow /\ progress' = progress
  BY <1>2, NoRowGrows
<1>5. /\ flight \in [phase : {"sent", "waiting"}, place : Places, retry : Nat]
      /\ flight.place = Page(d).flight.place /\ flight.phase = "sent"
  BY <1>3
<1>6. [Page(d).flight EXCEPT !.phase = "sent", !.retry = @ + 1] = flight
  BY <1>3, FlightGoes
<1>7. s = [Page(d) EXCEPT !.flight = flight]
  BY <1>1, <1>6 DEF PageType
<1> HIDE DEF s, flight
<1>8. flight \in FlightType /\ flight # NoFlight
  BY <1>5 DEF FlightType, NoFlight
<1>9. /\ s \in PageType /\ s.flight = flight /\ s.pending = Page(d).pending
      /\ s.last = Page(d).last /\ s.seen = Page(d).seen /\ s.rev = Page(d).rev
  BY <1>1, <1>7, <1>8 DEF PageType
<1>10. GoodPage(progress, s)
  BY <1>1, <1>3, <1>5, <1>8, <1>9 DEF GoodPage, KeepsPlace
<1>11. GoodRequest(progress, FlightRequest(d, s))
  BY <1>1, <1>5, <1>9, InFlight
<1>12. /\ device' \in [Devices -> DeviceType] /\ device'[d].page = s
       /\ \A e \in Devices \ {d} : device'[e] = device[e]
  BY <1>2, <1>9, PageShown
<1>13. Page(d)' = s /\ GoodPage(progress', s)
  BY <1>4, <1>10, <1>12 DEF Page
<1> QED
  BY <1>2, <1>4, <1>11, <1>12, <1>13, PageHolds

\* The page goes away and sends what is pending.
LEMMA DisposeHolds ==
  ASSUME IInv, NEW d \in Devices, Dispose(d)
  PROVE  IInv'
<1> DEFINE s == Page(d)
           keepalive == Request(d, s.rev, s.pending, s.seen, Keepalive)
<1>1. /\ s \in PageType /\ s.rev \in Revisions /\ s.seen \in RowType /\ device[d] \in DeviceType
      /\ Known(progress, s.seen, s.rev)
  BY OpenPage DEF Dispose, GoodPage
<1>2. /\ UNCHANGED <<publicationVars, progress>>
      /\ device' = [device EXCEPT ![d].page = Closed, ![d].disposals = @ + 1]
      /\ \/ wire' = wire
         \/ s.pending # NoPlace /\ wire' = wire \cup {keepalive}
  BY DEF Dispose
<1>3. Grow /\ progress' = progress
  BY <1>2, NoRowGrows
<1>4. s.pending # NoPlace => GoodRequest(progress, keepalive)
  BY <1>1 DEF GoodRequest, RequestType, Request, Keepalive, PageType
<1>5. /\ device' \in [Devices -> DeviceType] /\ device'[d].page = Closed
      /\ \A e \in Devices \ {d} : device'[e] = device[e]
  BY <1>2, TwoPartsGo DEF IInv, DevicesHold
<1>6. ~Page(d)'.open
  BY <1>5 DEF Page, Closed
<1> QED
  BY <1>2, <1>3, <1>4, <1>5, <1>6, PageHolds

-----------------------------------------------------------------------------
(* The server's answers *)

\* A request that is awaited has the place in flight.
LEMMA AwaitedIs ==
  ASSUME IInv, NEW q \in wire, Awaited(q.by, q)
  PROVE  /\ Page(q.by) \in PageType /\ GoodPage(progress, Page(q.by))
         /\ Page(q.by).rev = q.rev /\ Page(q.by).flight # NoFlight
         /\ Page(q.by).flight.place = q.place
<1>1. q.by \in Devices
  BY DEF IInv, WireHolds, GoodRequest, RequestType
<1>2. Page(q.by) \in PageType /\ GoodPage(progress, Page(q.by))
  BY <1>1, OpenPage DEF Awaited
<1> QED
  BY <1>1, <1>2, InFlight DEF Awaited, GoodPage

\* The invariant goes on when an answer leaves the page that awaits it good.
LEMMA AnsweredHolds ==
  ASSUME IInv, Grow, UNCHANGED publicationVars, NEW q \in wire, NEW s, Answered(q, s),
         Awaited(q.by, q) =>
           /\ s \in PageType /\ Known(progress', s.seen, s.rev)
           /\ s.last # NoPlace =>
                IF s.pending # NoPlace THEN s.pending = s.last
                ELSE \/ s.status \in {"failed", "conflict"}
                     \/ s.status = "synced" /\ s.seen.rev = s.rev /\ s.seen.place = s.last
  PROVE  IInv'
<1>1. q.by \in Devices /\ device \in [Devices -> DeviceType]
  BY DEF IInv, WireHolds, GoodRequest, RequestType, DevicesHold
<1>2. CASE Awaited(q.by, q)
  <2>1. Ended(q.by, s, wire \ {q}) /\ wire \ {q} \in SUBSET wire
    BY <1>2 DEF Answered
  <2>2. QED
    BY <1>1, <1>2, <2>1, EndedHolds
<1>3. CASE ~Awaited(q.by, q)
  <2>1. wire' = wire \ {q} /\ device' = device
    BY <1>3 DEF Answered
  <2>2. IsOpen(q.by) => GoodPage(progress', Page(q.by))
    BY <1>1, StillGood
  <2>3. Page(q.by)'.open => GoodPage(progress', Page(q.by)')
    BY <2>1, <2>2 DEF IsOpen, Page
  <2>4. QED
    BY <1>1, <2>1, <2>3, PageHolds
<1> QED
  BY <1>2, <1>3

\* The server saves a place.
LEMMA SaveAccepted ==
  ASSUME IInv, NEW q \in wire, SaveProgress(q), Accepted(q)
  PROVE  IInv'
<1> DEFINE r == title.active
           s == [Page(q.by) EXCEPT !.status = "synced", !.seen = progress'[r]]
<1>1. /\ r \in Revisions /\ q.rev = r /\ UNCHANGED publicationVars /\ Answered(q, s)
      /\ progress' = [progress EXCEPT ![r] = Row(r, q.place, progress[r].version + 1)]
  BY DEF SaveProgress, Readable, ValidLocation, Saved, IInv, PublicationTypeOK
<1>2. q.place \in Places
  BY DEF IInv, WireHolds, GoodRequest, RequestType
<1>3. Grow /\ progress'[r] = Row(r, q.place, progress[r].version + 1)
  BY <1>1, <1>2, RowGrows
<1>4. progress[r].version \in Nat /\ progress'[r].version \in Nat /\ progress'[r] \in RowType
  BY <1>1, <1>3, RowsAre DEF IInv, GoodRows, Grow
<1>5. progress'[r].rev = r /\ progress'[r].place = q.place
  BY <1>1, <1>2, <1>3, <1>4, RowsAre
<1>6. ASSUME Awaited(q.by, q)
      PROVE  /\ s \in PageType /\ Known(progress', s.seen, s.rev)
             /\ s.last # NoPlace =>
                  IF s.pending # NoPlace THEN s.pending = s.last
                  ELSE \/ s.status \in {"failed", "conflict"}
                       \/ s.status = "synced" /\ s.seen.rev = s.rev /\ s.seen.place = s.last
  <2> DEFINE t == Page(q.by)
  <2>1. /\ t \in PageType /\ GoodPage(progress, t)
        /\ t.rev = r /\ t.flight # NoFlight /\ t.flight.place = q.place
    BY <1>1, <1>6, AwaitedIs
  <2>2. /\ s \in PageType /\ s.status = "synced" /\ s.seen = progress'[r] /\ s.rev = t.rev
        /\ s.pending = t.pending /\ s.last = t.last
    BY <1>4, <2>1 DEF PageType, Status
  <2> HIDE DEF s, t
  <2>3. Known(progress', s.seen, s.rev)
    BY <1>4, <2>1, <2>2 DEF Known
  <2>4. t.last # NoPlace => IF t.pending # NoPlace THEN t.pending = t.last ELSE t.last = q.place
    BY <2>1 DEF GoodPage, KeepsPlace
  <2>5. QED
    BY <1>5, <2>1, <2>2, <2>3, <2>4
<1> HIDE DEF s
<1> QED
  BY <1>1, <1>3, <1>6, AnsweredHolds

\* The server has a row of another version.
LEMMA SaveConflicts ==
  ASSUME IInv, NEW q \in wire, SaveProgress(q), ~Accepted(q)
  PROVE  IInv'
<1> DEFINE r == title.active
           seen == [Page(q.by) EXCEPT !.status = "conflict", !.seen = progress[r]]
           s == AfterConflict(seen)
<1>1. /\ r \in Revisions /\ q.rev = r /\ UNCHANGED <<publicationVars, progress>> /\ Answered(q, s)
  BY DEF SaveProgress, Readable, ValidLocation, IInv, PublicationTypeOK
<1>2. Grow /\ progress' = progress
  BY <1>1, NoRowGrows
<1>3. progress[r].version \in Nat /\ progress[r] \in RowType
  BY <1>1, RowsAre DEF IInv, GoodRows
<1>4. ASSUME Awaited(q.by, q)
      PROVE  /\ s \in PageType /\ Known(progress', s.seen, s.rev)
             /\ s.pending = NoPlace /\ s.status = "conflict"
  <2> DEFINE t == Page(q.by)
  <2>1. t \in PageType /\ t.rev = r
    BY <1>1, <1>4, AwaitedIs
  <2>2. seen \in PageType /\ seen.status = "conflict" /\ seen.seen = progress[r] /\ seen.rev = t.rev
    BY <1>3, <2>1 DEF PageType, Status
  <2> HIDE DEF seen, t
  <2>3. /\ s \in PageType /\ s.status = "conflict" /\ s.seen = progress[r] /\ s.rev = t.rev
        /\ s.pending = NoPlace
    BY <2>2 DEF AfterConflict, PageType
  <2> HIDE DEF s
  <2>4. Known(progress', s.seen, s.rev)
    BY <1>2, <1>3, <2>1, <2>3 DEF Known
  <2>5. QED
    BY <2>3, <2>4
<1> HIDE DEF s
<1> QED
  BY <1>1, <1>2, <1>4, AnsweredHolds

\* The server refuses a request.
LEMMA RequestRefusedHolds ==
  ASSUME IInv, NEW q \in wire, RequestRefused(q)
  PROVE  IInv'
<1> DEFINE s == [Page(q.by) EXCEPT !.status = "failed"]
<1>1. UNCHANGED <<publicationVars, progress>> /\ Answered(q, s)
  BY DEF RequestRefused
<1>2. Grow /\ progress' = progress
  BY <1>1, NoRowGrows
<1>3. ASSUME Awaited(q.by, q)
      PROVE  /\ s \in PageType /\ Known(progress', s.seen, s.rev) /\ s.status = "failed"
             /\ s.last # NoPlace /\ s.pending # NoPlace => s.pending = s.last
  <2> DEFINE t == Page(q.by)
  <2>1. t \in PageType /\ GoodPage(progress, t)
    BY <1>3, AwaitedIs
  <2>2. /\ s \in PageType /\ s.status = "failed" /\ s.seen = t.seen /\ s.rev = t.rev
        /\ s.pending = t.pending /\ s.last = t.last
    BY <2>1 DEF PageType, Status
  <2> HIDE DEF s, t
  <2>3. QED
    BY <1>2, <2>1, <2>2 DEF GoodPage, KeepsPlace
<1> HIDE DEF s
<1> QED
  BY <1>1, <1>2, <1>3, AnsweredHolds

-----------------------------------------------------------------------------
(* The invariant *)

\* At first there is no row, no page and no request.
LEMMA InitHolds == Init => IInv
<1> SUFFICES ASSUME Init PROVE IInv
  OBVIOUS
<1>1. PublicationTypeOK /\ ActiveIsPublished
  BY PublicationInitHolds DEF Init, RevisionState
<1>2. GoodRows(progress)
  BY DEF Init, ReaderInit, GoodRows, RowType
<1>3. DevicesHold
  BY DEF Init, ReaderInit, DevicesHold, DeviceType, IsOpen, Page, Closed
<1>4. WireHolds
  BY DEF Init, ReaderInit, WireHolds
<1> QED
  BY <1>1, <1>2, <1>3, <1>4 DEF IInv

\* What the invariant says of the reader only depends on the reader's state.
LEMMA PublicationHolds ==
  ASSUME IInv, PublicationStep, UNCHANGED readerVars
  PROVE  IInv'
<1>1. PublicationTypeOK' /\ ActiveIsPublished'
  BY PublicationStepHolds DEF IInv
<1>2. progress' = progress /\ device' = device /\ wire' = wire
  BY DEF readerVars
<1>3. GoodRows(progress')
  BY <1>2 DEF IInv
<1>4. DevicesHold' /\ WireHolds'
  BY <1>2 DEF IInv, DevicesHold, WireHolds, IsOpen, Page
<1> QED
  BY <1>1, <1>3, <1>4 DEF IInv

\* Every step keeps the invariant.
LEMMA StepHolds == IInv /\ [Next]_vars => IInv'
<1> SUFFICES ASSUME IInv, [Next]_vars PROVE IInv'
  OBVIOUS
<1>1. CASE PublicationStep /\ UNCHANGED readerVars
  BY <1>1, PublicationHolds
<1>2. ASSUME NEW d \in Devices, Client(d) PROVE IInv'
  BY <1>2, OpenHolds, NavigateHolds, DebounceEndsHolds, RequestFailsHolds, ResendHolds, DisposeHolds
     DEF Client
<1>3. ASSUME NEW q \in wire, Server(q) PROVE IInv'
  BY <1>3, SaveAccepted, SaveConflicts, RequestRefusedHolds DEF Server
<1>4. CASE UNCHANGED vars
  BY <1>4 DEF vars, readerVars, publicationVars, IInv, PublicationTypeOK, ActiveIsPublished,
              DevicesHold, WireHolds, IsOpen, Page
<1> QED
  BY <1>1, <1>2, <1>3, <1>4 DEF Next

\* The invariant holds in every state.
THEOREM Inductive == Spec => []IInv
<1>1. Init => IInv
  BY InitHolds
<1>2. IInv /\ [Next]_vars => IInv'
  BY StepHolds
<1> QED
  BY <1>1, <1>2, PTL DEF Spec

-----------------------------------------------------------------------------
(* The theorems *)

\* While readers open titles and administrators publish them, the revision a
\* title names is the only active one and has published settings.
THEOREM ShownIsActive == Spec => []ActiveIsPublished
<1>1. IInv => ActiveIsPublished
  BY DEF IInv
<1> QED
  BY <1>1, Inductive, PTL

\* No place a reader went to is forgotten on an open page (progress-sync.ts).
THEOREM PlacesAreKept == Spec => []NoPlaceForgotten
<1>1. IInv => NoPlaceForgotten
  BY DEF IInv, DevicesHold, GoodPage, KeepsPlace, NoPlaceForgotten, Waits, Page
<1> QED
  BY <1>1, Inductive, PTL

\* A row that is replaced was known to the request that replaces it.
LEMMA WritesWhatWasSeen ==
  ASSUME IInv, NEW q \in wire, SaveProgress(q), NEW r \in Revisions, progress'[r] # progress[r]
  PROVE  /\ q.rev = r /\ q.basis = progress[r]
         /\ progress'[r] = Row(r, q.place, progress[r].version + 1)
<1>1. CASE Accepted(q)
  <2>1. /\ title.active \in Revisions /\ q.rev = title.active
        /\ progress' = [progress EXCEPT ![title.active] =
                          Row(title.active, q.place, progress[title.active].version + 1)]
    BY <1>1 DEF SaveProgress, Readable, ValidLocation, Saved, IInv, PublicationTypeOK
  <2>2. r = title.active
    BY <2>1 DEF IInv, GoodRows
  <2>3. progress'[r] = Row(r, q.place, progress[r].version + 1)
    BY <2>1, <2>2 DEF IInv, GoodRows
  <2>4. Known(progress, q.basis, r)
    BY <2>1, <2>2 DEF IInv, WireHolds, GoodRequest
  <2>5. q.basis = progress[r]
    BY <1>1, <2>2, <2>4 DEF Known, Accepted
  <2>6. QED
    BY <2>1, <2>2, <2>3, <2>5
<1>2. CASE ~Accepted(q)
  BY <1>2 DEF SaveProgress
<1> QED
  BY <1>1, <1>2

\* No request and no migration replaces a row its sender has not seen
\* (reader-state/service.ts, reader-state/migration.ts).
THEOREM RowsAreSeenFirst == Spec => NoSilentOverwrite
<1> DEFINE SeenFirst ==
      \A r \in Revisions : progress[r] # NoRow /\ progress'[r] # progress[r] =>
        \E q \in wire : /\ q.rev = r /\ q.basis = progress[r]
                        /\ progress'[r] = Row(r, q.place, progress[r].version + 1)
<1>1. IInv /\ [Next]_vars => SeenFirst
  <2> SUFFICES ASSUME IInv, [Next]_vars, NEW r \in Revisions,
                      progress[r] # NoRow, progress'[r] # progress[r]
               PROVE  \E q \in wire : /\ q.rev = r /\ q.basis = progress[r]
                                      /\ progress'[r] = Row(r, q.place, progress[r].version + 1)
    OBVIOUS
  <2>1. CASE UNCHANGED progress
    BY <2>1
  <2>2. ASSUME NEW d \in Devices, Open(d) PROVE FALSE
    <3>1. title.active \in Revisions /\ Migrate(title.active)
      BY <2>2 DEF Open, Readable, IInv, PublicationTypeOK
    <3>2. /\ progress[title.active] = NoRow
          /\ \E p \in Places : progress' = [progress EXCEPT ![title.active] = Row(title.active, p, 1)]
      BY <3>1, MigrateWrites
    <3>3. QED
      BY <3>2 DEF IInv, GoodRows
  <2>3. ASSUME NEW q \in wire, SaveProgress(q)
        PROVE  /\ q.rev = r /\ q.basis = progress[r]
               /\ progress'[r] = Row(r, q.place, progress[r].version + 1)
    BY <2>3, WritesWhatWasSeen
  <2>4. \/ UNCHANGED progress
        \/ \E d \in Devices : Open(d)
        \/ \E q \in wire : SaveProgress(q)
    BY DEF Next, Client, Server, Navigate, DebounceEnds, RequestFails, Resend, Dispose,
           RequestRefused, vars, readerVars
  <2>5. QED
    BY <2>1, <2>2, <2>3, <2>4
<1> QED
  BY <1>1, Inductive, PTL DEF Spec, NoSilentOverwrite
=============================================================================
