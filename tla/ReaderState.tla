------------------------------ MODULE ReaderState ------------------------------
(***************************************************************************)
(* Where a reader is in a title: the progress rows of one account, one per *)
(* revision (reader-state/service.ts), their migration when readers are    *)
(* given another revision (reader-state/migration.ts), and the             *)
(* synchronizer of every device the account reads on                       *)
(* (reader/progress-sync.ts), while administrators publish, withdraw and   *)
(* roll back revisions (Publication).                                      *)
(*                                                                         *)
(* The server locks account and title, so a request is one step there.     *)
(* Between a device and the server requests are delayed, overtake each     *)
(* other, arrive after the device gave up on them, or never arrive.        *)
(***************************************************************************)
EXTENDS Publication, Sequences, SequencesExt

CONSTANTS
  Devices,
  Places,         \* places in the text, the same in every revision
  Beginning,      \* the first of them
  Matched,        \* places with one exact counterpart in the other revisions
  Retries,        \* bound: retries of a save, up to the 3 of RETRY_DELAYS, [Devices -> Nat]
  MaxNavigations, \* bound: navigations of a device, [Devices -> Nat]
  MaxDisposals    \* bound: pages of a device that are closed, [Devices -> Nat]

ASSUME PlacesAssumption == Beginning \in Places /\ Matched \subseteq Places
ASSUME ReaderBoundsAssumption ==
  {Retries, MaxNavigations, MaxDisposals} \subseteq [Devices -> Nat]

VARIABLES
  progress,  \* revision -> its row: table reader_progress
  activity,  \* revisions with a row, the latest written last: updated_at
  migrated,  \* revision -> how it was migrated to: reader_revision_migrations
  device,    \* the synchronizer of each device
  wire       \* requests that may still reach the server

readerVars == <<progress, activity, migrated, device, wire>>
vars == <<publicationVars, readerVars>>

NoRow == [version |-> 0]
Row(r, p, v) == [version |-> v, rev |-> r, place |-> p]
NoPlace == "no place"
NoFlight == [phase |-> "none"]

Status == {"idle", "pending", "synced", "retrying", "failed", "conflict"}

(***************************************************************************)
(* A request carries a location, which names a block of one revision, and  *)
(* the version of the row its device knew.  "basis" is that whole row, for *)
(* the properties; n counts its attempts.                                  *)
(***************************************************************************)
Request(d, r, p, basis, n) == [by |-> d, rev |-> r, place |-> p, basis |-> basis, n |-> n]
Keepalive == 0

Closed == [open |-> FALSE]
Opened(r, row) ==
  [open |-> TRUE, rev |-> r, seen |-> row, pending |-> NoPlace, debounce |-> FALSE,
   waiter |-> FALSE, flight |-> NoFlight, status |-> "idle", last |-> NoPlace]

ReaderInit ==
  /\ progress = [r \in Revisions |-> NoRow]
  /\ activity = <<>>
  /\ migrated = [r \in Revisions |-> "no record"]
  /\ device = [d \in Devices |-> [page |-> Closed, navigations |-> 0, disposals |-> 0]]
  /\ wire = {}

Init == PublicationInit("ready_for_review") /\ ReaderInit

Page(d) == device[d].page
IsOpen(d) == Page(d).open
Showing(d, page) == device' = [device EXCEPT ![d].page = page]

-----------------------------------------------------------------------------
(* The server *)

\* lockReaderTitle: an active revision, and its published settings
Readable == title.active # NoRevision /\ title.active \in published

Touched(r) == Append(SelectSeq(activity, LAMBDA q : q # r), r)

MigratesOnto(r) == progress[r] = NoRow

Counterpart(p) == IF p \in Matched THEN p ELSE Beginning

\* migrateLockedReaderState, once for each revision: the latest progress in
\* another revision is carried over, unless there is progress in this one
Migrate(r) ==
  LET others == SelectSeq(activity, LAMBDA q : q # r) IN
  IF migrated[r] # "no record" \/ others = <<>> THEN UNCHANGED <<progress, activity, migrated>>
  ELSE IF ~MigratesOnto(r)
       THEN migrated' = [migrated EXCEPT ![r] = "absent"] /\ UNCHANGED <<progress, activity>>
       ELSE LET from == progress[Last(others)].place IN
            /\ progress' = [progress EXCEPT ![r] = Row(r, Counterpart(from), 1)]
            /\ activity' = Touched(r)
            /\ migrated' = [migrated EXCEPT ![r] = IF from \in Matched THEN "migrated" ELSE "reset"]

\* the page loads: getReaderInitialState
Open(d) ==
  /\ ~IsOpen(d)
  /\ Readable
  /\ Migrate(title.active)
  /\ Showing(d, Opened(title.active, progress'[title.active]))
  /\ UNCHANGED <<publicationVars, wire>>

\* validateReaderLocation: the block belongs to the revision readers are given
ValidLocation(q) == q.rev = title.active

\* update .. where version = expectedVersion; insert .. on conflict do nothing
Accepted_anyVersion(q) == TRUE \* mutant: the last writer wins
Accepted(q) == progress[title.active].version = q.basis.version

Saved(q) ==
  LET r == title.active
  IN /\ progress' = [progress EXCEPT ![r] = Row(r, q.place, @.version + 1)]
     /\ activity' = Touched(r)

-----------------------------------------------------------------------------
(* The synchronizer *)

\* runPending takes what is pending, if nothing is in flight: send
Sent(s) ==
  [s EXCEPT !.flight = [phase |-> "sent", place |-> s.pending, retry |-> 0],
            !.pending = NoPlace, !.waiter = FALSE]
FlightRequest(d, s) == Request(d, s.rev, s.flight.place, s.seen, s.flight.retry + 1)

\* What runs when a save ends with the state s: the runPending that started it
\* goes on if no timer is set, one that waited for it in any case.
GoesOn_never(s) == FALSE \* mutant: runPending returns when its save has ended
GoesOn(s) == s.pending # NoPlace /\ (s.waiter \/ ~s.debounce)

\* the save in flight ended with s, requests being what is left on the wire
Ended(d, s, requests) ==
  LET done == [s EXCEPT !.flight = NoFlight]
      next == Sent(done)
  IN IF GoesOn(done)
     THEN Showing(d, next) /\ wire' = requests \cup {FlightRequest(d, next)}
     ELSE Showing(d, [done EXCEPT !.waiter = FALSE]) /\ wire' = requests

Navigate(d, p) ==
  LET s == Page(d) IN
  /\ IsOpen(d)
  /\ device[d].navigations < MaxNavigations[d]
  /\ device' = [device EXCEPT
       ![d].navigations = @ + 1,
       ![d].page = [s EXCEPT !.pending = p, !.debounce = TRUE, !.status = "pending", !.last = p]]
  /\ UNCHANGED <<publicationVars, progress, activity, migrated, wire>>

\* the timer, or flush, which clears it: runPending
DebounceEnds(d) ==
  LET s == [Page(d) EXCEPT !.debounce = FALSE] IN
  /\ IsOpen(d) /\ Page(d).debounce
  /\ IF s.flight # NoFlight
     THEN Showing(d, [s EXCEPT !.waiter = TRUE]) /\ UNCHANGED wire
     ELSE IF s.pending = NoPlace
     THEN Showing(d, s) /\ UNCHANGED wire
     ELSE Showing(d, Sent(s)) /\ wire' = wire \cup {FlightRequest(d, Sent(s))}
  /\ UNCHANGED <<publicationVars, progress, activity, migrated>>

AfterConflict(s) == [s EXCEPT !.pending = NoPlace]

Awaited(d, q) == IsOpen(d) /\ Page(d).flight.phase = "sent" /\ FlightRequest(d, Page(d)) = q

\* The device hears of the outcome, unless it gave up on the request.
Answered(q, s) ==
  IF Awaited(q.by, q) THEN Ended(q.by, s, wire \ {q})
  ELSE wire' = wire \ {q} /\ UNCHANGED device

SaveProgress(q) ==
  LET s == Page(q.by) IN
  /\ q \in wire /\ Readable /\ ValidLocation(q)
  /\ IF Accepted(q)
     THEN Saved(q) /\ Answered(q, [s EXCEPT !.status = "synced", !.seen = progress'[title.active]])
     ELSE /\ progress[title.active] # NoRow
          /\ UNCHANGED <<progress, activity>>
          /\ Answered(q, AfterConflict([s EXCEPT !.status = "conflict",
                                                 !.seen = progress[title.active]]))
  /\ UNCHANGED <<publicationVars, migrated>>

\* Not readable, the location is of another revision, there is no row of this
\* version, or the reader's entitlement or session has ended meanwhile.
RequestRefused(q) ==
  /\ q \in wire
  /\ Answered(q, [Page(q.by) EXCEPT !.status = "failed"])
  /\ UNCHANGED <<publicationVars, progress, activity, migrated>>

\* No answer, or 503.  The request may have been served or may be yet.
RequestFails(d) ==
  LET s == Page(d) IN
  /\ IsOpen(d) /\ s.flight.phase = "sent"
  /\ IF s.flight.retry = Retries[d]
     THEN Ended(d, [s EXCEPT !.status = "failed"], wire)
     ELSE Showing(d, [s EXCEPT !.flight.phase = "waiting", !.status = "retrying"]) /\ UNCHANGED wire
  /\ UNCHANGED <<publicationVars, progress, activity, migrated>>

Resend(d) ==
  LET s == [Page(d) EXCEPT !.flight.phase = "sent", !.flight.retry = @ + 1] IN
  /\ IsOpen(d) /\ Page(d).flight.phase = "waiting"
  /\ Showing(d, s)
  /\ wire' = wire \cup {FlightRequest(d, s)}
  /\ UNCHANGED <<publicationVars, progress, activity, migrated>>

\* pagehide, or the component goes away: timers stop, and what is pending is
\* sent as a keepalive, with the version known so far
Dispose(d) ==
  LET s == Page(d) IN
  /\ IsOpen(d)
  /\ device[d].disposals < MaxDisposals[d]
  /\ device' = [device EXCEPT ![d].page = Closed, ![d].disposals = @ + 1]
  /\ wire' = IF s.pending = NoPlace THEN wire
             ELSE wire \cup {Request(d, s.rev, s.pending, s.seen, Keepalive)}
  /\ UNCHANGED <<publicationVars, progress, activity, migrated>>

-----------------------------------------------------------------------------
Client(d) ==
  \/ Open(d)
  \/ \E p \in Places : Navigate(d, p)
  \/ DebounceEnds(d) \/ RequestFails(d) \/ Resend(d) \/ Dispose(d)

Server(q) == SaveProgress(q) \/ RequestRefused(q)

Next ==
  \/ PublicationStep /\ UNCHANGED readerVars
  \/ \E d \in Devices : Client(d)
  \/ \E q \in wire : Server(q)

Spec == Init /\ [][Next]_vars

-----------------------------------------------------------------------------
(* Properties *)

\* A row is only replaced, one version on, by a device that had been given
\* exactly this row and names a place in its revision: no request of another
\* device, of an older edition or from before a reload, no repetition and no
\* migration overwrites what its sender has not seen.
NoSilentOverwrite ==
  [][\A r \in Revisions : progress[r] # NoRow /\ progress'[r] # progress[r] =>
       \E q \in wire : /\ q.rev = r /\ q.basis = progress[r]
                       /\ progress'[r] = Row(r, q.place, progress[r].version + 1)]_vars

\* On an open page a place waiting to be saved has a timer or a save that will
\* take it; when none waits, the last place the reader went to is what the
\* server confirmed, or the reader is told that it is not.
Waits(d) == Page(d).pending # NoPlace \/ Page(d).flight # NoFlight
NoPlaceForgotten ==
  \A d \in Devices : IsOpen(d) =>
    LET s == Page(d) IN
    /\ s.pending # NoPlace => s.debounce \/ s.flight # NoFlight
    /\ s.last # NoPlace /\ ~Waits(d) =>
         \/ s.status \in {"failed", "conflict"}
         \/ s.status = "synced" /\ s.seen.rev = s.rev /\ s.seen.place = s.last
=============================================================================
