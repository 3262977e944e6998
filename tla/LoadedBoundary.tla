----------------------------- MODULE LoadedBoundary -----------------------------
(***************************************************************************)
(* Keyboard navigation over the edge of a page of a table                  *)
(* (packages/grid/src/core/runtime/loaded-boundary.ts and                  *)
(* packages/frontend/src/table/page/table-grid-pager-boundary.ts).         *)
(*                                                                         *)
(* At the last or first row the runtime keeps one pending landing and asks *)
(* the page for a load.  The page answers with a promise and moves the     *)
(* focus to the Next or Previous button; the load is sent when the button  *)
(* is activated.  Every notification of the root source, whatever it is    *)
(* about, lets the pending landing look whether it can move the cursor.    *)
(*                                                                         *)
(* Of the rows on screen only the edges count, of the source only its      *)
(* newest load (RestLevelSource has the rest).  Columns, ranges and the    *)
(* row cursor of a list take the same path as the cell cursor.             *)
(***************************************************************************)
EXTENDS Naturals

CONSTANTS
  LastPage,        \* pages of the table
  MaxRequests,     \* bound on boundary requests
  NoLanding, Nobody, NoLoad

VARIABLES
  page,       \* the page in the query store
  rowsStatus, \* of the root source
  load,       \* its newest load: its page and the request that led to it
  shown,      \* the page on screen and the request that led to it
  cursor,     \* the row of the cell cursor
  pending,    \* the pending landing of the runtime
  token,      \* requests made so far
  waiting,    \* the request that waits for its button
  answers,    \* promises answered whose continuation has not run
  focus,      \* the button that has the focus, or the grid
  landing,    \* history: the latest landing
  left        \* the table page is gone and its runtime disposed

boundaryVars == <<page, rowsStatus, load, shown, cursor, pending, token, waiting, answers,
                  focus, landing, left>>

PageNumbers == 1..LastPage
Directions  == {"before", "after"}
Tokens      == 1..MaxRequests

\* The last row may be expanded; "nested" is the end of its child rows.
Rows        == [page : PageNumbers, edge : {"first", "last", "nested"}]
Events      == [direction : Directions, origin : Rows]
PageLoads   == [page : PageNumbers, by : Tokens \cup {Nobody}]
Results     == {"ready", "error", "superseded", "disposed"}
Landings    == [event : Events, token : Tokens]
Landed      == [token : Tokens, rowsOf : Tokens \cup {Nobody}, parked : BOOLEAN]

ASSUME BoundaryAssumption ==
  /\ LastPage \in Nat \ {0} /\ MaxRequests \in Nat
  /\ Nobody \notin Tokens \cup [direction : Directions, token : Tokens]
  /\ NoLoad \notin PageLoads /\ NoLanding \notin Landings \cup Landed

BoundaryTypeOK ==
  /\ page \in PageNumbers
  /\ rowsStatus \in {"loading", "ready", "error"}
  /\ load \in PageLoads \cup {NoLoad}
  /\ shown \in PageLoads
  /\ cursor \in Rows
  /\ pending \in Landings \cup {NoLanding}
  /\ token \in 0..MaxRequests
  /\ waiting \in [direction : Directions, token : Tokens] \cup {Nobody}
  /\ answers \subseteq [token : Tokens, result : Results]
  /\ focus \in Directions \cup {"grid"}
  /\ landing \in Landed \cup {NoLanding}
  /\ left \in BOOLEAN

(***************************************************************************)
(* The landing.                                                            *)
(***************************************************************************)
\* Mutant of Landable: any notification will do.
LandableAtOnce(st) == TRUE

\* Rows that are loading are waited for.
Landable(st) == st # "loading"

Edge(direction) == IF direction = "after" THEN "first" ELSE "last"

\* What a notification, or a promise answered "ready", does to a landing; it is
\* parked while its button is still waited for.
Resolve(p, st, rows) ==
  IF p = NoLanding \/ ~Landable(st)
  THEN pending' = p /\ UNCHANGED <<cursor, landing>>
  ELSE /\ pending' = NoLanding
       /\ IF st = "error" THEN UNCHANGED <<cursor, landing>>
          ELSE /\ cursor' = [page |-> rows.page, edge |-> Edge(p.event.direction)]
               /\ landing' = [token |-> p.token, rowsOf |-> rows.by,
                              parked |-> waiting' # Nobody /\ waiting'.token = p.token]

\* Continuations run before the next event.
Quiet == answers = {}

LoadAnswered(rec) ==
  /\ rec \in answers
  /\ answers' = answers \ {rec}
  /\ UNCHANGED <<page, rowsStatus, load, shown, token, waiting, focus, left>>
  /\ IF pending = NoLanding \/ pending.token # rec.token
     THEN UNCHANGED <<pending, cursor, landing>>
     ELSE IF rec.result = "ready"
     THEN Resolve(pending, rowsStatus, shown)
     ELSE pending' = NoLanding /\ UNCHANGED <<cursor, landing>>

(***************************************************************************)
(* The pager.                                                              *)
(***************************************************************************)
Available(direction) ==
  IF direction = "after" THEN page < LastPage ELSE page > 1

Told(result) ==
  IF load # NoLoad /\ load.by # Nobody THEN {[token |-> load.by, result |-> result]} ELSE {}

\* Mutant of Cancelled: the promise is dropped and not answered.
CancelledSilently == {}

Cancelled ==
  IF waiting = Nobody THEN {} ELSE {[token |-> waiting.token, result |-> "superseded"]}

\* Mutant of StartPageLoad: the rows count as ready meanwhile.
StartPageLoadUnseen(p, by) ==
  /\ page' = p
  /\ load' = [page |-> p, by |-> by]
  /\ UNCHANGED rowsStatus
  /\ Resolve(pending, "loading", shown)

\* A new load replaces the newest one and publishes that rows are loading.
StartPageLoad(p, by) ==
  /\ page' = p
  /\ load' = [page |-> p, by |-> by]
  /\ rowsStatus' = "loading"
  /\ Resolve(pending, "loading", shown)

\* The button on which the boundary waits is activated.
Continue ==
  /\ Quiet /\ ~left
  /\ waiting # Nobody /\ focus = waiting.direction /\ Available(focus)
  /\ waiting' = Nobody
  /\ answers' = Told("superseded")
  /\ StartPageLoad(IF focus = "after" THEN page + 1 ELSE page - 1, waiting.token)
  /\ UNCHANGED <<shown, token, focus, left>>

\* Another way to a page: a number, the page field, a button nobody waits for.
TurnPage(p) ==
  /\ Quiet /\ ~left
  /\ p # page
  /\ waiting' = Nobody
  /\ answers' = Cancelled \cup Told("superseded")
  /\ StartPageLoad(p, Nobody)
  /\ focus' = "grid"
  /\ UNCHANGED <<shown, token, left>>

\* An arrow key, a click elsewhere, or the focus that follows a landing.  A button
\* that was disabled meanwhile is left without an event.
LeaveButton ==
  /\ Quiet /\ ~left
  /\ focus # "grid"
  /\ focus' = "grid"
  /\ IF Available(focus) THEN waiting' = Nobody /\ answers' = Cancelled
                         ELSE UNCHANGED <<waiting, answers>>
  /\ UNCHANGED <<page, rowsStatus, load, shown, cursor, pending, token, landing, left>>

(***************************************************************************)
(* The grid.                                                               *)
(***************************************************************************)
MoveCursor(edge) ==
  /\ Quiet /\ ~left
  /\ focus = "grid"
  /\ cursor' = [page |-> shown.page, edge |-> edge]
  /\ UNCHANGED <<page, rowsStatus, load, shown, pending, token, waiting, answers, focus,
                 landing, left>>

\* The nearest level is asked first.  The level of child rows declines, but a
\* request to it that gets as far as the page has replaced the pending landing.
AfterChildren(origin, childReady) ==
  IF origin.edge = "nested" /\ childReady THEN NoLanding ELSE pending

PressAtEdge(direction, childReady) ==
  LET event == [direction |-> direction, origin |-> cursor]
      kept  == AfterChildren(cursor, childReady)
  IN /\ Quiet /\ ~left /\ token < MaxRequests
     /\ focus = "grid" /\ cursor.page = shown.page
     /\ IF direction = "after" THEN cursor.edge \in {"last", "nested"} ELSE cursor.edge = "first"
     /\ IF \/ kept # NoLanding /\ kept.event = event
           \/ rowsStatus # "ready"
        THEN /\ pending' = kept
             /\ UNCHANGED <<token, waiting, answers, focus>>
        ELSE IF ~Available(direction)
        THEN /\ pending' = NoLanding
             /\ UNCHANGED <<token, waiting, answers, focus>>
        ELSE /\ token' = token + 1
             /\ pending' = [event |-> event, token |-> token']
             /\ waiting' = [direction |-> direction, token |-> token']
             /\ answers' = Cancelled
             /\ focus' = direction
     /\ UNCHANGED <<page, rowsStatus, load, shown, cursor, landing, left>>

(***************************************************************************)
(* The root source.                                                        *)
(***************************************************************************)
\* A reload button, a row that was saved elsewhere, a new URL.
OtherLoad(p) ==
  /\ Quiet /\ ~left
  /\ answers' = Told("superseded")
  /\ UNCHANGED <<shown, token, waiting, focus, left>>
  /\ StartPageLoad(p, Nobody)

PageLands ==
  /\ Quiet /\ load # NoLoad
  /\ shown' = load
  /\ rowsStatus' = "ready" /\ load' = NoLoad
  /\ answers' = Told("ready")
  /\ UNCHANGED <<page, token, waiting, focus, left>>
  /\ Resolve(pending, "ready", load)

PageFails ==
  /\ Quiet /\ load # NoLoad
  /\ rowsStatus' = "error" /\ load' = NoLoad
  /\ answers' = Told("error")
  /\ UNCHANGED <<page, shown, token, waiting, focus, left>>
  /\ Resolve(pending, "error", shown)

\* The answer to an edit, a row created or removed: the rows change, the load and
\* the status do not.
EditAnswered ==
  /\ Quiet /\ ~left
  /\ pending # NoLanding
  /\ UNCHANGED <<page, rowsStatus, load, shown, token, waiting, answers, focus, left>>
  /\ Resolve(pending, rowsStatus, shown)

LeaveTable ==
  /\ Quiet /\ ~left
  /\ left' = TRUE
  /\ pending' = NoLanding
  /\ load' = NoLoad
  /\ answers' = Told("disposed")
  /\ UNCHANGED <<page, rowsStatus, shown, cursor, token, waiting, focus, landing>>

BoundaryInit ==
  /\ page = 1 /\ rowsStatus = "ready" /\ load = NoLoad
  /\ shown = [page |-> 1, by |-> Nobody]
  /\ cursor = [page |-> 1, edge |-> "first"]
  /\ pending = NoLanding /\ token = 0
  /\ waiting = Nobody /\ answers = {} /\ focus = "grid"
  /\ landing = NoLanding /\ left = FALSE

BoundaryNext ==
  \/ Continue \/ LeaveButton \/ PageLands \/ PageFails \/ EditAnswered \/ LeaveTable
  \/ \E rec \in answers : LoadAnswered(rec)
  \/ \E p \in PageNumbers : TurnPage(p) \/ OtherLoad(p)
  \/ \E edge \in {"first", "last", "nested"} : MoveCursor(edge)
  \/ \E d \in Directions, ready \in BOOLEAN : PressAtEdge(d, ready)

BoundarySpec == BoundaryInit /\ [][BoundaryNext]_boundaryVars

(***************************************************************************)
(* Properties                                                              *)
(***************************************************************************)

\* A pending landing is not left behind: its button is waited for, its load is on
\* the way or its promise has been answered.  One that were left behind would
\* swallow every later key at that edge.
PendingLandingIsServed ==
  pending # NoLanding =>
    \/ waiting # Nobody /\ waiting.token = pending.token
    \/ load # NoLoad /\ load.by = pending.token
    \/ \E rec \in answers : rec.token = pending.token

\* From when the load of a request has been asked for, its landing is on the rows
\* that this load brought, whatever loads replace it and whatever edits notify.
LandsOnTheLoadAsked ==
  landing # NoLanding /\ ~landing.parked => landing.rowsOf = landing.token

\* The root source as the pager and the runtime see it keeps the contract that the
\* REST source keeps.
RootSource == INSTANCE LevelSource WITH
  Loads <- PageLoads, status <- rowsStatus, stopped <- left
PagesKeepSourceContract == RootSource!Spec

\* "Activating the focused pagination button changes pages and returns focus to
\* the first or last row of the newly loaded page" (frontend/CHANGELOG.md, 0.3.0):
\* a landing is on rows that its request led to.
LandsOnLoadedRows ==
  landing # NoLanding => landing.rowsOf = landing.token

================================================================================
