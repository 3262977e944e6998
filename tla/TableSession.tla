------------------------------ MODULE TableSession ------------------------------
(***************************************************************************)
(* The session of one table page                                           *)
(* (packages/frontend/src/table/tgrid/tgrid-session.ts) between the user,  *)
(* the rows and the URL (table/page/table-grid-url-state.ts).              *)
(*                                                                         *)
(* The query store holds what the controls show; every change of it asks   *)
(* the root source for rows, and the source keeps its newest load only     *)
(* (RestLevelSource).  A command of the user that became ready writes the  *)
(* URL; an effect of the page reads every new URL back into the store.     *)
(* showRow waits for loads, reads again, clears the query and puts it back.*)
(*                                                                         *)
(* Search and filters are one value, sort is left out: it takes the same   *)
(* path.  Of the rows only those that showRow calls look for count, and    *)
(* which of them an answer brings is up to the server.  A URL is one that  *)
(* the application writes: it names a search or filter, or none.           *)
(***************************************************************************)
EXTENDS Naturals, FiniteSets

CONSTANTS
  Filters,          \* searches and filters the user may set
  NoFilter,         \* neither search nor filter
  DefaultFilter,    \* initialSearch and initialFilters of the level
  Silent,           \* a URL that names neither
  Pages,            \* pages after the first
  ShowCalls,        \* calls of showRow, each for a row of its own
  SavedCalls,       \* those that bring their row as savedRow
  ClearingCalls,    \* those with clearQueryIfHidden
  NoOne             \* no load under way

FirstPage == 1
Queries   == [filter : Filters \cup {NoFilter}, page : Pages \cup {FirstPage}]
Urls      == [filter : Filters \cup {Silent}, page : Pages \cup {FirstPage}]

VARIABLES
  query,     \* the query store
  status,    \* status of the root source
  load,      \* its newest load: who waits for it and the query it was sent with
  shown,     \* the query that the rows on screen were read with
  rows,      \* the looked-for rows among them
  url, synced,  \* the location, and the one the page read into the store last
  pushDue,   \* a command has its ready result and goes on to write the URL
  show,      \* [call of showRow -> where it stands]
  disposed

tableVars == <<query, status, load, shown, rows, url, synced, pushDue, show, disposed>>

\* A load is sent by a command of the user, by the page (first read, URL,
\* reload) or by a call of showRow.
Senders == {"command", "page"} \cup ShowCalls
NoLoad  == [by |-> NoOne, query |-> NoOne]

ASSUME SendersAssumption ==
  NoOne \notin Senders \cup Queries /\ ShowCalls \cap {"command", "page"} = {}
ASSUME DefaultAssumption == DefaultFilter \in Filters \cup {NoFilter}

Settling == {"settling", "reloadSettling", "clearSettling"}
Loading  == {"reloading", "clearing", "restoring"}
NewShow  == [phase |-> "idle", result |-> "none", kept |-> NoFilter]
ShowStates == [phase : Settling \cup Loading \cup {"idle", "done"},
               result : {"none", "ok", "failed"}, kept : Filters \cup {NoFilter}]
Waiting(c) == show[c].phase \in Settling \cup Loading

TableTypeOK ==
  /\ query \in Queries /\ shown \in Queries \cup {NoOne}
  /\ status \in {"loading", "ready", "error"}
  /\ load \in [by : Senders, query : Queries] \cup {NoLoad}
  /\ rows \subseteq ShowCalls
  /\ url \in Urls /\ synced \in Urls
  /\ show \in [ShowCalls -> ShowStates]
  /\ pushDue \in BOOLEAN /\ disposed \in BOOLEAN

(***************************************************************************)
(* The query in the URL.                                                   *)
(***************************************************************************)
Written(q) == [filter |-> IF q.filter = NoFilter THEN Silent ELSE q.filter, page |-> q.page]

\* What a URL does not name is the default of the level.
Seeded(u) == [filter |-> IF u.filter = Silent THEN DefaultFilter ELSE u.filter, page |-> u.page]

(***************************************************************************)
(* Loads.  One that is replaced is superseded: a showRow call that waited  *)
(* for it waits for the rows to settle.                                    *)
(***************************************************************************)
Superseded(calls) ==
  [c \in ShowCalls |->
     IF load.by # c THEN calls[c]
     ELSE CASE calls[c].phase = "reloading" -> [calls[c] EXCEPT !.phase = "reloadSettling"]
            [] calls[c].phase = "clearing"  -> [calls[c] EXCEPT !.phase = "clearSettling"]
            [] calls[c].phase = "restoring" -> [calls[c] EXCEPT !.phase = "done"]
            [] OTHER                        -> calls[c]]

Refetch(by, calls) ==
  /\ load' = [by |-> by, query |-> query']
  /\ status' = "loading"
  /\ show' = Superseded(calls)

\* Promise continuations run before the next answer or user event.
Quiet == ~pushDue /\ \A c \in ShowCalls : Waiting(c) => show[c].result = "none"

Told(c, result) ==
  IF Waiting(c) /\ (show[c].phase \in Settling \/ load.by = c)
  THEN [show[c] EXCEPT !.result = result] ELSE show[c]

LoadLands ==
  /\ Quiet /\ load # NoLoad
  /\ rows' \in SUBSET ShowCalls
  /\ shown' = load.query
  /\ status' = "ready" /\ load' = NoLoad
  /\ show' = [c \in ShowCalls |-> Told(c, "ok")]
  /\ pushDue' = \/ load.by = "command"
                \/ \E c \in ShowCalls : load.by = c /\ show[c].phase \in {"clearing", "restoring"}
  /\ UNCHANGED <<query, url, synced, disposed>>

LoadFails ==
  /\ Quiet /\ load # NoLoad
  /\ status' = "error" /\ load' = NoLoad
  /\ show' = [c \in ShowCalls |-> Told(c, "failed")]
  /\ UNCHANGED <<query, shown, rows, url, synced, pushDue, disposed>>

(***************************************************************************)
(* Commands of the user.                                                   *)
(***************************************************************************)
\* A filter that is set already asks for nothing; rows that are ready then
\* count as the ready result of the command.
SetLevelFilter(f, by, calls) ==
  IF f = query.filter
  THEN /\ pushDue' = (status = "ready")
       /\ show' = calls
       /\ UNCHANGED <<query, status, load>>
  ELSE /\ query' = [filter |-> f, page |-> FirstPage]
       /\ Refetch(by, calls)
       /\ UNCHANGED pushDue

UserSetsFilter(f) ==
  /\ Quiet /\ ~disposed
  /\ SetLevelFilter(f, "command", show)
  /\ UNCHANGED <<shown, rows, url, synced, disposed>>

UserSetsPage(p) ==
  /\ Quiet /\ ~disposed
  /\ p # query.page
  /\ query' = [query EXCEPT !.page = p]
  /\ Refetch("command", show)
  /\ UNCHANGED <<shown, rows, url, synced, pushDue, disposed>>

\* A reload button, or a save whose answer asks for it.
Reload ==
  /\ Quiet /\ ~disposed
  /\ UNCHANGED query
  /\ Refetch("page", show)
  /\ UNCHANGED <<shown, rows, url, synced, pushDue, disposed>>

\* showRow calls that the same answer woke go on before the URL is written.
PushUrl ==
  /\ pushDue
  /\ \A c \in ShowCalls : show[c].phase \in Settling => show[c].result = "none"
  /\ url' = Written(query)
  /\ pushDue' = FALSE
  /\ UNCHANGED <<query, status, load, shown, rows, synced, show, disposed>>

BrowserNavigates(u) ==
  /\ Quiet /\ ~disposed
  /\ url' = u
  /\ UNCHANGED <<query, status, load, shown, rows, synced, pushDue, show, disposed>>

\* Mutant of SyncFromUrl: a new page number waits for the next load.
SyncFilterFromUrl ==
  /\ Quiet /\ ~disposed
  /\ synced # url
  /\ synced' = url
  /\ query' = Seeded(url)
  /\ IF query'.filter = query.filter THEN UNCHANGED <<status, load, show>>
                                     ELSE Refetch("page", show)
  /\ UNCHANGED <<shown, rows, url, pushDue, disposed>>

\* The effect of the page, after every change of the location.
SyncFromUrl ==
  /\ Quiet /\ ~disposed
  /\ synced # url
  /\ synced' = url
  /\ query' = Seeded(url)
  /\ IF query' = query THEN UNCHANGED <<status, load, show>>
                       ELSE Refetch("page", show)
  /\ UNCHANGED <<shown, rows, url, pushDue, disposed>>

(***************************************************************************)
(* showRow.                                                                *)
(***************************************************************************)
MovesTo(c, phase) == [show EXCEPT ![c] = [@ EXCEPT !.phase = phase, !.result = "none"]]
Ended(c)           == [show EXCEPT ![c] = [NewShow EXCEPT !.phase = "done"]]

ShowRow(c) ==
  /\ Quiet /\ ~disposed
  /\ show[c].phase = "idle"
  /\ show' = [show EXCEPT ![c].phase = "settling",
                          ![c].result = CASE status = "loading" -> "none"
                                          [] status = "ready"   -> "ok"
                                          [] OTHER              -> "failed"]
  /\ UNCHANGED <<query, status, load, shown, rows, url, synced, pushDue, disposed>>

Found(c) == show[c].result = "ok" /\ c \in rows

CanAdd(c) == show[c].result = "ok" /\ c \in SavedCalls

\* Mutant of EndsSettled: that the page was left is not looked at.
EndsSettledAnyway(c) == Found(c)

EndsSettled(c) == disposed \/ Found(c)

ShowEnds(c) ==
  /\ show' = Ended(c)
  /\ UNCHANGED <<query, status, load, rows, pushDue>>

\* After the first wait: the row is there, joins the rows, or is read for.  A
\* command that the same answer made ready then finds a reload under way and
\* does not write the URL.
GoOnSettled(c) ==
  CASE EndsSettled(c) -> ShowEnds(c)
    [] CanAdd(c) /\ ~EndsSettled(c) ->
         /\ rows' = rows \cup {c}
         /\ show' = Ended(c)
         /\ UNCHANGED <<query, status, load, pushDue>>
    [] OTHER ->
         /\ UNCHANGED <<query, rows>>
         /\ Refetch(c, MovesTo(c, "reloading"))
         /\ pushDue' = FALSE

\* After the reload: the query is cleared when it may be what hides the row.
GoOnReloaded(c) ==
  IF \/ disposed \/ show[c].result = "failed" \/ Found(c)
     \/ c \notin ClearingCalls \/ query.filter = NoFilter
  THEN ShowEnds(c)
  ELSE /\ SetLevelFilter(NoFilter, c,
                         [MovesTo(c, "clearing") EXCEPT ![c].kept = query.filter])
       /\ UNCHANGED rows

\* After the clearing: the search and filters it found come back.
GoOnCleared(c) ==
  IF disposed \/ Found(c) THEN ShowEnds(c)
  ELSE /\ SetLevelFilter(show[c].kept, c,
                         IF show[c].kept = query.filter THEN Ended(c)
                         ELSE MovesTo(c, "restoring"))
       /\ UNCHANGED rows

GoOn(c) ==
  /\ Waiting(c) /\ show[c].result # "none"
  /\ show[c].phase \in Loading => ~pushDue
  /\ CASE show[c].phase = "settling"                        -> GoOnSettled(c)
       [] show[c].phase \in {"reloading", "reloadSettling"} -> GoOnReloaded(c)
       [] show[c].phase \in {"clearing", "clearSettling"}   -> GoOnCleared(c)
       [] show[c].phase = "restoring"                       -> ShowEnds(c)
  /\ UNCHANGED <<shown, url, synced, disposed>>

(***************************************************************************)
(* The page is left.                                                       *)
(***************************************************************************)
\* Mutant of Stopped: calls that wait for rows to settle are left waiting.
StoppedNone == show

Stopped == [c \in ShowCalls |-> IF show[c].phase \in Settling
                                THEN [show[c] EXCEPT !.result = "failed"] ELSE show[c]]

\* A load that an operation waits for keeps the source until it has landed; one
\* that only the source started ends with it.  reloadRows is an operation.
Dispose ==
  /\ Quiet /\ ~disposed
  /\ disposed' = TRUE
  /\ show' = Stopped
  /\ load' \in IF load.by = "page" THEN {load, NoLoad} ELSE {load}
  /\ UNCHANGED <<query, status, shown, rows, url, synced, pushDue>>

TableInit ==
  /\ url \in Urls /\ synced = url
  /\ query = Seeded(url)
  /\ status = "loading" /\ load = [by |-> "page", query |-> query]
  /\ shown = NoOne /\ rows = {}
  /\ pushDue = FALSE /\ disposed = FALSE
  /\ show = [c \in ShowCalls |-> NewShow]

TableNext ==
  \/ LoadLands \/ LoadFails \/ PushUrl \/ SyncFromUrl \/ Reload \/ Dispose
  \/ \E f \in Filters \cup {NoFilter} : UserSetsFilter(f)
  \/ \E p \in Pages \cup {FirstPage} : UserSetsPage(p)
  \/ \E u \in Urls : BrowserNavigates(u)
  \/ \E c \in ShowCalls : ShowRow(c) \/ GoOn(c)

TableSpec == TableInit /\ [][TableNext]_tableVars

(***************************************************************************)
(* Properties                                                              *)
(***************************************************************************)

\* The rows on screen, when they count as ready, are those of the query that
\* the controls show, whoever of user, browser and showRow changed it last and
\* whatever answers were overtaken.
ReadyRowsMatchQuery == status = "ready" => shown = query

\* A showRow call that waits is woken: a load is under way that will settle the
\* rows, its own load when it waits for that one, or its result is there
\* already.  Leaving the page ends it, too.
ShowRowIsWoken ==
  \A c \in ShowCalls : (Waiting(c) /\ show[c].result = "none") =>
    /\ load # NoLoad
    /\ show[c].phase \in Loading => load.by = c
    /\ show[c].phase \in Settling => ~disposed

\* The root source as the session sees it keeps the contract that the REST source
\* keeps.  A page that was left only lets the load end that somebody waits for.
Root == INSTANCE LevelSource WITH
  Loads <- Queries, NoLoad <- NoOne, load <- load.query, stopped <- disposed
RootKeepsSourceContract == Root!Spec

\* "A refreshing, errored, superseded, disposed, or unchanged command leaves the
\* route untouched" (tgrid-session.ts:677): a page that was left writes no URL.
LeftPageWritesNoUrl == [][disposed => url' = url]_tableVars

================================================================================
