---------------------------- MODULE RestConvergence ----------------------------
(***************************************************************************)
(* When the rows of a REST level source are those the server stores.       *)
(*                                                                         *)
(* The source compares no versions: whether its rows are the server's is a *)
(* matter of which answer lands when.  A history variable remembers that a *)
(* race took place after which they may differ; a page that lands while    *)
(* nothing is being saved, with the rows the server stores, makes up for   *)
(* every race before it.                                                   *)
(***************************************************************************)
EXTENDS RestLevelSource

VARIABLE raced   \* the rows may have parted from the server's

trackedVars == <<vars, raced>>

\* The page answers that this step takes, and those that show the server's rows.
PagesTaken == {f \in fetches \ fetches' : ~PageIsStale(f) /\ f.stage = "answered"}
IsFresh(f) == f.rows = server /\ patches = {}

\* The answers that this step applies: those to the latest edits of their cells.
Landed ==
  {p \in (patches \ patches') \cup (settling \ settling') :
     p \notin settling' /\ Answered(p) /\ IsCurrent(p)}

\* An answer names other cells of the row, of which one is being saved or has
\* changed since; or it does not name its own, and the server rewrote that.
OtherCellsLand ==
  \E p \in Landed : p.reply.kind = "columns" /\ \E c \in Cols :
    LET told == p.reply.cells[c]
    IN  IF c = p.col THEN told = Keep /\ CellIn(server, p.row, c) # p.value
        ELSE told # Keep /\ (cellTokens[p.row][c] # 0 \/ CellIn(server, p.row, c) # told)

\* An answer leaves it to the next page what was stored.
ReloadAsked == \E p \in Landed : p.reply.kind = "reload"

EditRejected == \E e \in emitted' : e.kind = "rejected"

\* A subscriber edits a cell in the middle of a batch whose answer for that cell
\* is applied nevertheless.
OvertakenInBatch == \E p \in settling \ settling' : ~IsCurrent(p)

\* The server handles a later edit of a cell first.
HandledOutOfOrder ==
  \E p \in patches \ patches', q \in patches :
    /\ ~Answered(p) /\ ~Answered(q)
    /\ q.row = p.row /\ q.col = p.col /\ q.token < p.token

\* The answer to an insert lands after the row was edited elsewhere or removed.
CreateLandsLate ==
  \E r \in Rows : creates'[r] = "resolved" /\ creates[r] # "resolved" /\ server[r] # NewRow

\* A form's record of a row joins the rows after the row changed on the server.
SavedRowIsOld ==
  \E r \in saved : ~Present(r) /\ nodes'[r] # Gone /\ server[r] # NewRow

\* Someone else changes a row that is loaded.
ChangedElsewhere ==
  \E r \in saved :
    Present(r) /\ server'[r] # server[r] /\ UNCHANGED <<patches, removes>>

Races ==
  \/ OtherCellsLand \/ ReloadAsked \/ EditRejected \/ OvertakenInBatch
  \/ HandledOutOfOrder \/ CreateLandsLate \/ SavedRowIsOld \/ ChangedElsewhere

TrackedInit == Init /\ raced = FALSE
TrackedNext ==
  /\ Next
  /\ raced' = IF PagesTaken # {} THEN \E f \in PagesTaken : ~IsFresh(f) ELSE raced \/ Races
TrackedSpec == TrackedInit /\ [][TrackedNext]_trackedVars

\* Since the last page that was read and shown undisturbed, and unless one of
\* the named races took place, the rows shown are rows of the server, and a cell
\* that is not marked as being saved shows what the server stores: whatever edits
\* superseded each other, however their answers interleave with those to inserts
\* and removals, in batches or alone, rewritten by the server or not.
ConvergesUnlessRaced ==
  (~raced /\ ~disposed) =>
    \A r \in Rows : (Present(r) /\ removes[r] # "stored") =>
      /\ server[r] # Gone
      /\ \A c \in Cols : cellTokens[r][c] = 0 => nodes[r][c] = server[r][c]
================================================================================
