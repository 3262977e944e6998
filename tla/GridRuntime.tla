---------------------------- MODULE GridRuntime ----------------------------
(***************************************************************************)
(* Levels, sources and row removal of one grid runtime                     *)
(* (packages/grid/src/core/runtime: runtime.ts, source-registry.ts,        *)
(* row-operations.ts).                                                     *)
(*                                                                         *)
(* A runtime registers the root level and, when a row is first expanded,   *)
(* the level below it.  Each registered level owns a source that publishes *)
(* rows by itself.  A removal takes row targets that were issued earlier,  *)
(* asks the sources to remove the rows one after the other, children       *)
(* first, lets the touched levels load again and corrects the cursor.      *)
(* Removals, loads, the user and the disposal of the runtime interleave    *)
(* at every await.                                                         *)
(*                                                                         *)
(* A path is the sequence of the keys of the rows above it, the root is    *)
(* <<>>; a row is a path and a key.  The order in which rows are shown,    *)
(* columns, phantom rows and row selection are left out.                   *)
(***************************************************************************)
EXTENDS Naturals, FiniteSets, Sequences, FiniteSetsExt, SequencesExt

CONSTANTS
  Paths,          \* the levels of the grid
  GridRows,       \* the rows that the sources may publish
  InitialRows,    \* the rows of the root when the runtime is made
  TargetCalls,    \* calls of rowOperations.remove, with targets held before
  RowCalls,       \* calls of removeRow, which issues its one target itself
  NoRow,          \* the cursor that is on no row
  MaxTargets,     \* bound: targets of one call
  MaxGeneration   \* bound: how many memberships there are in all

Ops == TargetCalls \cup RowCalls

Root == <<>>
Keys == {r[2] : r \in GridRows}
RowsAt(p) == {r \in GridRows : r[1] = p}
ChildPath(r) == Append(r[1], r[2])
Below(p, r) == IsPrefix(ChildPath(r), p)

ASSUME RowsAssumption ==
  /\ Root \in Paths
  /\ Paths \subseteq Seq(Keys)
  /\ \A p \in Paths \ {Root} : Front(p) \in Paths
  /\ GridRows \subseteq Paths \X Keys /\ IsFiniteSet(GridRows)
  /\ InitialRows \subseteq RowsAt(Root)
  /\ NoRow \notin GridRows

ASSUME BoundsAssumption == MaxTargets \in Nat /\ MaxGeneration \in Nat

VARIABLES
  registered,   \* the paths with an active entry in the source registry
  ready,        \* those whose source state is "ready"
  rows,         \* the rows in the cached snapshots of the registered levels
  generation,   \* [row -> its membership generation, given when it appears]
  pending,      \* the rows in pendingRemovals of their level
  expanded,     \* the expansion map of the coordinator
  cursor,       \* the cell cursor of the coordinator
  op,           \* [call of remove -> where it stands]
  shutdown,     \* shutdownRequested
  released,     \* retainedResourcesReleased
  fault         \* runtimeFault: a source notification threw

runtimeVars == <<registered, ready, rows, generation, pending, expanded, cursor, op,
          shutdown, released, fault>>

Target == [row : GridRows, generation : Nat]

Phases == {"idle", "held", "removing", "landed", "settling", "done"}

EmptyOp(phase) ==
  [phase |-> phase, held |-> {}, queue |-> <<>>, removed |-> {}, touched |-> {},
   awaiting |-> {}, moved |-> FALSE, origin |-> NoRow, sourceGone |-> FALSE]

CallStates ==
  [phase : Phases, held : SUBSET Target, queue : Seq(Target),
   removed : SUBSET GridRows, touched : SUBSET Paths, awaiting : SUBSET Paths,
   moved : BOOLEAN, origin : GridRows \cup {NoRow}, sourceGone : BOOLEAN]

InFlight(o) == op[o].phase \in {"removing", "landed", "settling"}

RuntimeTypeOK ==
  /\ registered \subseteq Paths
  /\ ready \subseteq registered
  /\ rows \subseteq {r \in GridRows : r[1] \in registered}
  /\ generation \in [GridRows -> Nat]
  /\ pending \subseteq {r \in GridRows : r[1] \in registered}
  /\ ~fault => pending \subseteq rows
  /\ expanded \subseteq GridRows
  /\ cursor \in GridRows \cup {NoRow}
  /\ op \in [Ops -> CallStates]
  /\ shutdown \in BOOLEAN /\ released \in BOOLEAN /\ fault \in BOOLEAN

RuntimeInit ==
  /\ registered = {Root}
  /\ ready = {Root}
  /\ rows = InitialRows
  /\ generation = [r \in GridRows |-> IF r \in InitialRows THEN 1 ELSE 0]
  /\ pending = {}
  /\ expanded = {}
  /\ cursor = NoRow
  /\ op = [o \in Ops |-> EmptyOp("idle")]
  /\ shutdown = FALSE
  /\ released = FALSE
  /\ fault = FALSE

(***************************************************************************)
(* The rows a user sees and the places a cursor may land on.               *)
(***************************************************************************)
PathVisible(p) ==
  \A i \in 1..Len(p) :
    /\ <<SubSeq(p, 1, i - 1), p[i]>> \in rows \cap expanded
    /\ SubSeq(p, 1, i) \in ready

Visible == {r \in rows : PathVisible(r[1])}

Survives(r, removals) ==
  /\ r \notin removals
  /\ \A g \in removals : ~Below(r[1], g)

(* Mutant of Landings: the row that was left is not looked at again.       *)
LandingsUnchecked(origin, removals) == {origin}

Landings(origin, removals) ==
  LET survivors == {r \in Visible : Survives(r, removals)}
  IN  IF origin \in survivors THEN {origin}
      ELSE IF survivors = {} THEN {NoRow} ELSE survivors

CursorIsValid == cursor = NoRow \/ cursor \in rows

(* A change of the cursor is a new cursorRevision for every removal under  *)
(* way.                                                                    *)
CursorSeen(ops, c) ==
  [o \in Ops |-> IF c # cursor /\ InFlight(o)
                 THEN [ops[o] EXCEPT !.moved = TRUE, !.origin = NoRow]
                 ELSE ops[o]]

(***************************************************************************)
(* A source publishes the rows new of the path p.  The registry gives rows *)
(* that appear a new generation; the rows seen, which are under removal    *)
(* and gone, collapse and lose the levels below them, whose sources are    *)
(* disposed.  After the disposal of the runtime the collapse of an         *)
(* expanded row throws: the runtime faults, keeps the levels below that    *)
(* row and does not come to the rows marked after it.                      *)
(***************************************************************************)
PublishCleaning(p, new, ops, seen) ==
  LET throws  == shutdown /\ seen \cap expanded # {}
      dropped == {q \in registered :
                    \E r \in seen : Below(q, r) /\ (throws => r \notin expanded)}
      onto    == {r \in seen \cap expanded :
                    /\ ChildPath(r) \in registered
                    /\ cursor # NoRow
                    /\ Below(cursor[1], r)}
      next    == IF throws \/ onto = {} THEN cursor ELSE CHOOSE r \in onto : TRUE
  IN  /\ registered' = registered \ dropped
      /\ rows' = {r \in rows : r[1] \notin dropped \cup {p}} \cup new
      /\ generation' = [r \in GridRows |->
                          IF r \in new \ rows THEN generation[r] + 1
                                              ELSE generation[r]]
      /\ MapThenSumSet(LAMBDA r : generation'[r], GridRows) <= MaxGeneration
      /\ pending' = {r \in pending \ seen : r[1] \notin dropped}
      /\ expanded' = expanded \ seen
      /\ cursor' = next
      /\ fault' = (fault \/ throws)
      /\ op' = [o \in Ops |->
                 [CursorSeen(ops, next)[o] EXCEPT
                    !.awaiting = @ \ dropped,
                    !.sourceGone = @ \/ (/\ ops[o].phase \in {"removing", "landed"}
                                         /\ Head(ops[o].queue).row[1] \in dropped)]]

(* Which of the marked rows that are gone the cleanup comes to.            *)
Cleaned(gone) ==
  IF shutdown /\ gone \cap expanded # {}
  THEN {flat \cup {r} : flat \in SUBSET (gone \ expanded), r \in gone \cap expanded}
  ELSE {gone}

Publish(p, new, ops) ==
  \E seen \in Cleaned({r \in pending : r[1] = p /\ r \notin new}) :
    PublishCleaning(p, new, ops, seen)

(* Mutant of ReleaseWhen: a level stays marked as ready.                   *)
ReleaseKeepsReady(last) ==
  IF shutdown' /\ last
  THEN released' = TRUE /\ registered' = {} /\ rows' = {} /\ pending' = {} /\ UNCHANGED ready
  ELSE UNCHANGED <<released, registered, ready, rows, pending>>

(* What the last operation in flight leaves to releaseRetainedResources.   *)
ReleaseWhen(last) ==
  IF shutdown' /\ last
  THEN /\ released' = TRUE
       /\ registered' = {}
       /\ ready' = {}
       /\ rows' = {}
       /\ pending' = {}
  ELSE UNCHANGED <<released, registered, ready, rows, pending>>

(* Promise continuations run before the next answer or user event.         *)
RuntimeQuiet ==
  \A o \in Ops : /\ op[o].phase # "landed"
                 /\ op[o].phase = "settling" => op[o].awaiting # {}

(***************************************************************************)
(* Row targets and their removal.                                          *)
(***************************************************************************)
(* Mutant of ValidTarget: a row with the key of the target will do.        *)
ValidWhileThere(t) == ~shutdown /\ t.row \in rows

ValidTarget(t) ==
  /\ ~shutdown
  /\ t.row \in rows
  /\ t.generation = generation[t.row]

(* Mutant of ChildFirst: removals run from the root down.                  *)
RootFirst(targets) ==
  {queue \in SetToSeqs(targets) :
     \A i, j \in DOMAIN queue : i < j => Len(queue[i].row[1]) <= Len(queue[j].row[1])}

(* Removals run from the deepest level up.                                 *)
ChildFirst(targets) ==
  {queue \in SetToSeqs(targets) :
     \A i, j \in DOMAIN queue : i < j => Len(queue[i].row[1]) >= Len(queue[j].row[1])}

IssuedTarget(r) == [row |-> r, generation |-> generation[r]]

(* Targets are issued for rows shown now and kept, across a confirmation,  *)
(* until the call.                                                         *)
IssueTargets(o) ==
  /\ RuntimeQuiet
  /\ ~shutdown
  /\ op[o].phase = "idle"
  /\ \E chosen \in SUBSET rows :
       /\ chosen # {}
       /\ Cardinality(chosen) <= MaxTargets
       /\ op' = [op EXCEPT ![o].phase = "held", ![o].held = {IssuedTarget(r) : r \in chosen}]
  /\ UNCHANGED <<registered, ready, rows, generation, pending, expanded, cursor,
                 shutdown, released, fault>>

Send(ops, o) ==
  LET r == Head(ops[o].queue).row
  IN  [ops EXCEPT ![o].phase = "removing",
                  ![o].touched = @ \cup {r[1]},
                  ![o].sourceGone = FALSE]

(* The cursor leaves the rows that will go, then the first removal is sent. *)
Begin(o, queue) ==
  \E c \in Landings(cursor, {t.row : t \in Range(queue)}) :
    /\ cursor' = c
    /\ op' = Send([CursorSeen(op, c) EXCEPT
                     ![o].held = {}, ![o].queue = queue, ![o].moved = FALSE,
                     ![o].origin = cursor],
                  o)
    /\ pending' = pending \cup {Head(queue).row}
    /\ UNCHANGED <<registered, ready, rows, generation, expanded, shutdown,
                   released, fault>>

(* remove: refused as a whole when a target is stale.                      *)
RemoveTargets(o) ==
  /\ RuntimeQuiet
  /\ op[o].phase = "held"
  /\ IF \A t \in op[o].held : ValidTarget(t)
     THEN \E queue \in ChildFirst(op[o].held) : Begin(o, queue)
     ELSE /\ op' = [op EXCEPT ![o] = EmptyOp("done")]
          /\ UNCHANGED <<registered, ready, rows, generation, pending, expanded,
                         cursor, shutdown, released, fault>>

RemoveRow(o) ==
  /\ RuntimeQuiet
  /\ ~shutdown
  /\ op[o].phase = "idle"
  /\ \E r \in rows : Begin(o, <<IssuedTarget(r)>>)

(* The server removed the row: the source publishes before its promise     *)
(* settles.  A source that was disposed publishes nothing any more.        *)
RemovalLands(o) ==
  LET r == Head(op[o].queue).row
      ops == [op EXCEPT ![o].phase = "landed"]
  IN  /\ RuntimeQuiet
      /\ op[o].phase = "removing"
      /\ IF op[o].sourceGone
         THEN /\ op' = ops
              /\ UNCHANGED <<registered, rows, generation, pending, expanded,
                             cursor, fault>>
         ELSE Publish(r[1], (rows \cap RowsAt(r[1])) \ {r}, ops)
      /\ ready' = ready \cap registered'
      /\ UNCHANGED <<shutdown, released>>

(* The touched levels that are still registered load again; the call waits *)
(* for them.  Another call that waited for an earlier load of such a level *)
(* is told that it was superseded.  After the disposal nothing is awaited. *)
Settle(ops, o) ==
  LET wait == IF shutdown THEN {} ELSE ops[o].touched \cap registered
  IN  /\ op' = [x \in Ops |->
                 IF x = o THEN [ops[o] EXCEPT !.phase = "settling", !.touched = {},
                                              !.awaiting = wait]
                 ELSE [ops[x] EXCEPT !.awaiting = @ \ wait]]
      /\ ready' = ready \ wait

Fail(o) ==
  LET r == Head(op[o].queue).row
  IN  /\ Settle(op, o)
      /\ pending' = IF op[o].sourceGone THEN pending ELSE pending \ {r}
      /\ UNCHANGED <<registered, rows, generation, expanded, cursor, shutdown,
                     released, fault>>

RemovalRefused(o) == RuntimeQuiet /\ op[o].phase = "removing" /\ Fail(o)

(* The runtime goes on after a removal that landed: it believes the source *)
(* only when the level is still there and shows the row no more, and looks *)
(* at each further target again before it sends it.                        *)
Confirmed(o) ==
  LET r == Head(op[o].queue).row IN r[1] \in registered /\ r \notin rows

Continue(o) ==
  LET rest == Tail(op[o].queue)
      ops  == [op EXCEPT ![o].queue = rest,
                         ![o].removed = @ \cup {Head(op[o].queue).row}]
      more == rest # <<>> /\ ValidTarget(Head(rest))
  IN  /\ op[o].phase = "landed"
      /\ Confirmed(o)
      /\ IF more THEN op' = Send(ops, o) /\ UNCHANGED ready
                 ELSE Settle(ops, o)
      /\ pending' = IF more THEN pending \cup {Head(rest).row} ELSE pending
      /\ UNCHANGED <<registered, rows, generation, expanded, cursor, shutdown,
                     released, fault>>

RemovalUnseen(o) == op[o].phase = "landed" /\ ~Confirmed(o) /\ Fail(o)

LastInFlight(o) == \A other \in Ops \ {o} : ~InFlight(other)

(* finishRemovalCursorContinuation: the user's own move wins while it is   *)
(* on a row; otherwise a cursor that lost its row, and after a failure     *)
(* also one that was moved away beforehand, lands anew.                    *)
FinishRemoval(o) ==
  LET complete == op[o].queue = <<>>
      keeps == shutdown \/ (CursorIsValid /\ (complete \/ op[o].moved))
      from  == IF op[o].moved THEN cursor ELSE op[o].origin
  IN  /\ op[o].phase = "settling"
      /\ op[o].awaiting = {}
      /\ \E c \in IF keeps THEN {cursor} ELSE Landings(from, op[o].removed) :
           /\ cursor' = c
           /\ op' = [CursorSeen(op, c) EXCEPT ![o] =
                       EmptyOp("done")]
      /\ UNCHANGED <<generation, expanded, shutdown, fault>>
      /\ ReleaseWhen(LastInFlight(o))

(***************************************************************************)
(* Loads of the sources, the user, and the disposal of the runtime.        *)
(***************************************************************************)
Loaded(p, ops) == [o \in Ops |-> [ops[o] EXCEPT !.awaiting = @ \ {p}]]

(* A first load, a reload that a removal waits for, or any other reload    *)
(* (its "refreshing" interval is left out).                                *)
LoadLands(p) ==
  /\ RuntimeQuiet
  /\ p \in registered
  /\ \E new \in SUBSET RowsAt(p) : Publish(p, new, Loaded(p, op))
  /\ ready' = (ready \cap registered') \cup {p}
  /\ UNCHANGED <<shutdown, released>>

(* The load fails, or another one that the user asked for replaces it.     *)
LoadFails(p) ==
  /\ RuntimeQuiet
  /\ p \in registered \ ready
  /\ op' = Loaded(p, op)
  /\ UNCHANGED <<registered, ready, rows, generation, pending, expanded, cursor,
                 shutdown, released, fault>>

(* The level below the row is registered on its first expansion only.      *)
Expand(r) ==
  /\ RuntimeQuiet
  /\ ~shutdown
  /\ r \in Visible \ expanded
  /\ ChildPath(r) \in Paths
  /\ expanded' = expanded \cup {r}
  /\ registered' = registered \cup {ChildPath(r)}
  /\ UNCHANGED <<ready, rows, generation, pending, cursor, op, shutdown,
                 released, fault>>

(* A cursor below the row moves to it.                                     *)
Collapse(r) ==
  LET next == IF /\ cursor # NoRow
                 /\ ChildPath(r) \in registered
                 /\ Below(cursor[1], r)
              THEN IF r \in rows THEN r ELSE NoRow
              ELSE cursor
  IN  /\ RuntimeQuiet
      /\ ~shutdown
      /\ r \in Visible \cap expanded
      /\ expanded' = expanded \ {r}
      /\ cursor' = next
      /\ op' = CursorSeen(op, next)
      /\ UNCHANGED <<registered, ready, rows, generation, pending, shutdown,
                     released, fault>>

MoveCursor(r) ==
  /\ RuntimeQuiet
  /\ ~shutdown
  /\ r \in Visible \ {cursor}
  /\ cursor' = r
  /\ op' = CursorSeen(op, r)
  /\ UNCHANGED <<registered, ready, rows, generation, pending, expanded,
                 shutdown, released, fault>>

DisposeRuntime ==
  /\ RuntimeQuiet
  /\ ~shutdown
  /\ shutdown' = TRUE
  /\ UNCHANGED <<generation, expanded, cursor, op, fault>>
  /\ ReleaseWhen(\A o \in Ops : ~InFlight(o))

RuntimeNext ==
  \/ \E o \in TargetCalls : IssueTargets(o) \/ RemoveTargets(o)
  \/ \E o \in RowCalls : RemoveRow(o)
  \/ \E o \in Ops :
       \/ RemovalLands(o)
       \/ RemovalRefused(o)
       \/ Continue(o)
       \/ RemovalUnseen(o)
       \/ FinishRemoval(o)
  \/ \E p \in Paths : LoadLands(p) \/ LoadFails(p)
  \/ \E r \in GridRows : Expand(r) \/ Collapse(r) \/ MoveCursor(r)
  \/ DisposeRuntime

RuntimeSpec == RuntimeInit /\ [][RuntimeNext]_runtimeVars

(***************************************************************************)
(* Properties                                                              *)
(***************************************************************************)

(* What is asked of a source is what the target was issued for: at every   *)
(* send, also of the later targets of a call that has waited for others,   *)
(* the row has been shown without interruption since its target was made   *)
(* (row-operations.ts:182).                                                *)
SentRowsAreIssuedRows ==
  [][\A o \in Ops :
       (op[o].phase # "removing" /\ op'[o].phase = "removing") =>
         LET t == Head(op'[o].queue)
         IN  t.row \in rows /\ t.generation = generation[t.row]]_runtimeVars

(* A call never spoils its own later targets: no target that failed or was *)
(* not attempted lies below a row the same call removed.                   *)
ChildrenGoFirst ==
  \A o \in Ops : \A t \in Range(op[o].queue) : Survives(t.row, op[o].removed)

(* A removal leaves the cursor on a row of a registered level or nowhere,  *)
(* whatever loads and other removals did meanwhile (runtime.ts:2211).      *)
CursorLandsOnARow ==
  [][\A o \in Ops :
       (op[o].phase = "settling" /\ op'[o].phase = "done" /\ ~shutdown) =>
         CursorIsValid']_runtimeVars

(* The README of the runtime says that removing a row unregisters the      *)
(* entire subtree of levels below it.  A row that leaves the source for a  *)
(* while during its removal loses its mark in pendingRemovals              *)
(* (runtime.ts:2282), and its levels stay.                                 *)
RemovedRowsLeaveNoLevel ==
  [][\A o \in Ops : \A r \in op'[o].removed \ op[o].removed : ~shutdown =>
       \A q \in registered' : ~Below(q, r)]_runtimeVars
============================================================================
