--------------------------- MODULE GridRuntime_proofs ---------------------------
(***************************************************************************)
(* Proofs about the removal of rows by the grid runtime.                   *)
(*                                                                         *)
(* The types alone are not inductive: a source that answers publishes the  *)
(* rows of its level, which must be registered, and the head of a queue is *)
(* looked at, which must not be empty (RemovalsHaveTheirSource).           *)
(*                                                                         *)
(* That a call does not remove a row above one of its own later targets    *)
(* follows from the order of its queue: what was removed is at least as    *)
(* deep as what is left (TargetsInOrder).                                  *)
(***************************************************************************)
EXTENDS GridRuntime, FiniteSetTheorems, FunctionTheorems, SequenceTheorems, TLAPS

\* Targets that were issued together are of different rows; the queue goes from
\* the deepest level up, and what was removed was ahead of it.
HeldOnce(x)     == \A t, u \in x.held : t.row = u.row => t = u
QueueGoesUp(x)  ==
  \A i, j \in DOMAIN x.queue : i < j =>
    /\ x.queue[i].row # x.queue[j].row
    /\ Len(x.queue[i].row[1]) >= Len(x.queue[j].row[1])
RemovedIsBelow(x) ==
  \A r \in x.removed : \A i \in DOMAIN x.queue :
    r # x.queue[i].row /\ Len(r[1]) >= Len(x.queue[i].row[1])

\* A call has targets when it needs them, and has removed nothing before.
HasTargets(x) ==
  /\ x.phase = "held" => x.held # {} /\ IsFiniteSet(x.held)
  /\ x.phase \in {"removing", "landed"} => x.queue # <<>>
  /\ x.phase \in {"idle", "held"} => x.removed = {}

InOrder(x) == HeldOnce(x) /\ QueueGoesUp(x) /\ RemovedIsBelow(x) /\ HasTargets(x)

TargetsInOrder == \A o \in Ops : InOrder(op[o])

\* The source that was asked to remove a row is that of a registered level,
\* unless it was disposed meanwhile.
RemovalsHaveTheirSource ==
  \A o \in Ops :
    op[o].phase \in {"removing", "landed"} /\ ~op[o].sourceGone =>
      Head(op[o].queue).row[1] \in registered

RuntimeInvariant ==
  RuntimeTypeOK /\ TargetsInOrder /\ RemovalsHaveTheirSource

--------------------------------------------------------------------------------
(* Helpers.                                                                  *)

\* The part of a call that the order of its targets is about.
SameTargets(x, y) ==
  y.phase = x.phase /\ y.held = x.held /\ y.queue = x.queue /\ y.removed = x.removed

LEMMA SameTargetsInOrder ==
  ASSUME NEW x, NEW y, SameTargets(x, y), InOrder(x)
  PROVE  InOrder(y)
BY DEF SameTargets, InOrder, HeldOnce, QueueGoesUp, RemovedIsBelow, HasTargets

\* A row is in a level of the grid, and not below itself.
LEMMA RowsHavePaths ==
  ASSUME NEW r \in GridRows
  PROVE  /\ r[1] \in Paths /\ r[1] \in Seq(Keys) /\ r[2] \in Keys
         /\ Len(ChildPath(r)) = Len(r[1]) + 1
<1>1. r \in Paths \X Keys
  BY RowsAssumption DEF RowsAssumption
<1>2. r[1] \in Paths /\ r[2] \in Keys
  BY <1>1
<1>3. r[1] \in Seq(Keys)
  BY <1>2, RowsAssumption DEF RowsAssumption
<1> QED
  BY <1>2, <1>3 DEF ChildPath

\* What is below a row is deeper than the row.
LEMMA BelowIsDeeper ==
  ASSUME NEW r \in GridRows, NEW p \in Paths, Below(p, r)
  PROVE  Len(p) > Len(r[1])
<1>1. p \in Seq(Keys)
  BY RowsAssumption DEF RowsAssumption
<1>2. Len(p) \in Nat /\ Len(r[1]) \in Nat
  BY <1>1, RowsHavePaths
<1> QED
  BY <1>2, RowsHavePaths DEF Below, IsPrefix

\* A change of the cursor is told to the calls and changes nothing else of them.
LEMMA CursorSeenKeeps ==
  ASSUME NEW ops \in [Ops -> CallStates], NEW c
  PROVE  /\ CursorSeen(ops, c) \in [Ops -> CallStates]
         /\ \A o \in Ops : /\ SameTargets(ops[o], CursorSeen(ops, c)[o])
                           /\ CursorSeen(ops, c)[o].sourceGone = ops[o].sourceGone
<1>1. ASSUME NEW o \in Ops
      PROVE  /\ CursorSeen(ops, c)[o] \in CallStates
             /\ SameTargets(ops[o], CursorSeen(ops, c)[o])
             /\ CursorSeen(ops, c)[o].sourceGone = ops[o].sourceGone
  <2>1. CursorSeen(ops, c)[o] \in {ops[o], [ops[o] EXCEPT !.moved = TRUE, !.origin = NoRow]}
    BY DEF CursorSeen
  <2>2. ops[o] \in CallStates
    OBVIOUS
  <2> QED
    BY <2>1, <2>2 DEF CallStates, SameTargets
<1>2. CursorSeen(ops, c) \in [Ops -> CallStates]
  BY <1>1 DEF CursorSeen
<1> QED
  BY <1>1, <1>2

\* A load that ended is waited for no more.
LEMMA LoadedKeeps ==
  ASSUME NEW ops \in [Ops -> CallStates], NEW p
  PROVE  /\ Loaded(p, ops) \in [Ops -> CallStates]
         /\ \A o \in Ops : /\ SameTargets(ops[o], Loaded(p, ops)[o])
                           /\ Loaded(p, ops)[o].sourceGone = ops[o].sourceGone
<1>1. ASSUME NEW o \in Ops
      PROVE  /\ Loaded(p, ops)[o] \in CallStates
             /\ SameTargets(ops[o], Loaded(p, ops)[o])
             /\ Loaded(p, ops)[o].sourceGone = ops[o].sourceGone
  <2>1. Loaded(p, ops)[o] = [ops[o] EXCEPT !.awaiting = @ \ {p}] /\ ops[o] \in CallStates
    BY DEF Loaded
  <2> QED
    BY <2>1 DEF CallStates, SameTargets
<1>2. Loaded(p, ops) \in [Ops -> CallStates]
  BY <1>1 DEF Loaded
<1> QED
  BY <1>1, <1>2

\* The cursor lands on a row that is shown, or nowhere.
LEMMA LandingsAreRows ==
  ASSUME RuntimeTypeOK, NEW origin, NEW removals, NEW c \in Landings(origin, removals)
  PROVE  c \in rows \cup {NoRow}
BY DEF Landings, Visible

\* The first target of a queue and those after it.
LEMMA QueueParts ==
  ASSUME NEW queue \in Seq(Target), queue # <<>>
  PROVE  /\ Head(queue) \in Target /\ Head(queue).row \in GridRows
         /\ Head(queue) = queue[1] /\ 1 \in DOMAIN queue
         /\ Tail(queue) \in Seq(Target)
         /\ \A i \in DOMAIN Tail(queue) : i + 1 \in DOMAIN queue /\ Tail(queue)[i] = queue[i + 1]
<1>1. Head(queue) \in Target /\ Tail(queue) \in Seq(Target) /\ Head(queue) = queue[1]
  OBVIOUS
<1>2. 1 \in DOMAIN queue
  OBVIOUS
<1>3. \A i \in DOMAIN Tail(queue) : i + 1 \in DOMAIN queue /\ Tail(queue)[i] = queue[i + 1]
  OBVIOUS
<1> QED
  BY <1>1, <1>2, <1>3 DEF Target

--------------------------------------------------------------------------------
(* What a source publishes.                                                  *)

LEMMA PublishKeeps ==
  ASSUME RuntimeInvariant, NEW p \in registered, NEW new \in SUBSET RowsAt(p),
         NEW ops \in [Ops -> CallStates], \A o \in Ops : InOrder(ops[o]),
         \A o \in Ops : ops[o].phase \in {"removing", "landed"} /\ ~ops[o].sourceGone =>
                          Head(ops[o].queue).row[1] \in registered,
         Publish(p, new, ops), ready' \subseteq (ready \cap registered') \cup {p},
         UNCHANGED <<shutdown, released>>
  PROVE  RuntimeInvariant' /\ \A o \in Ops : op'[o].phase = ops[o].phase
<1> DEFINE gone    == {r \in pending : r[1] = p /\ r \notin new}
<1>0. PICK seen \in Cleaned(gone) : PublishCleaning(p, new, ops, seen)
  BY DEF Publish
<1> DEFINE throws  == shutdown /\ seen \cap expanded # {}
           dropped == {q \in registered :
                         \E r \in seen : Below(q, r) /\ (throws => r \notin expanded)}
           onto    == {r \in seen \cap expanded :
                         /\ ChildPath(r) \in registered
                         /\ cursor # NoRow
                         /\ Below(cursor[1], r)}
           next    == IF throws \/ onto = {} THEN cursor ELSE CHOOSE r \in onto : TRUE
           told(o) == CursorSeen(ops, next)[o]
<1>1. RuntimeTypeOK
  BY DEF RuntimeInvariant
<1>2. /\ registered' = registered \ dropped
      /\ rows' = {r \in rows : r[1] \notin dropped \cup {p}} \cup new
      /\ pending' = {r \in pending \ seen : r[1] \notin dropped}
      /\ expanded' = expanded \ seen
      /\ cursor' = next
      /\ fault' = (fault \/ throws)
  BY <1>0 DEF PublishCleaning
<1>3. generation' = [r \in GridRows |-> IF r \in new \ rows THEN generation[r] + 1
                                                            ELSE generation[r]]
  BY <1>0 DEF PublishCleaning
<1>4. op' = [o \in Ops |->
               [told(o) EXCEPT
                  !.awaiting = @ \ dropped,
                  !.sourceGone = @ \/ (/\ ops[o].phase \in {"removing", "landed"}
                                       /\ Head(ops[o].queue).row[1] \in dropped)]]
  BY <1>0 DEF PublishCleaning
<1>5. /\ seen \subseteq gone /\ gone \subseteq GridRows /\ dropped \subseteq registered
      /\ throws \in BOOLEAN /\ (~throws => seen = gone)
  <2>1. seen \subseteq gone /\ (~throws => seen = gone)
    BY DEF Cleaned
  <2> QED
    BY <1>1, <2>1 DEF RuntimeTypeOK
<1>6. p \notin dropped
  <2>1. \A r \in gone : r[1] = p /\ p \in Paths
    BY <1>1 DEF RuntimeTypeOK
  <2>2. Len(p) \in Nat
    BY <1>1, RowsAssumption DEF RuntimeTypeOK, RowsAssumption
  <2> QED
    BY <1>5, <2>1, <2>2, BelowIsDeeper
<1>7. next \in GridRows \cup {NoRow}
  BY <1>1, <1>5 DEF RuntimeTypeOK
<1> HIDE DEF gone, throws, dropped, onto, next
<1>8. registered' \subseteq Paths /\ p \in registered' /\ ready' \subseteq registered'
  BY <1>1, <1>2, <1>6 DEF RuntimeTypeOK
<1>9. rows' \subseteq {r \in GridRows : r[1] \in registered'}
  BY <1>1, <1>2, <1>8 DEF RuntimeTypeOK, RowsAt
<1>10. /\ pending' \subseteq {r \in GridRows : r[1] \in registered'}
       /\ ~fault' => pending' \subseteq rows'
  <2>1. pending' \subseteq {r \in GridRows : r[1] \in registered'}
    BY <1>1, <1>2 DEF RuntimeTypeOK
  <2>2. ~fault' => pending' \subseteq rows'
    BY <1>1, <1>2, <1>5 DEF RuntimeTypeOK, gone
  <2> QED
    BY <2>1, <2>2
<1>11. generation' \in [GridRows -> Nat]
  BY <1>1, <1>3 DEF RuntimeTypeOK
<1>12. ASSUME NEW o \in Ops
       PROVE  /\ op'[o] \in CallStates /\ SameTargets(ops[o], op'[o])
              /\ op'[o].sourceGone = \/ ops[o].sourceGone
                                     \/ /\ ops[o].phase \in {"removing", "landed"}
                                        /\ Head(ops[o].queue).row[1] \in dropped
  <2>1. /\ told(o) \in CallStates /\ SameTargets(ops[o], told(o))
        /\ told(o).sourceGone = ops[o].sourceGone
    BY CursorSeenKeeps
  <2>2. op'[o] = [told(o) EXCEPT
                    !.awaiting = @ \ dropped,
                    !.sourceGone = @ \/ (/\ ops[o].phase \in {"removing", "landed"}
                                         /\ Head(ops[o].queue).row[1] \in dropped)]
    BY <1>4
  <2> HIDE DEF told
  <2> QED
    BY <2>1, <2>2 DEF CallStates, SameTargets
<1>13. op' \in [Ops -> CallStates]
  BY <1>4, <1>12
<1>14. RuntimeTypeOK'
  BY <1>1, <1>2, <1>5, <1>7, <1>8, <1>9, <1>10, <1>11, <1>13 DEF RuntimeTypeOK
<1>15. TargetsInOrder'
  BY <1>12, SameTargetsInOrder DEF TargetsInOrder
<1>16. RemovalsHaveTheirSource'
  BY <1>2, <1>12 DEF RemovalsHaveTheirSource, SameTargets
<1> QED
  BY <1>12, <1>14, <1>15, <1>16 DEF RuntimeInvariant, SameTargets

--------------------------------------------------------------------------------
(* The steps of a call.                                                      *)

\* A row that is asked to go is that of a registered level.
LEMMA SendKeeps ==
  ASSUME NEW ops \in [Ops -> CallStates], NEW o \in Ops, ops[o].queue # <<>>
  PROVE  /\ Send(ops, o) \in [Ops -> CallStates]
         /\ \A other \in Ops \ {o} : Send(ops, o)[other] = ops[other]
         /\ Send(ops, o)[o].phase = "removing" /\ ~Send(ops, o)[o].sourceGone
         /\ Send(ops, o)[o].held = ops[o].held /\ Send(ops, o)[o].queue = ops[o].queue
         /\ Send(ops, o)[o].removed = ops[o].removed
<1> DEFINE r == Head(ops[o].queue).row
           next == [ops[o] EXCEPT !.phase = "removing", !.touched = @ \cup {r[1]},
                                  !.sourceGone = FALSE]
<1>1. ops[o] \in CallStates /\ ops[o].queue \in Seq(Target)
  BY DEF CallStates
<1>2. r[1] \in Paths
  BY <1>1, QueueParts, RowsHavePaths
<1>3. Send(ops, o) = [ops EXCEPT ![o] = next]
  BY DEF Send
<1> HIDE DEF r
<1>4. next \in CallStates /\ next.phase = "removing" /\ ~next.sourceGone
      /\ next.held = ops[o].held /\ next.queue = ops[o].queue /\ next.removed = ops[o].removed
  BY <1>1, <1>2 DEF CallStates, Phases
<1> HIDE DEF next
<1> QED
  BY <1>3, <1>4

\* A call that begins sends its first target.
LEMMA BeginKeeps ==
  ASSUME RuntimeInvariant, NEW o \in Ops, NEW queue \in Seq(Target), queue # <<>>,
         \A i \in DOMAIN queue : queue[i].row \in rows,
         \A i, j \in DOMAIN queue : i < j =>
           /\ queue[i].row # queue[j].row
           /\ Len(queue[i].row[1]) >= Len(queue[j].row[1]),
         op[o].removed = {}, Begin(o, queue)
  PROVE  /\ RuntimeInvariant' /\ op'[o].queue = queue /\ op'[o].phase = "removing"
         /\ UNCHANGED <<shutdown, rows, generation>>
         /\ \A other \in Ops \ {o} : op'[other].phase = op[other].phase
<1>1. RuntimeTypeOK /\ op \in [Ops -> CallStates]
  BY DEF RuntimeInvariant, RuntimeTypeOK
<1>2. PICK c \in Landings(cursor, {t.row : t \in Range(queue)}) :
        /\ cursor' = c
        /\ op' = Send([CursorSeen(op, c) EXCEPT
                         ![o].held = {}, ![o].queue = queue, ![o].moved = FALSE,
                         ![o].origin = cursor],
                      o)
        /\ pending' = pending \cup {Head(queue).row}
        /\ UNCHANGED <<registered, ready, rows, generation, expanded, shutdown,
                       released, fault>>
  BY DEF Begin
<1> DEFINE begun == [CursorSeen(op, c)[o] EXCEPT !.held = {}, !.queue = queue, !.moved = FALSE,
                                                 !.origin = cursor]
           ops == [CursorSeen(op, c) EXCEPT ![o] = begun]
<1>3. op' = Send(ops, o)
  BY <1>1, <1>2
<1>4. c \in GridRows \cup {NoRow}
  BY <1>1, LandingsAreRows DEF RuntimeTypeOK
<1>5. /\ CursorSeen(op, c) \in [Ops -> CallStates]
      /\ \A other \in Ops : /\ SameTargets(op[other], CursorSeen(op, c)[other])
                            /\ CursorSeen(op, c)[other].sourceGone = op[other].sourceGone
  BY <1>1, CursorSeenKeeps
<1>6. begun \in CallStates /\ begun.held = {} /\ begun.queue = queue /\ begun.removed = {}
  <2>1. CursorSeen(op, c)[o] \in CallStates /\ CursorSeen(op, c)[o].removed = {}
    BY <1>5 DEF SameTargets
  <2>2. cursor \in GridRows \cup {NoRow}
    BY <1>1 DEF RuntimeTypeOK
  <2> QED
    BY <2>1, <2>2 DEF CallStates
<1> HIDE DEF begun
<1>7. ops \in [Ops -> CallStates] /\ ops[o] = begun
      /\ \A other \in Ops \ {o} : ops[other] = CursorSeen(op, c)[other]
  BY <1>5, <1>6
<1> HIDE DEF ops
<1>8. /\ op' \in [Ops -> CallStates]
      /\ op'[o].phase = "removing" /\ op'[o].held = {}
      /\ op'[o].queue = queue /\ op'[o].removed = {}
      /\ \A other \in Ops \ {o} : op'[other] = CursorSeen(op, c)[other]
  BY <1>3, <1>6, <1>7, SendKeeps
<1>9. Head(queue).row \in rows
  BY QueueParts
<1>10. RuntimeTypeOK'
  BY <1>1, <1>2, <1>4, <1>8, <1>9 DEF RuntimeTypeOK
<1>11. InOrder(op'[o])
  BY <1>8 DEF InOrder, HeldOnce, QueueGoesUp, RemovedIsBelow, HasTargets
<1>12. TargetsInOrder'
  BY <1>5, <1>8, <1>11, SameTargetsInOrder DEF RuntimeInvariant, TargetsInOrder
<1>13. Head(queue).row[1] \in registered
  BY <1>1, <1>9 DEF RuntimeTypeOK
<1>14. RemovalsHaveTheirSource'
  <2>1. SUFFICES ASSUME NEW x \in Ops, op'[x].phase \in {"removing", "landed"},
                        ~op'[x].sourceGone
                 PROVE  Head(op'[x].queue).row[1] \in registered
    BY <1>2 DEF RemovalsHaveTheirSource
  <2>2. CASE x # o
    <3>1. /\ op[x].phase = op'[x].phase /\ op[x].queue = op'[x].queue
          /\ op[x].sourceGone = op'[x].sourceGone
      BY <1>5, <1>8, <2>2 DEF SameTargets
    <3> QED
      BY <2>1, <3>1 DEF RuntimeInvariant, RemovalsHaveTheirSource
  <2> QED
    BY <1>8, <1>13, <2>2
<1>15. RuntimeInvariant'
  BY <1>10, <1>12, <1>14 DEF RuntimeInvariant
<1>16. \A other \in Ops \ {o} : op'[other].phase = op[other].phase
  BY <1>5, <1>8 DEF SameTargets
<1> QED
  BY <1>2, <1>8, <1>15, <1>16

\* Targets are issued for different rows, all at once.
LEMMA IssueKeeps ==
  ASSUME RuntimeInvariant, NEW o \in Ops, IssueTargets(o)
  PROVE  /\ RuntimeInvariant' /\ op'[o].phase = "held"
         /\ \A other \in Ops \ {o} : op'[other].phase = op[other].phase
<1>1. RuntimeTypeOK /\ op \in [Ops -> CallStates] /\ op[o].phase = "idle"
  BY DEF RuntimeInvariant, RuntimeTypeOK, IssueTargets
<1>2. PICK chosen \in SUBSET rows :
        /\ chosen # {}
        /\ op' = [op EXCEPT ![o].phase = "held", ![o].held = {IssuedTarget(r) : r \in chosen}]
  BY DEF IssueTargets
<1> DEFINE held == {IssuedTarget(r) : r \in chosen}
<1>3. UNCHANGED <<registered, ready, rows, generation, pending, expanded, cursor,
                  shutdown, released, fault>>
  BY DEF IssueTargets
<1>4. held \in SUBSET Target /\ held # {}
  <2>1. ASSUME NEW r \in chosen
        PROVE  IssuedTarget(r) \in Target
    <3>1. r \in GridRows /\ generation[r] \in Nat
      BY <1>1, <1>2 DEF RuntimeTypeOK
    <3> QED
      BY <3>1 DEF Target, IssuedTarget
  <2> QED
    BY <1>2, <2>1
<1>5. IsFiniteSet(held)
  <2>1. IsFiniteSet(chosen)
    BY <1>1, <1>2, RowsAssumption, FS_Subset DEF RuntimeTypeOK, RowsAssumption
  <2> DEFINE issued == [r \in chosen |-> IssuedTarget(r)]
  <2>2. issued \in Surjection(chosen, held)
    BY Fun_IsSurj
  <2> QED
    BY <2>1, <2>2, FS_Surjection
<1>6. \A t, u \in held : t.row = u.row => t = u
  BY DEF IssuedTarget
<1> HIDE DEF held
<1>7. op' = [op EXCEPT ![o] = [op[o] EXCEPT !.phase = "held", !.held = held]]
  BY <1>1, <1>2 DEF held
<1>8. /\ op' \in [Ops -> CallStates] /\ op'[o].phase = "held" /\ op'[o].held = held
      /\ op'[o].removed = op[o].removed /\ op'[o].queue = op[o].queue
      /\ \A other \in Ops \ {o} : op'[other] = op[other]
  BY <1>1, <1>4, <1>7 DEF CallStates, Phases
<1>9. RuntimeTypeOK'
  BY <1>1, <1>3, <1>8 DEF RuntimeTypeOK
<1>10. InOrder(op[o])
  BY DEF RuntimeInvariant, TargetsInOrder
<1>11. InOrder(op'[o])
  BY <1>1, <1>4, <1>5, <1>6, <1>8, <1>10
  DEF InOrder, HeldOnce, QueueGoesUp, RemovedIsBelow, HasTargets
<1>12. TargetsInOrder'
  BY <1>8, <1>11 DEF RuntimeInvariant, TargetsInOrder
<1>13. RemovalsHaveTheirSource'
  BY <1>3, <1>8 DEF RuntimeInvariant, RemovalsHaveTheirSource
<1> QED
  BY <1>8, <1>9, <1>12, <1>13 DEF RuntimeInvariant

\* A queue of the targets of a call names each of them once, so it is not empty.
LEMMA QueuesOfTargets ==
  ASSUME NEW held \in SUBSET Target, IsFiniteSet(held), held # {}, NEW queue \in ChildFirst(held)
  PROVE  /\ queue \in Seq(Target) /\ queue # <<>>
         /\ \A i \in DOMAIN queue : queue[i] \in held
         /\ \A i, j \in DOMAIN queue : i # j => queue[i] # queue[j]
<1> DEFINE n == Cardinality(held)
<1>1. n \in Nat /\ n # 0
  BY FS_CardinalityType, FS_EmptySet
<1>2. ChildFirst(held) \subseteq
        {f \in [1..n -> held] : \A i, j \in 1..n : i # j => f[i] # f[j]}
  BY DEF ChildFirst, SetToSeqs
<1> HIDE DEF n
<1>3. queue \in [1..n -> held] /\ \A i, j \in 1..n : i # j => queue[i] # queue[j]
  BY <1>2
<1>4. queue \in Seq(held) /\ DOMAIN queue = 1..n /\ Len(queue) = n
  BY <1>1, <1>3
<1> QED
  BY <1>1, <1>3, <1>4

\* A call that has not begun, or ended, holds and waits for nothing.
LEMMA EmptyCall ==
  ASSUME NEW phase \in {"idle", "done"}
  PROVE  /\ EmptyOp(phase) \in CallStates /\ EmptyOp(phase).phase = phase
         /\ InOrder(EmptyOp(phase))
<1>1. /\ EmptyOp(phase).phase = phase /\ EmptyOp(phase).held = {}
      /\ EmptyOp(phase).queue = <<>> /\ EmptyOp(phase).removed = {}
  BY DEF EmptyOp
<1>2. <<>> \in Seq(Target) /\ phase \in Phases
  BY DEF Phases
<1>3. EmptyOp(phase) \in CallStates
  BY <1>2 DEF EmptyOp, CallStates
<1>4. DOMAIN <<>> = {}
  OBVIOUS
<1>5. InOrder(EmptyOp(phase))
  BY <1>1, <1>4 DEF InOrder, HeldOnce, QueueGoesUp, RemovedIsBelow, HasTargets
<1> QED
  BY <1>1, <1>3, <1>5

LEMMA RefusalKeeps ==
  ASSUME RuntimeInvariant, NEW o \in Ops, op' = [op EXCEPT ![o] = EmptyOp("done")],
         UNCHANGED <<registered, ready, rows, generation, pending, expanded, cursor,
                     shutdown, released, fault>>
  PROVE  RuntimeInvariant'
<1>1. op' \in [Ops -> CallStates]
  BY EmptyCall DEF RuntimeInvariant, RuntimeTypeOK
<1>2. RuntimeTypeOK'
  BY <1>1 DEF RuntimeInvariant, RuntimeTypeOK
<1>3. op'[o] = EmptyOp("done") /\ \A other \in Ops \ {o} : op'[other] = op[other]
  BY DEF RuntimeInvariant, RuntimeTypeOK
<1> QED
  BY <1>2, <1>3, EmptyCall DEF RuntimeInvariant, TargetsInOrder, RemovalsHaveTheirSource

LEMMA RemoveTargetsKeeps ==
  ASSUME RuntimeInvariant, NEW o \in Ops, RemoveTargets(o)
  PROVE  /\ RuntimeInvariant'
         /\ \A other \in Ops \ {o} : op'[other].phase = op[other].phase
         /\ \/ op'[o].phase = "done"
            \/ /\ op'[o].phase = "removing" /\ op'[o].queue # <<>>
               /\ ValidTarget(Head(op'[o].queue))
<1>1. op \in [Ops -> CallStates] /\ op[o].phase = "held" /\ InOrder(op[o])
  BY DEF RuntimeInvariant, RuntimeTypeOK, TargetsInOrder, RemoveTargets
<1>2. CASE ~ \A t \in op[o].held : ValidTarget(t)
  <2>1. op' = [op EXCEPT ![o] = EmptyOp("done")]
        /\ UNCHANGED <<registered, ready, rows, generation, pending, expanded, cursor,
                       shutdown, released, fault>>
    BY <1>2 DEF RemoveTargets
  <2> QED
    BY <1>1, <2>1, RefusalKeeps DEF EmptyOp
<1>3. CASE \A t \in op[o].held : ValidTarget(t)
  <2>1. PICK queue \in ChildFirst(op[o].held) : Begin(o, queue)
    BY <1>3 DEF RemoveTargets
  <2>2. /\ op[o].held \in SUBSET Target /\ IsFiniteSet(op[o].held) /\ op[o].held # {}
        /\ op[o].removed = {}
    BY <1>1 DEF CallStates, InOrder, HasTargets
  <2>3. /\ queue \in Seq(Target) /\ queue # <<>>
        /\ \A i \in DOMAIN queue : queue[i] \in op[o].held
        /\ \A i, j \in DOMAIN queue : i # j => queue[i] # queue[j]
    BY <2>2, QueuesOfTargets
  <2>4. \A i \in DOMAIN queue : ValidTarget(queue[i]) /\ queue[i].row \in rows
    BY <1>3, <2>3 DEF ValidTarget
  <2>5. ASSUME NEW i \in DOMAIN queue, NEW j \in DOMAIN queue, i < j
        PROVE  queue[i].row # queue[j].row /\ Len(queue[i].row[1]) >= Len(queue[j].row[1])
    <3>1. queue[i] # queue[j]
      BY <2>3, <2>5
    <3>2. queue[i].row # queue[j].row
      BY <1>1, <2>3, <3>1 DEF InOrder, HeldOnce
    <3> QED
      BY <2>5, <3>2 DEF ChildFirst
  <2>6. ValidTarget(Head(queue))
    BY <2>3, <2>4, QueueParts
  <2> QED
    BY <2>1, <2>2, <2>3, <2>4, <2>5, <2>6, BeginKeeps DEF ValidTarget
<1> QED
  BY <1>2, <1>3

LEMMA RemoveRowKeeps ==
  ASSUME RuntimeInvariant, NEW o \in Ops, RemoveRow(o)
  PROVE  /\ RuntimeInvariant'
         /\ \A other \in Ops \ {o} : op'[other].phase = op[other].phase
         /\ op'[o].phase = "removing" /\ op'[o].queue # <<>>
         /\ ValidTarget(Head(op'[o].queue))
<1>1. RuntimeTypeOK /\ InOrder(op[o]) /\ op[o].phase = "idle" /\ ~shutdown
  BY DEF RuntimeInvariant, TargetsInOrder, RemoveRow
<1>2. PICK r \in rows : Begin(o, <<IssuedTarget(r)>>)
  BY DEF RemoveRow
<1> DEFINE t == IssuedTarget(r)
<1>3. t \in Target /\ t.row = r /\ t.generation = generation[r]
  BY <1>1 DEF RuntimeTypeOK, Target, IssuedTarget
<1>8. Begin(o, <<t>>)
  BY <1>2
<1> HIDE DEF t
<1>4. /\ <<t>> \in Seq(Target) /\ <<t>> # <<>> /\ Head(<<t>>) = t
      /\ \A i \in DOMAIN <<t>> : i = 1 /\ <<t>>[i] = t
  BY <1>3
<1>5. \A i, j \in DOMAIN <<t>> : ~(i < j)
  BY <1>4
<1>6. op[o].removed = {}
  BY <1>1 DEF InOrder, HasTargets
<1>7. /\ RuntimeInvariant' /\ op'[o].queue = <<t>> /\ op'[o].phase = "removing"
      /\ \A other \in Ops \ {o} : op'[other].phase = op[other].phase
  <2>1. \A i \in DOMAIN <<t>> : <<t>>[i].row \in rows
    BY <1>3, <1>4
  <2> QED
    BY <1>4, <1>5, <1>6, <1>8, <2>1, BeginKeeps
<1> QED
  BY <1>1, <1>3, <1>4, <1>7 DEF ValidTarget

\* The source publishes: it is there still, and its level too.
LEMMA RemovalLandsKeeps ==
  ASSUME RuntimeInvariant, NEW o \in Ops, RemovalLands(o)
  PROVE  /\ RuntimeInvariant' /\ op'[o].phase = "landed"
         /\ \A other \in Ops \ {o} : op'[other].phase = op[other].phase
<1> DEFINE r == Head(op[o].queue).row
           ops == [op EXCEPT ![o].phase = "landed"]
<1>1. RuntimeTypeOK /\ op \in [Ops -> CallStates] /\ op[o].phase = "removing"
  BY DEF RuntimeInvariant, RuntimeTypeOK, RemovalLands
<1>2. /\ ops \in [Ops -> CallStates]
      /\ \A other \in Ops :
           /\ ops[other].held = op[other].held /\ ops[other].queue = op[other].queue
           /\ ops[other].removed = op[other].removed
           /\ ops[other].sourceGone = op[other].sourceGone
           /\ other # o => ops[other].phase = op[other].phase
      /\ ops[o].phase = "landed"
  <2>1. [op[o] EXCEPT !.phase = "landed"] \in CallStates
    BY <1>1 DEF CallStates, Phases
  <2>2. ops = [op EXCEPT ![o] = [op[o] EXCEPT !.phase = "landed"]]
    BY <1>1
  <2> QED
    BY <1>1, <2>1, <2>2 DEF CallStates
<1>3. /\ UNCHANGED <<shutdown, released>> /\ ready' = ready \cap registered'
      /\ IF op[o].sourceGone
         THEN op' = ops /\ UNCHANGED <<registered, rows, generation, pending, expanded,
                                       cursor, fault>>
         ELSE Publish(r[1], (rows \cap RowsAt(r[1])) \ {r}, ops)
  BY DEF RemovalLands
<1> HIDE DEF ops
<1>4. ASSUME NEW other \in Ops
      PROVE  InOrder(ops[other])
  <2>1. InOrder(op[other])
    BY DEF RuntimeInvariant, TargetsInOrder
  <2> QED
    BY <1>1, <1>2, <2>1 DEF InOrder, HeldOnce, QueueGoesUp, RemovedIsBelow, HasTargets
<1>5. ASSUME NEW other \in Ops, ops[other].phase \in {"removing", "landed"}, ~ops[other].sourceGone
      PROVE  Head(ops[other].queue).row[1] \in registered
  BY <1>1, <1>2, <1>5 DEF RuntimeInvariant, RemovalsHaveTheirSource
<1>6. CASE op[o].sourceGone
  <2>1. RuntimeTypeOK'
    BY <1>1, <1>2, <1>3, <1>6 DEF RuntimeTypeOK
  <2> QED
    BY <1>2, <1>3, <1>4, <1>5, <1>6, <2>1
    DEF RuntimeInvariant, TargetsInOrder, RemovalsHaveTheirSource
<1>7. CASE ~op[o].sourceGone
  <2>1. r[1] \in registered
    BY <1>1, <1>7 DEF RuntimeInvariant, RemovalsHaveTheirSource
  <2>2. (rows \cap RowsAt(r[1])) \ {r} \in SUBSET RowsAt(r[1])
    OBVIOUS
  <2>3. Publish(r[1], (rows \cap RowsAt(r[1])) \ {r}, ops)
    BY <1>3, <1>7
  <2> HIDE DEF r
  <2> QED
    BY <1>2, <1>3, <1>4, <1>5, <2>1, <2>2, <2>3, PublishKeeps
<1> QED
  BY <1>6, <1>7

\* After the last removal the touched levels load again.
LEMMA SettleKeeps ==
  ASSUME RuntimeInvariant, NEW ops \in [Ops -> CallStates], NEW o \in Ops, Settle(ops, o),
         \A other \in Ops \ {o} : ops[other] = op[other],
         HeldOnce(ops[o]), QueueGoesUp(ops[o]), RemovedIsBelow(ops[o]),
         pending' \subseteq pending,
         UNCHANGED <<registered, rows, generation, expanded, cursor, shutdown,
                     released, fault>>
  PROVE  /\ RuntimeInvariant' /\ op'[o].phase = "settling"
         /\ \A other \in Ops \ {o} : op'[other].phase = op[other].phase
<1> DEFINE wait == IF shutdown THEN {} ELSE ops[o].touched \cap registered
           settling == [ops[o] EXCEPT !.phase = "settling", !.touched = {}, !.awaiting = wait]
<1>1. RuntimeTypeOK /\ op \in [Ops -> CallStates]
  BY DEF RuntimeInvariant, RuntimeTypeOK
<1>2. /\ op' = [x \in Ops |-> IF x = o THEN settling
                              ELSE [ops[x] EXCEPT !.awaiting = @ \ wait]]
      /\ ready' = ready \ wait
  BY DEF Settle
<1>3. wait \subseteq Paths
  BY <1>1 DEF RuntimeTypeOK
<1> HIDE DEF wait
<1>4. /\ settling \in CallStates /\ settling.phase = "settling" /\ settling.held = ops[o].held
      /\ settling.queue = ops[o].queue /\ settling.removed = ops[o].removed
  BY <1>3 DEF CallStates, Phases
<1>5. InOrder(settling)
  BY <1>4 DEF InOrder, HeldOnce, QueueGoesUp, RemovedIsBelow, HasTargets
<1> HIDE DEF settling
<1>6. op'[o] = settling
  BY <1>2
<1>7. ASSUME NEW other \in Ops \ {o}
      PROVE  /\ op'[other] \in CallStates /\ SameTargets(op[other], op'[other])
             /\ op'[other].sourceGone = op[other].sourceGone
  <2>1. op'[other] = [op[other] EXCEPT !.awaiting = @ \ wait] /\ op[other] \in CallStates
    BY <1>1, <1>2
  <2> QED
    BY <2>1 DEF CallStates, SameTargets
<1>8. op' \in [Ops -> CallStates]
  BY <1>2, <1>4, <1>6, <1>7
<1>9. RuntimeTypeOK'
  BY <1>1, <1>2, <1>8 DEF RuntimeTypeOK
<1>10. TargetsInOrder'
  BY <1>5, <1>6, <1>7, SameTargetsInOrder DEF RuntimeInvariant, TargetsInOrder
<1>11. RemovalsHaveTheirSource'
  BY <1>4, <1>6, <1>7 DEF RuntimeInvariant, RemovalsHaveTheirSource, SameTargets
<1> QED
  BY <1>4, <1>6, <1>7, <1>9, <1>10, <1>11 DEF RuntimeInvariant, SameTargets

LEMMA FailKeeps ==
  ASSUME RuntimeInvariant, NEW o \in Ops, Fail(o)
  PROVE  /\ RuntimeInvariant' /\ op'[o].phase = "settling"
         /\ \A other \in Ops \ {o} : op'[other].phase = op[other].phase
<1>1. op \in [Ops -> CallStates] /\ InOrder(op[o])
  BY DEF RuntimeInvariant, RuntimeTypeOK, TargetsInOrder
<1> QED
  BY <1>1, SettleKeeps DEF Fail, InOrder

\* What was removed goes from the head of the queue, which is as deep as any of
\* the targets that follow.
LEMMA RemovedInOrder ==
  ASSUME NEW x \in CallStates, InOrder(x), x.phase = "landed"
  PROVE  LET y == [x EXCEPT !.queue = Tail(x.queue), !.removed = @ \cup {Head(x.queue).row}]
         IN  /\ y \in CallStates /\ HeldOnce(y) /\ QueueGoesUp(y) /\ RemovedIsBelow(y)
             /\ y.queue = Tail(x.queue) /\ y.phase = "landed"
<1> DEFINE y == [x EXCEPT !.queue = Tail(x.queue), !.removed = @ \cup {Head(x.queue).row}]
<1>1. x.queue \in Seq(Target) /\ x.queue # <<>>
  BY DEF CallStates, InOrder, HasTargets
<1>2. /\ Tail(x.queue) \in Seq(Target) /\ Head(x.queue).row \in GridRows
      /\ Head(x.queue) = x.queue[1] /\ 1 \in DOMAIN x.queue
      /\ \A i \in DOMAIN Tail(x.queue) :
           i + 1 \in DOMAIN x.queue /\ Tail(x.queue)[i] = x.queue[i + 1]
  BY <1>1, QueueParts
<1>3. /\ y \in CallStates /\ y.queue = Tail(x.queue) /\ y.held = x.held /\ y.phase = "landed"
      /\ y.removed = x.removed \cup {x.queue[1].row}
  BY <1>2 DEF CallStates
<1> HIDE DEF y
<1>4. DOMAIN Tail(x.queue) \subseteq Nat \ {0}
  BY <1>2
<1>5. HeldOnce(y) /\ QueueGoesUp(y)
  <2>1. HeldOnce(y)
    BY <1>3 DEF InOrder, HeldOnce
  <2>2. ASSUME NEW i \in DOMAIN y.queue, NEW j \in DOMAIN y.queue, i < j
        PROVE  /\ y.queue[i].row # y.queue[j].row
               /\ Len(y.queue[i].row[1]) >= Len(y.queue[j].row[1])
    <3>1. /\ i + 1 \in DOMAIN x.queue /\ y.queue[i] = x.queue[i + 1]
          /\ j + 1 \in DOMAIN x.queue /\ y.queue[j] = x.queue[j + 1]
          /\ i + 1 < j + 1
      BY <1>2, <1>3, <1>4, <2>2
    <3> QED
      BY <3>1 DEF InOrder, QueueGoesUp
  <2> QED
    BY <2>1, <2>2 DEF QueueGoesUp
<1>6. RemovedIsBelow(y)
  <2>1. ASSUME NEW i \in DOMAIN y.queue
        PROVE  /\ x.queue[1].row # y.queue[i].row
               /\ Len(x.queue[1].row[1]) >= Len(y.queue[i].row[1])
    <3>1. i + 1 \in DOMAIN x.queue /\ 1 < i + 1 /\ y.queue[i] = x.queue[i + 1]
      BY <1>2, <1>3, <1>4
    <3> QED
      BY <1>2, <3>1 DEF InOrder, QueueGoesUp
  <2>2. ASSUME NEW i \in DOMAIN y.queue, NEW r \in x.removed
        PROVE  r # y.queue[i].row /\ Len(r[1]) >= Len(y.queue[i].row[1])
    BY <1>2, <1>3 DEF InOrder, RemovedIsBelow
  <2> QED
    BY <1>3, <2>1, <2>2 DEF RemovedIsBelow
<1> QED
  BY <1>3, <1>5, <1>6 DEF y

\* The next target is sent, or the call settles.
LEMMA ContinueKeeps ==
  ASSUME RuntimeInvariant, NEW o \in Ops, Continue(o)
  PROVE  /\ RuntimeInvariant'
         /\ \A other \in Ops \ {o} : op'[other].phase = op[other].phase
         /\ \/ op'[o].phase = "settling"
            \/ /\ op'[o].phase = "removing" /\ op'[o].queue # <<>>
               /\ ValidTarget(Head(op'[o].queue))
<1> DEFINE rest == Tail(op[o].queue)
           next == [op[o] EXCEPT !.queue = rest, !.removed = @ \cup {Head(op[o].queue).row}]
           ops  == [op EXCEPT ![o] = next]
           more == rest # <<>> /\ ValidTarget(Head(rest))
<1>1. RuntimeTypeOK /\ op \in [Ops -> CallStates] /\ InOrder(op[o]) /\ op[o].phase = "landed"
  BY DEF RuntimeInvariant, RuntimeTypeOK, TargetsInOrder, Continue
<1>2. /\ IF more THEN Send(ops, o) = op' /\ UNCHANGED ready ELSE Settle(ops, o)
      /\ pending' = IF more THEN pending \cup {Head(rest).row} ELSE pending
      /\ UNCHANGED <<registered, rows, generation, expanded, cursor, shutdown,
                     released, fault>>
  BY <1>1 DEF Continue
<1>3. /\ next \in CallStates /\ HeldOnce(next) /\ QueueGoesUp(next) /\ RemovedIsBelow(next)
      /\ next.queue = rest /\ next.phase = "landed"
  BY <1>1, RemovedInOrder
<1> HIDE DEF next, rest
<1>4. /\ ops \in [Ops -> CallStates] /\ ops[o] = next
      /\ \A other \in Ops \ {o} : ops[other] = op[other]
  BY <1>1, <1>3
<1> HIDE DEF ops
<1>5. CASE more
  <2>1. /\ op' \in [Ops -> CallStates] /\ op'[o].phase = "removing"
        /\ op'[o].held = next.held /\ op'[o].queue = rest /\ op'[o].removed = next.removed
        /\ \A other \in Ops \ {o} : op'[other] = op[other]
    BY <1>2, <1>3, <1>4, <1>5, SendKeeps
  <2>2. Head(rest).row \in rows /\ Head(rest).row[1] \in registered
    BY <1>1, <1>5 DEF ValidTarget, RuntimeTypeOK
  <2>3. RuntimeTypeOK'
    BY <1>1, <1>2, <1>5, <2>1, <2>2 DEF RuntimeTypeOK
  <2>4. InOrder(op'[o])
    BY <1>3, <1>5, <2>1 DEF InOrder, HeldOnce, QueueGoesUp, RemovedIsBelow, HasTargets
  <2>5. TargetsInOrder' /\ RemovalsHaveTheirSource'
    BY <1>2, <2>1, <2>2, <2>4 DEF RuntimeInvariant, TargetsInOrder, RemovalsHaveTheirSource
  <2> QED
    BY <1>5, <2>1, <2>3, <2>5 DEF RuntimeInvariant
<1>6. CASE ~more
  <2>1. Settle(ops, o) /\ UNCHANGED pending
    BY <1>2, <1>6
  <2> QED
    BY <1>2, <1>3, <1>4, <2>1, SettleKeeps
<1> QED
  BY <1>5, <1>6

\* What the last call that ends leaves is released as a whole.
LEMMA ReleaseKeepsTypes ==
  ASSUME RuntimeTypeOK, NEW last, ReleaseWhen(last), shutdown' \in BOOLEAN
  PROVE  /\ released' \in BOOLEAN /\ registered' \subseteq Paths /\ ready' \subseteq registered'
         /\ rows' \subseteq {r \in GridRows : r[1] \in registered'}
         /\ pending' \subseteq {r \in GridRows : r[1] \in registered'}
         /\ ~fault => pending' \subseteq rows'
         /\ ~(shutdown' /\ last) => UNCHANGED <<registered, rows>>
BY DEF RuntimeTypeOK, ReleaseWhen

\* A call that ends empties its record and leaves the other calls' sources there.
LEMMA FinishKeeps ==
  ASSUME RuntimeInvariant, NEW o \in Ops, FinishRemoval(o)
  PROVE  /\ RuntimeInvariant' /\ op'[o].phase = "done"
         /\ \A other \in Ops \ {o} : op'[other].phase = op[other].phase
         /\ ~shutdown => CursorIsValid'
<1>1. RuntimeTypeOK /\ op \in [Ops -> CallStates]
  BY DEF RuntimeInvariant, RuntimeTypeOK
<1> DEFINE complete == op[o].queue = <<>>
           keeps == shutdown \/ (CursorIsValid /\ (complete \/ op[o].moved))
           from  == IF op[o].moved THEN cursor ELSE op[o].origin
<1>2. PICK c \in IF keeps THEN {cursor} ELSE Landings(from, op[o].removed) :
        cursor' = c /\ op' = [CursorSeen(op, c) EXCEPT ![o] = EmptyOp("done")]
  BY DEF FinishRemoval
<1>3. UNCHANGED <<generation, expanded, shutdown, fault>> /\ ReleaseWhen(LastInFlight(o))
  BY DEF FinishRemoval
<1>4. c \in GridRows \cup {NoRow} /\ (~shutdown => c \in rows \cup {NoRow})
  BY <1>1, <1>2, LandingsAreRows DEF CursorIsValid, RuntimeTypeOK
<1> HIDE DEF complete, keeps, from
<1>5. /\ CursorSeen(op, c) \in [Ops -> CallStates]
      /\ \A other \in Ops : /\ SameTargets(op[other], CursorSeen(op, c)[other])
                            /\ CursorSeen(op, c)[other].sourceGone = op[other].sourceGone
  BY <1>1, CursorSeenKeeps
<1>6. /\ op' \in [Ops -> CallStates] /\ op'[o] = EmptyOp("done")
      /\ \A other \in Ops \ {o} : op'[other] = CursorSeen(op, c)[other]
  BY <1>2, <1>5, EmptyCall
<1>7. /\ released' \in BOOLEAN /\ registered' \subseteq Paths /\ ready' \subseteq registered'
      /\ rows' \subseteq {r \in GridRows : r[1] \in registered'}
      /\ pending' \subseteq {r \in GridRows : r[1] \in registered'}
      /\ ~fault => pending' \subseteq rows'
      /\ ~(shutdown' /\ LastInFlight(o)) => UNCHANGED <<registered, rows>>
  BY <1>1, <1>3, ReleaseKeepsTypes DEF RuntimeTypeOK
<1>8. RuntimeTypeOK'
  BY <1>1, <1>2, <1>3, <1>4, <1>6, <1>7 DEF RuntimeTypeOK
<1>9. TargetsInOrder'
  BY <1>5, <1>6, EmptyCall, SameTargetsInOrder DEF RuntimeInvariant, TargetsInOrder
<1>10. RemovalsHaveTheirSource'
  <2> SUFFICES ASSUME NEW x \in Ops, op'[x].phase \in {"removing", "landed"}, ~op'[x].sourceGone
               PROVE  Head(op'[x].queue).row[1] \in registered'
    BY DEF RemovalsHaveTheirSource
  <2>1. x # o
    BY <1>6, EmptyCall
  <2>2. /\ op[x].phase = op'[x].phase /\ op[x].queue = op'[x].queue
        /\ op[x].sourceGone = op'[x].sourceGone
    BY <1>5, <1>6, <2>1 DEF SameTargets
  <2>3. ~LastInFlight(o)
    BY <2>1, <2>2 DEF LastInFlight, InFlight
  <2> QED
    BY <1>7, <2>2, <2>3 DEF RuntimeInvariant, RemovalsHaveTheirSource
<1>11. ~shutdown => CursorIsValid'
  BY <1>2, <1>3, <1>4, <1>7 DEF CursorIsValid
<1> QED
  BY <1>5, <1>6, <1>8, <1>9, <1>10, <1>11, EmptyCall DEF RuntimeInvariant, SameTargets

--------------------------------------------------------------------------------
(* Loads, the user and the disposal.                                         *)

\* Calls stay as they are but for a move of the cursor or a load that ended.
LEMMA CallsStay ==
  ASSUME RuntimeInvariant, op' \in [Ops -> CallStates],
         \A o \in Ops : SameTargets(op[o], op'[o]) /\ op'[o].sourceGone = op[o].sourceGone,
         \/ registered \subseteq registered'
         \/ \A o \in Ops : ~InFlight(o)
  PROVE  TargetsInOrder' /\ RemovalsHaveTheirSource'
<1>1. TargetsInOrder'
  BY SameTargetsInOrder DEF RuntimeInvariant, TargetsInOrder
<1>2. RemovalsHaveTheirSource'
  BY DEF RuntimeInvariant, RemovalsHaveTheirSource, SameTargets, InFlight
<1> QED
  BY <1>1, <1>2

LEMMA LoadKeeps ==
  ASSUME RuntimeInvariant, NEW p \in Paths, LoadLands(p) \/ LoadFails(p)
  PROVE  RuntimeInvariant' /\ \A o \in Ops : op'[o].phase = op[o].phase
<1>1. RuntimeTypeOK /\ op \in [Ops -> CallStates]
  BY DEF RuntimeInvariant, RuntimeTypeOK
<1>2. /\ Loaded(p, op) \in [Ops -> CallStates]
      /\ \A o \in Ops : /\ SameTargets(op[o], Loaded(p, op)[o])
                        /\ Loaded(p, op)[o].sourceGone = op[o].sourceGone
  BY <1>1, LoadedKeeps
<1>3. CASE LoadLands(p)
  <2>1. PICK new \in SUBSET RowsAt(p) : Publish(p, new, Loaded(p, op))
    BY <1>3 DEF LoadLands
  <2>2. p \in registered /\ ready' \subseteq (ready \cap registered') \cup {p}
        /\ UNCHANGED <<shutdown, released>>
    BY <1>3 DEF LoadLands
  <2>3. \A o \in Ops : InOrder(Loaded(p, op)[o])
    BY <1>2, SameTargetsInOrder DEF RuntimeInvariant, TargetsInOrder
  <2>4. \A o \in Ops :
          Loaded(p, op)[o].phase \in {"removing", "landed"} /\ ~Loaded(p, op)[o].sourceGone =>
            Head(Loaded(p, op)[o].queue).row[1] \in registered
    BY <1>2 DEF RuntimeInvariant, RemovalsHaveTheirSource, SameTargets
  <2>5. /\ RuntimeInvariant'
        /\ \A o \in Ops : op'[o].phase = Loaded(p, op)[o].phase
    BY <1>2, <2>1, <2>2, <2>3, <2>4, PublishKeeps
  <2> QED
    BY <1>2, <2>5 DEF SameTargets
<1>4. CASE LoadFails(p)
  <2>1. op' = Loaded(p, op)
        /\ UNCHANGED <<registered, ready, rows, generation, pending, expanded, cursor,
                       shutdown, released, fault>>
    BY <1>4 DEF LoadFails
  <2>2. RuntimeTypeOK'
    BY <1>1, <1>2, <2>1 DEF RuntimeTypeOK
  <2> QED
    BY <1>2, <2>1, <2>2, CallsStay DEF RuntimeInvariant, SameTargets
<1> QED
  BY <1>3, <1>4

LEMMA UserKeeps ==
  ASSUME RuntimeInvariant, NEW r \in GridRows, Expand(r) \/ Collapse(r) \/ MoveCursor(r)
  PROVE  RuntimeInvariant' /\ \A o \in Ops : op'[o].phase = op[o].phase
<1>1. RuntimeTypeOK /\ op \in [Ops -> CallStates]
  BY DEF RuntimeInvariant, RuntimeTypeOK
<1>2. \A o \in Ops : SameTargets(op[o], op[o])
  BY DEF SameTargets
<1>3. ASSUME NEW c \in GridRows \cup {NoRow}, cursor' = c, op' = CursorSeen(op, c),
             expanded' \subseteq expanded,
             UNCHANGED <<registered, ready, rows, generation, pending, shutdown, released, fault>>
      PROVE  RuntimeInvariant' /\ \A o \in Ops : op'[o].phase = op[o].phase
  <2>1. /\ op' \in [Ops -> CallStates]
        /\ \A o \in Ops : SameTargets(op[o], op'[o]) /\ op'[o].sourceGone = op[o].sourceGone
    BY <1>1, <1>3, CursorSeenKeeps
  <2>2. RuntimeTypeOK'
    BY <1>1, <1>3, <2>1 DEF RuntimeTypeOK
  <2> QED
    BY <1>3, <2>1, <2>2, CallsStay DEF RuntimeInvariant, SameTargets
<1>4. CASE Expand(r)
  <2>1. RuntimeTypeOK'
    BY <1>1, <1>4 DEF Expand, RuntimeTypeOK
  <2> QED
    BY <1>1, <1>2, <1>4, <2>1, CallsStay DEF Expand, RuntimeInvariant
<1>5. CASE Collapse(r)
  <2>1. PICK c \in GridRows \cup {NoRow} : cursor' = c /\ op' = CursorSeen(op, c)
    BY <1>1, <1>5 DEF Collapse, RuntimeTypeOK
  <2> QED
    BY <1>3, <1>5, <2>1 DEF Collapse
<1>6. CASE MoveCursor(r)
  BY <1>3, <1>6 DEF MoveCursor
<1> QED
  BY <1>4, <1>5, <1>6

LEMMA DisposeRuntimeKeeps == ASSUME RuntimeInvariant, DisposeRuntime PROVE RuntimeInvariant'
<1>1. RuntimeTypeOK /\ op \in [Ops -> CallStates]
  BY DEF RuntimeInvariant, RuntimeTypeOK
<1>2. shutdown' = TRUE /\ UNCHANGED <<generation, expanded, cursor, op, fault>>
      /\ ReleaseWhen(\A o \in Ops : ~InFlight(o))
  BY DEF DisposeRuntime
<1>3. /\ released' \in BOOLEAN /\ registered' \subseteq Paths /\ ready' \subseteq registered'
      /\ rows' \subseteq {r \in GridRows : r[1] \in registered'}
      /\ pending' \subseteq {r \in GridRows : r[1] \in registered'}
      /\ ~fault => pending' \subseteq rows'
      /\ ~(\A o \in Ops : ~InFlight(o)) => UNCHANGED registered
  BY <1>1, <1>2, ReleaseKeepsTypes
<1>4. RuntimeTypeOK'
  BY <1>1, <1>2, <1>3 DEF RuntimeTypeOK
<1>5. \A o \in Ops : SameTargets(op[o], op[o])
  BY DEF SameTargets
<1> QED
  BY <1>1, <1>2, <1>3, <1>4, <1>5, CallsStay DEF RuntimeInvariant

--------------------------------------------------------------------------------
(* What every step keeps, and what it may do to a call.                      *)

\* A call sends a target that is good at that moment, and ends with the cursor
\* on a row or nowhere.
CallMoves(o) ==
  \/ op'[o].phase = op[o].phase
  \/ op'[o].phase \in {"held", "landed", "settling"}
  \/ op'[o].phase = "removing" /\ op'[o].queue # <<>> /\ ValidTarget(Head(op'[o].queue))
  \/ op'[o].phase = "done" /\ (op[o].phase = "settling" /\ ~shutdown => CursorIsValid')

LEMMA Step ==
  ASSUME RuntimeInvariant, [RuntimeNext]_runtimeVars
  PROVE  RuntimeInvariant' /\ \A o \in Ops : CallMoves(o)
<1>1. TargetCalls \subseteq Ops /\ RowCalls \subseteq Ops
  BY DEF Ops
<1>2. ASSUME NEW o \in Ops, IssueTargets(o)
      PROVE  RuntimeInvariant' /\ \A x \in Ops : CallMoves(x)
  BY <1>2, IssueKeeps DEF CallMoves
<1>3. ASSUME NEW o \in Ops, RemoveTargets(o)
      PROVE  RuntimeInvariant' /\ \A x \in Ops : CallMoves(x)
  <2>1. op[o].phase = "held"
    BY <1>3 DEF RemoveTargets
  <2> QED
    BY <1>3, <2>1, RemoveTargetsKeeps DEF CallMoves
<1>4. ASSUME NEW o \in Ops, RemoveRow(o)
      PROVE  RuntimeInvariant' /\ \A x \in Ops : CallMoves(x)
  BY <1>4, RemoveRowKeeps DEF CallMoves
<1>5. ASSUME NEW o \in Ops, RemovalLands(o)
      PROVE  RuntimeInvariant' /\ \A x \in Ops : CallMoves(x)
  BY <1>5, RemovalLandsKeeps DEF CallMoves
<1>6. ASSUME NEW o \in Ops, RemovalRefused(o) \/ RemovalUnseen(o)
      PROVE  RuntimeInvariant' /\ \A x \in Ops : CallMoves(x)
  BY <1>6, FailKeeps DEF RemovalRefused, RemovalUnseen, CallMoves
<1>7. ASSUME NEW o \in Ops, Continue(o)
      PROVE  RuntimeInvariant' /\ \A x \in Ops : CallMoves(x)
  BY <1>7, ContinueKeeps DEF CallMoves
<1>8. ASSUME NEW o \in Ops, FinishRemoval(o)
      PROVE  RuntimeInvariant' /\ \A x \in Ops : CallMoves(x)
  BY <1>8, FinishKeeps DEF CallMoves
<1>9. ASSUME NEW p \in Paths, LoadLands(p) \/ LoadFails(p)
      PROVE  RuntimeInvariant' /\ \A x \in Ops : CallMoves(x)
  BY <1>9, LoadKeeps DEF CallMoves
<1>10. ASSUME NEW r \in GridRows, Expand(r) \/ Collapse(r) \/ MoveCursor(r)
       PROVE  RuntimeInvariant' /\ \A x \in Ops : CallMoves(x)
  BY <1>10, UserKeeps DEF CallMoves
<1>11. CASE DisposeRuntime
  BY <1>11, DisposeRuntimeKeeps DEF DisposeRuntime, CallMoves
<1>12. CASE UNCHANGED runtimeVars
  <2>1. RuntimeTypeOK'
    BY <1>12 DEF runtimeVars, RuntimeInvariant, RuntimeTypeOK
  <2> QED
    BY <1>12, <2>1
    DEF runtimeVars, RuntimeInvariant, TargetsInOrder, RemovalsHaveTheirSource, CallMoves
<1> QED
  BY <1>1, <1>2, <1>3, <1>4, <1>5, <1>6, <1>7, <1>8, <1>9, <1>10, <1>11, <1>12 DEF RuntimeNext

LEMMA Invariance == RuntimeSpec => []RuntimeInvariant
<1>1. RuntimeInit => RuntimeInvariant
  <2> SUFFICES ASSUME RuntimeInit PROVE RuntimeInvariant
    OBVIOUS
  <2>1. \A o \in Ops : op[o] = EmptyOp("idle")
    BY DEF RuntimeInit
  <2>2. op \in [Ops -> CallStates]
    BY EmptyCall DEF RuntimeInit
  <2>3. rows \subseteq {r \in GridRows : r[1] \in registered}
    BY RowsAssumption DEF RowsAssumption, RowsAt, RuntimeInit
  <2>4. generation \in [GridRows -> Nat]
    BY DEF RuntimeInit
  <2>5. RuntimeTypeOK
    BY <2>2, <2>3, <2>4, RowsAssumption DEF RuntimeInit, RuntimeTypeOK, RowsAssumption
  <2> QED
    BY <2>1, <2>5, EmptyCall DEF RuntimeInvariant, TargetsInOrder, RemovalsHaveTheirSource
<1>2. RuntimeInvariant /\ [RuntimeNext]_runtimeVars => RuntimeInvariant'
  BY Step
<1> QED
  BY <1>1, <1>2, PTL DEF RuntimeSpec

\* The registry, the rows of the registered levels, the rows under removal, the
\* cursor and the calls are consistent: what is ready or has rows is registered,
\* and a row marked for removal is in a registered level and, unless the runtime
\* faulted, is there (runtime.ts, source-registry.ts).
THEOREM TypeCorrect == RuntimeSpec => []RuntimeTypeOK
BY Invariance, PTL DEF RuntimeInvariant

\* A call never removes a row above one of its own later targets
\* (row-operations.ts, the order of the targets).
THEOREM ChildrenAreRemovedFirst == RuntimeSpec => []ChildrenGoFirst
<1>1. RuntimeInvariant => ChildrenGoFirst
  <2> SUFFICES ASSUME RuntimeInvariant, NEW o \in Ops, NEW i \in DOMAIN op[o].queue
               PROVE  Survives(op[o].queue[i].row, op[o].removed)
    BY DEF ChildrenGoFirst, Range
  <2>1. op[o] \in CallStates /\ InOrder(op[o])
    BY DEF RuntimeInvariant, RuntimeTypeOK, TargetsInOrder
  <2>2. op[o].queue[i].row \in GridRows /\ op[o].removed \subseteq GridRows
    <3>1. op[o].queue \in Seq(Target) /\ op[o].removed \subseteq GridRows
      BY <2>1 DEF CallStates
    <3>2. op[o].queue[i] \in Target
      BY <3>1
    <3> QED
      BY <3>1, <3>2 DEF Target
  <2>3. ASSUME NEW r \in op[o].removed
        PROVE  r # op[o].queue[i].row /\ ~Below(op[o].queue[i].row[1], r)
    <3>1. r # op[o].queue[i].row /\ Len(r[1]) >= Len(op[o].queue[i].row[1])
      BY <2>1 DEF InOrder, RemovedIsBelow
    <3>2. /\ r[1] \in Seq(Keys) /\ op[o].queue[i].row[1] \in Seq(Keys)
          /\ op[o].queue[i].row[1] \in Paths
      BY <2>2, RowsHavePaths
    <3> QED
      BY <2>2, <3>1, <3>2, BelowIsDeeper
  <2> QED
    BY <2>3 DEF Survives
<1> QED
  BY <1>1, Invariance, PTL

\* Every row that a source is asked to remove has been shown without a break
\* since its target was issued (row-operations.ts:182).
THEOREM SentRowsWereIssued == RuntimeSpec => SentRowsAreIssuedRows
<1>1. RuntimeInvariant /\ [RuntimeNext]_runtimeVars =>
        [\A o \in Ops :
           (op[o].phase # "removing" /\ op'[o].phase = "removing") =>
             LET t == Head(op'[o].queue)
             IN  t.row \in rows /\ t.generation = generation[t.row]]_runtimeVars
  BY Step DEF CallMoves, ValidTarget
<1> QED
  BY <1>1, Invariance, PTL DEF RuntimeSpec, SentRowsAreIssuedRows

\* A removal ends with the cursor on a row or nowhere (runtime.ts:2211).
THEOREM RemovalLeavesAValidCursor == RuntimeSpec => CursorLandsOnARow
<1>1. RuntimeInvariant /\ [RuntimeNext]_runtimeVars =>
        [\A o \in Ops :
           (op[o].phase = "settling" /\ op'[o].phase = "done" /\ ~shutdown) =>
             CursorIsValid']_runtimeVars
  BY Step DEF CallMoves
<1> QED
  BY <1>1, Invariance, PTL DEF RuntimeSpec, CursorLandsOnARow
===============================================================================
