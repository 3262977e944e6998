---------------------------- MODULE Frontend_proofs ----------------------------
(***************************************************************************)
(* Proofs about the rows the frontend loads.                               *)
(*                                                                         *)
(* RowData, the computed values and the tree of one table's rows: an       *)
(* answer is as new as the moment its request was sent, so what makes the  *)
(* properties inductive is what requests on their way know:                *)
(* RequestsInOrder says that of the values, TreeInOrder of the tree.       *)
(* AskedIsKnown says why a cell that was asked for is not missing again.   *)
(*                                                                         *)
(* TableSession, the session of a table page: a ready source shows the     *)
(* rows of the query because the load under way is always one for the      *)
(* query (LoadIsCurrent).  A call of showRow is woken because the load it  *)
(* sent is its own until it has landed or is replaced (LoadHasItsCall) and *)
(* because only a page that was left can be loading without a load         *)
(* (StatusHasItsLoad).                                                     *)
(***************************************************************************)
EXTENDS RowData, TableSession, TLAPS

\* A request of the present generation was sent after the edits that the latest
\* invalidation knew of, and none is of a later generation.
InOrder(request) ==
  /\ request.sentAt <= generation
  /\ request.sentAt = generation => editsKnown <= request.since

RequestsInOrder == editsKnown <= edits /\ \A request \in lookups \cup reads : InOrder(request)

\* A cell asked for since the latest invalidation is fresh, failed or on its way.
AskedIsKnown == \A c \in asked : c \in fresh \cup failed \/ inFlight[c] # 0

\* The latest read of the tree was sent after the edits its reload knew of; an
\* idle tree is not being read.
TreeInOrder ==
  /\ treeKnown <= edits
  /\ treeStatus = "idle" => reads = {}
  /\ \A r \in reads : r.n <= treeSent /\ (IsLatest(r) => treeKnown <= r.since)

RowInvariant ==
  /\ RowTypeOK
  /\ RequestsInOrder /\ FreshIsCurrent
  /\ AskedIsKnown /\ AskedOnce
  /\ TreeInOrder /\ HeldTreeIsCurrent

--------------------------------------------------------------------------------
(* Types.                                                                    *)

\* What storing values does to the types of the cells.
LEMMA StoringKeepsTypes ==
  ASSUME RowTypeOK, NEW cells \in SUBSET Cells, NEW version \in Nat, NEW sentAt,
         StoreComputed(cells, version, sentAt)
  PROVE  /\ values' \in [Cells -> Nat \cup {NoValue}]
         /\ fresh' \subseteq Cells /\ failed' \subseteq Cells
BY DEF RowTypeOK, StoreComputed

\* A tree read that is sent is well typed.
LEMMA ReadingKeepsTypes ==
  ASSUME RowTypeOK, generation' \in Nat, ReadTree
  PROVE  /\ treeStatus' \in {"idle", "loading", "ready", "error"}
         /\ treeEntries' \in Nat \cup {NoValue} /\ treeSent' \in 0 .. MaxReads
         /\ reads' \subseteq Reads
<1>1. treeSent + 1 \in 1 .. MaxReads
  BY BoundsAssumption DEF RowTypeOK, ReadTree
<1>2. [n |-> treeSent + 1, sentAt |-> generation', since |-> edits] \in Reads
  BY <1>1 DEF RowTypeOK, Reads
<1> QED
  BY <1>1, <1>2, BoundsAssumption DEF RowTypeOK, ReadTree

\* The fields a lookup or a read has, and the values its answer may bring.
LEMMA LookupTypes ==
  ASSUME RowTypeOK, NEW l \in lookups
  PROVE  /\ l.since \in Nat /\ l.sentAt \in Nat /\ Covered(l) \subseteq Cells
         /\ \A seen \in SUBSET l.ids : seen \X l.fields \in SUBSET Covered(l)
         /\ l.since .. edits \subseteq Nat
BY BoundsAssumption DEF RowTypeOK, Lookups, Covered, Cells

LEMMA ReadTypes ==
  ASSUME RowTypeOK, NEW r \in reads
  PROVE  /\ r.n \in Nat /\ r.since \in Nat /\ r.sentAt \in Nat
         /\ \A seen \in SUBSET Ids : seen \X LookupFields \in SUBSET Cells
         /\ r.since .. edits \subseteq Nat
BY BoundsAssumption, FieldsAssumption DEF RowTypeOK, Reads, Cells

\* A flush sends well-typed lookups, and every queued cell with one of them.
LEMMA FlushKeepsTypes ==
  ASSUME RowTypeOK, Flush
  PROVE  /\ lookups' \subseteq Lookups /\ asked' \subseteq Cells
         /\ inFlight' \in [Cells -> 0 .. MaxFlushes] /\ flushes' \in 0 .. MaxFlushes
         /\ \A c \in queued : inFlight'[c] # 0
<1>1. flushes + 1 \in 1 .. MaxFlushes
  BY BoundsAssumption DEF RowTypeOK, Flush
<1>2. QueuedIds \subseteq Ids /\ QueuedFields \subseteq Fields
  BY DEF RowTypeOK, Cells, QueuedIds, QueuedFields
<1>3. lookups' \subseteq Lookups
  <2>1. PICK P \in Chunks(QueuedIds) :
          lookups' = lookups \cup
            {[flush |-> flushes + 1, ids |-> ids, fields |-> QueuedFields,
              sentAt |-> generation, since |-> edits] : ids \in P}
    BY DEF Flush
  <2>2. \A ids \in P : ids \subseteq Ids
    BY <1>2 DEF Chunks
  <2>3. \A ids \in P : [flush |-> flushes + 1, ids |-> ids, fields |-> QueuedFields,
                        sentAt |-> generation, since |-> edits] \in Lookups
    BY <1>1, <1>2, <2>2 DEF RowTypeOK, Lookups
  <2> QED
    BY <2>1, <2>3 DEF RowTypeOK
<1>4. \A c \in queued : c \in Cells /\ c \in QueuedIds \X QueuedFields
  BY DEF RowTypeOK, Cells, QueuedIds, QueuedFields
<1> QED
  BY <1>1, <1>3, <1>4 DEF RowTypeOK, Flush

LEMMA RowTypeStep == RowTypeOK /\ [RowNext]_rowVars => RowTypeOK'
<1> SUFFICES ASSUME RowTypeOK, [RowNext]_rowVars
             PROVE  RowTypeOK'
  OBVIOUS
<1>1. ASSUME NEW ids \in SUBSET Ids, NEW fields \in SUBSET Fields, EnsureComputed(ids, fields)
      PROVE  RowTypeOK'
  <2>1. Missing(ids \X fields) \subseteq Cells
    BY DEF Missing, Cells
  <2> QED
    BY <1>1, <2>1 DEF RowTypeOK, EnsureComputed, cellVars, treeVars, knownVars
<1>2. CASE Flush
  BY <1>2, FlushKeepsTypes DEF RowTypeOK, Flush, cellVars, treeVars, knownVars
<1>3. ASSUME NEW l \in lookups, TakeLoad(l),
             /\ values' \in [Cells -> Nat \cup {NoValue}]
             /\ fresh' \subseteq Cells /\ failed' \subseteq Cells
      PROVE  RowTypeOK'
  <2>1. inFlight' \in [Cells -> 0 .. MaxFlushes]
    BY <1>3, BoundsAssumption DEF RowTypeOK, TakeLoad, Released
  <2> QED
    BY <1>3, <2>1 DEF RowTypeOK, TakeLoad, treeVars, knownVars
<1>4. ASSUME NEW l \in lookups, ComputedLands(l)
      PROVE  RowTypeOK'
  <2>1. TakeLoad(l)
    BY <1>4 DEF ComputedLands
  <2>2. PICK seen \in SUBSET l.ids, version \in l.since .. edits :
          LET brought == seen \X l.fields
          IN  IF IsCurrent(l)
              THEN /\ fresh' = fresh \cup brought
                   /\ failed' = (failed \ brought) \cup (Covered(l) \ fresh')
                   /\ values' = [c \in Cells |-> IF c \in brought THEN version ELSE values[c]]
              ELSE StoreComputed(brought, version, l.sentAt)
    BY <1>4 DEF ComputedLands
  <2>3. version \in Nat /\ seen \X l.fields \in SUBSET Cells /\ Covered(l) \subseteq Cells
    BY LookupTypes
  <2>4. /\ values' \in [Cells -> Nat \cup {NoValue}]
        /\ fresh' \subseteq Cells /\ failed' \subseteq Cells
    <3>1. CASE IsCurrent(l)
      BY <2>2, <2>3, <3>1 DEF RowTypeOK
    <3>2. CASE ~IsCurrent(l)
      BY <2>2, <2>3, <3>2, StoringKeepsTypes
    <3> QED
      BY <3>1, <3>2
  <2> QED
    BY <1>3, <2>1, <2>4
<1>5. ASSUME NEW l \in lookups, ComputedFails(l)
      PROVE  RowTypeOK'
  <2>1. failed' \subseteq Cells
    BY <1>5, LookupTypes DEF RowTypeOK, ComputedFails
  <2> QED
    BY <1>3, <1>5, <2>1 DEF RowTypeOK, ComputedFails
<1>6. CASE LoadTree
  BY <1>6, ReadingKeepsTypes DEF RowTypeOK, LoadTree, knownVars, cellVars, askVars
<1>7. ASSUME NEW r \in reads, ReadLands(r)
      PROVE  RowTypeOK'
  <2>1. PICK seen \in SUBSET Ids, version \in r.since .. edits :
          /\ StoreComputed(seen \X LookupFields, version, r.sentAt)
          /\ IF IsLatest(r) THEN treeStatus' = "ready" /\ treeEntries' = version
             ELSE UNCHANGED <<treeStatus, treeEntries>>
    BY <1>7 DEF ReadLands
  <2>2. version \in Nat /\ seen \X LookupFields \in SUBSET Cells
    BY ReadTypes
  <2>3. /\ values' \in [Cells -> Nat \cup {NoValue}]
        /\ fresh' \subseteq Cells /\ failed' \subseteq Cells
    BY <2>1, <2>2, StoringKeepsTypes
  <2> QED
    BY <1>7, <2>1, <2>2, <2>3 DEF RowTypeOK, ReadLands, TakeRead, askVars, knownVars
<1>8. ASSUME NEW r \in reads, ReadFails(r)
      PROVE  RowTypeOK'
  BY <1>8 DEF RowTypeOK, ReadFails, TakeRead, cellVars, askVars, knownVars
<1>9. ASSUME InvalidateComputed,
             /\ treeStatus' \in {"idle", "loading", "ready", "error"}
             /\ treeEntries' \in Nat \cup {NoValue} /\ treeSent' \in 0 .. MaxReads
             /\ reads' \subseteq Reads /\ treeKnown' \in 0 .. MaxEdits
      PROVE  RowTypeOK'
  BY <1>9, BoundsAssumption DEF RowTypeOK, InvalidateComputed
<1>10. CASE InvalidateRows
  <2>1. generation' \in Nat
    BY <1>10 DEF RowTypeOK, InvalidateRows, InvalidateComputed
  <2>2. /\ treeStatus' \in {"idle", "loading", "ready", "error"}
        /\ treeEntries' \in Nat \cup {NoValue} /\ treeSent' \in 0 .. MaxReads
        /\ reads' \subseteq Reads
    BY <1>10, <2>1, ReadingKeepsTypes DEF RowTypeOK, InvalidateRows, treeVars
  <2> QED
    BY <1>9, <1>10, <2>2 DEF RowTypeOK, InvalidateRows
<1>11. CASE InvalidateOtherRows
  BY <1>9, <1>11 DEF RowTypeOK, InvalidateOtherRows, treeVars
<1>12. CASE RowsEdited
  BY <1>12, BoundsAssumption
     DEF RowTypeOK, RowsEdited, cellVars, askVars, treeVars, knownVars
<1>13. CASE UNCHANGED rowVars
  BY <1>13 DEF RowTypeOK, rowVars, cellVars, askVars, treeVars, knownVars
<1> QED
  BY <1>1, <1>2, <1>4, <1>5, <1>6, <1>7, <1>8, <1>10, <1>11, <1>12, <1>13
     DEF RowNext, LoadStep

\* The initial state is well typed.
LEMMA RowTypesAtFirst == RowInit => RowTypeOK
<1> SUFFICES ASSUME RowInit PROVE RowTypeOK
  OBVIOUS
<1>1. flushDue \in BOOLEAN /\ (flushDue <=> queued # {})
  BY DEF RowInit
<1>2. /\ values \in [Cells -> Nat \cup {NoValue}]
      /\ inFlight \in [Cells -> 0 .. MaxFlushes] /\ flushes \in 0 .. MaxFlushes
  BY BoundsAssumption DEF RowInit
<1>3. treeEntries \in Nat \cup {NoValue} /\ treeSent \in 0 .. MaxReads
  BY BoundsAssumption DEF RowInit
<1>4. /\ edits \in 0 .. MaxEdits /\ generation \in Nat
      /\ editsKnown \in 0 .. MaxEdits /\ treeKnown \in 0 .. MaxEdits
  BY BoundsAssumption DEF RowInit
<1> QED
  BY <1>1, <1>2, <1>3, <1>4, Zenon DEF RowInit, RowTypeOK

\* The state of computed values and tree is well typed, and a flush is due
\* exactly while something is queued (ensureComputed, flush in row-data.ts).
THEOREM RowDataTyped == RowSpec => []RowTypeOK
BY RowTypesAtFirst, RowTypeStep, PTL DEF RowSpec

--------------------------------------------------------------------------------
(* Values are as new as the latest invalidation.                             *)

\* Fresh values stay current when an answer is stored that is itself current, or
\* is not of the present generation.
LEMMA StoringStaysCurrent ==
  ASSUME RowTypeOK, FreshIsCurrent, NEW cells \in SUBSET Cells, NEW version \in Nat, NEW sentAt,
         sentAt = generation => editsKnown <= version, StoreComputed(cells, version, sentAt)
  PROVE  \A c \in fresh' : values'[c] # NoValue /\ values'[c] >= editsKnown
<1> SUFFICES ASSUME NEW c \in fresh'
             PROVE  values'[c] # NoValue /\ values'[c] >= editsKnown
  OBVIOUS
<1>1. c \in Cells /\ version # NoValue
  BY NoValueAssumption DEF RowTypeOK, StoreComputed
<1>2. CASE c \in cells /\ sentAt = generation
  BY <1>1, <1>2 DEF RowTypeOK, StoreComputed
<1>3. CASE ~(c \in cells /\ sentAt = generation)
  <2>1. c \in fresh /\ values'[c] = values[c]
    BY <1>1, <1>3 DEF StoreComputed
  <2> QED
    BY <2>1 DEF FreshIsCurrent
<1> QED
  BY <1>2, <1>3

\* Requests that leave, while edits and generation stay, leave the order as it is.
LEMMA FewerRequests ==
  ASSUME RequestsInOrder, lookups' \subseteq lookups, reads' \subseteq reads,
         UNCHANGED <<edits, generation, editsKnown>>
  PROVE  RequestsInOrder'
BY DEF RequestsInOrder, InOrder

LEMMA CurrentStep ==
  ASSUME RowTypeOK, RequestsInOrder, FreshIsCurrent, [RowNext]_rowVars
  PROVE  RequestsInOrder' /\ FreshIsCurrent'
<1> USE DEF IsCurrent
<1>1. ASSUME NEW ids \in SUBSET Ids, NEW fields \in SUBSET Fields, EnsureComputed(ids, fields)
      PROVE  RequestsInOrder' /\ FreshIsCurrent'
  BY <1>1, FewerRequests
     DEF FreshIsCurrent, EnsureComputed, cellVars, treeVars, knownVars
<1>2. CASE Flush
  <2>1. PICK P \in Chunks(QueuedIds) :
          lookups' = lookups \cup
            {[flush |-> flushes + 1, ids |-> ids, fields |-> QueuedFields,
              sentAt |-> generation, since |-> edits] : ids \in P}
    BY <1>2 DEF Flush
  <2>2. UNCHANGED <<edits, generation, editsKnown, reads, fresh, values>>
    BY <1>2 DEF Flush, knownVars, treeVars, cellVars
  <2>3. \A l \in lookups' \ lookups : l.sentAt = generation /\ l.since = edits
    BY <2>1
  <2>4. RequestsInOrder'
    BY <2>2, <2>3 DEF RowTypeOK, RequestsInOrder, InOrder
  <2> QED
    BY <2>2, <2>4 DEF FreshIsCurrent
<1>3. ASSUME NEW l \in lookups, ComputedLands(l)
      PROVE  RequestsInOrder' /\ FreshIsCurrent'
  <2>1. TakeLoad(l) /\ UNCHANGED <<edits, generation, editsKnown>>
    BY <1>3 DEF ComputedLands, TakeLoad, knownVars
  <2>2. RequestsInOrder'
    BY <2>1, FewerRequests DEF TakeLoad, treeVars
  <2>3. PICK seen \in SUBSET l.ids, version \in l.since .. edits :
          LET brought == seen \X l.fields
          IN  IF IsCurrent(l)
              THEN /\ fresh' = fresh \cup brought
                   /\ failed' = (failed \ brought) \cup (Covered(l) \ fresh')
                   /\ values' = [c \in Cells |-> IF c \in brought THEN version ELSE values[c]]
              ELSE StoreComputed(brought, version, l.sentAt)
    BY <1>3 DEF ComputedLands
  <2>4. version \in Nat /\ l.since \in Nat /\ seen \X l.fields \in SUBSET Cells
    BY LookupTypes
  <2>5. l.sentAt = generation => editsKnown <= version
    BY <2>4 DEF RequestsInOrder, InOrder, RowTypeOK
  <2>6. CASE l.sentAt = generation
    <3>1. \A c \in fresh' : values'[c] # NoValue /\ values'[c] >= editsKnown
      BY <2>3, <2>4, <2>5, <2>6, NoValueAssumption DEF RowTypeOK, FreshIsCurrent
    <3> QED
      BY <2>1, <2>2, <3>1 DEF FreshIsCurrent
  <2>7. CASE l.sentAt # generation
    BY <2>1, <2>2, <2>3, <2>4, <2>7, StoringStaysCurrent DEF FreshIsCurrent
  <2> QED
    BY <2>6, <2>7
<1>4. ASSUME NEW l \in lookups, ComputedFails(l)
      PROVE  RequestsInOrder' /\ FreshIsCurrent'
  BY <1>4, FewerRequests DEF FreshIsCurrent, ComputedFails, TakeLoad, treeVars, knownVars
<1>5. ASSUME RequestsInOrder, ReadTree, editsKnown' <= edits,
             UNCHANGED <<edits, lookups>>,
             \/ UNCHANGED <<generation, editsKnown>>
             \/ generation' = generation + 1
      PROVE  RequestsInOrder'
  <2>1. \A r \in reads' \ reads : r.sentAt = generation' /\ r.since = edits
    BY <1>5 DEF ReadTree
  <2>2. \A request \in lookups \cup reads : request.sentAt \in Nat /\ request.since \in Nat
    BY LookupTypes, ReadTypes
  <2> QED
    BY <1>5, <2>1, <2>2 DEF RowTypeOK, RequestsInOrder, InOrder
<1>6. CASE LoadTree
  BY <1>5, <1>6
     DEF LoadTree, RequestsInOrder, FreshIsCurrent, cellVars, askVars, knownVars
<1>7. ASSUME NEW r \in reads, ReadLands(r)
      PROVE  RequestsInOrder' /\ FreshIsCurrent'
  <2>1. TakeRead(r) /\ UNCHANGED <<edits, generation, editsKnown>>
    BY <1>7 DEF ReadLands, TakeRead, knownVars
  <2>2. PICK seen \in SUBSET Ids, version \in r.since .. edits :
          StoreComputed(seen \X LookupFields, version, r.sentAt)
    BY <1>7 DEF ReadLands
  <2>3. version \in Nat /\ r.since \in Nat /\ seen \X LookupFields \in SUBSET Cells
    BY ReadTypes
  <2>4. r.sentAt = generation => editsKnown <= version
    BY <2>3 DEF RequestsInOrder, InOrder, RowTypeOK
  <2>5. \A c \in fresh' : values'[c] # NoValue /\ values'[c] >= editsKnown
    BY <2>2, <2>3, <2>4, StoringStaysCurrent
  <2> QED
    BY <2>1, <2>5, FewerRequests DEF FreshIsCurrent, TakeRead, askVars
<1>8. ASSUME NEW r \in reads, ReadFails(r)
      PROVE  RequestsInOrder' /\ FreshIsCurrent'
  BY <1>8, FewerRequests DEF FreshIsCurrent, ReadFails, TakeRead, cellVars, askVars, knownVars
<1>9. CASE InvalidateComputed /\ (ReadTree \/ UNCHANGED treeVars)
  <2>1. /\ generation' = generation + 1 /\ editsKnown' = edits /\ fresh' = {}
        /\ UNCHANGED <<edits, lookups>>
    BY <1>9 DEF InvalidateComputed
  <2>2. RequestsInOrder'
    <3>1. CASE ReadTree
      BY <1>5, <2>1, <3>1 DEF RowTypeOK
    <3>2. CASE UNCHANGED treeVars
      <4>1. \A request \in lookups \cup reads : request.sentAt \in Nat
        BY LookupTypes, ReadTypes
      <4> QED
        BY <2>1, <3>2, <4>1 DEF RowTypeOK, RequestsInOrder, InOrder, treeVars
    <3> QED
      BY <1>9, <3>1, <3>2
  <2> QED
    BY <2>1, <2>2 DEF FreshIsCurrent
<1>10. CASE InvalidateRows
  BY <1>9, <1>10 DEF InvalidateRows
<1>11. CASE InvalidateOtherRows
  BY <1>9, <1>11 DEF InvalidateOtherRows
<1>12. CASE RowsEdited
  BY <1>12 DEF RowTypeOK, RequestsInOrder, InOrder, FreshIsCurrent, RowsEdited, cellVars,
               askVars, treeVars, knownVars
<1>13. CASE UNCHANGED rowVars
  BY <1>13, FewerRequests DEF FreshIsCurrent, rowVars, cellVars, askVars, treeVars, knownVars
<1> QED
  BY <1>1, <1>2, <1>3, <1>4, <1>6, <1>7, <1>8, <1>10, <1>11, <1>12, <1>13
     DEF RowNext, LoadStep

--------------------------------------------------------------------------------
(* A cell is asked for once.                                                 *)

\* While the cells that were asked for stay, it is enough that what is known
\* stays known and that a cell which is no longer on its way becomes known.
LEMMA KnownStaysKnown ==
  ASSUME AskedIsKnown, AskedOnce, UNCHANGED <<asked, queued>>,
         \A c \in asked : c \in fresh \cup failed => c \in fresh' \cup failed',
         \A c \in asked : inFlight[c] # 0 => inFlight'[c] # 0 \/ c \in fresh' \cup failed'
  PROVE  AskedIsKnown' /\ AskedOnce'
BY DEF AskedIsKnown, AskedOnce

LEMMA AskedStep ==
  ASSUME RowTypeOK, AskedIsKnown, AskedOnce, [RowNext]_rowVars
  PROVE  AskedIsKnown' /\ AskedOnce'
<1> USE DEF IsCurrent
<1>1. ASSUME NEW ids \in SUBSET Ids, NEW fields \in SUBSET Fields, EnsureComputed(ids, fields)
      PROVE  AskedIsKnown' /\ AskedOnce'
  <2>1. Missing(ids \X fields) \cap asked = {}
    BY DEF Missing, AskedIsKnown
  <2> QED
    BY <1>1, <2>1 DEF AskedIsKnown, AskedOnce, EnsureComputed, cellVars
<1>2. CASE Flush
  <2>1. \A c \in queued : inFlight'[c] # 0
    BY <1>2, FlushKeepsTypes
  <2>2. \A c \in asked : inFlight[c] # 0 => inFlight'[c] # 0
    BY <1>2 DEF RowTypeOK, Flush
  <2> QED
    BY <1>2, <2>1, <2>2 DEF Flush, AskedIsKnown, AskedOnce, cellVars
<1>3. ASSUME NEW l \in lookups, TakeLoad(l),
             \A c \in Cells : c \in fresh \cup failed => c \in fresh' \cup failed',
             l.sentAt = generation => Covered(l) \subseteq fresh' \cup failed'
      PROVE  AskedIsKnown' /\ AskedOnce'
  BY <1>3, KnownStaysKnown DEF RowTypeOK, TakeLoad, Released
<1>4. ASSUME NEW l \in lookups, ComputedLands(l)
      PROVE  AskedIsKnown' /\ AskedOnce'
  BY <1>3, <1>4 DEF ComputedLands, StoreComputed
<1>5. ASSUME NEW l \in lookups, ComputedFails(l)
      PROVE  AskedIsKnown' /\ AskedOnce'
  BY <1>3, <1>5 DEF ComputedFails
<1>6. CASE LoadTree
  BY <1>6, KnownStaysKnown DEF LoadTree, cellVars, askVars
<1>7. ASSUME NEW r \in reads, ReadLands(r)
      PROVE  AskedIsKnown' /\ AskedOnce'
  BY <1>7, KnownStaysKnown DEF ReadLands, TakeRead, StoreComputed, askVars
<1>8. ASSUME NEW r \in reads, ReadFails(r)
      PROVE  AskedIsKnown' /\ AskedOnce'
  BY <1>8, KnownStaysKnown DEF ReadFails, TakeRead, cellVars, askVars
<1>9. CASE InvalidateComputed
  BY <1>9 DEF InvalidateComputed, AskedIsKnown, AskedOnce
<1>10. CASE RowsEdited
  BY <1>10, KnownStaysKnown DEF RowsEdited, cellVars, askVars
<1>11. CASE UNCHANGED rowVars
  BY <1>11, KnownStaysKnown DEF rowVars, cellVars, askVars
<1> QED
  BY <1>1, <1>2, <1>4, <1>5, <1>6, <1>7, <1>8, <1>9, <1>10, <1>11
     DEF RowNext, LoadStep, InvalidateRows, InvalidateOtherRows

--------------------------------------------------------------------------------
(* The tree is as new as its reload.                                         *)

\* Sending a read keeps the order when the reload it belongs to knew of no more
\* edits than are stored now, and leaves the tree loading.
LEMMA ReadingKeepsOrder ==
  ASSUME RowTypeOK, TreeInOrder, ReadTree, treeKnown' \in {treeKnown, edits}, edits' = edits
  PROVE  TreeInOrder' /\ HeldTreeIsCurrent'
<1>1. \A r \in reads' \ reads : r.n = treeSent' /\ r.since = edits
  BY DEF ReadTree
<1>2. treeSent \in Nat /\ \A r \in reads : r.n \in Nat /\ r.n <= treeSent
  BY ReadTypes, BoundsAssumption DEF TreeInOrder, RowTypeOK
<1>3. \E r \in reads' : r.n = treeSent'
  <2>1. [n |-> treeSent + 1, sentAt |-> generation', since |-> edits] \in reads'
    BY DEF ReadTree
  <2> QED
    BY <2>1 DEF ReadTree
<1>4. /\ treeStatus' = "loading" /\ treeSent' = treeSent + 1
      /\ treeKnown' \in Nat /\ treeKnown' <= edits /\ edits \in Nat
  BY DEF ReadTree, RowTypeOK, TreeInOrder
<1>5. \A r \in reads' : r.n <= treeSent' /\ (r.n = treeSent' => treeKnown' <= r.since)
  <2> SUFFICES ASSUME NEW r \in reads'
               PROVE  r.n <= treeSent' /\ (r.n = treeSent' => treeKnown' <= r.since)
    OBVIOUS
  <2>1. CASE r \in reads
    BY <1>2, <1>4, <2>1
  <2>2. CASE r \notin reads
    BY <1>1, <1>2, <1>4, <2>2
  <2> QED
    BY <2>1, <2>2
<1>6. HeldTreeIsCurrent'
  BY <1>3, <1>4 DEF HeldTreeIsCurrent, IsLatest
<1> QED
  BY <1>4, <1>5, <1>6 DEF TreeInOrder, IsLatest

\* The end of a read: the latest one settles the tree, another one leaves it.
LEMMA EndOfReadKeepsOrder ==
  ASSUME RowTypeOK, TreeInOrder, HeldTreeIsCurrent, NEW r \in reads, TakeRead(r),
         IF IsLatest(r)
         THEN \/ treeStatus' = "error"
              \/ /\ treeStatus' = "ready" /\ treeEntries' \in r.since .. edits
         ELSE UNCHANGED <<treeStatus, treeEntries>>
  PROVE  TreeInOrder' /\ HeldTreeIsCurrent'
<1>1. UNCHANGED <<treeSent, treeKnown, edits>> /\ reads' = reads \ {r}
  BY DEF TakeRead, knownVars
<1>2. r.since \in Nat /\ r.since .. edits \subseteq Nat
  BY ReadTypes
<1>3. TreeInOrder'
  BY <1>1 DEF TreeInOrder, IsLatest
<1>4. HeldTreeIsCurrent'
  <2>1. CASE IsLatest(r)
    BY <1>1, <1>2, <2>1, NoValueAssumption
       DEF RowTypeOK, TreeInOrder, HeldTreeIsCurrent
  <2>2. CASE ~IsLatest(r)
    BY <1>1, <2>2 DEF HeldTreeIsCurrent, IsLatest
  <2> QED
    BY <2>1, <2>2
<1> QED
  BY <1>3, <1>4

\* Steps that do not touch the tree.
LEMMA TreeUntouched ==
  ASSUME RowTypeOK, TreeInOrder, HeldTreeIsCurrent, UNCHANGED <<treeVars, treeKnown>>,
         edits' \in Nat, edits <= edits'
  PROVE  TreeInOrder' /\ HeldTreeIsCurrent'
BY DEF RowTypeOK, TreeInOrder, HeldTreeIsCurrent, IsLatest, treeVars

LEMMA TreeStep ==
  ASSUME RowTypeOK, TreeInOrder, HeldTreeIsCurrent, [RowNext]_rowVars
  PROVE  TreeInOrder' /\ HeldTreeIsCurrent'
<1>1. edits \in Nat
  BY DEF RowTypeOK
<1>2. ASSUME NEW ids \in SUBSET Ids, NEW fields \in SUBSET Fields, EnsureComputed(ids, fields)
      PROVE  TreeInOrder' /\ HeldTreeIsCurrent'
  BY <1>1, <1>2, TreeUntouched DEF EnsureComputed, knownVars
<1>3. CASE Flush
  BY <1>1, <1>3, TreeUntouched DEF Flush, knownVars
<1>4. ASSUME NEW l \in lookups, TakeLoad(l)
      PROVE  TreeInOrder' /\ HeldTreeIsCurrent'
  BY <1>1, <1>4, TreeUntouched DEF TakeLoad, knownVars
<1>5. CASE LoadTree
  BY <1>5, ReadingKeepsOrder DEF LoadTree, knownVars
<1>6. ASSUME NEW r \in reads, ReadLands(r) \/ ReadFails(r)
      PROVE  TreeInOrder' /\ HeldTreeIsCurrent'
  BY <1>6, EndOfReadKeepsOrder DEF ReadLands, ReadFails
<1>7. CASE InvalidateRows
  <2>1. CASE treeStatus # "idle"
    BY <1>7, <2>1, ReadingKeepsOrder DEF InvalidateRows, InvalidateComputed
  <2>2. CASE treeStatus = "idle"
    BY <1>1, <1>7, <2>2
       DEF TreeInOrder, HeldTreeIsCurrent, InvalidateRows, InvalidateComputed, treeVars
  <2> QED
    BY <2>1, <2>2
<1>8. CASE InvalidateOtherRows
  BY <1>1, <1>8, TreeUntouched DEF InvalidateOtherRows, InvalidateComputed
<1>9. CASE RowsEdited
  BY <1>1, <1>9, TreeUntouched DEF RowsEdited, knownVars
<1>10. CASE UNCHANGED rowVars
  BY <1>1, <1>10, TreeUntouched DEF rowVars, knownVars
<1> QED
  BY <1>2, <1>3, <1>4, <1>5, <1>6, <1>7, <1>8, <1>9, <1>10
     DEF RowNext, LoadStep, ComputedLands, ComputedFails

--------------------------------------------------------------------------------

\* The whole invariant, of the initial state and of every step.
LEMMA RowInvariance == RowSpec => []RowInvariant
<1>1. ASSUME RowInit
      PROVE  RowInvariant
  <2>1. RowTypeOK
    BY <1>1, RowTypesAtFirst
  <2> QED
    BY <1>1, <2>1 DEF RowInvariant, RowInit, RequestsInOrder, FreshIsCurrent, AskedIsKnown,
                      AskedOnce, TreeInOrder, HeldTreeIsCurrent
<1>2. RowInvariant /\ [RowNext]_rowVars => RowInvariant'
  BY RowTypeStep, CurrentStep, AskedStep, TreeStep DEF RowInvariant
<1> QED
  BY <1>1, <1>2, PTL DEF RowSpec

\* A value that will not be read again knows every edit the latest invalidation
\* knew of, whatever answers come late (storeComputed and load in row-data.ts).
THEOREM FreshValuesAreCurrent == RowSpec => []FreshIsCurrent
BY RowInvariance, PTL DEF RowInvariant

\* Between two invalidations a cell is sent at most once: what a newer flush, a
\* failed or an overtaken lookup leaves behind never makes it missing again
\* (ensureComputed and load in row-data.ts).
THEOREM CellsAreAskedOnce == RowSpec => []AskedOnce
BY RowInvariance, PTL DEF RowInvariant

\* A held tree knows the edits of its last reload, and a loading one has its
\* latest read on the way (CachedTreeLookup in lookup/source.ts).
THEOREM HeldTreesAreCurrent == RowSpec => []HeldTreeIsCurrent
BY RowInvariance, PTL DEF RowInvariant

--------------------------------------------------------------------------------
\* Every change of the query replaces the load, so none is out of date.
LoadIsCurrent == load # NoLoad => load.query = query

StatusHasItsLoad == status = "loading" /\ ~disposed => load # NoLoad

\* A call of showRow whose load is under way is waiting for it.
LoadHasItsCall ==
  \A c \in ShowCalls : load.by = c => show[c].phase \in Loading /\ show[c].result = "none"

TableInvariant ==
  /\ TableTypeOK
  /\ LoadIsCurrent /\ ReadyRowsMatchQuery
  /\ StatusHasItsLoad /\ LoadHasItsCall /\ ShowRowIsWoken

--------------------------------------------------------------------------------
(* Types.                                                                    *)

USE DEF Settling, Loading

\* A load is one that somebody sent, for a query.
LEMMA LoadTypes ==
  ASSUME TableTypeOK
  PROVE  /\ load # NoLoad <=> load.by \in Senders
         /\ load # NoLoad => load.query \in Queries
         /\ load.by \in ShowCalls => load # NoLoad
BY SendersAssumption DEF TableTypeOK, NoLoad, Senders

\* Replaced calls keep their type.
LEMMA SupersededTypes ==
  ASSUME NEW calls \in [ShowCalls -> ShowStates]
  PROVE  Superseded(calls) \in [ShowCalls -> ShowStates]
<1>1. ASSUME NEW c \in ShowCalls
      PROVE  Superseded(calls)[c] \in ShowStates
  BY DEF Superseded, ShowStates
<1> QED
  BY <1>1 DEF Superseded

\* What a new load leaves is well typed.
LEMMA RefetchTypes ==
  ASSUME NEW by \in Senders, NEW calls \in [ShowCalls -> ShowStates], query' \in Queries,
         Refetch(by, calls)
  PROVE  /\ status' \in {"loading", "ready", "error"}
         /\ load' \in [by : Senders, query : Queries]
         /\ show' \in [ShowCalls -> ShowStates]
BY SupersededTypes DEF Refetch

\* So is what a command that sets the filter leaves, with a load or without.
LEMMA FilterTypes ==
  ASSUME TableTypeOK, NEW f \in Filters \cup {NoFilter}, NEW by \in Senders,
         NEW calls \in [ShowCalls -> ShowStates], SetLevelFilter(f, by, calls)
  PROVE  /\ query' \in Queries /\ pushDue' \in BOOLEAN
         /\ status' \in {"loading", "ready", "error"}
         /\ load' \in [by : Senders, query : Queries] \cup {NoLoad}
         /\ show' \in [ShowCalls -> ShowStates]
<1>1. CASE f = query.filter
  BY <1>1 DEF SetLevelFilter, TableTypeOK
<1>2. CASE f # query.filter
  <2>1. query' \in Queries
    BY <1>2 DEF SetLevelFilter, Queries
  <2> QED
    BY <1>2, <2>1, RefetchTypes DEF SetLevelFilter, TableTypeOK
<1> QED
  BY <1>1, <1>2

\* The states a call of showRow may be put into.
LEMMA ShowTypes ==
  ASSUME TableTypeOK, NEW c \in ShowCalls
  PROVE  /\ Ended(c) \in [ShowCalls -> ShowStates]
         /\ \A phase \in Loading : MovesTo(c, phase) \in [ShowCalls -> ShowStates]
         /\ \A result \in {"ok", "failed"} : Told(c, result) \in ShowStates
         /\ Stopped \in [ShowCalls -> ShowStates]
<1>1. Ended(c) \in [ShowCalls -> ShowStates]
  BY DEF TableTypeOK, Ended, NewShow, ShowStates
<1>2. \A phase \in Loading : MovesTo(c, phase) \in [ShowCalls -> ShowStates]
  BY DEF TableTypeOK, MovesTo, ShowStates
<1>3. \A result \in {"ok", "failed"} : Told(c, result) \in ShowStates
  BY DEF TableTypeOK, Told, ShowStates
<1>4. Stopped \in [ShowCalls -> ShowStates]
  BY DEF TableTypeOK, Stopped, ShowStates
<1> QED
  BY <1>1, <1>2, <1>3, <1>4

\* Every step of a call of showRow after a wait.
LEMMA GoOnTypes ==
  ASSUME TableTypeOK, NEW c \in ShowCalls, GoOn(c)
  PROVE  TableTypeOK'
<1> USE DEF Senders
<1>1. UNCHANGED <<shown, url, synced, disposed>>
  BY DEF GoOn
<1> SUFFICES /\ query' \in Queries /\ status' \in {"loading", "ready", "error"}
             /\ load' \in [by : Senders, query : Queries] \cup {NoLoad}
             /\ rows' \subseteq ShowCalls /\ pushDue' \in BOOLEAN
             /\ show' \in [ShowCalls -> ShowStates]
  BY <1>1 DEF TableTypeOK
<1>2. CASE ShowEnds(c)
  BY <1>2, ShowTypes DEF ShowEnds, TableTypeOK
<1>3. CASE GoOnSettled(c)
  <2>1. CASE disposed \/ Found(c)
    BY <1>2, <1>3, <2>1 DEF GoOnSettled, EndsSettled
  <2>2. CASE CanAdd(c) /\ ~(disposed \/ Found(c))
    BY <1>3, <2>2, ShowTypes DEF GoOnSettled, EndsSettled, TableTypeOK
  <2>3. CASE ~CanAdd(c) /\ ~(disposed \/ Found(c))
    BY <1>3, <2>3, ShowTypes, RefetchTypes DEF GoOnSettled, EndsSettled, TableTypeOK
  <2> QED
    BY <2>1, <2>2, <2>3
<1>4. CASE GoOnReloaded(c)
  <2>1. query.filter \in Filters \cup {NoFilter}
    BY DEF TableTypeOK, Queries
  <2>2. [MovesTo(c, "clearing") EXCEPT ![c].kept = query.filter] \in [ShowCalls -> ShowStates]
    <3>1. MovesTo(c, "clearing") \in [ShowCalls -> ShowStates]
      BY ShowTypes
    <3>2. [MovesTo(c, "clearing")[c] EXCEPT !.kept = query.filter] \in ShowStates
      BY <2>1, <3>1 DEF ShowStates
    <3> QED
      BY <3>1, <3>2
  <2> QED
    BY <1>2, <1>4, <2>2, FilterTypes DEF GoOnReloaded, TableTypeOK
<1>5. CASE GoOnCleared(c)
  <2>1. show[c].kept \in Filters \cup {NoFilter}
    BY DEF TableTypeOK, ShowStates
  <2> QED
    BY <1>2, <1>5, <2>1, ShowTypes, FilterTypes DEF GoOnCleared, TableTypeOK
<1> QED
  BY <1>2, <1>3, <1>4, <1>5 DEF GoOn, Waiting

LEMMA TableTypeStep == TableTypeOK /\ [TableNext]_tableVars => TableTypeOK'
<1> SUFFICES ASSUME TableTypeOK, [TableNext]_tableVars
             PROVE  TableTypeOK'
  OBVIOUS
<1> USE DEF Senders
<1>1. CASE LoadLands
  <2>1. load.query \in Queries
    BY <1>1, LoadTypes DEF LoadLands
  <2>2. show' \in [ShowCalls -> ShowStates]
    BY <1>1, ShowTypes DEF LoadLands
  <2>3. pushDue' \in BOOLEAN
    BY <1>1 DEF LoadLands
  <2> QED
    BY <1>1, <2>1, <2>2, <2>3 DEF LoadLands, TableTypeOK
<1>2. CASE LoadFails
  <2>1. show' \in [ShowCalls -> ShowStates]
    BY <1>2, ShowTypes DEF LoadFails
  <2> QED
    BY <1>2, <2>1 DEF LoadFails, TableTypeOK
<1>3. CASE PushUrl
  <2>1. Written(query) \in Urls
    BY DEF TableTypeOK, Queries, Urls, Written
  <2> QED
    BY <1>3, <2>1 DEF PushUrl, TableTypeOK
<1>4. CASE SyncFromUrl
  <2>1. Seeded(url) \in Queries
    BY DefaultAssumption DEF TableTypeOK, Queries, Urls, Seeded
  <2>2. CASE query' = query
    BY <1>4, <2>1, <2>2 DEF SyncFromUrl, TableTypeOK
  <2>3. CASE query' # query
    BY <1>4, <2>1, <2>3, RefetchTypes DEF SyncFromUrl, TableTypeOK
  <2> QED
    BY <2>2, <2>3
<1>5. CASE Reload
  BY <1>5, RefetchTypes DEF Reload, TableTypeOK
<1>6. CASE Dispose
  <2>1. show' \in [ShowCalls -> ShowStates]
    BY <1>6 DEF Dispose, Stopped, TableTypeOK, ShowStates
  <2> QED
    BY <1>6, <2>1 DEF Dispose, TableTypeOK
<1>7. ASSUME NEW f \in Filters \cup {NoFilter}, UserSetsFilter(f)
      PROVE  TableTypeOK'
  BY <1>7, FilterTypes DEF UserSetsFilter, TableTypeOK
<1>8. ASSUME NEW p \in Pages \cup {FirstPage}, UserSetsPage(p)
      PROVE  TableTypeOK'
  <2>1. query' \in Queries
    BY <1>8 DEF UserSetsPage, TableTypeOK, Queries
  <2> QED
    BY <1>8, <2>1, RefetchTypes DEF UserSetsPage, TableTypeOK
<1>9. ASSUME NEW u \in Urls, BrowserNavigates(u)
      PROVE  TableTypeOK'
  BY <1>9 DEF BrowserNavigates, TableTypeOK
<1>10. ASSUME NEW c \in ShowCalls, ShowRow(c)
       PROVE  TableTypeOK'
  <2>1. show' \in [ShowCalls -> ShowStates]
    <3>1. PICK result \in {"none", "ok", "failed"} :
            show' = [show EXCEPT ![c] = [show[c] EXCEPT !.phase = "settling", !.result = result]]
      BY <1>10 DEF ShowRow, TableTypeOK
    <3> QED
      BY <3>1 DEF TableTypeOK, ShowStates
  <2> QED
    BY <1>10, <2>1 DEF ShowRow, TableTypeOK
<1>11. CASE UNCHANGED tableVars
  BY <1>11 DEF tableVars, TableTypeOK
<1> QED
  BY <1>1, <1>2, <1>3, <1>4, <1>5, <1>6, <1>7, <1>8, <1>9, <1>10, <1>11, GoOnTypes DEF TableNext

\* The page starts well typed.
LEMMA TableTypesAtFirst == TableInit => TableTypeOK
<1> SUFFICES ASSUME TableInit PROVE TableTypeOK
  OBVIOUS
<1>1. Seeded(url) \in Queries
  BY DefaultAssumption DEF TableInit, Queries, Urls, Seeded
<1>2. show \in [ShowCalls -> ShowStates]
  BY DEF TableInit, NewShow, ShowStates
<1> QED
  BY <1>1, <1>2 DEF TableInit, TableTypeOK, Senders

\* The page, its query, its load and its calls of showRow are well typed
\* (tgrid-session.ts).
THEOREM SessionTyped == TableSpec => []TableTypeOK
BY TableTypesAtFirst, TableTypeStep, PTL DEF TableSpec

--------------------------------------------------------------------------------
(* Rows match the query, and who waits is woken.                             *)

\* A new load is one for the query.  Of the calls of showRow only its sender may
\* wait for it; the sender of the load that it replaces waits for the rows.
LEMMA RefetchKeepsOrder ==
  ASSUME TableInvariant, ~disposed, UNCHANGED disposed,
         NEW by \in Senders, NEW calls \in [ShowCalls -> ShowStates],
         query' \in Queries, Refetch(by, calls),
         \A c \in ShowCalls : c # by => calls[c] = show[c],
         by \in ShowCalls => /\ calls[by].phase \in Loading /\ calls[by].result = "none"
                             /\ load.by # by
  PROVE  /\ LoadIsCurrent' /\ ReadyRowsMatchQuery'
         /\ StatusHasItsLoad' /\ LoadHasItsCall' /\ ShowRowIsWoken'
<1>1. load' = [by |-> by, query |-> query'] /\ status' = "loading"
  BY DEF Refetch
<1>2. load' # NoLoad /\ load'.by = by /\ load'.query = query'
  BY <1>1, SendersAssumption DEF NoLoad
<1>3. ASSUME NEW c \in ShowCalls
      PROVE  /\ c = by => show'[c] = calls[c]
             /\ c # by /\ load.by # c => show'[c] = show[c]
             /\ c # by /\ load.by = c => show'[c].phase \notin Loading
  <2>1. show'[c] = Superseded(calls)[c]
    BY DEF Refetch
  <2>2. CASE load.by # c
    <3>1. Superseded(calls)[c] = calls[c]
      BY <2>2 DEF Superseded
    <3> QED
      BY <2>1, <2>2, <3>1
  <2>3. CASE load.by = c /\ c # by
    BY <2>1, <2>3 DEF Superseded, ShowStates
  <2> QED
    BY <2>2, <2>3
<1>4. LoadHasItsCall'
  BY <1>2, <1>3 DEF LoadHasItsCall
<1>5. ASSUME NEW c \in ShowCalls, show'[c].phase \in Loading, show'[c].result = "none"
      PROVE  c = by
  BY <1>3, <1>5 DEF TableInvariant, ShowRowIsWoken, Waiting
<1>6. ShowRowIsWoken'
  BY <1>2, <1>5 DEF ShowRowIsWoken, Waiting
<1> QED
  BY <1>1, <1>2, <1>4, <1>6 DEF LoadIsCurrent, ReadyRowsMatchQuery, StatusHasItsLoad

\* Steps that leave the rows and the load alone.  A call that moves has no load,
\* and when it goes on to wait it waits for rows that are loading.
LEMMA SameLoadKeepsOrder ==
  ASSUME TableInvariant, UNCHANGED <<query, status, load, shown, disposed>>,
         \A c \in ShowCalls :
           \/ show'[c] = show[c]
           \/ /\ load.by # c
              /\ Waiting(c)' /\ show'[c].result = "none" =>
                   load # NoLoad /\ show'[c].phase \in Settling /\ ~disposed
  PROVE  /\ LoadIsCurrent' /\ ReadyRowsMatchQuery'
         /\ StatusHasItsLoad' /\ LoadHasItsCall' /\ ShowRowIsWoken'
<1>1. LoadIsCurrent' /\ ReadyRowsMatchQuery' /\ StatusHasItsLoad'
  BY DEF TableInvariant, LoadIsCurrent, ReadyRowsMatchQuery, StatusHasItsLoad
<1>2. LoadHasItsCall'
  BY DEF TableInvariant, LoadHasItsCall
<1>3. ASSUME NEW c \in ShowCalls, Waiting(c)', show'[c].result = "none"
      PROVE  /\ load' # NoLoad
             /\ show'[c].phase \in Loading => load'.by = c
             /\ show'[c].phase \in Settling => ~disposed'
  BY <1>3 DEF TableInvariant, ShowRowIsWoken, Waiting
<1> QED
  BY <1>1, <1>2, <1>3 DEF ShowRowIsWoken

\* When a load ends every call that waited has its result.
LEMMA EndOfLoadKeepsOrder ==
  ASSUME TableInvariant, Quiet, NEW result \in {"ok", "failed"}, load' = NoLoad,
         show' = [c \in ShowCalls |-> Told(c, result)], UNCHANGED <<query, disposed>>,
         status' \in {"ready", "error"}, status' = "ready" => shown' = query
  PROVE  /\ LoadIsCurrent' /\ ReadyRowsMatchQuery'
         /\ StatusHasItsLoad' /\ LoadHasItsCall' /\ ShowRowIsWoken'
<1>1. \A c \in ShowCalls : NoLoad.by # c
  BY SendersAssumption DEF NoLoad, Senders
<1>2. ASSUME NEW c \in ShowCalls
      PROVE  ~(Waiting(c)' /\ show'[c].result = "none")
  <2>1. CASE Waiting(c)
    <3>1. show[c].phase \in Settling \/ load.by = c
      BY <2>1 DEF TableInvariant, ShowRowIsWoken, Quiet, Waiting
    <3>2. show'[c] = [show[c] EXCEPT !.result = result]
      BY <2>1, <3>1 DEF Told
    <3> QED
      BY <3>2 DEF TableInvariant, TableTypeOK, ShowStates
  <2>2. CASE ~Waiting(c)
    BY <2>2 DEF Told, Waiting
  <2> QED
    BY <2>1, <2>2
<1> QED
  BY <1>1, <1>2 DEF LoadIsCurrent, ReadyRowsMatchQuery, StatusHasItsLoad, LoadHasItsCall,
                    ShowRowIsWoken

LEMMA FilterKeepsOrder ==
  ASSUME TableInvariant, ~disposed, UNCHANGED <<disposed, shown>>,
         NEW f \in Filters \cup {NoFilter}, NEW by \in Senders,
         NEW calls \in [ShowCalls -> ShowStates], SetLevelFilter(f, by, calls),
         \A c \in ShowCalls : c # by => calls[c] = show[c],
         by \in ShowCalls => load.by # by,
         by \in ShowCalls =>
           IF f = query.filter THEN calls[by].phase = "done"
           ELSE calls[by].phase \in Loading /\ calls[by].result = "none"
  PROVE  /\ LoadIsCurrent' /\ ReadyRowsMatchQuery'
         /\ StatusHasItsLoad' /\ LoadHasItsCall' /\ ShowRowIsWoken'
<1>1. CASE f = query.filter
  <2>1. show' = calls /\ UNCHANGED <<query, status, load>>
    BY <1>1 DEF SetLevelFilter
  <2>2. ASSUME NEW c \in ShowCalls
        PROVE  show'[c] = show[c] \/ (load.by # c /\ ~Waiting(c)')
    BY <1>1, <2>1 DEF Waiting
  <2> QED
    BY <2>1, <2>2, SameLoadKeepsOrder
<1>2. CASE f # query.filter
  <2>1. query' \in Queries /\ Refetch(by, calls)
    BY <1>2 DEF SetLevelFilter, Queries
  <2> QED
    BY <1>2, <2>1, RefetchKeepsOrder
<1> QED
  BY <1>1, <1>2

\* A call of showRow that has its result goes on: it ends, or it sends a load of
\* its own and waits for that.
LEMMA GoOnKeepsOrder ==
  ASSUME TableInvariant, NEW c \in ShowCalls, GoOn(c)
  PROVE  /\ LoadIsCurrent' /\ ReadyRowsMatchQuery'
         /\ StatusHasItsLoad' /\ LoadHasItsCall' /\ ShowRowIsWoken'
<1>1. UNCHANGED <<shown, disposed>> /\ Waiting(c) /\ show[c].result # "none"
  BY DEF GoOn
<1>2. load.by # c
  BY <1>1 DEF TableInvariant, LoadHasItsCall
<1>3. TableTypeOK /\ c \in Senders /\ show \in [ShowCalls -> ShowStates]
  BY DEF TableInvariant, TableTypeOK, Senders
<1>4. /\ Ended(c) \in [ShowCalls -> ShowStates]
      /\ \A phase \in Loading : MovesTo(c, phase) \in [ShowCalls -> ShowStates]
  BY <1>3, ShowTypes
<1>5. ASSUME NEW other \in ShowCalls
      PROVE  /\ other # c => Ended(c)[other] = show[other]
             /\ Ended(c)[c].phase = "done"
  BY <1>3 DEF Ended, NewShow
<1>6. ASSUME NEW other \in ShowCalls, NEW phase \in Loading
      PROVE  /\ other # c => MovesTo(c, phase)[other] = show[other]
             /\ MovesTo(c, phase)[c].phase = phase /\ MovesTo(c, phase)[c].result = "none"
  BY <1>3 DEF MovesTo, ShowStates
<1>7. ASSUME show' = Ended(c), UNCHANGED <<query, status, load>>
      PROVE  /\ LoadIsCurrent' /\ ReadyRowsMatchQuery'
             /\ StatusHasItsLoad' /\ LoadHasItsCall' /\ ShowRowIsWoken'
  <2>1. \A other \in ShowCalls : show'[other] = show[other] \/ (load.by # other /\ ~Waiting(other)')
    BY <1>2, <1>5, <1>7 DEF Waiting
  <2> QED
    BY <1>1, <1>7, <2>1, SameLoadKeepsOrder
<1>8. CASE ShowEnds(c)
  BY <1>7, <1>8 DEF ShowEnds
<1>9. CASE GoOnSettled(c)
  <2>1. CASE ~(disposed \/ Found(c)) /\ CanAdd(c)
    BY <1>7, <1>9, <2>1 DEF GoOnSettled, EndsSettled
  <2>2. CASE ~(disposed \/ Found(c)) /\ ~CanAdd(c)
    <3>1. UNCHANGED query /\ Refetch(c, MovesTo(c, "reloading"))
      BY <1>9, <2>2 DEF GoOnSettled, EndsSettled
    <3>2. query' \in Queries
      BY <1>3, <3>1 DEF TableTypeOK
    <3> QED
      BY <1>1, <1>2, <1>3, <1>4, <1>6, <2>2, <3>1, <3>2, RefetchKeepsOrder
  <2> QED
    BY <1>8, <1>9, <2>1, <2>2 DEF GoOnSettled, EndsSettled
<1>10. CASE GoOnReloaded(c)
  <2>1. SUFFICES ASSUME ~ShowEnds(c), ~disposed, query.filter # NoFilter,
                        SetLevelFilter(NoFilter, c,
                          [MovesTo(c, "clearing") EXCEPT ![c].kept = query.filter])
                 PROVE  /\ LoadIsCurrent' /\ ReadyRowsMatchQuery'
                        /\ StatusHasItsLoad' /\ LoadHasItsCall' /\ ShowRowIsWoken'
    BY <1>8, <1>10 DEF GoOnReloaded
  <2> DEFINE calls == [MovesTo(c, "clearing") EXCEPT ![c].kept = query.filter]
  <2>2. query.filter \in Filters \cup {NoFilter}
    BY <1>3 DEF TableTypeOK, Queries
  <2>3. calls \in [ShowCalls -> ShowStates]
    <3>1. [MovesTo(c, "clearing")[c] EXCEPT !.kept = query.filter] \in ShowStates
      BY <1>4, <2>2 DEF ShowStates
    <3> QED
      BY <1>4, <3>1
  <2>4. calls[c].phase \in Loading /\ calls[c].result = "none"
    BY <1>4, <1>6 DEF ShowStates
  <2>5. \A other \in ShowCalls : other # c => calls[other] = show[other]
    BY <1>4, <1>6
  <2> HIDE DEF calls
  <2>6. SetLevelFilter(NoFilter, c, calls)
    BY <2>1 DEF calls
  <2> QED
    BY <1>1, <1>2, <1>3, <2>1, <2>3, <2>4, <2>5, <2>6, FilterKeepsOrder
<1>11. CASE GoOnCleared(c)
  <2> DEFINE calls == IF show[c].kept = query.filter THEN Ended(c) ELSE MovesTo(c, "restoring")
  <2>1. SUFFICES ASSUME ~disposed, SetLevelFilter(show[c].kept, c, calls)
                 PROVE  /\ LoadIsCurrent' /\ ReadyRowsMatchQuery'
                        /\ StatusHasItsLoad' /\ LoadHasItsCall' /\ ShowRowIsWoken'
    BY <1>8, <1>11 DEF GoOnCleared
  <2>2. show[c].kept \in Filters \cup {NoFilter}
    BY <1>3 DEF ShowStates
  <2>3. calls \in [ShowCalls -> ShowStates]
    BY <1>4
  <2>4. IF show[c].kept = query.filter THEN calls[c].phase = "done"
        ELSE calls[c].phase \in Loading /\ calls[c].result = "none"
    BY <1>5, <1>6
  <2>5. \A other \in ShowCalls : other # c => calls[other] = show[other]
    BY <1>5, <1>6
  <2> HIDE DEF calls
  <2> QED
    BY <1>1, <1>2, <1>3, <2>1, <2>2, <2>3, <2>4, <2>5, FilterKeepsOrder
<1> QED
  BY <1>8, <1>9, <1>10, <1>11 DEF GoOn, Waiting

\* A page that is left loses a load of its own at most; who waits for rows to
\* settle has a result at once.
LEMMA DisposeKeepsOrder ==
  ASSUME TableInvariant, Dispose
  PROVE  /\ LoadIsCurrent' /\ ReadyRowsMatchQuery'
         /\ StatusHasItsLoad' /\ LoadHasItsCall' /\ ShowRowIsWoken'
<1>1. /\ UNCHANGED <<query, status, shown>> /\ disposed' = TRUE
      /\ load' = load \/ (load.by = "page" /\ load' = NoLoad)
  BY DEF Dispose
<1>2. \A c \in ShowCalls : NoLoad.by # c /\ "page" # c
  BY SendersAssumption DEF NoLoad, Senders
<1>3. LoadIsCurrent' /\ ReadyRowsMatchQuery' /\ StatusHasItsLoad'
  BY <1>1 DEF TableInvariant, LoadIsCurrent, ReadyRowsMatchQuery, StatusHasItsLoad
<1>4. ASSUME NEW c \in ShowCalls
      PROVE  /\ show[c].phase \notin Settling => show'[c] = show[c]
             /\ show[c].phase \in Settling => show'[c].phase \in Settling /\ show'[c].result = "failed"
  BY DEF Dispose, Stopped, TableInvariant, TableTypeOK, ShowStates
<1>5. LoadHasItsCall'
  BY <1>1, <1>2, <1>4 DEF TableInvariant, LoadHasItsCall
<1>6. ASSUME NEW c \in ShowCalls, Waiting(c)', show'[c].result = "none"
      PROVE  show'[c].phase \in Loading /\ load'.by = c /\ load' # NoLoad
  <2>1. show'[c] = show[c] /\ show[c].phase \in Loading
    BY <1>4, <1>6 DEF Waiting
  <2>2. load.by = c /\ load # NoLoad
    BY <1>6, <2>1 DEF TableInvariant, ShowRowIsWoken, Waiting
  <2> QED
    BY <1>1, <1>2, <2>1, <2>2
<1>7. ShowRowIsWoken'
  BY <1>6 DEF ShowRowIsWoken
<1> QED
  BY <1>3, <1>5, <1>7

LEMMA OrderStep ==
  TableInvariant /\ [TableNext]_tableVars =>
    /\ LoadIsCurrent' /\ ReadyRowsMatchQuery'
    /\ StatusHasItsLoad' /\ LoadHasItsCall' /\ ShowRowIsWoken'
<1> SUFFICES ASSUME TableInvariant, [TableNext]_tableVars
             PROVE  /\ LoadIsCurrent' /\ ReadyRowsMatchQuery'
                    /\ StatusHasItsLoad' /\ LoadHasItsCall' /\ ShowRowIsWoken'
  OBVIOUS
<1>1. "command" \in Senders \ ShowCalls /\ "page" \in Senders \ ShowCalls
  BY SendersAssumption DEF Senders
<1>2. TableTypeOK /\ show \in [ShowCalls -> ShowStates]
  BY DEF TableInvariant, TableTypeOK
<1>3. ASSUME NEW by \in Senders \ ShowCalls, ~disposed, UNCHANGED disposed, query' \in Queries,
             Refetch(by, show)
      PROVE  /\ LoadIsCurrent' /\ ReadyRowsMatchQuery'
             /\ StatusHasItsLoad' /\ LoadHasItsCall' /\ ShowRowIsWoken'
  BY <1>2, <1>3, RefetchKeepsOrder
<1>4. ASSUME UNCHANGED <<query, status, load, shown, disposed, show>>
      PROVE  /\ LoadIsCurrent' /\ ReadyRowsMatchQuery'
             /\ StatusHasItsLoad' /\ LoadHasItsCall' /\ ShowRowIsWoken'
  BY <1>4, SameLoadKeepsOrder
<1>5. CASE LoadLands
  <2>1. load.query = query
    BY <1>5 DEF LoadLands, TableInvariant, LoadIsCurrent
  <2> QED
    BY <1>5, <2>1, EndOfLoadKeepsOrder DEF LoadLands
<1>6. CASE LoadFails
  BY <1>6, EndOfLoadKeepsOrder DEF LoadFails
<1>7. CASE PushUrl
  BY <1>4, <1>7 DEF PushUrl
<1>8. CASE SyncFromUrl
  <2>1. Seeded(url) \in Queries
    BY <1>2, DefaultAssumption DEF TableTypeOK, Queries, Urls, Seeded
  <2>2. CASE query' = query
    BY <1>4, <1>8, <2>2 DEF SyncFromUrl
  <2>3. CASE query' # query
    BY <1>1, <1>3, <1>8, <2>1, <2>3 DEF SyncFromUrl
  <2> QED
    BY <2>2, <2>3
<1>9. CASE Reload
  BY <1>1, <1>2, <1>3, <1>9 DEF Reload, TableTypeOK
<1>10. CASE Dispose
  BY <1>10, DisposeKeepsOrder
<1>11. ASSUME NEW f \in Filters \cup {NoFilter}, UserSetsFilter(f)
       PROVE  /\ LoadIsCurrent' /\ ReadyRowsMatchQuery'
              /\ StatusHasItsLoad' /\ LoadHasItsCall' /\ ShowRowIsWoken'
  BY <1>1, <1>2, <1>11, FilterKeepsOrder DEF UserSetsFilter
<1>12. ASSUME NEW p \in Pages \cup {FirstPage}, UserSetsPage(p)
       PROVE  /\ LoadIsCurrent' /\ ReadyRowsMatchQuery'
              /\ StatusHasItsLoad' /\ LoadHasItsCall' /\ ShowRowIsWoken'
  <2>1. query' \in Queries
    BY <1>2, <1>12 DEF UserSetsPage, TableTypeOK, Queries
  <2> QED
    BY <1>1, <1>3, <1>12, <2>1 DEF UserSetsPage
<1>13. ASSUME NEW u \in Urls, BrowserNavigates(u)
       PROVE  /\ LoadIsCurrent' /\ ReadyRowsMatchQuery'
              /\ StatusHasItsLoad' /\ LoadHasItsCall' /\ ShowRowIsWoken'
  BY <1>4, <1>13 DEF BrowserNavigates
<1>14. ASSUME NEW c \in ShowCalls, ShowRow(c)
       PROVE  /\ LoadIsCurrent' /\ ReadyRowsMatchQuery'
              /\ StatusHasItsLoad' /\ LoadHasItsCall' /\ ShowRowIsWoken'
  <2>1. \A other \in ShowCalls : other # c => show'[other] = show[other]
    BY <1>2, <1>14 DEF ShowRow
  <2>2. load.by # c
    BY <1>14 DEF ShowRow, TableInvariant, LoadHasItsCall
  <2>3. show'[c].phase = "settling"
    BY <1>2, <1>14 DEF ShowRow, ShowStates
  <2>4. show'[c].result = "none" => load # NoLoad
    BY <1>2, <1>14 DEF ShowRow, ShowStates, TableInvariant, StatusHasItsLoad
  <2> QED
    BY <1>14, <2>1, <2>2, <2>3, <2>4, SameLoadKeepsOrder DEF ShowRow
<1>15. CASE UNCHANGED tableVars
  BY <1>4, <1>15 DEF tableVars
<1> QED
  BY <1>5, <1>6, <1>7, <1>8, <1>9, <1>10, <1>11, <1>12, <1>13, <1>14, <1>15, GoOnKeepsOrder
  DEF TableNext

LEMMA TableInvariance == TableSpec => []TableInvariant
<1>1. TableInit => TableInvariant
  <2> SUFFICES ASSUME TableInit PROVE TableInvariant
    OBVIOUS
  <2>1. "page" \notin ShowCalls /\ "page" # NoOne
    BY SendersAssumption DEF Senders
  <2> QED
    BY <2>1, TableTypesAtFirst
    DEF TableInit, TableInvariant, LoadIsCurrent, ReadyRowsMatchQuery, StatusHasItsLoad,
        LoadHasItsCall, ShowRowIsWoken, Waiting, NewShow, NoLoad
<1>2. TableInvariant /\ [TableNext]_tableVars => TableInvariant'
  BY TableTypeStep, OrderStep DEF TableInvariant
<1> QED
  BY <1>1, <1>2, PTL DEF TableSpec

\* Rows that count as ready are those of the query that the controls show,
\* whichever answers were overtaken (tgrid-session.ts, rest-level-source.ts:304).
THEOREM ReadyRowsAreOfTheQuery == TableSpec => []ReadyRowsMatchQuery
BY TableInvariance, PTL DEF TableInvariant

\* A call of showRow never waits for something that cannot come any more
\* (tgrid-session.ts, showRow).
THEOREM WaitingCallsAreWoken == TableSpec => []ShowRowIsWoken
BY TableInvariance, PTL DEF TableInvariant

--------------------------------------------------------------------------------
(* The root source keeps the contract of a level source.                     *)

\* A new load is asked for, whatever it replaces.
LEMMA RefetchAsks ==
  ASSUME NEW by, NEW calls, Refetch(by, calls), query' \in Queries,
         ~disposed, UNCHANGED <<shown, disposed>>
  PROVE  Root!Next
<1>1. Root!Ask(query')
  BY DEF Refetch, Root!Ask
<1> QED
  BY <1>1 DEF Root!Next

\* A command that sets the filter asks for rows or leaves the source alone.
LEMMA FilterAsks ==
  ASSUME TableTypeOK', NEW f, NEW by, NEW calls, SetLevelFilter(f, by, calls),
         ~disposed, UNCHANGED <<shown, disposed>>
  PROVE  Root!Next \/ UNCHANGED Root!vars
<1>1. CASE f = query.filter
  BY <1>1 DEF SetLevelFilter, Root!vars
<1>2. CASE f # query.filter
  <2>1. Refetch(by, calls) /\ query' \in Queries
    BY <1>2 DEF SetLevelFilter, TableTypeOK
  <2> QED
    BY <2>1, RefetchAsks
<1> QED
  BY <1>1, <1>2

\* A call of showRow that goes on asks for rows only while the page is there.
LEMMA GoOnAsks ==
  ASSUME TableTypeOK', NEW c \in ShowCalls, GoOn(c)
  PROVE  Root!Next \/ UNCHANGED Root!vars
<1>1. UNCHANGED <<shown, disposed>>
  BY DEF GoOn
<1>2. CASE ShowEnds(c)
  BY <1>1, <1>2 DEF ShowEnds, Root!vars
<1>3. CASE GoOnSettled(c)
  <2>1. CASE EndsSettled(c)
    BY <1>2, <1>3, <2>1 DEF GoOnSettled
  <2>2. CASE CanAdd(c) /\ ~EndsSettled(c)
    BY <1>1, <1>3, <2>2 DEF GoOnSettled, Root!vars
  <2>3. CASE ~CanAdd(c) /\ ~EndsSettled(c)
    <3>1. ~disposed
      BY <2>3 DEF EndsSettled
    <3>2. Refetch(c, MovesTo(c, "reloading")) /\ query' \in Queries
      BY <1>3, <2>3 DEF GoOnSettled, TableTypeOK
    <3> QED
      BY <1>1, <3>1, <3>2, RefetchAsks
  <2> QED
    BY <2>1, <2>2, <2>3
<1>4. CASE GoOnReloaded(c)
  BY <1>1, <1>2, <1>4, FilterAsks DEF GoOnReloaded
<1>5. CASE GoOnCleared(c)
  BY <1>1, <1>2, <1>5, FilterAsks DEF GoOnCleared
<1> QED
  BY <1>2, <1>3, <1>4, <1>5 DEF GoOn, Waiting

\* Every step is one of the contract; writing and reading the URL without a new
\* query are none of its business.
LEMMA StepKeepsContract ==
  ASSUME TableTypeOK, TableTypeOK', [TableNext]_tableVars
  PROVE  [Root!Next]_(Root!vars)
<1>1. load # NoLoad <=> load.query # NoOne
  BY SendersAssumption, LoadTypes DEF NoLoad
<1>2. NoLoad.query = NoOne
  BY DEF NoLoad
<1>3. query' \in Queries
  BY DEF TableTypeOK
<1>4. CASE LoadLands
  <2>1. Root!Land
    BY <1>1, <1>2, <1>4 DEF LoadLands, Root!Land
  <2> QED
    BY <2>1 DEF Root!Next
<1>5. CASE LoadFails
  <2>1. Root!Fail
    BY <1>1, <1>2, <1>5 DEF LoadFails, Root!Fail
  <2> QED
    BY <2>1 DEF Root!Next
<1>6. CASE Dispose
  <2>1. load' \in {load, NoLoad}
    BY <1>6 DEF Dispose
  <2>2. Root!Stop
    BY <1>2, <1>6, <2>1 DEF Dispose, Root!Stop
  <2> QED
    BY <2>2 DEF Root!Next
<1>7. CASE PushUrl \/ UNCHANGED tableVars
  BY <1>7 DEF PushUrl, tableVars, Root!vars
<1>8. CASE SyncFromUrl
  BY <1>3, <1>8, RefetchAsks DEF SyncFromUrl, Root!vars
<1>9. CASE Reload
  BY <1>3, <1>9, RefetchAsks DEF Reload
<1>10. ASSUME NEW f \in Filters \cup {NoFilter}, UserSetsFilter(f)
       PROVE  Root!Next \/ UNCHANGED Root!vars
  BY <1>10, FilterAsks DEF UserSetsFilter
<1>11. ASSUME NEW p \in Pages \cup {FirstPage}, UserSetsPage(p)
       PROVE  Root!Next
  BY <1>3, <1>11, RefetchAsks DEF UserSetsPage
<1>12. ASSUME NEW u \in Urls, BrowserNavigates(u)
       PROVE  UNCHANGED Root!vars
  BY <1>12 DEF BrowserNavigates, Root!vars
<1>13. ASSUME NEW c \in ShowCalls, ShowRow(c)
       PROVE  UNCHANGED Root!vars
  BY <1>13 DEF ShowRow, Root!vars
<1> QED
  BY <1>4, <1>5, <1>6, <1>7, <1>8, <1>9, <1>10, <1>11, <1>12, <1>13, GoOnAsks DEF TableNext

\* However user, URL and calls of showRow take turns at it, the root source keeps
\* the contract that the REST source keeps: nothing is asked for after the page was
\* left (tgrid-session.ts, rest-level-source.ts).
THEOREM RootKeepsContract == TableSpec => RootKeepsSourceContract
<1>1. TableInit => Root!Init
  <2>1. TableInit => query \in Queries
    BY TableTypesAtFirst DEF TableTypeOK
  <2> QED
    BY <2>1 DEF TableInit, Root!Init
<1>2. TableTypeOK /\ TableTypeOK' /\ [TableNext]_tableVars => [Root!Next]_(Root!vars)
  BY StepKeepsContract
<1> QED
  BY <1>1, <1>2, SessionTyped, PTL DEF TableSpec, RootKeepsSourceContract, Root!Spec

================================================================================
