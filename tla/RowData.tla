-------------------------------- MODULE RowData --------------------------------
(***************************************************************************)
(* What a page knows about the rows of one table: their computed values    *)
(* (TableRowDataSource in packages/frontend/src/lookup/row-data.ts) and    *)
(* their tree (CachedTreeLookup in lookup/source.ts).  Cells on screen ask *)
(* for the fields they draw; what is asked in one tick is sent together;   *)
(* other answers about the table, such as its tree, bring values too.  A   *)
(* write invalidates: old values stay drawn and are read again.            *)
(*                                                                         *)
(* A value is the number of edits the server had stored when it was read:  *)
(* at some moment between the request and its answer.  Lookups by value    *)
(* and searches by text are in ValueLookup and SearchLookup.               *)
(***************************************************************************)
EXTENDS Naturals, FiniteSets

CONSTANTS
  Ids, Fields,
  LookupFields,   \* lookupComputedFields: the fields every lookup brings
  NoValue,        \* nothing is known
  MaxLookupIds,   \* how many ids one lookup may name
  MaxFlushes, MaxReads, MaxEdits, MaxInvalidations   \* bounds

ASSUME FieldsAssumption == LookupFields \subseteq Fields
ASSUME ChunkAssumption  == MaxLookupIds \in Nat \ {0} /\ IsFiniteSet(Ids)
ASSUME BoundsAssumption == /\ MaxFlushes \in Nat /\ MaxReads \in Nat
                           /\ MaxEdits \in Nat /\ MaxInvalidations \in Nat
ASSUME NoValueAssumption == NoValue \notin Nat

Cells   == Ids \X Fields
Lookups == [flush : 1 .. MaxFlushes, ids : SUBSET Ids, fields : SUBSET Fields,
            sentAt : Nat, since : 0 .. MaxEdits]
Reads   == [n : 1 .. MaxReads, sentAt : Nat, since : 0 .. MaxEdits]

VARIABLES
  values,       \* the values drawn
  fresh,        \* cells whose value was stored since the last invalidation
  failed,       \* cells a read could not return since then
  queued,       \* cells asked for and not sent yet
  flushDue,     \* queuedFlush: the queue is sent at the end of the tick
  inFlight,     \* cell -> the flush it was sent with last, or 0
  generation,
  flushes,      \* how many there were
  lookups,      \* lookups of computed values on their way
  treeStatus, treeEntries, treeSent,   \* CachedTreeLookup: state and sent
  reads,        \* tree reads on their way
  edits,        \* edits the server has stored
  editsKnown, treeKnown,   \* history: edits the latest invalidation, the latest
                           \* reload knew of
  asked         \* history: cells whose asking caused a flush since the last
                \* invalidation

cellVars  == <<values, fresh, failed>>
askVars   == <<queued, flushDue, inFlight, flushes, lookups>>
treeVars  == <<treeStatus, treeEntries, treeSent, reads>>
knownVars == <<generation, editsKnown, treeKnown>>
rowVars   == <<cellVars, askVars, treeVars, knownVars, edits, asked>>

RowTypeOK ==
  /\ values \in [Cells -> Nat \cup {NoValue}]
  /\ fresh \subseteq Cells /\ failed \subseteq Cells /\ queued \subseteq Cells
  /\ asked \subseteq Cells
  /\ flushDue \in BOOLEAN /\ (flushDue <=> queued # {})
  /\ inFlight \in [Cells -> 0 .. MaxFlushes] /\ flushes \in 0 .. MaxFlushes
  /\ lookups \subseteq Lookups
  /\ treeStatus \in {"idle", "loading", "ready", "error"}
  /\ treeEntries \in Nat \cup {NoValue} /\ treeSent \in 0 .. MaxReads
  /\ reads \subseteq Reads
  /\ edits \in 0 .. MaxEdits /\ generation \in Nat
  /\ editsKnown \in 0 .. MaxEdits /\ treeKnown \in 0 .. MaxEdits

--------------------------------------------------------------------------------
(* Values are asked for.                                                     *)

Covered(l)   == l.ids \X l.fields
IsCurrent(r) == r.sentAt = generation

\* Mutant of Missing: a field that could not be read is asked for again.
MissingOrFailed(cells) == {c \in cells : c \notin fresh /\ inFlight[c] = 0}

\* What is neither known, nor known to be unreadable, nor on its way.
Missing(cells) == {c \in cells : c \notin fresh \cup failed /\ inFlight[c] = 0}

\* Asking for what is queued already changes nothing.
EnsureComputed(ids, fields) ==
  /\ flushes < MaxFlushes /\ ~(Missing(ids \X fields) \subseteq queued)
  /\ queued' = queued \cup Missing(ids \X fields)
  /\ flushDue' = TRUE
  /\ UNCHANGED <<cellVars, inFlight, flushes, lookups, treeVars, knownVars, edits, asked>>

\* The ways to cut ids into lookups: all of them full but one.
Chunks(ids) ==
  {P \in SUBSET SUBSET ids :
     /\ UNION P = ids /\ {} \notin P
     /\ \A S, T \in P : S = T \/ S \cap T = {}
     /\ \A S \in P : Cardinality(S) <= MaxLookupIds
     /\ Cardinality({S \in P : Cardinality(S) # MaxLookupIds}) <= 1}

QueuedIds    == {c[1] : c \in queued}
QueuedFields == {c[2] : c \in queued}

\* Everything queued is sent, every row with the fields of all of them.
Flush ==
  /\ flushDue /\ flushes < MaxFlushes
  /\ flushDue' = FALSE /\ flushes' = flushes + 1
  /\ queued' = {}
  /\ inFlight' = [c \in Cells |-> IF c \in QueuedIds \X QueuedFields THEN flushes + 1
                                  ELSE inFlight[c]]
  /\ \E P \in Chunks(QueuedIds) :
       lookups' = lookups \cup
         {[flush |-> flushes + 1, ids |-> ids, fields |-> QueuedFields, sentAt |-> generation,
           since |-> edits] : ids \in P}
  /\ asked' = asked \cup queued
  /\ UNCHANGED <<cellVars, treeVars, knownVars, edits>>

--------------------------------------------------------------------------------
(* Values arrive.                                                            *)

\* Mutant of StoreComputed: an answer sent before the invalidation counts as fresh.
StoreAsFresh(cells, version, sentAt) ==
  /\ fresh' = fresh \cup cells
  /\ failed' = failed \ cells
  /\ values' = [c \in Cells |-> IF c \in cells THEN version ELSE values[c]]

\* A value sent for before the latest invalidation is drawn unless a fresh one
\* is there.
StoreComputed(cells, version, sentAt) ==
  LET current == sentAt = generation
  IN  /\ fresh'  = IF current THEN fresh \cup cells ELSE fresh
      /\ failed' = IF current THEN failed \ cells ELSE failed
      /\ values' = [c \in Cells |-> IF c \in cells /\ (current \/ c \notin fresh)
                                    THEN version ELSE values[c]]

\* The finally clause of load: after an invalidation the entries are those of
\* newer loads.
Released(l) ==
  IF IsCurrent(l) THEN [c \in Cells |-> IF c \in Covered(l) THEN 0 ELSE inFlight[c]]
  ELSE inFlight

TakeLoad(l) ==
  /\ l \in lookups
  /\ lookups' = lookups \ {l}
  /\ inFlight' = Released(l)
  /\ UNCHANGED <<queued, flushDue, flushes, treeVars, knownVars, edits, asked>>

\* A row the answer does not bring has no value to wait for.
ComputedLands(l) ==
  /\ TakeLoad(l)
  /\ \E seen \in SUBSET l.ids, version \in l.since .. edits :
       LET brought == seen \X l.fields
       IN  IF IsCurrent(l)
           THEN /\ fresh' = fresh \cup brought
                /\ failed' = (failed \ brought) \cup (Covered(l) \ fresh')
                /\ values' = [c \in Cells |-> IF c \in brought THEN version ELSE values[c]]
           ELSE StoreComputed(brought, version, l.sentAt)

ComputedFails(l) ==
  /\ TakeLoad(l)
  /\ failed' = IF IsCurrent(l) THEN failed \cup Covered(l) ELSE failed
  /\ UNCHANGED <<values, fresh>>

--------------------------------------------------------------------------------
(* The tree.                                                                 *)

ReadTree ==
  /\ treeSent < MaxReads
  /\ treeSent' = treeSent + 1 /\ treeStatus' = "loading"
  /\ reads' = reads \cup {[n |-> treeSent + 1, sentAt |-> generation', since |-> edits]}
  /\ UNCHANGED treeEntries

\* load(): a picker opens.
LoadTree ==
  /\ treeStatus = "idle"
  /\ UNCHANGED knownVars
  /\ ReadTree
  /\ UNCHANGED <<cellVars, askVars, edits, asked>>

\* Mutant of IsLatest: the tree of an older read is kept.
IsAny(r) == r \in reads

IsLatest(r) == r.n = treeSent

TakeRead(r) ==
  /\ r \in reads
  /\ reads' = reads \ {r}
  /\ UNCHANGED <<askVars, treeSent, knownVars, edits, asked>>

ReadLands(r) ==
  /\ TakeRead(r)
  /\ \E seen \in SUBSET Ids, version \in r.since .. edits :
       /\ StoreComputed(seen \X LookupFields, version, r.sentAt)
       /\ IF IsLatest(r)
          THEN treeStatus' = "ready" /\ treeEntries' = version
          ELSE UNCHANGED <<treeStatus, treeEntries>>

ReadFails(r) ==
  /\ TakeRead(r)
  /\ treeStatus' = IF IsLatest(r) THEN "error" ELSE treeStatus
  /\ UNCHANGED <<cellVars, treeEntries>>

--------------------------------------------------------------------------------
(* Writes.                                                                   *)

InvalidateComputed ==
  /\ generation < MaxInvalidations
  /\ generation' = generation + 1
  /\ fresh' = {} /\ failed' = {}
  /\ inFlight' = [c \in Cells |-> 0]
  /\ editsKnown' = edits /\ asked' = {}
  /\ UNCHANGED <<values, queued, flushDue, flushes, lookups, edits>>

\* Rows of this table were written: values are invalidated and labels reloaded,
\* the tree among them when it was ever read.
InvalidateRows ==
  /\ InvalidateComputed
  /\ treeKnown' = edits
  /\ IF treeStatus # "idle" THEN ReadTree
     ELSE UNCHANGED treeVars

\* Rows of another table were written, on which a value may depend.
InvalidateOtherRows == InvalidateComputed /\ UNCHANGED <<treeKnown, treeVars>>

RowsEdited ==
  /\ edits < MaxEdits
  /\ edits' = edits + 1
  /\ UNCHANGED <<cellVars, askVars, treeVars, knownVars, asked>>

--------------------------------------------------------------------------------
RowInit ==
  /\ values = [c \in Cells |-> NoValue]
  /\ fresh = {} /\ failed = {} /\ queued = {} /\ flushDue = FALSE
  /\ inFlight = [c \in Cells |-> 0] /\ flushes = 0 /\ lookups = {}
  /\ treeStatus = "idle" /\ treeEntries = NoValue /\ treeSent = 0
  /\ reads = {}
  /\ generation = 0 /\ edits = 0 /\ editsKnown = 0 /\ treeKnown = 0 /\ asked = {}

LoadStep == \E l \in lookups : ComputedLands(l) \/ ComputedFails(l)

RowNext ==
  \/ \E ids \in SUBSET Ids, fields \in SUBSET Fields : EnsureComputed(ids, fields)
  \/ Flush \/ LoadStep
  \/ LoadTree
  \/ \E r \in reads : ReadLands(r) \/ ReadFails(r)
  \/ InvalidateRows \/ InvalidateOtherRows \/ RowsEdited

RowSpec == RowInit /\ [][RowNext]_rowVars

--------------------------------------------------------------------------------
(* Safety.                                                                   *)

\* "Values from a request sent before the latest invalidation are drawn but read
\* again" (storeComputed): a value that will not be read again was read after
\* every edit the latest invalidation knew of.
FreshIsCurrent ==
  \A c \in fresh : values[c] # NoValue /\ values[c] >= editsKnown

\* "A field that could not be read is not asked for again until the values are
\* invalidated" (ensureComputed), nor is one that was read: between two
\* invalidations asking for a cell causes at most one lookup.
AskedOnce == queued \cap asked = {}

\* A tree that is held (status ready) was read after the edits its last reload
\* knew of, and one shown as loading is being read.
HeldTreeIsCurrent ==
  /\ treeStatus = "ready" => treeEntries # NoValue /\ treeEntries >= treeKnown
  /\ treeStatus = "loading" => \E r \in reads : IsLatest(r)

================================================================================
