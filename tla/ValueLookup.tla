------------------------------ MODULE ValueLookup ------------------------------
(***************************************************************************)
(* The cache of labels behind lookup cells (CachedValueLookup in           *)
(* packages/grid/src/lookup/cache/value-lookup.ts): one entry per value,   *)
(* read from the server in batches; a reload asks again for every entry    *)
(* after rows were edited, while older requests may still be on their way. *)
(*                                                                         *)
(* A label is the version of its row: a number that grows with each edit.  *)
(***************************************************************************)
EXTENDS Naturals, FiniteSets

CONSTANTS
  Keys,       \* lookup values
  StoredKeys, \* those that name a row at the start
  None,       \* no row, no entry
  MaxLoads, MaxEdits, MaxCalls   \* bounds on requests, edits, calls waiting

ASSUME KeysAssumption   == StoredKeys \subseteq Keys
ASSUME BoundsAssumption == MaxLoads \in Nat /\ MaxEdits \in Nat /\ MaxCalls \in Nat
ASSUME NoneAssumption   == None \notin Nat

LoadIds  == 1 .. MaxLoads
Versions == 1 .. MaxEdits + 1
Answers  == [Keys -> Versions \cup {None}]
NoAnswer == [k \in Keys |-> None]

VARIABLES
  server,          \* the version of each row, None when it does not exist
  entries,         \* entriesByValue
  loadingEntries,  \* loadingEntriesByValueKey: the load a key belongs to, or 0
  loads,           \* requests on their way, answered or not
  lastLoad,        \* the number of requests sent
  calls,           \* loadMissingEntries calls that have not returned
  asked, due       \* history: the latest load sent for each key, and the version
                   \* the row had then; 0 when that load failed

cache   == <<entries, loadingEntries>>
history == <<asked, due>>
vars    == <<server, cache, loads, lastLoad, calls, history>>

Loads == [id : LoadIds, keys : (SUBSET Keys) \ {{}}, stage : {"sent", "answered", "failed"},
          rows : Answers]
Calls == [loadOf : [Keys -> LoadIds \cup {0}], waitsFor : SUBSET LoadIds]

TypeOK ==
  /\ server \in Answers
  /\ entries \in Answers
  /\ loadingEntries \in [Keys -> LoadIds \cup {0}]
  /\ loads \subseteq Loads
  /\ lastLoad \in 0 .. MaxLoads
  /\ calls \subseteq Calls
  /\ asked \in [Keys -> LoadIds \cup {0}] /\ due \in [Keys -> Versions \cup {0}]

--------------------------------------------------------------------------------
Cached  == {k \in Keys : entries[k] # None}
Loading == {k \in Keys : loadingEntries[k] # 0}

Asks(keys, owner) == [k \in Keys |-> IF k \in keys THEN lastLoad + 1 ELSE owner[k]]

\* Mutant of StartLoad: a key stays with the load that asked for it first.
StartLoadBehind(keys) ==
  /\ lastLoad < MaxLoads
  /\ lastLoad' = lastLoad + 1
  /\ loads' = loads \cup {[id |-> lastLoad + 1, keys |-> keys, stage |-> "sent", rows |-> NoAnswer]}
  /\ loadingEntries' = Asks(keys \ Loading, loadingEntries)
  /\ asked' = Asks(keys, asked)
  /\ due' = [k \in Keys |-> IF k \in keys /\ server[k] # None THEN server[k] ELSE due[k]]
  /\ UNCHANGED <<server, entries>>

\* Every key asked for belongs to the new load, whoever owned it before.
StartLoad(keys) ==
  /\ lastLoad < MaxLoads
  /\ lastLoad' = lastLoad + 1
  /\ loads' = loads \cup {[id |-> lastLoad + 1, keys |-> keys, stage |-> "sent", rows |-> NoAnswer]}
  /\ loadingEntries' = Asks(keys, loadingEntries)
  /\ asked' = Asks(keys, asked)
  /\ due' = [k \in Keys |-> IF k \in keys /\ server[k] # None THEN server[k] ELSE due[k]]
  /\ UNCHANGED <<server, entries>>

\* Mutant of Waiting: only the load of the call itself is awaited.
WaitingForOwn(keys, owner) ==
  [loadOf   |-> [k \in Keys |-> IF k \in keys THEN owner[k] ELSE 0],
   waitsFor |-> {owner[k] : k \in keys \ Loading}]

\* The keys a loadMissingEntries call finds on their way are awaited, the others
\* are asked for; the call returns when all of their loads are done.
Waiting(keys, owner) ==
  [loadOf   |-> [k \in Keys |-> IF k \in keys THEN owner[k] ELSE 0],
   waitsFor |-> {owner[k] : k \in keys}]

MissingOf(values) == values \ Cached

LoadMissingEntries(values) ==
  LET missing == MissingOf(values)
  IN  /\ missing # {} /\ Cardinality(calls) < MaxCalls
      /\ IF missing \subseteq Loading
         THEN UNCHANGED <<server, cache, loads, lastLoad, history>>
         ELSE StartLoad(missing \ Loading)
      /\ calls' = calls \cup {Waiting(missing, loadingEntries')}

ReloadEntries ==
  /\ Cached \cup Loading # {}
  /\ StartLoad(Cached \cup Loading)
  /\ UNCHANGED calls

--------------------------------------------------------------------------------
(* Answers.                                                                  *)

\* Mutant of Owned: an answer counts for every key it was asked for.
OwnedAll(l) == l.keys

Owned(l) == {k \in l.keys : loadingEntries[k] = l.id}

TakeAnswer(l) ==
  /\ l \in loads
  /\ loads' = loads \ {l}
  /\ loadingEntries' = [k \in Keys |-> IF k \in Owned(l) THEN 0 ELSE loadingEntries[k]]
  /\ UNCHANGED <<server, lastLoad>>

\* Rows the answer does not name keep their old entry.
LoadLands(l) ==
  /\ TakeAnswer(l) /\ l.stage = "answered"
  /\ entries' = [k \in Keys |-> IF k \in Owned(l) /\ l.rows[k] # None
                                THEN l.rows[k] ELSE entries[k]]
  /\ calls' = {[c EXCEPT !.waitsFor = @ \ {l.id}] : c \in calls}
  /\ UNCHANGED history

\* Mutant of LoadFails: the keys of a failed load stay marked as loading.
LoadFailsLeaking(l) ==
  /\ l \in loads /\ l.stage = "failed"
  /\ loads' = loads \ {l}
  /\ calls' = {c \in calls : l.id \notin c.waitsFor}
  /\ due' = [k \in Keys |-> IF k \in Owned(l) THEN 0 ELSE due[k]]
  /\ UNCHANGED <<server, cache, lastLoad, asked>>

\* The calls that wait for a failed load fail with it.
LoadFails(l) ==
  /\ TakeAnswer(l) /\ l.stage = "failed"
  /\ calls' = {c \in calls : l.id \notin c.waitsFor}
  /\ due' = [k \in Keys |-> IF k \in Owned(l) THEN 0 ELSE due[k]]
  /\ UNCHANGED <<entries, asked>>

Returned(c) == c.waitsFor = {}

CallReturns(c) ==
  /\ c \in calls /\ Returned(c)
  /\ calls' = calls \ {c}
  /\ UNCHANGED <<server, cache, loads, lastLoad, history>>

(* The server.                                                               *)

\* Only the rows asked for are in the answer.
ServerReads(l) ==
  /\ l \in loads /\ l.stage = "sent"
  /\ \E answer \in
       {[l EXCEPT !.stage = "answered",
                  !.rows = [k \in Keys |-> IF k \in l.keys THEN server[k] ELSE None]],
        [l EXCEPT !.stage = "failed"]} :
       loads' = (loads \ {l}) \cup {answer}
  /\ UNCHANGED <<server, cache, lastLoad, calls, history>>

RowEdited(k) ==
  /\ server[k] # None /\ server[k] <= MaxEdits
  /\ server' = [server EXCEPT ![k] = @ + 1]
  /\ UNCHANGED <<cache, loads, lastLoad, calls, history>>

RowDeleted(k) ==
  /\ server[k] # None
  /\ server' = [server EXCEPT ![k] = None]
  /\ UNCHANGED <<cache, loads, lastLoad, calls, history>>

--------------------------------------------------------------------------------
Init ==
  /\ server = [k \in Keys |-> IF k \in StoredKeys THEN 1 ELSE None]
  /\ entries = NoAnswer
  /\ loadingEntries = [k \in Keys |-> 0]
  /\ loads = {} /\ lastLoad = 0
  /\ calls = {}
  /\ asked = [k \in Keys |-> 0] /\ due = [k \in Keys |-> 0]

Next ==
  \/ \E values \in SUBSET Keys : LoadMissingEntries(values)
  \/ ReloadEntries
  \/ \E l \in loads : LoadLands(l) \/ LoadFails(l) \/ ServerReads(l)
  \/ \E c \in calls : CallReturns(c)
  \/ \E k \in Keys : RowEdited(k) \/ RowDeleted(k)

Spec == Init /\ [][Next]_vars

--------------------------------------------------------------------------------
(* Safety.                                                                   *)

\* A key marked as loading is being loaded: the mark cannot outlive its request,
\* after which no call would ever ask for the key again.
LoadingHasItsLoad ==
  \A k \in Loading :
    \E l \in loads : l.id = loadingEntries[k] /\ k \in l.keys

\* "A load already in flight was sent before the edit, so its answer no longer
\* counts for the entries this reload asks for" (reloadEntries): an entry that is
\* not loading is at least as new as its row was when the entry was last asked
\* for, unless that request failed or the row is gone.
FreshAsAsked ==
  \A k \in Cached \ Loading : server[k] = None \/ entries[k] >= due[k]

\* "An older answer that arrives late cannot replace a newer one" (startLoad),
\* and the old entries stay readable until the new ones arrive: an entry never
\* disappears and never goes back to an older version of its row.
GoesForward ==
  \A k \in Cached : entries'[k] # None /\ entries'[k] >= entries[k]

\* No step takes an entry away or back.
EntriesGoForward == [][GoesForward]_vars

\* A loadMissingEntries call that returns has the entries it asked for, except
\* where the row does not exist or a later load has taken the key over.
CallFindsEntries ==
  \A c \in calls, k \in Keys :
    (Returned(c) /\ c.loadOf[k] # 0 /\ c.loadOf[k] = asked[k]) =>
      entries[k] # None \/ server[k] = None

================================================================================
