---------------------------- MODULE RestLevelSource ----------------------------
(***************************************************************************)
(* The REST-backed level source of the grid                                *)
(* (packages/grid/src/core/data-sources/rest/rest-level-source.ts): one    *)
(* table of rows on a server, the rows this source has loaded, optimistic  *)
(* cell edits confirmed by PATCH requests, row inserts and deletes, and    *)
(* page fetches ordered by a token.                                        *)
(*                                                                         *)
(* JavaScript runs one callback to completion.  Two callbacks call out to  *)
(* subscribers half way: refetch notifies before it stores its pending     *)
(* load, and a confirmed batch notifies after each of its changes.  These  *)
(* are the frames `loading` and `settling`; while one is open only calls   *)
(* made by a subscriber (Reentrant) may run.                               *)
(*                                                                         *)
(* The position of a row in the page, footers, tree context keys and the   *)
(* row total are left out: no property below depends on them.              *)
(***************************************************************************)
EXTENDS Naturals, FiniteSets, Sequences

CONSTANTS
  Rows,          \* row keys
  Cols,          \* column ids
  Values,        \* cell values
  NewRow,        \* the cells of a row when it is first stored
  StoredRows,    \* the rows the server holds at the start
  FormRows,      \* rows another form saves on the server
  Rewrites,      \* values the server may store in place of the one sent
  ReplyKinds,    \* the kinds of PATCH answer the endpoint gives
  Gone,          \* marks a row that is not there
  Keep,          \* marks a cell a PATCH answer does not mention
  NoSnapshot,    \* committedSnapshot = null
  FifoServer,    \* the server stores the edits of one cell in the order sent
  Reentrant,     \* subscribers may call the source back synchronously
  MaxFetches, MaxEdits, MaxBatch,   \* bounds on loads, edits, batch length
  Creatable, Removable              \* rows that may be created or removed

RowImages == [Cols -> Values]
Tables    == [Rows -> RowImages \cup {Gone}]
Empty     == [r \in Rows |-> Gone]

ASSUME ShapeAssumption ==
  /\ NewRow \in RowImages
  /\ StoredRows \subseteq Rows /\ FormRows \subseteq Rows
  /\ Creatable \subseteq Rows /\ Removable \subseteq Rows
  /\ Rewrites \subseteq Values
  \* the server never reuses a key
  /\ FormRows \cap (StoredRows \cup Creatable) = {} /\ StoredRows \cap Creatable = {}
ASSUME MarkAssumption ==
  Gone \notin RowImages /\ Keep \notin Values /\ NoSnapshot \notin Tables
ASSUME BoundAssumption ==
  MaxFetches \in Nat \ {0} /\ MaxEdits \in Nat /\ MaxBatch \in Nat
ASSUME SwitchAssumption == FifoServer \in BOOLEAN /\ Reentrant \in BOOLEAN
ASSUME ReplyAssumption ==
  ReplyKinds \subseteq {"value", "columns", "otherRow", "reload", "malformed", "failed"}

VARIABLES
  server,       \* the rows the server stores
  nodes,        \* the rows the source holds
  status,       \* state().status
  shown,        \* state().snapshot
  committed,    \* committedSnapshot; also the `previous` of a refresh state
  fetchToken, pendingLoad,
  loads,        \* what became of the promise each refetch returned
  fetches,      \* page requests on their way, answered or not
  loading,      \* refetch calls that are at their notification
  cellTokens, cellTokenCounter,
  patches,      \* PATCH requests whose answer has not been handled
  settling,     \* changes of a confirmed batch still to be applied
  creates, removes,
  saved,        \* rows of which a form keeps the record its save was answered
  disposed,
  emitted       \* the reconcile events of the last step

loadVars   == <<fetchToken, pendingLoad, loads, loading>>
viewVars   == <<nodes, status, shown, committed>>
tokenVars  == <<cellTokens, cellTokenCounter>>
rowOpVars  == <<creates, removes, saved>>
vars == <<server, viewVars, loadVars, fetches, tokenVars, patches, settling,
          rowOpVars, disposed, emitted>>

Statuses    == {"initialLoading", "ready", "refreshing",
                "initialError", "refreshError"}
LoadResults == {"unborn", "pending", "ready", "error", "superseded", "disposed"}
Unanswered  == [kind |-> "none", cells |-> [c \in Cols |-> Keep]]
Replies     == [kind : ReplyKinds \cup {"none", "failed"}, cells : [Cols -> Values \cup {Keep}]]
Patches     == [token : Nat, row : Rows, col : Cols, value : Values,
                prior : Values, batch : Nat, reply : Replies]
Fetches     == [token : Nat, stage : {"sent", "answered", "failed"}, rows : Tables]
Stages      == {"none", "sent", "stored", "failed", "resolved", "rejected"}
Events      == [kind : {"agreed", "diverged", "rejected"}, row : Rows, col : Cols,
                value : Values, authoritative : Values, shown : Values \cup {Gone}]

TypeOK ==
  /\ server \in Tables
  /\ nodes \in Tables /\ shown \in Tables /\ committed \in Tables \cup {NoSnapshot}
  /\ status \in Statuses
  /\ fetchToken \in Nat /\ pendingLoad \in 0 .. MaxFetches
  /\ loads \in [1 .. MaxFetches -> LoadResults]
  /\ fetches \subseteq Fetches
  /\ loading \in Seq(1 .. MaxFetches)
  /\ cellTokens \in [Rows -> [Cols -> Nat]] /\ cellTokenCounter \in Nat
  /\ patches \subseteq Patches /\ settling \subseteq Patches
  /\ creates \in [Rows -> Stages] /\ removes \in [Rows -> Stages]
  /\ saved \subseteq FormRows
  /\ disposed \in BOOLEAN
  /\ emitted \subseteq Events

--------------------------------------------------------------------------------
(* What the source reads.                                                    *)

Present(r)     == nodes[r] # Gone
IsCurrent(p)   == cellTokens[p.row][p.col] = p.token
Answered(p)    == p.reply.kind # "none"
BatchOf(b)     == {p \in patches : p.batch = b}
FramesClosed   == loading = <<>> /\ settling = {}

\* A callback of the event loop starts when no other one is running; a call of
\* the host may also come from a subscriber inside one.  The runtime stops
\* calling a source it has disposed.
EventLoop      == FramesClosed
HostCalls      == ~disposed /\ (Reentrant \/ FramesClosed)

\* Mutant of Cleared: the token of a handled edit stays.
ClearedNever(p) == cellTokens

Cleared(p) ==
  [cellTokens EXCEPT ![p.row][p.col] = IF IsCurrent(p) THEN 0 ELSE @]

(* What the source publishes.                                                *)

PublishReady(table) ==
  /\ shown' = table
  /\ committed' = table
  /\ status' = "ready"

\* Mutant of PublishDataMutation: the cached snapshot is not invalidated.
PublishDataMutationCached(table) ==
  /\ committed' = table
  /\ status' = IF status \in {"refreshing", "refreshError"} THEN status ELSE "ready"
  /\ UNCHANGED shown

PublishDataMutation(table) ==
  /\ shown' = table
  /\ committed' = table
  /\ status' = IF status \in {"refreshing", "refreshError"} THEN status ELSE "ready"

PublishLoadError ==
  /\ shown' = nodes
  /\ status' = IF committed # NoSnapshot THEN "refreshError" ELSE "initialError"
  /\ UNCHANGED <<nodes, committed>>

Mutate(table) == nodes' = table /\ PublishDataMutation(table)

Emit(events) == emitted' = IF disposed THEN {} ELSE events

\* Mutant of ResolveCurrentLoad: the settled load stays the pending one.
ResolveKeepsPending(token, result) ==
  /\ loads' = IF pendingLoad = token THEN [loads EXCEPT ![token] = result] ELSE loads
  /\ UNCHANGED pendingLoad

ResolveCurrentLoad(token, result) ==
  IF pendingLoad = token
  THEN loads' = [loads EXCEPT ![token] = result] /\ pendingLoad' = 0
  ELSE UNCHANGED <<loads, pendingLoad>>

\* Mutant of SettlePending: the replaced load is dropped without an answer.
SettleNothing(result) == loads

SettlePending(result) ==
  [t \in DOMAIN loads |-> IF t = pendingLoad THEN result ELSE loads[t]]

--------------------------------------------------------------------------------
(* Loads.                                                                    *)

\* refetch up to and including its notification: the load it replaces settles,
\* the new token and the loading state are visible, and the new pending load is
\* not stored yet.
StartLoad ==
  /\ fetchToken < MaxFetches
  /\ fetchToken' = fetchToken + 1
  /\ loads' = [SettlePending("superseded") EXCEPT ![fetchToken + 1] = "pending"]
  /\ pendingLoad' = 0
  /\ status' = IF committed # NoSnapshot THEN "refreshing" ELSE "initialLoading"
  /\ shown' = nodes
  /\ loading' = <<fetchToken + 1>> \o loading
  /\ UNCHANGED <<nodes, committed>>

Refetch ==
  /\ HostCalls
  /\ StartLoad
  /\ emitted' = {}
  /\ UNCHANGED <<server, fetches, tokenVars, patches, settling, rowOpVars, disposed>>

\* refetch after its notification: the pending load is stored, the page is
\* requested.
RequestPage ==
  /\ loading # <<>>
  /\ loading' = Tail(loading)
  /\ pendingLoad' = Head(loading)
  /\ fetches' = fetches \cup {[token |-> Head(loading), stage |-> "sent", rows |-> Empty]}
  /\ emitted' = {}
  /\ UNCHANGED <<server, viewVars, fetchToken, loads, tokenVars, patches, settling,
                 rowOpVars, disposed>>

\* The host's fetchPage throws instead of returning a promise.
RequestThrows ==
  /\ loading # <<>>
  /\ loading' = Tail(loading)
  /\ IF ~disposed /\ Head(loading) = fetchToken
     THEN /\ PublishLoadError
          /\ loads' = [loads EXCEPT ![Head(loading)] = "error"]
          /\ pendingLoad' = 0
     ELSE /\ pendingLoad' = Head(loading)
          /\ UNCHANGED <<viewVars, loads>>
  /\ emitted' = {}
  /\ UNCHANGED <<server, fetchToken, fetches, tokenVars, patches, settling,
                 rowOpVars, disposed>>

\* A page answer arrives.  Only the answer to the newest request is used.
TakePage(f) ==
  /\ EventLoop /\ f \in fetches /\ f.stage # "sent"
  /\ fetches' = fetches \ {f}
  /\ emitted' = {}
  /\ UNCHANGED <<server, fetchToken, loading, tokenVars, patches, settling,
                 rowOpVars, disposed>>

\* Mutant of PageIsStale: any page answer is taken, in the order of arrival.
PageIsNeverStale(f) == disposed

PageIsStale(f) == disposed \/ f.token # fetchToken

PageIgnored(f) ==
  /\ TakePage(f)
  /\ PageIsStale(f)
  /\ UNCHANGED <<viewVars, loads, pendingLoad>>

PageLoaded(f) ==
  /\ TakePage(f)
  /\ ~PageIsStale(f) /\ f.stage = "answered"
  /\ nodes' = f.rows
  /\ PublishReady(f.rows)
  /\ ResolveCurrentLoad(f.token, "ready")

\* The request failed, or its answer repeats a row key.
PageFailed(f) ==
  /\ TakePage(f)
  /\ ~PageIsStale(f) /\ f.stage = "failed"
  /\ PublishLoadError
  /\ ResolveCurrentLoad(f.token, "error")

\* Mutant of Dispose: the caller of the pending load is not told.
DisposeUnannounced ==
  /\ HostCalls
  /\ disposed' = TRUE
  /\ fetchToken' = fetchToken + 1
  /\ pendingLoad' = 0
  /\ cellTokens' = [r \in Rows |-> [c \in Cols |-> 0]]
  /\ emitted' = {}
  /\ UNCHANGED <<server, viewVars, loads, loading, fetches, cellTokenCounter, patches,
                 settling, rowOpVars>>

Dispose ==
  /\ HostCalls
  /\ disposed' = TRUE
  /\ fetchToken' = fetchToken + 1
  /\ loads' = SettlePending("disposed")
  /\ pendingLoad' = 0
  /\ cellTokens' = [r \in Rows |-> [c \in Cols |-> 0]]
  /\ emitted' = {}
  /\ UNCHANGED <<server, viewVars, loading, fetches, cellTokenCounter, patches,
                 settling, rowOpVars>>

--------------------------------------------------------------------------------
(* Edits.                                                                    *)

Change == [row : Rows, col : Cols, value : Values]

Request(token, change, prior, batch) ==
  [token |-> token, row |-> change.row, col |-> change.col, value |-> change.value,
   prior |-> prior, batch |-> batch, reply |-> Unanswered]

\* One optimistic edit.  batch = 0 marks a request that settles on its own.
SetCell(change) ==
  /\ HostCalls
  /\ Present(change.row)
  /\ cellTokenCounter < MaxEdits
  /\ LET token == cellTokenCounter + 1
     IN  /\ Mutate([nodes EXCEPT ![change.row][change.col] = change.value])
         /\ cellTokens' = [cellTokens EXCEPT ![change.row][change.col] = token]
         /\ cellTokenCounter' = token
         /\ patches' = patches \cup
              {Request(token, change, nodes[change.row][change.col], 0)}
  /\ emitted' = {}
  /\ UNCHANGED <<server, loadVars, fetches, settling, rowOpVars, disposed>>

\* The last of the first n changes that touches a cell, and the value the cell
\* has after those n changes.
IsLastTouch(changes, n, r, c, i) ==
  /\ changes[i].row = r /\ changes[i].col = c
  /\ \A j \in 1 .. n : (changes[j].row = r /\ changes[j].col = c) => j <= i

ValueAfter(changes, n, r, c) ==
  IF \E i \in 1 .. n : IsLastTouch(changes, n, r, c, i)
  THEN changes[CHOOSE i \in 1 .. n : IsLastTouch(changes, n, r, c, i)].value
  ELSE nodes[r][c]

LastToken(changes, r, c) ==
  IF \E i \in DOMAIN changes : IsLastTouch(changes, Len(changes), r, c, i)
  THEN cellTokenCounter +
       CHOOSE i \in DOMAIN changes : IsLastTouch(changes, Len(changes), r, c, i)
  ELSE cellTokens[r][c]

\* Several optimistic edits published at once and settled together.  The batch
\* is named by its first token.
ApplyChanges(changes) ==
  /\ HostCalls
  /\ changes # <<>>
  /\ \A i \in DOMAIN changes : Present(changes[i].row)
  /\ cellTokenCounter + Len(changes) <= MaxEdits
  /\ Mutate([r \in Rows |->
       IF Present(r) THEN [c \in Cols |-> ValueAfter(changes, Len(changes), r, c)]
       ELSE Gone])
  /\ cellTokens' = [r \in Rows |-> [c \in Cols |-> LastToken(changes, r, c)]]
  /\ cellTokenCounter' = cellTokenCounter + Len(changes)
  /\ patches' = patches \cup
       {Request(cellTokenCounter + i, changes[i],
                ValueAfter(changes, i - 1, changes[i].row, changes[i].col),
                cellTokenCounter + 1) : i \in DOMAIN changes}
  /\ emitted' = {}
  /\ UNCHANGED <<server, loadVars, fetches, settling, rowOpVars, disposed>>

Authoritative(p) ==
  IF p.reply.cells[p.col] = Keep THEN p.value ELSE p.reply.cells[p.col]

\* Mutant of Merge: cells the answer does not mention are overwritten too.
MergeBlindly(image, cells) == cells

Merge(image, cells) ==
  [c \in Cols |-> IF cells[c] = Keep THEN image[c] ELSE cells[c]]

CellIn(table, r, c) == IF table[r] = Gone THEN Gone ELSE table[r][c]

Reconciled(kind, p, authoritative, table) ==
  [kind |-> kind, row |-> p.row, col |-> p.col, value |-> p.value,
   authoritative |-> authoritative, shown |-> CellIn(table, p.row, p.col)]

\* Mutant of Writes: a single authoritative value is never written.
WritesColumnsOnly(p) == Present(p.row) /\ p.reply.kind = "columns"

\* Does the answer p write the rows?  A single value is written only when it
\* differs from the optimistic one; a row or a patch of it always is.
Writes(p) ==
  /\ Present(p.row)
  /\ p.reply.kind = "columns" \/ Authoritative(p) # p.value

\* A row under another key is refused, unless the edited row is not loaded any
\* more: then nothing compares the keys.
NamesLostRow(p) == p.reply.kind = "otherRow" /\ ~Present(p.row)

\* The three ways a current answer is applied.
Confirm(p) ==
  /\ p.reply.kind \in {"value", "columns"} \/ NamesLostRow(p)
  /\ IF Writes(p)
     THEN Mutate([nodes EXCEPT ![p.row] = Merge(@, p.reply.cells)])
     ELSE UNCHANGED viewVars
  /\ Emit({Reconciled(IF Authoritative(p) = p.value THEN "agreed" ELSE "diverged",
                      p, Authoritative(p), nodes')})
  /\ UNCHANGED <<loadVars, fetches>>

Reload(p) ==
  /\ p.reply.kind = "reload"
  /\ StartLoad
  /\ Emit({Reconciled("agreed", p, p.value, nodes)})
  /\ UNCHANGED fetches

\* The request failed, its answer has no result, or names another row.
Reject(p) ==
  /\ p.reply.kind \in {"failed", "malformed", "otherRow"} /\ ~NamesLostRow(p)
  /\ Emit({Reconciled("rejected", p, p.value, nodes)})
  /\ UNCHANGED <<viewVars, loadVars, fetches>>

\* An answer to a single edit arrives.
TakeAnswer(p) ==
  /\ EventLoop /\ p \in patches /\ p.batch = 0 /\ Answered(p)
  /\ patches' = patches \ {p}
  /\ UNCHANGED <<server, cellTokenCounter, settling, rowOpVars, disposed>>

AnswerIgnored(p) ==
  /\ TakeAnswer(p)
  /\ disposed \/ ~IsCurrent(p)
  /\ emitted' = {}
  /\ UNCHANGED <<viewVars, loadVars, fetches, cellTokens>>

\* Mutant of AnswerApplied: the token of the edit is not looked at.
AnswerAlwaysApplied(p) ==
  /\ TakeAnswer(p)
  /\ ~disposed
  /\ cellTokens' = Cleared(p)
  /\ Confirm(p) \/ Reload(p) \/ Reject(p)

AnswerApplied(p) ==
  /\ TakeAnswer(p)
  /\ ~disposed /\ IsCurrent(p)
  /\ cellTokens' = Cleared(p)
  /\ Confirm(p) \/ Reload(p) \/ Reject(p)

\* Every answer of a batch is there.  Changes superseded by a later edit are
\* dropped; the others are reverted together or confirmed one after the other.
TakeBatch(b) ==
  /\ EventLoop /\ BatchOf(b) # {} /\ b # 0 /\ \A p \in BatchOf(b) : Answered(p)
  /\ patches' = patches \ BatchOf(b)
  /\ UNCHANGED <<server, loadVars, fetches, cellTokenCounter, rowOpVars, disposed>>

LiveOf(b)  == {p \in BatchOf(b) : IsCurrent(p)}
AnyLiveRejected(b) == \E p \in LiveOf(b) : p.reply.kind = "failed"
LiveAt(b, r, c) == {p \in LiveOf(b) : p.row = r /\ p.col = c}

BatchIgnored(b) ==
  /\ TakeBatch(b)
  /\ disposed
  /\ emitted' = {}
  /\ UNCHANGED <<viewVars, cellTokens, settling>>

Reverted(b) ==
  [r \in Rows |->
     IF Present(r)
     THEN [c \in Cols |-> IF LiveAt(b, r, c) = {} THEN nodes[r][c]
                          ELSE (CHOOSE p \in LiveAt(b, r, c) : TRUE).prior]
     ELSE Gone]

BatchReverted(b) ==
  /\ TakeBatch(b)
  /\ ~disposed /\ AnyLiveRejected(b)
  /\ Mutate(Reverted(b))
  /\ cellTokens' = [r \in Rows |-> [c \in Cols |->
                      IF LiveAt(b, r, c) = {} THEN cellTokens[r][c] ELSE 0]]
  /\ emitted' = {Reconciled("rejected", p, p.value, Reverted(b)) : p \in LiveOf(b)}
  /\ UNCHANGED settling

BatchConfirmed(b) ==
  /\ TakeBatch(b)
  /\ ~disposed /\ ~AnyLiveRejected(b)
  /\ settling' = LiveOf(b)
  /\ emitted' = {}
  /\ UNCHANGED <<viewVars, cellTokens>>

\* The next change of a confirmed batch is applied, in the order of the batch.
BatchSettlesOne(p) ==
  /\ loading = <<>>
  /\ p \in settling /\ \A q \in settling : p.token <= q.token
  /\ settling' = settling \ {p}
  /\ cellTokens' = Cleared(p)
  /\ Confirm(p) \/ Reload(p) \/ Reject(p)
  /\ UNCHANGED <<server, cellTokenCounter, patches, rowOpVars, disposed>>

--------------------------------------------------------------------------------
(* Rows created, added and removed.                                          *)

CreateNode(r) ==
  /\ HostCalls
  /\ r \in Creatable /\ creates[r] = "none" /\ ~Present(r)
  /\ creates' = [creates EXCEPT ![r] = "sent"]
  /\ emitted' = {}
  /\ UNCHANGED <<server, viewVars, loadVars, fetches, tokenVars, patches, settling,
                 removes, saved, disposed>>

TakeCreated(r) ==
  /\ EventLoop /\ creates[r] \in {"stored", "failed"}
  /\ emitted' = {}
  /\ UNCHANGED <<server, loadVars, fetches, tokenVars, patches, settling, removes,
                 saved, disposed>>

\* The insert failed, or the row came in with a page or a form meanwhile.
CreateRejected(r) ==
  /\ TakeCreated(r)
  /\ creates[r] = "failed" \/ (~disposed /\ Present(r))
  /\ creates' = [creates EXCEPT ![r] = "rejected"]
  /\ UNCHANGED viewVars

\* Mutant of CreateResolved: disposal is not looked at.
CreateAlwaysInserted(r) ==
  /\ TakeCreated(r)
  /\ creates[r] = "stored" /\ ~Present(r)
  /\ creates' = [creates EXCEPT ![r] = "resolved"]
  /\ Mutate([nodes EXCEPT ![r] = NewRow])

CreateResolved(r) ==
  /\ TakeCreated(r)
  /\ creates[r] = "stored" /\ (disposed \/ ~Present(r))
  /\ creates' = [creates EXCEPT ![r] = "resolved"]
  /\ IF disposed THEN UNCHANGED viewVars
     ELSE Mutate([nodes EXCEPT ![r] = NewRow])

\* The record a form kept of its save joins the loaded rows.  The host may have
\* waited for the rows to settle since; what the server stores now is not asked.
AddSavedNode(r) ==
  /\ HostCalls
  /\ r \in saved /\ ~Present(r)
  /\ Mutate([nodes EXCEPT ![r] = NewRow])
  /\ emitted' = {}
  /\ UNCHANGED <<server, loadVars, fetches, tokenVars, patches, settling, rowOpVars,
                 disposed>>

RemoveNode(r) ==
  /\ HostCalls
  /\ r \in Removable /\ removes[r] = "none" /\ Present(r)
  /\ removes' = [removes EXCEPT ![r] = "sent"]
  /\ emitted' = {}
  /\ UNCHANGED <<server, viewVars, loadVars, fetches, tokenVars, patches, settling,
                 creates, saved, disposed>>

\* Mutant of RemoveSettles: the deleted row stays loaded.
RemoveKeepsRow(r) ==
  /\ EventLoop /\ removes[r] \in {"stored", "failed"}
  /\ removes' = [removes EXCEPT ![r] = IF @ = "stored" THEN "resolved" ELSE "rejected"]
  /\ emitted' = {}
  /\ UNCHANGED <<server, viewVars, loadVars, fetches, tokenVars, patches, settling,
                 creates, saved, disposed>>

RemoveSettles(r) ==
  /\ EventLoop /\ removes[r] \in {"stored", "failed"}
  /\ removes' = [removes EXCEPT ![r] = IF @ = "stored" THEN "resolved" ELSE "rejected"]
  /\ IF removes[r] = "stored" /\ ~disposed /\ Present(r)
     THEN Mutate([nodes EXCEPT ![r] = Gone])
     ELSE UNCHANGED viewVars
  /\ emitted' = {}
  /\ UNCHANGED <<server, loadVars, fetches, tokenVars, patches, settling, creates,
                 saved, disposed>>

--------------------------------------------------------------------------------
(* The server, behind the endpoints the host wires.                          *)

clientVars == <<viewVars, loadVars, tokenVars, settling, disposed>>

\* The server reads the page; the answer is on its way back.
ServerReadsPage(f) ==
  /\ f \in fetches /\ f.stage = "sent"
  /\ \E g \in {[f EXCEPT !.stage = "answered", !.rows = server],
               [f EXCEPT !.stage = "failed"]} :
       fetches' = (fetches \ {f}) \cup {g}
  /\ emitted' = {}
  /\ UNCHANGED <<server, clientVars, patches, rowOpVars>>

\* What a PATCH answer may carry once the cell holds v: the cell, any cells of
\* the row, or the row under another key.
ReplyTo(p, v, kind) ==
  LET image == [server[p.row] EXCEPT ![p.col] = v]
  IN  CASE kind = "value"   -> {[kind |-> kind, cells |-> [Unanswered.cells EXCEPT ![p.col] = v]]}
        [] kind = "columns" -> {[kind |-> kind, cells |-> [c \in Cols |->
                                   IF c \in named THEN image[c] ELSE Keep]] :
                                named \in SUBSET Cols}
        [] kind = "otherRow" -> {[kind |-> kind, cells |-> image]}
        [] OTHER            -> {[kind |-> kind, cells |-> Unanswered.cells]}

MayStore(p) ==
  FifoServer => \A q \in patches :
    (q.row = p.row /\ q.col = p.col /\ ~Answered(q)) => p.token <= q.token

AnswerWith(p, reply) == patches' = (patches \ {p}) \cup {[p EXCEPT !.reply = reply]}

\* The server stores the edit.  Its answer may still be lost ("failed").
ServerStoresCell(p) ==
  /\ p \in patches /\ ~Answered(p) /\ MayStore(p)
  /\ server[p.row] # Gone
  /\ \E v \in {p.value} \cup Rewrites, kind \in ReplyKinds :
       \E reply \in ReplyTo(p, v, kind) :
         /\ server' = [server EXCEPT ![p.row][p.col] = v]
         /\ AnswerWith(p, reply)
  /\ emitted' = {}
  /\ UNCHANGED <<clientVars, fetches, rowOpVars>>

ServerRefusesCell(p) ==
  /\ p \in patches /\ ~Answered(p) /\ MayStore(p)
  /\ "failed" \in ReplyKinds \/ server[p.row] = Gone
  /\ AnswerWith(p, [kind |-> "failed", cells |-> Unanswered.cells])
  /\ emitted' = {}
  /\ UNCHANGED <<server, clientVars, fetches, rowOpVars>>

ServerInserts(r) ==
  /\ creates[r] = "sent"
  /\ \/ /\ server[r] = Gone
        /\ server' = [server EXCEPT ![r] = NewRow]
        /\ creates' = [creates EXCEPT ![r] = "stored"]
     \/ /\ creates' = [creates EXCEPT ![r] = "failed"]
        /\ UNCHANGED server
  /\ emitted' = {}
  /\ UNCHANGED <<clientVars, fetches, patches, removes, saved>>

ServerDeletes(r) ==
  /\ removes[r] = "sent"
  /\ \/ /\ server' = [server EXCEPT ![r] = Gone]
        /\ removes' = [removes EXCEPT ![r] = "stored"]
     \/ /\ removes' = [removes EXCEPT ![r] = "failed"]
        /\ UNCHANGED server
  /\ emitted' = {}
  /\ UNCHANGED <<clientVars, fetches, patches, creates, saved>>

\* Another form saves a new row and keeps the record it is answered.
FormSaves(r) ==
  /\ r \in FormRows \ saved
  /\ server' = [server EXCEPT ![r] = NewRow]
  /\ saved' = saved \cup {r}
  /\ emitted' = {}
  /\ UNCHANGED <<clientVars, fetches, patches, creates, removes>>

\* Someone else edits or deletes a saved row.
OthersChange(r) ==
  /\ r \in saved /\ server[r] # Gone
  /\ \E image \in RowImages \cup {Gone} : server' = [server EXCEPT ![r] = image]
  /\ emitted' = {}
  /\ UNCHANGED <<clientVars, fetches, patches, rowOpVars>>

--------------------------------------------------------------------------------
\* Construction requests the first page.
Init ==
  /\ server = [r \in Rows |-> IF r \in StoredRows THEN NewRow ELSE Gone]
  /\ nodes = Empty /\ shown = Empty /\ committed = NoSnapshot
  /\ status = "initialLoading"
  /\ fetchToken = 1 /\ pendingLoad = 1 /\ loading = <<>>
  /\ loads = [t \in 1 .. MaxFetches |-> IF t = 1 THEN "pending" ELSE "unborn"]
  /\ fetches = {[token |-> 1, stage |-> "sent", rows |-> Empty]}
  /\ cellTokens = [r \in Rows |-> [c \in Cols |-> 0]] /\ cellTokenCounter = 0
  /\ patches = {} /\ settling = {}
  /\ creates = [r \in Rows |-> "none"] /\ removes = [r \in Rows |-> "none"] /\ saved = {}
  /\ disposed = FALSE
  /\ emitted = {}

Batches == UNION {[1 .. n -> Change] : n \in 1 .. MaxBatch}

HostStep ==
  \/ Refetch \/ Dispose
  \/ \E change \in Change : SetCell(change)
  \/ \E changes \in Batches : ApplyChanges(changes)
  \/ \E r \in Rows : CreateNode(r) \/ AddSavedNode(r) \/ RemoveNode(r)

LoadStep ==
  \/ RequestPage \/ RequestThrows
  \/ \E f \in fetches : PageIgnored(f) \/ PageLoaded(f) \/ PageFailed(f)

EditStep ==
  \/ \E p \in patches : AnswerIgnored(p) \/ AnswerApplied(p)
  \/ \E p \in patches :
       BatchIgnored(p.batch) \/ BatchReverted(p.batch) \/ BatchConfirmed(p.batch)
  \/ \E p \in settling : BatchSettlesOne(p)

RowStep == \E r \in Rows : CreateRejected(r) \/ CreateResolved(r) \/ RemoveSettles(r)

ServerStep ==
  \/ \E f \in fetches : ServerReadsPage(f)
  \/ \E p \in patches : ServerStoresCell(p) \/ ServerRefusesCell(p)
  \/ \E r \in Rows :
       ServerInserts(r) \/ ServerDeletes(r) \/ FormSaves(r) \/ OthersChange(r)

Next == HostStep \/ LoadStep \/ EditStep \/ RowStep \/ ServerStep

Spec == Init /\ [][Next]_vars

\* The event loop runs the callbacks that are due and the endpoints answer
\* every request, with a result or an error.  Nothing obliges the host to call.
AnswersArrive == (\E f \in fetches : ServerReadsPage(f))
                 \/ (\E p \in patches : ServerStoresCell(p) \/ ServerRefusesCell(p))
FairSpec == Spec /\ WF_vars(LoadStep) /\ WF_vars(EditStep) /\ WF_vars(AnswersArrive)

--------------------------------------------------------------------------------
(* Safety.                                                                   *)

\* The state a subscriber reads is always the rows the source holds: no path
\* through a load, an edit, an answer or a row operation changes the rows and
\* leaves an older snapshot published or committed, and the two refresh states
\* exist only over a committed snapshot.
SnapshotCoherent ==
  /\ shown = nodes
  /\ committed \in {nodes, NoSnapshot}
  /\ committed = NoSnapshot => nodes = Empty
  /\ status \in {"ready", "refreshing", "refreshError"} <=> committed # NoSnapshot

\* "User workflows wait only for the load whose token can still publish state"
\* (the comment at the head of refetch): the pending load is the newest one and
\* its page request has not been handled.
PendingLoadCanPublish ==
  pendingLoad # 0 =>
    /\ pendingLoad = fetchToken
    /\ loads[pendingLoad] = "pending"
    /\ \E f \in fetches : f.token = pendingLoad

\* A load promise nobody will settle does not exist: the only unsettled ones
\* are the pending load and those of refetch calls still on the stack.
NoAbandonedLoad ==
  \A t \in DOMAIN loads :
    loads[t] = "pending" =>
      t = pendingLoad \/ \E i \in DOMAIN loading : loading[i] = t

\* A live source that shows a loading state has a load under way that ends it.
LoadingMeansLoad ==
  (status \in {"initialLoading", "refreshing"} /\ ~disposed) =>
    pendingLoad # 0 \/ loading # <<>>

\* A cell marked as being saved is being saved: its token belongs to an edit of
\* that cell whose answer is still to be handled, so the mark cannot leak.
LiveTokenHasItsEdit ==
  \A r \in Rows, c \in Cols :
    cellTokens[r][c] # 0 =>
      \E p \in patches \cup settling :
        p.row = r /\ p.col = c /\ p.token = cellTokens[r][c]

(* What a step may never do.                                                 *)

\* Handling the answer of a superseded edit, or any answer after disposal,
\* neither writes a row nor moves the state, starts a load or tells the host.
DropsSuperseded ==
  \A p \in patches \ patches' :
    (p.batch = 0 /\ (disposed \/ ~IsCurrent(p))) =>
      emitted' = {} /\ UNCHANGED <<viewVars, loadVars>>

\* Superseded and late answers are dropped whole, in every step.
SupersededAnswerIsInert == [][DropsSuperseded]_vars

\* An older page never replaces what a newer load shows: a page answer that is
\* handled changes nothing, or belongs to the newest load, settles that load and,
\* when it is ready, shows exactly its own rows.
ShowsNewest ==
  \A f \in fetches \ fetches' :
    \/ UNCHANGED <<viewVars, loads>>
    \/ /\ f.token = fetchToken
       /\ \/ loads'[f.token] = "error"
          \/ loads'[f.token] = "ready" /\ status' = "ready" /\ nodes' = f.rows

\* No step lets an older page show.
OnlyNewestPageShows == [][ShowsNewest]_vars

\* "By the time the host sees this event the grid is showing truth" (the
\* diverged event in packages/grid/src/core/data-sources/types.ts): a diverged
\* event names the value the grid shows, or a row that is not loaded any more.
DivergedShowsTruth ==
  \A e \in emitted :
    e.kind = "diverged" => e.shown \in {e.authoritative, Gone}

\* A disposed source is silent: late answers change nothing a host can see and
\* reach no listener.
StaysSilent == disposed => emitted' = {} /\ UNCHANGED viewVars

\* No step after disposal is seen or heard.
SilentAfterDispose == [][StaysSilent]_vars

(* The contract of a level source: the unsettled promise is its load, the    *)
(* newest one answered "ready" the load it shows.                            *)

Newest(ts) == IF ts = {} THEN 0 ELSE CHOOSE t \in ts : \A u \in ts : u <= t

LoadsThatAre(result) == {t \in DOMAIN loads : loads[t] = result}

UnderWay == Newest(LoadsThatAre("pending"))
OnScreen == Newest(LoadsThatAre("ready"))
Phase    == CASE status \in {"initialLoading", "refreshing"} -> "loading"
              [] status = "ready"                            -> "ready"
              [] OTHER                                       -> "error"

Source == INSTANCE LevelSource WITH
  Loads <- 1 .. MaxFetches, NoLoad <- 0,
  status <- Phase, load <- UnderWay, shown <- OnScreen, stopped <- disposed

\* What callers hear of their loads and what the state shows keep the contract of
\* a level source: pages show in the order they were asked for, a load is given
\* up only for a newer one, a failure or disposal, and the status leaves loading
\* only when the load under way lands or fails, or a row comes before any page.
\* A subscriber that calls back from the loading notification breaks it: if it
\* disposes the source, the load is stored as pending after that.
KeepsSourceContract == Source!Spec

(* Liveness.                                                                 *)

\* Every caller that awaits a load is answered: with its page, an error, or
\* word that the load was superseded or the source disposed.
EveryLoadSettles ==
  \A t \in 1 .. MaxFetches : (loads[t] = "pending") ~> (loads[t] # "pending")

\* Every edit is reconciled: its cell is not marked as being saved for ever.
EveryEditSettles ==
  \A r \in Rows, c \in Cols, t \in 1 .. MaxEdits :
    (cellTokens[r][c] = t) ~> (cellTokens[r][c] # t)

================================================================================
