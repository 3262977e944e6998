# Sapporta in TLA+

Sapporta is a framework for small database applications: a server library
(`packages/core`) derives a REST API from SQLite tables, and a grid
(`packages/grid`, `packages/frontend`) edits those tables in the browser. This
directory holds TLA+ modules of the parts in which operations overlap, the TLC
configurations that check them and TLAPS proofs about them.

Nearly all concurrency of the system is on the client. The server runs each
request in one synchronous SQLite transaction. The grid, in contrast, shows rows
it has only partly loaded, edits them before the server has confirmed anything,
saves drafts in the background and labels foreign keys from caches, all while
requests are answered in any order, or not at all. The modules start there.

Tools: `tlc -config X.cfg M` for the runs below, `tlapm M.tla` for the proofs.

## 1. Inventory

Paths are below `src/packages/`; `grid/` stands for `grid/src/core/` and `lookup/` for
`grid/src/lookup/`.

| Component | State | Operations | Meets | What is hard |
|---|---|---|---|---|
| REST level source, `grid/data-sources/rest/rest-level-source.ts` | loaded rows, shown and committed snapshot, status, fetch token, pending load, cell tokens, structural snapshots | `refetch`/`query`, `setCell`, `applyChanges`, `createNode`, `addSavedNode`, `removeNode`, `dispose` | endpoints of the application; runtime and React through `subscribe` and reconcile events | pages and PATCH answers in any order; edits during a load; batches that fail in part; subscribers that call back |
| Draft rows, `grid/runtime/drafts.ts`, `grid/runtime/phantom-row-lifecycle.ts`, `grid/data-sources/phantom-channel.ts` | drafts of each path, pending creates | add, edit, remove, `commit`, save on leave, the automatic blank row | level source (`createNode`), cursor, runtime lifetime | two commits in one turn; a create that outlives its draft or level; source notifications that move the blank row |
| Value lookup cache, `lookup/cache/value-lookup.ts` | entry of each value, the load each value waits for | `loadMissingEntries`, `reloadEntries` | label endpoint; cells and pickers | a reload overtaken by an older answer; shared loads; failures |
| Search lookup cache, `lookup/cache/search-lookup.ts` | a page per search text, searches on their way, latest request of each text, stale marks | `loadSearchResults`, `markSearchesStale` | search endpoint; pickers | an answer that was sent before rows were edited; sharing; eviction |
| Computed values and trees of lookup rows, `frontend/src/lookup/row-data.ts`, `source.ts` | values drawn, fresh and failed fields, queue, loads in flight, generation; the tree and its state | ask, flush, store, invalidate; read the tree, reload it | both lookup caches, table API, reports | answers from before and after an invalidation; what a failed or overtaken lookup leaves behind |
| Report dataset, `frontend/src/report/components/ReportGridDataset.tsx` | none that stays | show a dataset | computed values | values that came with the report |
| Row removal and targets, `grid/runtime/row-operations.ts`, `grid/runtime/source-registry.ts` | registered sources, membership generations, retained targets | register, unregister, remove several rows | level sources, tree expansion, confirmation dialogs | a row that leaves and another that takes its key between request and removal; removal of several rows that fails half way |
| Loaded-rows boundary, `grid/runtime/loaded-boundary.ts`, `frontend/src/table/page/table-grid-pager-boundary.ts` | one pending landing; the request that waits for its button | request a landing, activate or leave the button, source notifications | root source, cursor, pager | a notification of another load; a load that is replaced |
| Grid runtime, `grid/runtime/runtime.ts`, `grid/runtime/mutations.ts` | registered levels, operations in flight, retained resources | `runOperation`, mutations, `dispose` | everything in the grid | disposal while operations run; what is released, and when |
| Tree expansion and displayed rows, `grid/runtime/tree-expansion.ts`, `grid/displayed-rows/` | expanded rows; the flat list of rows is derived | expand, collapse, derive | level sources, cursor | derivation of a tree that is partly loaded |
| In-memory sources, `grid/data-sources/memory/` | rows | as the REST source, synchronous | runtime | nothing is outstanding |
| Interaction, `grid/interaction/` | cursors, editing cell, selection | key handling, cursor moves | displayed rows, drafts | cursor continuation after rows change |
| Table grid session, `frontend/src/table/tgrid/tgrid-session.ts`, `frontend/src/table/page/table-grid-url-state.ts` | query store, what the URL and the store agree on, calls of `showRow` | commands, read and write the URL, reload, `showRow`, `dispose` | root source, router | rows, controls and URL that go apart; waiting on loads that are superseded |
| Session store, `frontend/src/auth/state/auth-store.ts` | session, status | load, log in, log out, switch workspace, refresh | auth API | answers of commands that overlap |
| Save pipeline and row access, `core/src/rows/`, `core/src/auth/` | none between requests | validate, authorize, save | SQLite | one transaction each |
| Query API, `core/src/api/`, `shared/src/filter.ts` | none | parse, build SQL | SQLite | large but sequential |
| Migration guard, `core/src/migrations/guard.ts` | none | compare ledger and files | start-up | ordering of migrations |
| Scaffolding, `core/src/cli/init.ts`, `core/src/cli/init-project/` | staging directory, target path | the steps of `sapporta init`, repair of the SQLite binding, publication | package manager, git, other processes | a step that fails or is killed; two runs that aim at one path |
| CLI, templates, routing (`honest`), presentation (`ui`) | none, or text | | | I/O, text and layout |

What makes each of the first components correct:

* **Level source**: subscribers always read the rows it holds; only the newest
  load shows and every load promise is answered; a late answer to an edit that
  was edited over does nothing; every edit ends; rows agree with the server once
  things are quiet, unless one of the named races happened.
* **Drafts**: a draft is never inserted twice at a time, never locked for ever and
  never dropped with what a user typed; every commit caller is answered.
* **Rows and levels**: a removal reaches exactly the row it was issued for, children
  first; levels below a removed row go with it; the cursor is on a row or on none.
* **Boundary**: a landing that is pending has something to wait for, and once its load
  has been asked for it lands on the rows of that load and no other.
* **Table page**: rows that count as ready are those of the query the controls show;
  a waiting `showRow` is woken.
* **Scaffolding**: a project directory appears complete in one step or not at all, and no
  staging directory stays behind.
* **Lookup caches**: labels and trusted pages only go forward; what is asked for
  after an edit is not answered from before it; no key is stuck as "loading".

The list of hazards, each at its line, is in `PROJECT.json`.

## 2. Modules

| Module | Contents |
|---|---|
| `LevelSource` | what the rows of a level promise to whoever shows them |
| `RestLevelSource` | the REST level source with its endpoints, and its refinement mapping to `LevelSource` |
| `RestConvergence` | extends it by the history variable `raced`: when its rows are the server's |
| `MCRestLevelSource` | instances of both |
| `RestLevelSource_proofs` | type correctness; what is shown; who is waited for; the refinement |
| `RestConvergence_proofs` | `ConvergesUnlessRaced` |
| `DraftCommit`, `MCDraftCommit` | drafts of one path, from the first key typed to the inserted row |
| `DraftCommit_proofs` | its invariant and step properties |
| `ValueLookup` | cache of labels |
| `SearchLookup`, `MCSearchLookup` | cache of search pages |
| `Lookups_proofs` | type correctness and the properties of both caches |
| `RowData` | computed values and tree of one table's rows |
| `ReportRowData` | extends `RowData` by the dataset of a report, which also brings values |
| `GridRuntime` | levels of a grid, row targets and removals, disposal |
| `GridRuntime_proofs` | type correctness, its invariant and step properties |
| `LoadedBoundary` | navigation over the edge of a page |
| `LoadedBoundary_proofs` | its invariant, and that its root source is a `LevelSource` |
| `TableSession` | commands, URL, reloads and `showRow` of a table page |
| `Frontend_proofs` | type correctness and the properties of `RowData` and `TableSession`; the root source of the session is a `LevelSource` |
| `AtomicPublish` | what `sapporta init` promises about the path it creates |
| `InitProject` | the steps of init, with the refinement mapping to `AtomicPublish` |
| `InitProject_proofs` | the invariant of init and the refinement |
| `MCRows`, `MCGrid`, `MCProject` | instances; each explores several of the modules above in one run |

`MCRows` holds `RestConvergence` and `GridRuntime`; `MCGrid` holds `DraftCommit`,
`ValueLookup`, `SearchLookup` and `LoadedBoundary`; `MCProject` holds `InitProject`,
`TableSession` and `RowData`. The parts of such a module share no variable and no call:
an interleaving of two of them shows nothing that each alone does not, so a behaviour
chooses its part at the start (`part`) and the state space is the sum of the parts and
not their product. They EXTEND the modules, so that a run and a theorem speak of the same definition.

The modules meet where one stands for another. `TableSession` and `LoadedBoundary` have a
root source of their own, a few variables in place of the REST source. What such a source
may do is said once, in `LevelSource`:

| Module | `status` | `load` | `shown` | `stopped` | Property |
|---|---|---|---|---|---|
| `RestLevelSource` | `Phase` (`initialLoading` and `refreshing` are one, as are the errors) | `UnderWay`: the load whose promise is unsettled | `OnScreen`: the newest load whose promise was answered "ready" | `disposed` | `KeepsSourceContract` |
| `TableSession` | `status` | `load.query` | `shown` | `disposed` | `RootKeepsSourceContract` |
| `LoadedBoundary` | `rowsStatus` | `load` | `shown` | `left` | `PagesKeepSourceContract` |

Each of the three specifications implies `LevelSource!Spec` under this mapping: TLC checks it and
section 4 proves it. So the stand-ins show no step of a source that `LevelSource`
forbids, and neither does the real source; only what the abstract module leaves open (a
load that fails, or none at all for as long as nobody asks) is left to each of them.
A row that is saved before the first page has landed makes the REST source "ready" while
its first load is under way (`publishDataMutation`, `rest-level-source.ts:273`): that is
`RowComesFirst`. Neither stand-in takes this step: `LoadedBoundary` starts with a page shown,
and `TableSession` adds the row of a `showRow` only after rows were read. `DraftCommit` and `GridRuntime` know of
a source only what it publishes, in any order.

An operator that begins with "Mutant of" in its comment is a plausible mistake in
the operator it precedes. No specification uses it; it shows which property
notices the mistake (`PROJECT.json`, "mutants").

### RestLevelSource

JavaScript runs a callback to its end, so an action is a callback: a call of the
host up to its first `await`, or the continuation that takes an answer. There
are two exceptions, where the code calls subscribers while half done and these
may call back: `refetch` notifies before it stores its pending load (frame
`loading`), and a confirmed batch notifies after each change (frame `settling`).
While a frame is open only host calls run, and only with `Reentrant = TRUE`.
Notifications anywhere else are treated as atomic.

| TLA+ | Code |
|---|---|
| `nodes`, `shown`, `committed`, `status` | `nodes`, the snapshot in `currentState`, `committedSnapshot`, `currentState.status` |
| `fetchToken`, `pendingLoad`, `loads` | `fetchToken`, `pendingLoad`; what became of the promise that `refetch` returned |
| `cellTokens`, `cellTokenCounter` | tokens that say which edit of a cell is current |
| `fetches`, `patches`, `creates`, `removes` | requests on their way, answered or not |
| `Refetch`, `RequestPage`, `RequestThrows` | `refetch` up to its notification, the rest of it, a request that throws at once |
| `PageIgnored`, `PageLoaded`, `PageFailed` | continuation of `fetchPage` |
| `SetCell`, `AnswerIgnored`, `AnswerApplied` | `setCell` and its continuation with `applyPatchCellResponse` |
| `ApplyChanges`, `BatchIgnored`, `BatchReverted`, `BatchConfirmed`, `BatchSettlesOne` | `applyChanges` and its continuation |
| `CreateNode`, `CreateRejected`, `CreateResolved`, `AddSavedNode`, `RemoveNode`, `RemoveSettles` | row operations |
| `Dispose` | `dispose` |
| `Server...`, `FormSaves`, `OthersChange`, `saved` | the application's endpoints and forms, from how the source uses them; the rows of which a form keeps the record |

Abstracted: the order of rows in a page, footers, tree context keys, structural
snapshots and totals. A row is the function from columns to values. A PATCH
answer is the cell, the row (with or without the cell), a row under another key,
"reload", something malformed, or an error; the server may store another value
than the one sent (`Rewrites`) and an error may follow a write that was stored. The
server never uses the key of a row again (`ShapeAssumption`). A row answer names any of the cells.
`AddSavedNode` takes the record its caller kept from the answer to a save (`NewRow`), not what
the server stores by then: between the two, `showRow` waits for the rows to settle, and
`OthersChange` may edit or delete the row.

`RestConvergence` adds no behaviour. `raced` becomes TRUE with a step that is one of the
named races (`Races`) and FALSE with a page that lands undisturbed (`IsFresh`). While it
is FALSE, `ConvergesUnlessRaced` asks two things: a row that is shown is stored, unless
the answer to its removal is on its way; and a cell that is not marked as being
saved shows what the server stores. The races:

| Race | What parts source and server |
|---|---|
| a page that is not fresh | it was read before something was stored, or lands while an edit is being saved |
| `OtherCellsLand` | a row answer names a sibling cell that is being saved or has changed since, or leaves out a cell the server rewrote |
| `ReloadAsked` | the answer leaves it to the next page what was stored |
| `EditRejected` | an error, after which the write may be stored or not |
| `OvertakenInBatch` | a subscriber edits a cell in the middle of its batch |
| `HandledOutOfOrder` | the server handles the later of two edits of a cell first |
| `CreateLandsLate` | the answer to an insert comes after the row was edited elsewhere or removed |
| `SavedRowIsOld` | the record a form kept of a row joins the rows after the row was edited or deleted on the server |
| `ChangedElsewhere` | someone else edits or deletes a row that is loaded |

### DraftCommit

The drafts of one path; the source appears as its status, its number of rows and
whether a row can be appended (any answer after a row landed, as `canAppendRow` counts the visible rows). `AfterNotification` is what each source
notification does to the drafts and is part of every action that notifies. A
draft key is a number that is used again once free, as in `makeRowKey`. A level
may be unregistered and registered again while a create runs, and the runtime be
disposed; what is then retained is released by the last create to end (`LastOne`).

### ValueLookup and SearchLookup

A label is the version of its row; a search page is the number of edits that were
stored when it was read. The history variables `asked`, `due` and `editsMarked`
say what an answer has to be at least. Listeners are not modelled: they are called
last in each handler and read the cache. Values without a row, answers that leave
out rows, and failures are modelled; the wording and order of results are not.

### RowData and ReportRowData

| TLA+ | Code |
|---|---|
| `values`, `fresh`, `failed`, `queued`, `inFlight`, `generation` | the fields of `TableRowDataSource` of these names |
| `flushDue` | `queuedFlush` is set |
| `EnsureComputed`, `Flush` | `ensureComputed`; `flush`, one microtask later |
| `ComputedLands`, `ComputedFails` | `load` after its await, with the `finally` clause |
| `LoadTree`, `ReadLands`, `ReadFails` | `CachedTreeLookup.load` and `read`, with the storing of the values that came along |
| `InvalidateRows`, `InvalidateOtherRows` | `invalidateRows` for this table, and for another on which a value may depend |
| `ShowDataset` | `loadReferencedRows` of a report |

A cell is a row and a computed field. A value is the number of edits the server had
stored when it was read, some moment between request and answer; rows may be
missing from an answer. Searches and lookups of labels store values exactly as a tree
read does (`store` in `createTableLookupSource`), so the tree stands for them.
`inFlight` names the flush a cell was sent with instead of its promise.
`MaxLookupIds` cuts a flush into several lookups, as `MAX_LOOKUP_IDS` does. Two
history variables say what the latest invalidation (`editsKnown`) and the latest
reload of the tree (`treeKnown`) knew of; `asked` holds the cells whose asking
led to a lookup since. That what is asked for is read in the end was not checked:
with fairness the state graph is too large for minutes.

### GridRuntime

| TLA+ | Code |
|---|---|
| `registered`, `ready`, `rows`, `generation` | active entries of `source-registry.ts`, sources whose state is "ready", cached snapshots, membership generations |
| `pending`, `expanded`, `cursor` | `pendingRemovals`, the expansion map and the cell cursor of the coordinator |
| `op` | where each call of `remove` or `removeRow` stands: its targets, the removed rows, the levels it touched and waits for, whether the cursor moved meanwhile |
| `held` of `op` | the set of targets retained over a confirmation; `ChildFirst` makes it a queue, whichever order a sort by depth may give rows of one level |
| `shutdown`, `released`, `fault` | `shutdownRequested`, `retainedResourcesReleased`, `runtimeFault` |
| `IssueTargets`, `RemoveTargets`, `RemoveRow` | a target is issued, held over a confirmation, and checked as a whole before the first removal is sent |
| `RemovalLands`, `RemovalRefused`, `Continue`, `RemovalUnseen` | the source publishes and the promise settles; the next target is looked at again; the first failure ends the call |
| `LoadLands`, `LoadFails`, `FinishRemoval` | touched levels load again, the cursor is corrected, the operation ends |
| `Expand`, `Collapse`, `MoveCursor`, `DisposeRuntime` | the user; the runtime is disposed and releases what it holds with its last operation |
| `Publish` | a source notification: new rows get generations, a row under removal that is gone is collapsed and the levels below it are unregistered; after the disposal collapsing an expanded row throws, and the rows the cleanup has not come to (`Cleaned`) stay marked |
| `Settle` | `settleTouchedPaths`: a level that is asked again answers the earlier waiter with "superseded" at once |

A target is a row and a generation. What a row's key means to the server, the order in which
rows are shown, phantom rows and selection are left out; which of the remaining rows the
cursor lands on (`Landings`) is any of those the code may choose from.

### LoadedBoundary

| TLA+ | Code |
|---|---|
| `pending`, `token` | `pendingLanding` and its token in `loaded-boundary.ts` |
| `waiting`, `focus` | the request that waits for its button in `table-grid-pager-boundary.ts`, and the focus that the button needs |
| `page`, `load`, `rowsStatus`, `shown` | page of the query store, newest load of the root source, its status, the rows on screen; loads carry the request they were sent for |
| `answers` | boundary promises that are answered and whose continuation has not run |
| `PressAtEdge` | an arrow key at the last or first row |
| `Continue`, `TurnPage`, `LeaveButton` | the button is activated, the page is turned another way, the focus leaves the button |
| `PageLands`, `PageFails`, `OtherLoad`, `EditAnswered` | what the root source publishes |
| `Resolve`, `LoadAnswered` | `resolve` on each notification; the continuation of the promise |
| `LeaveTable` | the page is left and the runtime disposed |

### TableSession

| TLA+ | Code |
|---|---|
| `query`, `status`, `load`, `shown`, `rows` | the query store, the root source, its newest load and who waits for it, the query the rows on screen were read with |
| `url`, `synced`, `pushDue` | the location, the one last read into the store, a ready command that goes on to write it |
| `UserSetsFilter`, `UserSetsPage`, `Reload` | commands |
| `PushUrl`, `BrowserNavigates`, `SyncFromUrl` | `pushUrlAfterReady`, back and forward, the effect of the page |
| `ShowRow`, `GoOn...` | `showRow` with its waits: for the load under way, a reload, the cleared query, the query put back |
| `Dispose` | the page is left |

### InitProject and AtomicPublish

One action per step of `createProject` and of the repair of the SQLite binding; each may
fail, and a run may be killed at any point. A run builds in a staging directory of its
own; `has` and `loads` say what is done there, `target` what others see.
`AtomicPublish` knows of none of this: a run creates a complete project or leaves the
path alone. `PublishesAtomically` maps a target that lacks a step, or whose SQLite binding does
not load, to a value the abstract module does not have, so every half-made publication
would be a step that `AtomicPublish` forbids.

## 3. Runs

All passing runs check for errors in full state spaces (no depth limit).
`CHECK_DEADLOCK FALSE` in each: all counters are bounded, and when requests are
answered and the host is idle the system rightly stops.

| Run | Question | Bounds |
|---|---|---|
| `rest_edits` | what the source shows and whom it answers, with overlapping edits and loads; do cells agree with the server | a row of two cells, two values, two loads, two edits alone or as a batch, every kind of answer, server in any order |
| `rest_rows` | do loaded rows agree with the server; is a disposed source silent; do its loads keep the contract; do removals reach the rows they were issued for | a row created and removed, one saved by a form and changed elsewhere, one edit, two loads; a root of two rows and a level of one row, a call with two held targets and one with its own, three memberships |
| `rest_settles` | is everything answered in the end | a cell, two loads, two edits, fairness |
| `grid_parts` | drafts; labels; search pages; navigation over the edge of a page, and its root source | two draft keys, two commits, a level reopened once; two labels, three requests, two edits; two scopes, a cache of one, three searches, two marks, two edits; three pages, two boundary requests |
| `project_parts` | init and its refinement; the table page and its root source; computed values and the tree | two runs of init for one path; one filter and a default, two pages, two calls of `showRow`; two rows of two fields, one row per lookup, two flushes, two tree reads, one edit, one invalidation |
| `rest_reentrant`, `boundary_early`, `draft_recommit`, `search_stale`, `report_row_data`, `grid_orphan`, `table_left` | disagreements of code and comments, section 6 | as small as the counterexample allows |

Why this is enough to see what matters: every hazard the properties are about
needs two parties. Two edits of a cell, two cells of a row, two loads, two commits
of a draft, two drafts are the least that can race; three label requests are a
first load, a reload and one that takes over; two stale marks are the least under
which a page is stale and yet newer than an answer on its way; two flushes are the
least of which one overwrites entries of the other; three pages give a page with both
edges; a level below a row and a third membership are the least in which a row comes back under
the same key; two runs of init are the least that race for a path. Each property is
broken by a mutant under the bounds of its own run. Proofs (section 4) cover all
other bounds for every safety property of the passing runs.

`rest_edits` and `rest_rows` split cells and rows between them: the edits need two columns and
batches, the row operations two rows, and together they exceed what TLC explores in minutes.

**Fairness** (`rest_settles` only): weak fairness of `LoadStep`, `EditStep` and
`AnswersArrive`. The first two are the event loop, which runs every callback that
is due. The third says that a request is answered in the end, by a result or an
error, which browsers and HTTP clients do (a timeout is an error). Nothing obliges
the host to do anything.

`ConvergesUnlessRaced` names its exemptions (section 2). They are races the code leaves
open; the property says there are no others among the behaviours modelled (changes made
elsewhere: section 5). `rest_edits` checks it with every kind of
answer and a server that handles edits in any order, `rest_rows` for rows that are
created, removed, or saved by a form and added after others changed them. Each race is
needed: without `SavedRowIsOld`, say, TLC finds the property violated in `rest_rows`.

## 4. Proofs

The theorems hold for all rows, columns, values and bounds that meet the `ASSUME`s
of the module; these say only that markers differ from data, that sets are subsets
of what they are drawn from, that bounds are numbers, that levels and their rows form a
tree, and that the server does not use a row key again. TLC evaluates each one.

*Level source.* `TypeCorrect` is inductive by itself. Then three lines.

* **What is shown.** `ViewStep` (proved of every step by `NextIsViewStep`) says that
  a step leaves the view alone or changes it through one of four publishing
  operators. `SnapshotIsCoherent` then takes four cases and not one for each action;
  `DivergedEventsShowTruth` and `SupersededAnswersAreInert` look at the answers of
  edits only.
* **Who is waited for.** `PendingLoadCanPublish` and `NoAbandonedLoad` are not
  inductive: nothing in them says that at most one refetch call is at its
  notification, that tokens are unique, or that the newest request belongs to the
  pending load. `LoadOrder` adds this, and `LoadInvariant` is preserved by every
  step when `~Reentrant`. `OnlyNewestPagesShow`, `SilenceAfterDispose` and, further below,
  `SourceKeepsContract` follow from it. With a subscriber that disposes the source from the
  loading notification the first is false (`rest_reentrant`),
  so `~Reentrant` is a hypothesis of these theorems and not an omission.
  `LoadingHasItsLoad` and `LiveTokensHaveTheirEdits` hold with reentrant
  subscribers too; the second needs `EditInvariant`, which adds that a disposed
  source has no live token.
* **Whether rows are the server's.** `RowsConverge` (`TrackedSpec => []ConvergesUnlessRaced`)
  holds for any rows, batches, kinds of answer and orders of the server, with or without
  reentrant subscribers. `ConvergenceInvariant` has two parts that hold always: every
  edit has a token of its own (`TokensOnce`), and a row is stored and removed at most
  once (`RowsOnce`, which is where the assumption that keys are not used again is needed).
  Three more hold until a race: the edits of a cell are answered in the order they were
  made (`AnsweredInOrder`), a row is loaded only while it is stored (`RowsAgree`), and
  a cell that is marked shows the value of its latest edit, whose answer, once given,
  tells what is stored (`CellsAgree`). The proof goes row by row and cell by cell:
  a step leaves a cell and its edits alone, makes an edit of it, answers one, applies an
  answer or replaces the whole row. No order of the server has to be assumed, and the property
  does not wait for the source to be quiet: it speaks of each unmarked cell while others are
  being saved.

*The contract of a source.* `SourceKeepsContract` (`~Reentrant => (Spec =>
KeepsSourceContract)`) maps every step of `RestLevelSource` to one of `LevelSource` or to a
stutter. The mapping reads the promises of loads and not the fields the source decides by (its
token and pending load), so the invariant has to tie the two: `LoadInvariant` says that at most the
promise of the newest token is unsettled, and `PromiseOrder` adds that no promise has a token
that was not given out and that a page that landed has left a committed snapshot, without which
a row could come "first" after it. `LoadMove` is the frame: each action starts a load, ends the newest one
with a page or an error, disposes, or keeps all that the mapping reads (`NextMoves`), and
one short lemma each maps these five kinds (`StartAsks`, `LandingLands`,
`FailingFails`, `DisposingStops`, `KeepingStutters`). With a subscriber that calls back from the
loading notification the newest token and the pending load may come apart, and the statement does
not apply: `rest_reentrant` shows it for a subscriber that disposes the source. `RootKeepsContract` and `RootSourceKeepsContract`
do the same for the stand-ins; there the types suffice, and the one thing that could go
wrong is a call of `showRow` that asks for rows after the page was left.

*Label cache.* All five of its properties are proved. They rest on one invariant in
three parts. `LoadsInOrder`: load ids are not used twice and a key belongs to the
load sent last for it. `AnswersAreCurrent`: the three numbers of a key (its entry,
the version its row had when it was last asked for, the version an answer on its way
carries) are ordered, but only for the load that owns the key, which is why ownership
comes first. `CallsAreServed`: a call has its entry, or waits for the load that will
bring it. `FreshAsAsked` is then inductive, `EntriesGoForward` is a property of each
step, and `CallFindsEntries` is the case of a call that waits for nothing.

*Search cache.* All four properties. `ServedIsFresh` needs `FreshReadsAreLate` (an
answer that counts as fresh read the rows after the latest mark) and
`CacheIsBounded` needs an order that names no scope twice. `TrustedPagesGoForward` needs more
than the code looks at: an answer is stored for the latest request of its scope,
whatever search it came from, so `LatestIsNewest` says that no search of that
scope, out or trusted, is newer.

*Drafts.* All five properties and type correctness. What makes `OneCreatePerKey` and
`WaitingMeansCreating` inductive is that each create on its way is remembered under
its key with its own promise (`CreatesAreRemembered`, `OneCreatePerPromise`): a commit
that finds nothing remembered is then the only one that can start an insert. Steps
fall into three kinds, each with one lemma: creates stay as they are, one moves to
another stage, one ends. That notifications move blank append rows only
(`NotificationMoves`) gives `FilledDraftSurvives` and `BlankRowFollowsSource`.

*Boundary.* Both properties. The invariant ties the token of the pending landing to the
request that waits, to the newest load and to the answers, and adds two facts about
time: a load that is out keeps the source loading, so no other notification lands
before it, and an answer "ready" finds the landing done by the notification before it.

*Init.* What is at the target says nothing of how it got there, so the invariant
follows a run: the steps it has behind it are done in its directory, the driver loads from
the check of the binding on, and a run that has published has done all of it. From it
follow `NoStagingLeft` and `PublishesAtomically`: a rename maps to `Create`, a failure
or kill before it to `GiveUp`, a step of others to `SomebodyElse`, the rest to a stutter.

*Computed values and tree.* An answer is as new as the moment its request was sent.
`RequestsInOrder` says that of every lookup and tree read: one that carries the present
generation was sent after the edits the latest invalidation knew of, which gives
`FreshIsCurrent`. `AskedOnce` needs a reason why a cell that was asked for is not missing:
`AskedIsKnown` says it is fresh, failed or on its way. An earlier load may take away the
`inFlight` entry that a later flush has overwritten; that does no harm because it makes every
cell whose entry it takes away fresh or failed. `TreeInOrder` does for the tree what
`RequestsInOrder` does for values.

*Table page.* Rows that are ready are those of the query because every change of the query
replaces the load (`LoadIsCurrent`). `ShowRowIsWoken` needs both directions of the tie
between a call and its load (`LoadHasItsCall`) and that only a page that was left can be
loading without a load (`StatusHasItsLoad`). An earlier form of `Superseded` could not be
proved about: its guards overlapped, and TLA+ leaves open which of them a CASE
takes, where TLC takes the first. The guards now exclude each other.

*Grid runtime.* Types are inductive only with `RemovalsHaveTheirSource`: a source that
answers publishes the rows of a level that is registered. `ChildrenGoFirst` comes from
`TargetsInOrder`: the queue goes up, and what was removed is at least as deep as what
is left, hence never above it. `SentRowsAreIssuedRows` then is the check before each
send (`ValidTarget`, again in `Continue`), and `CursorLandsOnARow` the last step of a removal,
for any choice among the remaining rows.

Model-checked only: `EveryLoadSettles` and `EveryEditSettles`, as liveness is out of the
prover's reach. Every other property of a passing run is stated by a theorem. Type invariants
that no run lists (those of the drafts, the caches, the boundary, the computed values and the table page)
are theorems of their modules; `PendingLoadCanPublish`, which fails in
`rest_reentrant`, is one without reentrant subscribers. The violations of section 6 are counterexamples,
for which there is nothing to prove. No module that is proved about has a recursive operator.

## 5. Not modelled

* In-memory sources: nothing is ever outstanding.
* Interaction beyond expansion and the cell cursor: synchronous reducers, covered
  densely by tests. Tree expansion within a level and the derivation of displayed rows
  likewise.
* The query API and the save pipeline: one transaction each; what is left is SQL.
* The session store of the frontend: its commands do overlap, but which of them can
  depends on the boot sequence and on which screens are mounted; planned together.
* The migration guard: a comparison of two lists at start-up; planned.
* Templates, CLI, routing and presentation: I/O, text and layout.

By lines, most of the repository is of the last kinds (components, SQL building,
stateless handlers); the modules cover the part where operations overlap.

Within modelled parts: the search in a held tree (`TreeSearchLookup`) and the store that keeps one
source per table; calls of `refetch` after `dispose` (`GridRuntime` shows that the runtime skips them after its
disposal, not that other hosts do); reentrant calls from notifications other than the two frames of
`RestLevelSource`; a server that uses a row key again; changes others make to rows that no form
saved (a row that is loaded and changed elsewhere is stale until the next page, whichever
row it is); sort, child levels, row saves and CSV of the table session.

Simplified, without effect on the properties: a `patchCell`, value loader or search that throws at once counts
as one that rejects or is left out (those of the application are `async`, for instance
`tgrid-runtime-config.ts:623`); the "agreed" event of a "reload" answer comes with the request
for the page and not just before it; in `DraftCommit` a first load that fails stays
`initialLoading`, as drafts ask only whether the source is ready; a collapse that throws inside a removal, after the disposal of the runtime, would
fail that removal, where the model counts it as done. The `rmSync` in the `catch` of
`create-project.ts:238` is assumed to succeed; `NoStagingLeft` says nothing of a disk that refuses it.

That what is asked for in `RowData` is read in the end was not checked: with fairness the
state graph is too large for minutes.

## 6. Disagreements between code and comments

Each has a run that shows it.

* `draft_recommit`: a commit that is refused at once (source loading, draft blank)
  leaves its rejected promise in `pendingCreates`; every later commit of that draft
  gets the old rejection and sends nothing. The comment at `drafts.ts:41-43` says
  a failed draft can be committed again.
* `rest_reentrant`: a subscriber disposes the source from the loading notification. The
  refetch that notified then stores its load as pending on the disposed source; its token is
  retired, so the page is ignored, and disposal is over, so nobody ever answers its caller.
  The comments at `rest-level-source.ts:398-400` and `:508` say that users wait only for
  the load that can still publish and that disposal is observable to awaiting callers.
* `search_stale`: after two stale marks an answer from before the first replaces a
  page from after it; the comment at `search-lookup.ts:273` says it never does.
* `report_row_data`: a report stores the values of its dataset under the generation of
  the moment its grid is built. After an invalidation that came since the dataset
  was asked for, or when the grid is built again from the same dataset, old values
  count as fresh and are not read again. The comment at `row-data.ts:52-54` says
  they are. `tgrid-runtime-config.ts:607` does it right: it keeps the generation
  from when the page was asked for.
* `grid_orphan`: a row under removal that is missing from one snapshot and comes back
  loses its mark in `pendingRemovals`; expanded again, it is removed with the levels below it
  still registered. The runtime's README (lines 83-84) says a removal unregisters the
  whole subtree.
* `boundary_early`: while the pager button is still waited for, any notification of a
  ready source (the answer to an edit) lands the cursor on the page already
  shown. The CHANGELOG of the frontend (lines 897-898) and the runtime's README (lines
  325-326) speak of the newly loaded rows. From the moment the load is asked for
  the landing is right (`LandsOnTheLoadAsked`).
* `table_left`: a command that becomes ready after the page was left writes the URL.
  The comment at `tgrid-session.ts:676-678` says a disposed command does not.

Smaller observations, without a run of their own:

* A rejected batch has reverted its cells when its rejected events are heard; the
  comment at `types.ts:119-120` says the source does not revert.
* Clearing the search or filter of a level that has a default writes a URL that
  names neither, and reading that URL brings the default back. The comments at
  `tgrid-session.ts:1022-1023` and `table-grid-url-state.ts:190-191` speak of an
  explicit empty value that clears the default; the page does not write one.
* `showRow` puts back the query it found before clearing, also over a newer one that the user
  set meanwhile; a command whose load a reload supersedes never writes its URL.
* A key pressed at the end of nested rows drops a landing that is pending for the root:
  the request to the child level overwrites it and then declines
  (`loaded-boundary.ts:60-71`).
* Collapsing a row in the cleanup of a removal throws after the runtime was disposed and
  puts the runtime into its fault state.

## 7. Plan

Done: `RestLevelSource` with `RestConvergence`, `DraftCommit`, `ValueLookup`, `SearchLookup`,
`RowData`, `GridRuntime`, `LoadedBoundary`, `TableSession`, `InitProject` with
`AtomicPublish`, `LevelSource` with three refinements of it, and proofs of every safety
property that a passing run checks.

1. Boot sequence and session store: which commands outlive the screen that sent
   them, and what their answers write.
2. `TableRowData`: `RowData` composed with `ValueLookup` and `SearchLookup` as the
   session invalidates them together, and the search in a held tree.
3. An abstract register, "a value is replaced only by the answer to a later request",
   which the entries of `ValueLookup` and the trusted pages of `SearchLookup` implement as the
   pages of a source implement `LevelSource`.
4. The migration guard as an operator against a reference definition; workspaces of a
   generated project; tree expansion within a level.
5. Proofs: the refinements of item 3, step by step; that the removal of a row that stays
   in its level until it lands leaves no level below it (the part of `grid_orphan` that
   is true); that a pending landing of `LoadedBoundary` and a waiting `showRow` of
   `TableSession` are woken by one and the same load of a `LevelSource`.
