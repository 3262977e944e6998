------------------------------ MODULE DraftCommit ------------------------------
(***************************************************************************)
(* Draft rows of one level path and their way into the source:             *)
(* packages/grid/src/core/runtime/drafts.ts (explicit commands),           *)
(* phantom-row-lifecycle.ts (the automatic append row, save on leave) and  *)
(* data-sources/phantom-channel.ts (where drafts are kept).                *)
(*                                                                         *)
(* A draft key is a number: the default key maker hands out "draft-1",     *)
(* "draft-2", ... and reuses a number once it is free.  A create runs over *)
(* several turns: the request is sent, the server stores it or not, the    *)
(* source takes the row and notifies, and only in a later turn commit      *)
(* removes the draft.  Column contents are Blank or one of Contents.       *)
(***************************************************************************)
EXTENDS Naturals, FiniteSets

CONSTANTS
  Contents,     \* what a filled draft may hold
  Blank,        \* what an untouched draft holds
  NoDraft,      \* no draft under this key
  MaxKeys,      \* bound: draft keys in use at once
  MaxCommits,   \* bound: commit promises
  MaxRows       \* bound: rows the source counts

ASSUME ContentsAssumption  == Blank \notin Contents
ASSUME DraftKeysAssumption == MaxKeys \in Nat \ {0}
ASSUME CommitsAssumption   == MaxCommits \in Nat /\ MaxRows \in Nat

DraftKeys == 1 .. MaxKeys
Promises  == 1 .. MaxCommits
Drafts   == [state : {"editing", "saving", "failed"},
             content : Contents \cup {Blank}, child : BOOLEAN]
Creates  == [key : DraftKeys, promise : Promises, content : Contents, of : Nat,
             stage : {"sent", "stored", "landed", "refused"}]
Status   == {"initialLoading", "ready", "refreshing", "refreshError"}

ASSUME NoDraftAssumption == NoDraft \notin Drafts

VARIABLES
  drafts,          \* the phantom channel of the path
  pendingCreates,  \* key -> the promise a second commit of it is given, or 0
  promises,        \* what became of each commit promise
  creates,         \* creates that have not settled
  status, rows, canAppend,   \* the source: state, loaded rows, write.canAppendRow()
  registration,    \* how often the level at this path was registered
  registered, disposed,
  call,            \* the commit call of the last step: its key and its promise
  takenAway        \* keys whose draft the host removed in the last step

sourceVars == <<status, rows, canAppend>>
levelVars  == <<registration, registered, disposed>>
draftHistory    == <<call, takenAway>>
draftVars == <<drafts, pendingCreates, promises, creates, sourceVars, levelVars, draftHistory>>

NoCall == [key |-> 0, promise |-> 0]

DraftTypeOK ==
  /\ drafts \in [DraftKeys -> Drafts \cup {NoDraft}]
  /\ pendingCreates \in [DraftKeys -> Promises \cup {0}]
  /\ promises \in [Promises -> {"unborn", "pending", "resolved", "rejected"}]
  /\ creates \subseteq Creates
  /\ status \in Status /\ rows \in 0 .. MaxRows /\ canAppend \in BOOLEAN
  /\ registration \in Nat /\ registered \in BOOLEAN /\ disposed \in BOOLEAN
  /\ call \in [key : DraftKeys \cup {0}, promise : Promises \cup {0}]
  /\ takenAway \subseteq DraftKeys

--------------------------------------------------------------------------------
Has(ds, k)        == ds[k] # NoDraft
Filled(ds, k)     == Has(ds, k) /\ ds[k].content # Blank
BlankAppend(ds)   == {k \in DraftKeys : Has(ds, k) /\ ds[k].state = "editing"
                                   /\ ~ds[k].child /\ ds[k].content = Blank}
Editing(content, child) == [state |-> "editing", content |-> content, child |-> child]

\* makeRowKey: the first free number from the number of drafts plus one.
FreeKeys(ds) ==
  {k \in DraftKeys : ~Has(ds, k) /\ k > Cardinality({j \in DraftKeys : Has(ds, j)})}
NextKey(ds) == CHOOSE k \in FreeKeys(ds) : \A j \in FreeKeys(ds) : k <= j

Live         == registered /\ ~disposed
Eligible     == Live /\ status = "ready"          \* requireEligibility
MayAppend(s, a) == s = "ready" /\ a

\* Mutant of Reconciled: every append draft goes, filled or not.
ReconciledGreedily(ds, s, a) ==
  [k \in DraftKeys |-> IF ~MayAppend(s, a) /\ Has(ds, k) /\ ds[k].state = "editing" /\ ~ds[k].child
                  THEN NoDraft ELSE ds[k]]

\* Mutant of Reconciled: the blank row is looked at only while a page loads.
ReconciledWhileLoading(ds, s, a) ==
  [k \in DraftKeys |-> IF s = "refreshing" /\ k \in BlankAppend(ds) THEN NoDraft ELSE ds[k]]

\* A blank append row goes when no row can be appended; filled, failed, saving
\* and child drafts stay.
Reconciled(ds, s, a) ==
  [k \in DraftKeys |-> IF ~MayAppend(s, a) /\ k \in BlankAppend(ds) THEN NoDraft ELSE ds[k]]

WithBlank(ds, s, a) ==
  IF MayAppend(s, a) /\ BlankAppend(ds) = {} /\ FreeKeys(ds) # {}
  THEN [ds EXCEPT ![NextKey(ds)] = Editing(Blank, FALSE)]
  ELSE ds

\* What every source notification does to the drafts: reconcile the blank row,
\* then offer one where the loaded level is empty.
AfterNotification(ds, s, n, a) ==
  IF disposed \/ ~registered THEN ds
  ELSE IF s = "ready" /\ n = 0 THEN WithBlank(Reconciled(ds, s, a), s, a)
       ELSE Reconciled(ds, s, a)

Quietly == call' = NoCall /\ takenAway' = {}

--------------------------------------------------------------------------------
(* Commands of the host and of the cursor.                                   *)

AddDraft(content, child) ==
  /\ Eligible /\ FreeKeys(drafts) # {}
  /\ drafts' = [drafts EXCEPT ![NextKey(drafts)] = Editing(content, child)]
  /\ Quietly
  /\ UNCHANGED <<pendingCreates, promises, creates, sourceVars, levelVars>>

\* A host may drop any draft, one that is being saved too.
RemoveDraft(k) ==
  /\ Live /\ Has(drafts, k)
  /\ drafts' = [drafts EXCEPT ![k] = NoDraft]
  /\ call' = NoCall /\ takenAway' = {k}
  /\ UNCHANGED <<pendingCreates, promises, creates, sourceVars, levelVars>>

\* setPhantomCell: a saving draft refuses, a failed one is edited again.
SetDraftCell(k, content) ==
  /\ Live /\ Has(drafts, k) /\ drafts[k].state # "saving"
  /\ drafts' = [drafts EXCEPT ![k].state = "editing", ![k].content = content]
  /\ Quietly
  /\ UNCHANGED <<pendingCreates, promises, creates, sourceVars, levelVars>>

\* ensureBlankPhantom: the cursor moves past the last cell.
MoveToAddRow ==
  /\ Live
  /\ drafts' = WithBlank(Reconciled(drafts, status, canAppend), status, canAppend)
  /\ Quietly
  /\ UNCHANGED <<pendingCreates, promises, creates, sourceVars, levelVars>>

NewPromise == CHOOSE p \in Promises :
  promises[p] = "unborn" /\ \A q \in Promises : promises[q] = "unborn" => p <= q
PromisesLeft == \E p \in Promises : promises[p] = "unborn"

Called(k, p) == call' = [key |-> k, promise |-> p] /\ takenAway' = {}

\* The runtime or the level is gone: rejected at once, nothing is remembered.
CommitRefused(k) ==
  /\ ~Live /\ PromisesLeft
  /\ promises' = [promises EXCEPT ![NewPromise] = "rejected"]
  /\ Called(k, NewPromise)
  /\ UNCHANGED <<drafts, pendingCreates, creates, sourceVars, levelVars>>

\* Mutant of CommitShared: a second commit waits for a promise of its own.
CommitSharesNothing(k) ==
  /\ Live /\ pendingCreates[k] # 0 /\ PromisesLeft
  /\ promises' = [promises EXCEPT ![NewPromise] = "rejected"]
  /\ Called(k, NewPromise)
  /\ UNCHANGED <<drafts, pendingCreates, creates, sourceVars, levelVars>>

\* A second commit of the same draft observes the first one's operation.
CommitShared(k) ==
  /\ Live /\ pendingCreates[k] # 0
  /\ Called(k, pendingCreates[k])
  /\ UNCHANGED <<drafts, pendingCreates, promises, creates, sourceVars, levelVars>>

Committable(k) == status = "ready" /\ Filled(drafts, k) /\ drafts[k].state # "saving"

\* The source is not ready, or the draft is missing, saving or blank.  The
\* operation throws before its try block, so its finally clause does not run,
\* and the rejected promise is stored.
CommitThrows(k) ==
  /\ Live /\ pendingCreates[k] = 0 /\ PromisesLeft /\ ~Committable(k)
  /\ promises' = [promises EXCEPT ![NewPromise] = "rejected"]
  /\ pendingCreates' = [pendingCreates EXCEPT ![k] = NewPromise]
  /\ Called(k, NewPromise)
  /\ UNCHANGED <<drafts, creates, sourceVars, levelVars>>

Create(k, p) ==
  [key |-> k, promise |-> p, content |-> drafts[k].content, of |-> registration,
   stage |-> "sent"]

\* Mutant of CommitStarts: pending creates are not looked up first.
CommitAlwaysStarts(k) ==
  /\ Live /\ PromisesLeft /\ Committable(k)
  /\ drafts' = [drafts EXCEPT ![k].state = "saving"]
  /\ creates' = creates \cup {Create(k, NewPromise)}
  /\ promises' = [promises EXCEPT ![NewPromise] = "pending"]
  /\ pendingCreates' = [pendingCreates EXCEPT ![k] = NewPromise]
  /\ Called(k, NewPromise)
  /\ UNCHANGED <<sourceVars, levelVars>>

CommitStarts(k) ==
  /\ Live /\ pendingCreates[k] = 0 /\ PromisesLeft /\ Committable(k)
  /\ drafts' = [drafts EXCEPT ![k].state = "saving"]
  /\ creates' = creates \cup {Create(k, NewPromise)}
  /\ promises' = [promises EXCEPT ![NewPromise] = "pending"]
  /\ pendingCreates' = [pendingCreates EXCEPT ![k] = NewPromise]
  /\ Called(k, NewPromise)
  /\ UNCHANGED <<sourceVars, levelVars>>

Commit(k) == CommitRefused(k) \/ CommitShared(k) \/ CommitThrows(k) \/ CommitStarts(k)

\* The cursor leaves a draft: an untouched child draft goes, a filled draft
\* that is being edited is committed.
LeaveBlankChild(k) ==
  /\ Live /\ Has(drafts, k)
  /\ drafts[k] = Editing(Blank, TRUE)
  /\ drafts' = [drafts EXCEPT ![k] = NoDraft]
  /\ Quietly
  /\ UNCHANGED <<pendingCreates, promises, creates, sourceVars, levelVars>>

LeaveFilled(k) ==
  /\ Live /\ Filled(drafts, k) /\ drafts[k].state = "editing"
  /\ Commit(k)

--------------------------------------------------------------------------------
(* A create on its way.                                                      *)

Move(c, stage) == creates' = (creates \ {c}) \cup {[c EXCEPT !.stage = stage]}

ServerAnswers(c) ==
  /\ c \in creates /\ c.stage = "sent"
  /\ \E stage \in {"stored", "refused"} : Move(c, stage)
  /\ Quietly
  /\ UNCHANGED <<drafts, pendingCreates, promises, sourceVars, levelVars>>

\* The source inserts the row and notifies; the draft is still there.  One more
\* row is visible, so canAppendRow may answer otherwise than before.  A source
\* that was disposed meanwhile, or replaced by a new registration, takes nothing.
RowLands(c) ==
  /\ c \in creates /\ c.stage = "stored"
  /\ Move(c, "landed")
  /\ IF registered /\ c.of = registration
     THEN /\ rows' = IF rows < MaxRows THEN rows + 1 ELSE rows
          /\ status' = IF status \in {"refreshing", "refreshError"} THEN status ELSE "ready"
          /\ canAppend' \in BOOLEAN
          /\ drafts' = AfterNotification(drafts, status', rows', canAppend')
     ELSE UNCHANGED <<drafts, sourceVars>>
  /\ Quietly
  /\ UNCHANGED <<pendingCreates, promises, levelVars>>

\* A page brought the row in before its answer: the source rejects the insert.
RowIsAlreadyThere(c) ==
  /\ c \in creates /\ c.stage = "stored"
  /\ registered /\ ~disposed /\ c.of = registration /\ rows > 0
  /\ Move(c, "refused")
  /\ Quietly
  /\ UNCHANGED <<drafts, pendingCreates, promises, sourceVars, levelVars>>

\* The runtime is disposed and c is its last operation: everything it retained
\* is released when c ends.
LastOne(c) == disposed /\ creates = {c}

Settle(c, ds, result) ==
  /\ creates' = creates \ {c}
  /\ promises' = [promises EXCEPT ![c.promise] = result]
  /\ pendingCreates' = IF LastOne(c) THEN [k \in DraftKeys |-> 0]
                       ELSE [pendingCreates EXCEPT ![c.key] = 0]
  /\ drafts' = IF LastOne(c) THEN [k \in DraftKeys |-> NoDraft] ELSE ds
  /\ Quietly
  /\ UNCHANGED <<sourceVars, levelVars>>

CommitSucceeds(c) ==
  /\ c \in creates /\ c.stage = "landed"
  /\ Settle(c, [drafts EXCEPT ![c.key] = NoDraft], "resolved")

\* Mutant of CommitFails: the draft stays locked in its saving state.
CommitFailsLocked(c) ==
  /\ c \in creates /\ c.stage = "refused"
  /\ Settle(c, drafts, "rejected")

CommitFails(c) ==
  /\ c \in creates /\ c.stage = "refused"
  /\ Settle(c, IF Has(drafts, c.key) THEN [drafts EXCEPT ![c.key].state = "failed"]
                ELSE drafts, "rejected")

--------------------------------------------------------------------------------
(* The source and the level around the drafts.                               *)

SourceBecomes(s, n, a) ==
  /\ status' = s /\ rows' = n /\ canAppend' = a
  /\ drafts' = AfterNotification(drafts, s, n, a)
  /\ Quietly
  /\ UNCHANGED <<pendingCreates, promises, creates, levelVars>>

RowsLoad ==
  /\ registered /\ status \in {"ready", "refreshError"}
  /\ SourceBecomes("refreshing", rows, canAppend)

RowsReady ==
  /\ registered /\ status \in {"initialLoading", "refreshing"}
  /\ \E n \in 0 .. MaxRows, a \in BOOLEAN : SourceBecomes("ready", n, a)

RowsFail ==
  /\ registered /\ status = "refreshing"
  /\ SourceBecomes("refreshError", rows, canAppend)

\* The parent row goes away: the level, its source and its drafts go with it.
Unregister ==
  /\ Live
  /\ registered' = FALSE
  /\ drafts' = [k \in DraftKeys |-> NoDraft]
  /\ Quietly
  /\ UNCHANGED <<pendingCreates, promises, creates, sourceVars, registration, disposed>>

\* The row is expanded again: a new source under the same path.
Register ==
  /\ ~registered /\ ~disposed /\ registration < 2
  /\ registered' = TRUE /\ registration' = registration + 1
  /\ status' = "initialLoading" /\ rows' = 0 /\ canAppend' = FALSE
  /\ Quietly
  /\ UNCHANGED <<drafts, pendingCreates, promises, creates, disposed>>

Dispose ==
  /\ ~disposed
  /\ disposed' = TRUE
  /\ IF creates = {}
     THEN /\ drafts' = [k \in DraftKeys |-> NoDraft]
          /\ pendingCreates' = [k \in DraftKeys |-> 0]
     ELSE UNCHANGED <<drafts, pendingCreates>>
  /\ Quietly
  /\ UNCHANGED <<promises, creates, sourceVars, registration, registered>>

--------------------------------------------------------------------------------
DraftInit ==
  /\ drafts = [k \in DraftKeys |-> NoDraft]
  /\ pendingCreates = [k \in DraftKeys |-> 0]
  /\ promises = [p \in Promises |-> "unborn"]
  /\ creates = {}
  /\ status = "initialLoading" /\ rows = 0 /\ canAppend = FALSE
  /\ registration = 1 /\ registered = TRUE /\ disposed = FALSE
  /\ call = NoCall /\ takenAway = {}

HostStep ==
  \/ \E content \in Contents \cup {Blank}, child \in BOOLEAN : AddDraft(content, child)
  \/ \E k \in DraftKeys, content \in Contents \cup {Blank} : SetDraftCell(k, content)
  \/ \E k \in DraftKeys : RemoveDraft(k) \/ Commit(k) \/ LeaveBlankChild(k) \/ LeaveFilled(k)
  \/ MoveToAddRow \/ Unregister \/ Register \/ Dispose

CreateStep ==
  \E c \in creates : \/ ServerAnswers(c) \/ RowLands(c) \/ RowIsAlreadyThere(c)
                     \/ CommitSucceeds(c) \/ CommitFails(c)

SourceStep == RowsLoad \/ RowsReady \/ RowsFail

DraftNext == HostStep \/ CreateStep \/ SourceStep

DraftSpec == DraftInit /\ [][DraftNext]_draftVars

--------------------------------------------------------------------------------
(* Safety.                                                                   *)

\* Whoever waits for a create has one: a draft shown as saving is being saved with
\* exactly what it shows, and the promise of a commit that has not been answered
\* belongs to an insert that is still on its way.
WaitingMeansCreating ==
  /\ \A k \in DraftKeys :
       (Has(drafts, k) /\ drafts[k].state = "saving") =>
         \E c \in creates : c.key = k /\ c.content = drafts[k].content
  /\ \A p \in Promises :
       promises[p] = "pending" => \E c \in creates : c.promise = p

\* However commits, edits, removals and reopened levels interleave, one draft
\* key never has two inserts on the way to the server.
OneCreatePerKey == \A c, d \in creates : c.key = d.key => c = d

\* "A blur, Enter key, and explicit save can request the same commit during one
\* turn.  They all observe the same source operation and result" (drafts.ts).
SharesTheOperation ==
  \A c \in creates : (Live /\ call'.key = c.key) => call'.promise = c.promise

CommitsShareTheOperation == [][SharesTheOperation]_draftVars

\* A create that outlived its draft: the host removed the draft or the level was
\* reopened while it was saving, and the key is in use again.
Outlived(c) == Has(drafts, c.key) /\ drafts[c.key].state # "saving"

\* What a user typed is never lost on the way: a filled draft disappears only
\* when the server took that content, the host removed it, or its level or the
\* runtime went away -- not because a source notified, a blank row moved or
\* another create ended.  The one exception is a create that outlived its draft.
KeepsFilledDrafts ==
  \A k \in DraftKeys :
    (Filled(drafts, k) /\ ~Has(drafts', k)) =>
      \/ k \in takenAway' \/ ~registered' \/ disposed'
      \/ \E c \in creates : /\ c.key = k /\ c.stage = "landed"
                           /\ (c.content = drafts[k].content \/ Outlived(c))

FilledDraftSurvives == [][KeepsFilledDrafts]_draftVars

\* "A blank add-row belongs only where a new row can be appended right now"
\* (phantom-row-lifecycle.ts): no notification of the source leaves one elsewhere.
LeavesNoStrayBlank ==
  (UNCHANGED levelVars /\ Live /\ <<status, rows, canAppend>>' # <<status, rows, canAppend>>) =>
    (BlankAppend(drafts') # {} => MayAppend(status', canAppend'))

BlankRowFollowsSource == [][LeavesNoStrayBlank]_draftVars

\* "The promise is removed after success or failure so a failed draft can be
\* edited and committed again" (drafts.ts): a commit of a draft that can be
\* committed has its insert under way.
CommitStartsCreate ==
  [][\A k \in DraftKeys :
       (Live /\ Committable(k) /\ call'.key = k) =>
         \E c \in creates' : c.key = k]_draftVars

================================================================================
