------------------------ MODULE RestLevelSource_proofs ------------------------
(***************************************************************************)
(* Proofs about RestLevelSource, for every value of its constants: its     *)
(* types; what a host sees of it, the published snapshot, the reconcile    *)
(* events and the silence of superseded and late answers; the tokens of    *)
(* the loads and the edits that are under way.                             *)
(***************************************************************************)
EXTENDS RestLevelSource, SequenceTheorems, TLAPS

(* The parts the type invariant is built from.                               *)

LEMMA UnansweredTyped == Unanswered.cells \in [Cols -> Values \cup {Keep}]
  BY DEF Unanswered

\* A loaded row has a value in every column.
LEMMA LoadedRow ==
  ASSUME NEW table \in Tables, NEW r \in Rows, table[r] # Gone
  PROVE  table[r] \in RowImages
  BY DEF Tables

LEMMA CellInTyped ==
  ASSUME NEW table \in Tables, NEW r \in Rows, NEW c \in Cols
  PROVE  CellIn(table, r, c) \in Values \cup {Gone}
  BY LoadedRow DEF CellIn, RowImages

LEMMA AuthoritativeTyped ==
  ASSUME NEW p \in Patches
  PROVE  Authoritative(p) \in Values
  BY DEF Authoritative, Patches, Replies

LEMMA ReconciledTyped ==
  ASSUME NEW p \in Patches, NEW table \in Tables, NEW v \in Values,
         NEW kind \in {"agreed", "diverged", "rejected"}
  PROVE  Reconciled(kind, p, v, table) \in Events
  <1>1. CellIn(table, p.row, p.col) \in Values \cup {Gone}
    BY CellInTyped DEF Patches
  <1> QED BY <1>1 DEF Reconciled, Events, Patches

\* Answers are merged into a loaded row column by column.
LEMMA MergeTyped ==
  ASSUME NEW image \in RowImages, NEW cells \in [Cols -> Values \cup {Keep}]
  PROVE  Merge(image, cells) \in RowImages
  BY DEF Merge, RowImages

LEMMA ClearedTyped ==
  ASSUME TypeOK, NEW p \in Patches
  PROVE  Cleared(p) \in [Rows -> [Cols -> Nat]]
  BY DEF Cleared, TypeOK, Patches

\* The variables a host reads, together.
ViewOK ==
  /\ nodes \in Tables /\ shown \in Tables /\ committed \in Tables \cup {NoSnapshot}
  /\ status \in Statuses

LoadsOK ==
  /\ fetchToken \in Nat /\ pendingLoad \in 0 .. MaxFetches
  /\ loads \in [1 .. MaxFetches -> LoadResults]
  /\ loading \in Seq(1 .. MaxFetches)

LEMMA MutateTyped ==
  ASSUME ViewOK, NEW table \in Tables, Mutate(table)
  PROVE  ViewOK'
  BY DEF ViewOK, Mutate, PublishDataMutation, Statuses

LEMMA PublishLoadErrorTyped ==
  ASSUME ViewOK, PublishLoadError
  PROVE  ViewOK'
  BY DEF ViewOK, PublishLoadError, Statuses

LEMMA SettlePendingTyped ==
  ASSUME LoadsOK, NEW result \in LoadResults
  PROVE  SettlePending(result) \in [1 .. MaxFetches -> LoadResults]
  BY DEF LoadsOK, SettlePending

LEMMA ResolveTyped ==
  ASSUME LoadsOK, NEW token \in Nat, NEW result \in LoadResults,
         ResolveCurrentLoad(token, result), UNCHANGED <<fetchToken, loading>>
  PROVE  LoadsOK'
  BY BoundAssumption DEF LoadsOK, ResolveCurrentLoad

LEMMA StartLoadTyped ==
  ASSUME ViewOK, LoadsOK, StartLoad
  PROVE  ViewOK' /\ LoadsOK'
  <1>1. ViewOK'
    BY DEF ViewOK, StartLoad, Statuses
  <1>2. fetchToken + 1 \in 1 .. MaxFetches
    BY BoundAssumption DEF LoadsOK, StartLoad
  <1>3. SettlePending("superseded") \in [1 .. MaxFetches -> LoadResults]
    BY SettlePendingTyped DEF LoadResults
  <1>4. loads' \in [1 .. MaxFetches -> LoadResults]
    BY <1>2, <1>3 DEF StartLoad, LoadResults
  <1>5. loading' \in Seq(1 .. MaxFetches)
    BY <1>2 DEF StartLoad, LoadsOK
  <1>6. fetchToken' \in Nat /\ pendingLoad' \in 0 .. MaxFetches
    BY BoundAssumption DEF StartLoad, LoadsOK
  <1> QED BY <1>1, <1>4, <1>5, <1>6 DEF LoadsOK

--------------------------------------------------------------------------------
(* Every step keeps the types.                                               *)

LEMMA TypeParts == TypeOK => ViewOK /\ LoadsOK
  BY DEF TypeOK, ViewOK, LoadsOK

LEMMA InitTyped == Init => TypeOK
  <1> SUFFICES ASSUME Init PROVE TypeOK OBVIOUS
  <1>1. Empty \in Tables /\ server \in Tables
    BY ShapeAssumption DEF Init, Empty, Tables
  <1>2. [token |-> 1, stage |-> "sent", rows |-> Empty] \in Fetches
    BY <1>1 DEF Fetches
  <1>3. loads \in [1 .. MaxFetches -> LoadResults] /\ pendingLoad \in 0 .. MaxFetches
    BY BoundAssumption DEF Init, LoadResults
  <1>4. loading \in Seq(1 .. MaxFetches)
    BY DEF Init
  <1> QED
    BY <1>1, <1>2, <1>3, <1>4 DEF Init, TypeOK, Statuses, Stages

LEMMA LoadCallsTyped == TypeOK /\ (Refetch \/ Dispose) => TypeOK'
  <1> SUFFICES ASSUME TypeOK, Refetch \/ Dispose PROVE TypeOK' OBVIOUS
  <1> ViewOK /\ LoadsOK BY TypeParts
  <1>1. CASE Refetch
    <2>1. ViewOK' /\ LoadsOK' BY <1>1, StartLoadTyped DEF Refetch
    <2> QED BY <1>1, <2>1 DEF Refetch, TypeOK, ViewOK, LoadsOK, tokenVars, rowOpVars
  <1>2. CASE Dispose
    <2>1. loads' \in [1 .. MaxFetches -> LoadResults]
      BY <1>2, SettlePendingTyped DEF Dispose, LoadResults
    <2> QED
      BY <1>2, <2>1, BoundAssumption DEF Dispose, TypeOK, viewVars, rowOpVars
  <1> QED BY <1>1, <1>2

LEMMA LoadStepTyped == TypeOK /\ LoadStep => TypeOK'
  <1> SUFFICES ASSUME TypeOK, LoadStep PROVE TypeOK' OBVIOUS
  <1> ViewOK /\ LoadsOK BY TypeParts
  <1>1. ASSUME loading # <<>>
        PROVE  Head(loading) \in 1 .. MaxFetches /\ Tail(loading) \in Seq(1 .. MaxFetches)
    BY <1>1, HeadTailProperties DEF LoadsOK
  <1>2. CASE RequestPage
    <2>1. Empty \in Tables BY DEF Empty, Tables
    <2>2. [token |-> Head(loading), stage |-> "sent", rows |-> Empty] \in Fetches
      BY <1>1, <1>2, <2>1 DEF Fetches, RequestPage
    <2> QED
      BY <1>1, <1>2, <2>2, BoundAssumption
         DEF RequestPage, TypeOK, viewVars, tokenVars, rowOpVars
  <1>3. CASE RequestThrows
    <2>1. ViewOK'
      BY <1>3, PublishLoadErrorTyped DEF RequestThrows, viewVars, ViewOK
    <2>2. LoadsOK'
      BY <1>1, <1>3, BoundAssumption DEF RequestThrows, viewVars, LoadsOK, LoadResults
    <2> QED
      BY <1>3, <2>1, <2>2 DEF RequestThrows, TypeOK, ViewOK, LoadsOK, tokenVars, rowOpVars
  <1>4. ASSUME NEW f \in fetches, PageIgnored(f) \/ PageLoaded(f) \/ PageFailed(f)
        PROVE  TypeOK'
    <2>1. f.token \in Nat /\ f.rows \in Tables
      BY DEF TypeOK, Fetches
    <2>2. ViewOK'
      BY <1>4, <2>1, PublishLoadErrorTyped
         DEF PageIgnored, PageLoaded, PageFailed, viewVars, ViewOK, PublishReady, Statuses
    <2>3. LoadsOK'
      BY <1>4, <2>1, ResolveTyped
         DEF PageIgnored, PageLoaded, PageFailed, TakePage, LoadsOK, LoadResults
    <2> QED
      BY <1>4, <2>2, <2>3
         DEF PageIgnored, PageLoaded, PageFailed, TakePage, TypeOK, ViewOK, LoadsOK,
             tokenVars, rowOpVars
  <1> QED BY <1>2, <1>3, <1>4 DEF LoadStep

LEMMA RowCallsTyped ==
  ASSUME TypeOK, NEW r \in Rows,
         CreateNode(r) \/ AddSavedNode(r) \/ RemoveNode(r)
  PROVE  TypeOK'
  <1> ViewOK /\ LoadsOK BY TypeParts
  <1>1. CASE CreateNode(r) \/ RemoveNode(r)
    BY <1>1 DEF CreateNode, RemoveNode, TypeOK, viewVars, loadVars, tokenVars, Stages
  <1>2. CASE AddSavedNode(r)
    <2>1. [nodes EXCEPT ![r] = NewRow] \in Tables
      BY ShapeAssumption DEF TypeOK, Tables
    <2>2. ViewOK'
      BY <1>2, <2>1, MutateTyped DEF AddSavedNode
    <2> QED
      BY <1>2, <2>2 DEF AddSavedNode, TypeOK, ViewOK, loadVars, tokenVars, rowOpVars
  <1> QED BY <1>1, <1>2

LEMMA RowStepTyped == TypeOK /\ RowStep => TypeOK'
  <1> SUFFICES ASSUME TypeOK, NEW r \in Rows,
                      CreateRejected(r) \/ CreateResolved(r) \/ RemoveSettles(r)
               PROVE  TypeOK'
    BY DEF RowStep
  <1> ViewOK /\ LoadsOK BY TypeParts
  <1>1. [nodes EXCEPT ![r] = NewRow] \in Tables /\ [nodes EXCEPT ![r] = Gone] \in Tables
    BY ShapeAssumption DEF TypeOK, Tables
  <1>2. ViewOK'
    BY <1>1, MutateTyped DEF CreateRejected, CreateResolved, RemoveSettles, viewVars, ViewOK
  <1>3. creates' \in [Rows -> Stages] /\ removes' \in [Rows -> Stages]
    BY DEF CreateRejected, CreateResolved, RemoveSettles, TakeCreated, TypeOK, Stages
  <1> QED
    BY <1>2, <1>3
       DEF CreateRejected, CreateResolved, RemoveSettles, TakeCreated, TypeOK, ViewOK,
           loadVars, tokenVars

LEMMA BatchIsSeq ==
  ASSUME NEW changes \in Batches
  PROVE  /\ Len(changes) \in Nat /\ DOMAIN changes = 1 .. Len(changes)
         /\ \A i \in DOMAIN changes : changes[i] \in Change
  <1>1. PICK n \in 1 .. MaxBatch : changes \in [1 .. n -> Change]
    BY DEF Batches
  <1>2. n \in Nat BY BoundAssumption
  <1>3. changes \in Seq(Change) BY <1>1, <1>2, SeqDef
  <1> QED BY <1>1, <1>3, LenProperties

\* The optimistic value of a loaded cell, after any number of a batch's changes.
LEMMA ValueAfterTyped ==
  ASSUME NEW changes \in Batches, NEW n \in 0 .. Len(changes),
         NEW r \in Rows, NEW c \in Cols, nodes \in Tables, nodes[r] # Gone
  PROVE  ValueAfter(changes, n, r, c) \in Values
  <1>1. nodes[r][c] \in Values
    BY LoadedRow DEF RowImages
  <1>2. \A i \in 1 .. n : changes[i].value \in Values
    BY BatchIsSeq DEF Change
  <1> QED BY <1>1, <1>2 DEF ValueAfter

LEMMA EditCallsTyped ==
  /\ TypeOK /\ (\E change \in Change : SetCell(change)) => TypeOK'
  /\ TypeOK /\ (\E changes \in Batches : ApplyChanges(changes)) => TypeOK'
  <1>1. ASSUME TypeOK, NEW change \in Change, SetCell(change) PROVE TypeOK'
    <2> ViewOK /\ LoadsOK BY <1>1, TypeParts
    <2> DEFINE r == change.row  c == change.col  token == cellTokenCounter + 1
    <2>1. r \in Rows /\ c \in Cols /\ change.value \in Values /\ token \in Nat
      BY <1>1 DEF Change, TypeOK
    <2>2. nodes[r] \in RowImages
      BY <1>1, <2>1, LoadedRow DEF SetCell, Present, ViewOK
    <2>3. [nodes EXCEPT ![r][c] = change.value] \in Tables
      BY <2>1, <2>2 DEF ViewOK, Tables, RowImages
    <2>4. ViewOK'
      BY <1>1, <2>3, MutateTyped DEF SetCell
    <2>5. Request(token, change, nodes[r][c], 0) \in Patches
      BY <2>1, <2>2, UnansweredTyped DEF Request, Patches, Replies, RowImages, Unanswered
    <2>6. cellTokens' \in [Rows -> [Cols -> Nat]] /\ cellTokenCounter' \in Nat
      BY <1>1, <2>1 DEF SetCell, TypeOK
    <2> QED
      BY <1>1, <2>4, <2>5, <2>6 DEF SetCell, TypeOK, ViewOK, loadVars, rowOpVars
  <1>2. ASSUME TypeOK, NEW changes \in Batches, ApplyChanges(changes) PROVE TypeOK'
    <2> ViewOK /\ LoadsOK BY <1>2, TypeParts
    <2> DEFINE table == [r \in Rows |->
                 IF Present(r) THEN [c \in Cols |-> ValueAfter(changes, Len(changes), r, c)]
                 ELSE Gone]
    <2>1. Len(changes) \in Nat /\ DOMAIN changes = 1 .. Len(changes)
      BY BatchIsSeq
    <2>2. table \in Tables
      <3>1. ASSUME NEW r \in Rows, Present(r)
            PROVE  [c \in Cols |-> ValueAfter(changes, Len(changes), r, c)] \in RowImages
        BY <2>1, <3>1, ValueAfterTyped DEF Present, RowImages, ViewOK
      <3> QED BY <3>1 DEF Tables
    <2>3. ViewOK'
      <3> HIDE DEF table
      <3>1. Mutate(table) BY <1>2 DEF ApplyChanges, table
      <3> QED BY <3>1, <2>2, MutateTyped
    <2>4. \A r \in Rows, c \in Cols : LastToken(changes, r, c) \in Nat
      BY <1>2, <2>1 DEF LastToken, TypeOK
    <2>5. ASSUME NEW i \in DOMAIN changes
          PROVE  Request(cellTokenCounter + i, changes[i],
                         ValueAfter(changes, i - 1, changes[i].row, changes[i].col),
                         cellTokenCounter + 1) \in Patches
      <3>1. changes[i].row \in Rows /\ changes[i].col \in Cols /\ changes[i].value \in Values
        BY BatchIsSeq DEF Change
      <3>2. ValueAfter(changes, i - 1, changes[i].row, changes[i].col) \in Values
        BY <1>2, <2>1, <3>1, ValueAfterTyped DEF ApplyChanges, Present, ViewOK
      <3>3. cellTokenCounter + i \in Nat /\ cellTokenCounter + 1 \in Nat
        BY <1>2, <2>1 DEF TypeOK
      <3> QED
        BY <3>1, <3>2, <3>3, UnansweredTyped DEF Request, Patches, Replies, Unanswered
    <2>6. patches' \subseteq Patches
      BY <1>2, <2>5 DEF ApplyChanges, TypeOK
    <2>7. cellTokens' \in [Rows -> [Cols -> Nat]] /\ cellTokenCounter' \in Nat
      BY <1>2, <2>1, <2>4 DEF ApplyChanges, TypeOK
    <2> QED
      BY <1>2, <2>3, <2>6, <2>7 DEF ApplyChanges, TypeOK, ViewOK, loadVars, rowOpVars
  <1> QED BY <1>1, <1>2

\* Whatever way a current answer is applied, rows, loads and events stay typed.
LEMMA ApplicationTyped ==
  ASSUME TypeOK, NEW p \in Patches, Confirm(p) \/ Reload(p) \/ Reject(p)
  PROVE  ViewOK' /\ LoadsOK' /\ emitted' \subseteq Events /\ fetches' \subseteq Fetches
  <1> ViewOK /\ LoadsOK BY TypeParts
  <1>1. CASE Confirm(p)
    <2>1. p.reply.cells \in [Cols -> Values \cup {Keep}] /\ p.row \in Rows
      BY DEF Patches, Replies
    <2>2. ViewOK'
      <3>1. CASE Writes(p)
        <4>1. nodes[p.row] \in RowImages
          BY <2>1, <3>1, LoadedRow DEF Writes, Present, ViewOK
        <4>2. [nodes EXCEPT ![p.row] = Merge(@, p.reply.cells)] \in Tables
          BY <2>1, <4>1, MergeTyped DEF Tables, ViewOK
        <4> QED BY <1>1, <3>1, <4>2, MutateTyped DEF Confirm
      <3>2. CASE ~Writes(p)
        BY <1>1, <3>2 DEF Confirm, viewVars, ViewOK
      <3> QED BY <3>1, <3>2
    <2>3. Reconciled(IF Authoritative(p) = p.value THEN "agreed" ELSE "diverged",
                     p, Authoritative(p), nodes') \in Events
      BY <2>2, AuthoritativeTyped, ReconciledTyped DEF ViewOK
    <2> QED
      BY <1>1, <2>2, <2>3 DEF Confirm, Emit, LoadsOK, loadVars, TypeOK
  <1>2. CASE Reload(p)
    <2>1. Reconciled("agreed", p, p.value, nodes) \in Events
      BY ReconciledTyped DEF ViewOK, Patches
    <2> QED BY <1>2, <2>1, StartLoadTyped DEF Reload, Emit, TypeOK
  <1>3. CASE Reject(p)
    <2>1. Reconciled("rejected", p, p.value, nodes) \in Events
      BY ReconciledTyped DEF ViewOK, Patches
    <2> QED
      BY <1>3, <2>1 DEF Reject, Emit, TypeOK, viewVars, loadVars, ViewOK, LoadsOK
  <1> QED BY <1>1, <1>2, <1>3

LEMMA AnswersTyped ==
  ASSUME TypeOK, NEW p \in patches, AnswerIgnored(p) \/ AnswerApplied(p)
  PROVE  TypeOK'
  <1> ViewOK /\ LoadsOK BY TypeParts
  <1>1. p \in Patches BY DEF TypeOK
  <1>2. CASE AnswerIgnored(p)
    BY <1>2 DEF AnswerIgnored, TakeAnswer, TypeOK, viewVars, loadVars, rowOpVars
  <1>3. CASE AnswerApplied(p)
    <2>1. ViewOK' /\ LoadsOK' /\ emitted' \subseteq Events /\ fetches' \subseteq Fetches
      BY <1>1, <1>3, ApplicationTyped DEF AnswerApplied
    <2>2. cellTokens' \in [Rows -> [Cols -> Nat]]
      BY <1>1, <1>3, ClearedTyped DEF AnswerApplied
    <2> QED
      BY <1>3, <2>1, <2>2
         DEF AnswerApplied, TakeAnswer, TypeOK, ViewOK, LoadsOK, rowOpVars
  <1> QED BY <1>2, <1>3

LEMMA BatchesTyped ==
  ASSUME TypeOK, NEW b, BatchIgnored(b) \/ BatchReverted(b) \/ BatchConfirmed(b)
  PROVE  TypeOK'
  <1> ViewOK /\ LoadsOK BY TypeParts
  <1>1. LiveOf(b) \subseteq Patches
    BY DEF LiveOf, BatchOf, TypeOK
  <1>2. CASE BatchIgnored(b)
    BY <1>2 DEF BatchIgnored, TakeBatch, TypeOK, viewVars, loadVars, rowOpVars
  <1>3. CASE BatchReverted(b)
    <2>1. ASSUME NEW r \in Rows, Present(r)
          PROVE  [c \in Cols |-> IF LiveAt(b, r, c) = {} THEN nodes[r][c]
                                 ELSE (CHOOSE p \in LiveAt(b, r, c) : TRUE).prior] \in RowImages
      <3>1. ASSUME NEW c \in Cols, LiveAt(b, r, c) # {}
            PROVE  (CHOOSE p \in LiveAt(b, r, c) : TRUE).prior \in Values
        BY <1>1, <3>1 DEF LiveAt, Patches
      <3>2. nodes[r] \in RowImages
        BY <2>1, LoadedRow DEF Present, ViewOK
      <3> QED BY <3>1, <3>2 DEF RowImages
    <2>2. Reverted(b) \in Tables
      BY <2>1 DEF Reverted, Tables
    <2>3. ViewOK'
      BY <1>3, <2>2, MutateTyped DEF BatchReverted
    <2>4. emitted' \subseteq Events
      BY <1>1, <1>3, <2>2, ReconciledTyped DEF BatchReverted, Patches
    <2>5. cellTokens' \in [Rows -> [Cols -> Nat]]
      BY <1>3 DEF BatchReverted, TypeOK
    <2> QED
      BY <1>3, <2>3, <2>4, <2>5
         DEF BatchReverted, TakeBatch, TypeOK, ViewOK, loadVars, rowOpVars
  <1>4. CASE BatchConfirmed(b)
    BY <1>1, <1>4 DEF BatchConfirmed, TakeBatch, TypeOK, viewVars, loadVars, rowOpVars
  <1> QED BY <1>2, <1>3, <1>4

LEMMA SettlingTyped ==
  ASSUME TypeOK, NEW p \in settling, BatchSettlesOne(p)
  PROVE  TypeOK'
  <1> ViewOK /\ LoadsOK BY TypeParts
  <1>1. p \in Patches BY DEF TypeOK
  <1>2. ViewOK' /\ LoadsOK' /\ emitted' \subseteq Events /\ fetches' \subseteq Fetches
    BY <1>1, ApplicationTyped DEF BatchSettlesOne
  <1>3. cellTokens' \in [Rows -> [Cols -> Nat]]
    BY <1>1, ClearedTyped DEF BatchSettlesOne
  <1> QED
    BY <1>2, <1>3 DEF BatchSettlesOne, TypeOK, ViewOK, LoadsOK, rowOpVars

LEMMA EditStepTyped == TypeOK /\ EditStep => TypeOK'
  BY AnswersTyped, BatchesTyped, SettlingTyped DEF EditStep

LEMMA RepliesTyped ==
  ASSUME TypeOK, NEW p \in patches, server[p.row] # Gone,
         NEW v \in Values, NEW kind \in ReplyKinds, NEW reply \in ReplyTo(p, v, kind)
  PROVE  reply \in Replies
  <1>1. p.row \in Rows /\ p.col \in Cols
    BY DEF TypeOK, Patches
  <1>2. server[p.row] \in RowImages
    BY <1>1, LoadedRow DEF TypeOK
  <1>3. [server[p.row] EXCEPT ![p.col] = v] \in [Cols -> Values \cup {Keep}]
    BY <1>1, <1>2 DEF RowImages
  <1>4. CASE kind = "value"
    BY <1>4, UnansweredTyped DEF ReplyTo, Replies
  <1>5. CASE kind = "columns"
    BY <1>3, <1>5 DEF ReplyTo, Replies
  <1>6. CASE kind = "otherRow"
    BY <1>3, <1>6 DEF ReplyTo, Replies
  <1>7. CASE kind \notin {"value", "columns", "otherRow"}
    BY <1>7, UnansweredTyped DEF ReplyTo, Replies
  <1> QED BY <1>4, <1>5, <1>6, <1>7

LEMMA ServerStepTyped == TypeOK /\ ServerStep => TypeOK'
  <1> SUFFICES ASSUME TypeOK, ServerStep PROVE TypeOK' OBVIOUS
  <1> USE DEF clientVars, viewVars, loadVars, tokenVars, rowOpVars
  <1>1. ASSUME NEW f \in fetches, ServerReadsPage(f) PROVE TypeOK'
    <2>1. \A g \in {[f EXCEPT !.stage = "answered", !.rows = server],
                     [f EXCEPT !.stage = "failed"]} : g \in Fetches
      BY DEF TypeOK, Fetches
    <2> QED BY <1>1, <2>1 DEF ServerReadsPage, TypeOK
  <1>2. ASSUME NEW p \in patches, ServerStoresCell(p) PROVE TypeOK'
    <2>1. PICK v \in {p.value} \cup Rewrites, kind \in ReplyKinds :
            \E reply \in ReplyTo(p, v, kind) :
              /\ server' = [server EXCEPT ![p.row][p.col] = v]
              /\ AnswerWith(p, reply)
      BY <1>2 DEF ServerStoresCell
    <2>2. PICK reply \in ReplyTo(p, v, kind) : AnswerWith(p, reply)
      BY <2>1
    <2>3. p \in Patches /\ p.row \in Rows /\ p.col \in Cols /\ v \in Values
      BY ShapeAssumption DEF TypeOK, Patches
    <2>4. reply \in Replies
      BY <1>2, <2>2, <2>3, RepliesTyped DEF ServerStoresCell
    <2>5. patches' \subseteq Patches
      BY <2>2, <2>3, <2>4 DEF AnswerWith, TypeOK, Patches
    <2>6. server[p.row] \in RowImages
      BY <1>2, <2>3, LoadedRow DEF ServerStoresCell, TypeOK
    <2>7. server' \in Tables
      BY <2>1, <2>3, <2>6 DEF TypeOK, Tables, RowImages
    <2> QED BY <1>2, <2>5, <2>7 DEF ServerStoresCell, TypeOK
  <1>3. ASSUME NEW p \in patches, ServerRefusesCell(p) PROVE TypeOK'
    <2>1. p \in Patches BY DEF TypeOK
    <2>2. [kind |-> "failed", cells |-> Unanswered.cells] \in Replies
      BY UnansweredTyped DEF Replies
    <2>3. patches' \subseteq Patches
      BY <1>3, <2>1, <2>2 DEF ServerRefusesCell, AnswerWith, TypeOK, Patches
    <2> QED BY <1>3, <2>3 DEF ServerRefusesCell, TypeOK
  <1>4. ASSUME NEW r \in Rows, ServerInserts(r) \/ ServerDeletes(r) PROVE TypeOK'
    <2>1. CASE ServerInserts(r)
      <3>1. server' \in Tables
        <4>1. server' = server \/ server' = [server EXCEPT ![r] = NewRow]
          BY <2>1 DEF ServerInserts
        <4> QED BY <4>1, ShapeAssumption DEF TypeOK, Tables
      <3>2. creates' \in [Rows -> Stages]
        BY <2>1 DEF ServerInserts, TypeOK, Stages
      <3> QED BY <2>1, <3>1, <3>2 DEF ServerInserts, TypeOK
    <2>2. CASE ServerDeletes(r)
      BY <2>2 DEF ServerDeletes, TypeOK, Tables, Stages
    <2> QED BY <1>4, <2>1, <2>2
  <1>5. ASSUME NEW r \in Rows, FormSaves(r) PROVE TypeOK'
    BY <1>5, ShapeAssumption DEF FormSaves, TypeOK, Tables
  <1>6. ASSUME NEW r \in Rows, OthersChange(r) PROVE TypeOK'
    <2>1. server' \in Tables BY <1>6 DEF OthersChange, TypeOK, Tables
    <2> QED BY <1>6, <2>1 DEF OthersChange, TypeOK
  <1> QED BY <1>1, <1>2, <1>3, <1>4, <1>5, <1>6 DEF ServerStep

LEMMA NextTyped == TypeOK /\ [Next]_vars => TypeOK'
  <1> SUFFICES ASSUME TypeOK, [Next]_vars PROVE TypeOK' OBVIOUS
  <1>1. CASE HostStep
    BY <1>1, LoadCallsTyped, EditCallsTyped, RowCallsTyped DEF HostStep
  <1>2. CASE UNCHANGED vars
    BY <1>2 DEF vars, viewVars, loadVars, tokenVars, rowOpVars, TypeOK
  <1> QED
    BY <1>1, <1>2, LoadStepTyped, EditStepTyped, RowStepTyped, ServerStepTyped DEF Next

\* However loads, edits, answers and row operations interleave, rows stay rows,
\* tokens numbers and states one of the states the grid knows.
THEOREM TypeCorrect == Spec => []TypeOK
  BY InitTyped, NextTyped, PTL DEF Spec

--------------------------------------------------------------------------------
(* Rows and published state move together.                                   *)

\* The only ways a step touches what the host reads.
ViewStep ==
  \/ UNCHANGED viewVars
  \/ \E table : Mutate(table)
  \/ \E table : nodes' = table /\ PublishReady(table)
  \/ PublishLoadError
  \/ StartLoad

LEMMA NextIsViewStep == [Next]_vars => ViewStep
  <1> SUFFICES ASSUME [Next]_vars PROVE ViewStep OBVIOUS
  <1>1. CASE HostStep
    <2>1. CASE Refetch BY <2>1 DEF Refetch, ViewStep
    <2>2. CASE Dispose BY <2>2 DEF Dispose, ViewStep
    <2>3. CASE \E change \in Change : SetCell(change)
      BY <2>3 DEF SetCell, ViewStep
    <2>4. CASE \E changes \in Batches : ApplyChanges(changes)
      BY <2>4 DEF ApplyChanges, ViewStep
    <2>5. CASE \E r \in Rows : CreateNode(r) \/ AddSavedNode(r) \/ RemoveNode(r)
      BY <2>5 DEF CreateNode, AddSavedNode, RemoveNode, ViewStep
    <2> QED BY <1>1, <2>1, <2>2, <2>3, <2>4, <2>5 DEF HostStep
  <1>2. CASE LoadStep
    BY <1>2 DEF LoadStep, RequestPage, RequestThrows, PageIgnored, PageLoaded, PageFailed,
                ViewStep, viewVars
  <1>3. CASE EditStep
    BY <1>3 DEF EditStep, AnswerIgnored, AnswerApplied, BatchIgnored, BatchReverted,
                BatchConfirmed, BatchSettlesOne, Confirm, Reload, Reject, ViewStep, viewVars
  <1>4. CASE RowStep
    BY <1>4 DEF RowStep, CreateRejected, CreateResolved, RemoveSettles, ViewStep
  <1>5. CASE ServerStep
    BY <1>5 DEF ServerStep, ServerReadsPage, ServerStoresCell, ServerRefusesCell,
                ServerInserts, ServerDeletes, FormSaves, OthersChange, clientVars, ViewStep
  <1>6. CASE UNCHANGED vars
    BY <1>6 DEF vars, ViewStep
  <1> QED BY <1>1, <1>2, <1>3, <1>4, <1>5, <1>6 DEF Next

LEMMA ViewStepCoherent ==
  ASSUME SnapshotCoherent, TypeOK', ViewStep
  PROVE  SnapshotCoherent'
  <1>1. nodes' # NoSnapshot
    BY MarkAssumption DEF TypeOK
  <1>2. CASE UNCHANGED viewVars
    BY <1>2 DEF SnapshotCoherent, viewVars
  <1>3. CASE \E table : Mutate(table)
    BY <1>1, <1>3 DEF SnapshotCoherent, Mutate, PublishDataMutation
  <1>4. CASE \E table : nodes' = table /\ PublishReady(table)
    BY <1>1, <1>4 DEF SnapshotCoherent, PublishReady
  <1>5. CASE PublishLoadError
    BY <1>5 DEF SnapshotCoherent, PublishLoadError
  <1>6. CASE StartLoad
    BY <1>6 DEF SnapshotCoherent, StartLoad
  <1> QED BY <1>2, <1>3, <1>4, <1>5, <1>6 DEF ViewStep

\* Whatever the host, the server and the answers do, the snapshot a subscriber
\* reads is the rows the source holds (publishReady, publishDataMutation,
\* publishLoadError and refetch publish all they change).
THEOREM SnapshotIsCoherent == Spec => []SnapshotCoherent
  <1>1. Init => SnapshotCoherent
    <2> SUFFICES ASSUME Init PROVE SnapshotCoherent OBVIOUS
    <2> QED BY DEF Init, SnapshotCoherent
  <1>2. TypeOK' /\ SnapshotCoherent /\ [Next]_vars => SnapshotCoherent'
    BY NextIsViewStep, ViewStepCoherent
  <1> QED BY <1>1, <1>2, TypeCorrect, PTL DEF Spec

--------------------------------------------------------------------------------
(* Reconcile events.                                                         *)

\* The event of a confirmed edit, wherever the edit is confirmed from.
LEMMA ConfirmShowsTruth ==
  ASSUME TypeOK, NEW p \in Patches, Confirm(p)
  PROVE  DivergedShowsTruth'
  <1> SUFFICES ASSUME NEW e \in emitted', e.kind = "diverged"
               PROVE  e.shown \in {e.authoritative, Gone}
    BY DEF DivergedShowsTruth
  <1>1. e = Reconciled(IF Authoritative(p) = p.value THEN "agreed" ELSE "diverged",
                       p, Authoritative(p), nodes')
    BY DEF Confirm, Emit
  <1>2. Authoritative(p) # p.value
    BY <1>1 DEF Reconciled
  <1>3. e.authoritative = Authoritative(p) /\ e.shown = CellIn(nodes', p.row, p.col)
    BY <1>1 DEF Reconciled
  <1>4. p.row \in Rows /\ p.col \in Cols
    BY DEF Patches
  <1>5. CASE ~Present(p.row)
    BY <1>3, <1>5 DEF Confirm, Writes, viewVars, Present, CellIn
  <1>6. CASE Present(p.row)
    <2>1. nodes' = [nodes EXCEPT ![p.row] = Merge(@, p.reply.cells)]
      BY <1>2, <1>6 DEF Confirm, Writes, Mutate
    <2>2. nodes'[p.row][p.col] = Authoritative(p)
      BY <1>2, <1>4, <2>1 DEF Merge, Authoritative, TypeOK, Tables
    <2> QED BY <1>3, <2>2 DEF CellIn
  <1> QED BY <1>5, <1>6

LEMMA ApplicationShowsTruth ==
  ASSUME TypeOK, NEW p \in Patches, Confirm(p) \/ Reload(p) \/ Reject(p)
  PROVE  DivergedShowsTruth'
  BY ConfirmShowsTruth DEF Reload, Reject, Emit, Reconciled, DivergedShowsTruth

\* Every step but the handling of an edit's answer emits nothing.
Unheard == emitted' = {} \/ UNCHANGED emitted

LEMMA OthersUnheard ==
  [Next]_vars =>
    \/ Unheard
    \/ \E p \in patches : AnswerApplied(p) \/ BatchReverted(p.batch)
    \/ \E p \in settling : BatchSettlesOne(p)
  BY DEF Next, HostStep, LoadStep, EditStep, RowStep, ServerStep, Unheard, vars,
         Refetch, Dispose, SetCell, ApplyChanges, CreateNode, AddSavedNode, RemoveNode,
         RequestPage, RequestThrows, PageIgnored, PageLoaded, PageFailed, TakePage,
         AnswerIgnored, BatchIgnored, BatchConfirmed,
         CreateRejected, CreateResolved, TakeCreated, RemoveSettles,
         ServerReadsPage, ServerStoresCell, ServerRefusesCell, ServerInserts,
         ServerDeletes, FormSaves, OthersChange

\* An event that says the server stored something else names the value the grid
\* shows by then (applyPatchCellResponse writes before it emits).
THEOREM DivergedEventsShowTruth == Spec => []DivergedShowsTruth
  <1>1. Init => DivergedShowsTruth
    BY DEF Init, DivergedShowsTruth
  <1>2. TypeOK /\ DivergedShowsTruth /\ [Next]_vars => DivergedShowsTruth'
    <2> SUFFICES ASSUME TypeOK, DivergedShowsTruth, [Next]_vars
                 PROVE  DivergedShowsTruth'
      OBVIOUS
    <2>1. CASE Unheard
      BY <2>1 DEF Unheard, DivergedShowsTruth
    <2>2. ASSUME NEW p \in patches, AnswerApplied(p) PROVE DivergedShowsTruth'
      BY <2>2, ApplicationShowsTruth DEF AnswerApplied, TypeOK
    <2>3. ASSUME NEW b, BatchReverted(b) PROVE DivergedShowsTruth'
      BY <2>3 DEF BatchReverted, Reconciled, DivergedShowsTruth
    <2>4. ASSUME NEW p \in settling, BatchSettlesOne(p) PROVE DivergedShowsTruth'
      BY <2>4, ApplicationShowsTruth DEF BatchSettlesOne, TypeOK
    <2> QED BY <2>1, <2>2, <2>3, <2>4, OthersUnheard
  <1> QED BY <1>1, <1>2, TypeCorrect, PTL DEF Spec

--------------------------------------------------------------------------------
(* Superseded answers.                                                       *)

\* The steps that take an answer of a single edit off the wire.
LEMMA AnswersAreTaken ==
  ASSUME [Next]_vars, NEW q \in patches \ patches', q.batch = 0
  PROVE  \/ UNCHANGED clientVars /\ emitted' = {}
         \/ AnswerIgnored(q)
         \/ AnswerApplied(q)
  <1>1. CASE HostStep
    BY <1>1 DEF HostStep, Refetch, Dispose, SetCell, ApplyChanges, CreateNode,
                AddSavedNode, RemoveNode
  <1>2. CASE LoadStep
    BY <1>2 DEF LoadStep, RequestPage, RequestThrows, PageIgnored, PageLoaded, PageFailed,
                TakePage
  <1>3. CASE EditStep
    <2>1. ASSUME NEW p \in patches, AnswerIgnored(p) \/ AnswerApplied(p)
          PROVE  AnswerIgnored(q) \/ AnswerApplied(q)
      <3>1. p = q BY <2>1 DEF AnswerIgnored, AnswerApplied, TakeAnswer
      <3> QED BY <2>1, <3>1
    <2>2. ASSUME NEW p \in patches,
                 BatchIgnored(p.batch) \/ BatchReverted(p.batch) \/ BatchConfirmed(p.batch)
          PROVE  FALSE
      BY <2>2 DEF BatchIgnored, BatchReverted, BatchConfirmed, TakeBatch, BatchOf
    <2>3. ASSUME NEW p \in settling, BatchSettlesOne(p) PROVE FALSE
      BY <2>3 DEF BatchSettlesOne
    <2> QED BY <1>3, <2>1, <2>2, <2>3 DEF EditStep
  <1>4. CASE RowStep
    BY <1>4 DEF RowStep, CreateRejected, CreateResolved, RemoveSettles, TakeCreated
  <1>5. CASE ServerStep
    BY <1>5 DEF ServerStep, ServerReadsPage, ServerStoresCell, ServerRefusesCell,
                ServerInserts, ServerDeletes, FormSaves, OthersChange
  <1>6. CASE UNCHANGED vars
    BY <1>6 DEF vars
  <1> QED BY <1>1, <1>2, <1>3, <1>4, <1>5, <1>6 DEF Next

\* An answer whose token was replaced by a later edit of the cell, or that comes
\* after disposal, is dropped whole (the token check of setCell).
THEOREM SupersededAnswersAreInert == Spec => SupersededAnswerIsInert
  <1>1. ASSUME [Next]_vars, NEW p \in patches \ patches', p.batch = 0,
               disposed \/ ~IsCurrent(p)
        PROVE  emitted' = {} /\ UNCHANGED <<viewVars, loadVars>>
    BY <1>1, AnswersAreTaken DEF clientVars, AnswerIgnored, AnswerApplied
  <1>2. [Next]_vars => [DropsSuperseded]_vars
    BY <1>1 DEF DropsSuperseded
  <1> QED BY <1>2, PTL DEF Spec, SupersededAnswerIsInert

--------------------------------------------------------------------------------
(* Loads of a source no subscriber calls back synchronously.                 *)

\* The strengthening PendingLoadCanPublish needs.  A refetch at its notification
\* is the only frame, owns the newest token and has not sent its request; every
\* request has a token of its own; the request of the newest token belongs to
\* the pending load; nothing is under way in a disposed source.
LoadOrder ==
  /\ fetchToken # 0
  /\ loading = <<>> \/ loading = <<fetchToken>>
  /\ loading # <<>> =>
       /\ pendingLoad = 0 /\ ~disposed
       /\ loads[fetchToken] = "pending"
       /\ \A f \in fetches : f.token # fetchToken
  /\ \A f \in fetches :
       /\ f.token <= fetchToken
       /\ (f.token = fetchToken /\ ~disposed) => pendingLoad = fetchToken
       /\ \A g \in fetches : f.token = g.token => f = g
  /\ disposed => settling = {} /\ pendingLoad = 0

LoadInvariant == LoadOrder /\ PendingLoadCanPublish /\ NoAbandonedLoad

LEMMA InitLoads == Init => LoadInvariant
  BY BoundAssumption
     DEF Init, LoadInvariant, LoadOrder, PendingLoadCanPublish, NoAbandonedLoad

\* A refetch that no frame surrounds: the pending load is settled and the only
\* unsettled load is the new one.
LEMMA StartLoadOrdered ==
  ASSUME TypeOK, LoadInvariant, StartLoad, loading = <<>>, ~disposed,
         UNCHANGED <<fetches, disposed>>
  PROVE  LoadInvariant'
  <1> DEFINE new == fetchToken + 1
  <1>1. new \in 1 .. MaxFetches /\ fetchToken \in Nat
    BY BoundAssumption DEF TypeOK, StartLoad
  <1>2. fetchToken' = new /\ pendingLoad' = 0 /\ loading' = <<new>>
    <2>1. <<new>> \o <<>> = <<new>> BY <1>1
    <2> QED BY <2>1 DEF StartLoad
  <1>3. loads' = [SettlePending("superseded") EXCEPT ![new] = "pending"]
    BY DEF StartLoad
  <1>4. loads'[new] = "pending"
    BY <1>1, <1>3 DEF SettlePending, TypeOK
  <1>5. \A f \in fetches : f.token \in Nat /\ f.token <= fetchToken
    BY DEF LoadInvariant, LoadOrder, TypeOK, Fetches
  <1>6. /\ fetchToken' # 0
        /\ \A f \in fetches : f.token <= fetchToken' /\ f.token # fetchToken'
    BY <1>1, <1>2, <1>5
  <1>7. LoadOrder'
    <2>1. \A f, g \in fetches : f.token = g.token => f = g
      BY DEF LoadInvariant, LoadOrder
    <2> QED BY <1>2, <1>4, <1>6, <2>1 DEF LoadOrder
  <1>8. ASSUME NEW t \in DOMAIN loads', loads'[t] = "pending" PROVE t = new
    <2>1. t \in 1 .. MaxFetches
      BY <1>3 DEF TypeOK, SettlePending
    <2>2. t # new => loads[t] = "pending" /\ t # pendingLoad
      BY <1>3, <1>8, <2>1 DEF SettlePending, TypeOK
    <2> QED BY <2>1, <2>2 DEF LoadInvariant, NoAbandonedLoad, TypeOK
  <1>9. NoAbandonedLoad'
    BY <1>2, <1>8 DEF NoAbandonedLoad
  <1> QED BY <1>2, <1>7, <1>9 DEF LoadInvariant, PendingLoadCanPublish

LEMMA RequestOrdered ==
  ASSUME TypeOK, LoadInvariant, RequestPage \/ RequestThrows
  PROVE  LoadInvariant'
  <1>0. loading # <<>> BY DEF RequestPage, RequestThrows
  <1>1. loading = <<fetchToken>> /\ Head(loading) = fetchToken /\ Tail(loading) = <<>>
    <2>1. loading = <<fetchToken>> BY <1>0 DEF LoadInvariant, LoadOrder
    <2>2. Head(<<fetchToken>>) = fetchToken /\ Tail(<<fetchToken>>) = <<>> OBVIOUS
    <2> QED BY <2>1, <2>2
  <1>2. fetchToken \in 1 .. MaxFetches
    BY <1>1 DEF TypeOK
  <1>3. \A t \in 1 .. MaxFetches : loads[t] = "pending" => t = fetchToken
    BY <1>1, <1>2 DEF TypeOK, LoadInvariant, LoadOrder, NoAbandonedLoad
  <1>4. CASE RequestPage
    <2>1. loading' = <<>> /\ pendingLoad' = fetchToken /\ UNCHANGED <<fetchToken, loads, disposed, settling>>
      BY <1>1, <1>4 DEF RequestPage
    <2> DEFINE g == [token |-> fetchToken, stage |-> "sent", rows |-> Empty]
    <2>2. fetches' = fetches \cup {g}
      BY <1>1, <1>4 DEF RequestPage
    <2>3. LoadOrder'
      BY <1>1, <1>2, <2>1, <2>2 DEF LoadInvariant, LoadOrder
    <2>4. PendingLoadCanPublish'
      <3>1. g \in fetches' /\ g.token = pendingLoad' BY <2>1, <2>2
      <3>2. loads[fetchToken] = "pending" BY <1>1 DEF LoadInvariant, LoadOrder
      <3> QED BY <2>1, <3>1, <3>2 DEF PendingLoadCanPublish
    <2>5. NoAbandonedLoad'
      BY <1>3, <2>1 DEF NoAbandonedLoad, TypeOK
    <2> QED BY <2>3, <2>4, <2>5 DEF LoadInvariant
  <1>5. CASE RequestThrows
    <2>1. /\ loading' = <<>> /\ pendingLoad' = 0
          /\ loads' = [loads EXCEPT ![fetchToken] = "error"]
          /\ UNCHANGED <<fetchToken, fetches, disposed, settling>>
      BY <1>1, <1>5 DEF RequestThrows, LoadInvariant, LoadOrder
    <2>2. LoadOrder'
      BY <1>1, <2>1 DEF LoadInvariant, LoadOrder
    <2>3. NoAbandonedLoad'
      BY <1>2, <1>3, <2>1 DEF NoAbandonedLoad, TypeOK
    <2> QED BY <2>1, <2>2, <2>3 DEF LoadInvariant, PendingLoadCanPublish
  <1> QED BY <1>4, <1>5

LEMMA PageOrdered ==
  ASSUME TypeOK, LoadInvariant, NEW f \in fetches,
         PageIgnored(f) \/ PageLoaded(f) \/ PageFailed(f)
  PROVE  LoadInvariant'
  <1>1. /\ loading = <<>> /\ fetches' = fetches \ {f}
        /\ UNCHANGED <<fetchToken, loading, disposed, settling>>
    BY DEF PageIgnored, PageLoaded, PageFailed, TakePage, EventLoop, FramesClosed
  <1>2. CASE PageIgnored(f)
    <2>1. UNCHANGED <<loads, pendingLoad>> /\ (disposed \/ f.token # fetchToken)
      BY <1>2 DEF PageIgnored, PageIsStale
    <2>2. LoadOrder' /\ NoAbandonedLoad'
      BY <1>1, <2>1 DEF LoadInvariant, LoadOrder, NoAbandonedLoad
    <2>3. PendingLoadCanPublish'
      BY <1>1, <2>1 DEF LoadInvariant, LoadOrder, PendingLoadCanPublish
    <2> QED BY <2>2, <2>3 DEF LoadInvariant
  <1>3. CASE PageLoaded(f) \/ PageFailed(f)
    <2>1. f.token = fetchToken /\ pendingLoad = fetchToken /\ ~disposed
      BY <1>3 DEF PageLoaded, PageFailed, PageIsStale, LoadInvariant, LoadOrder
    <2>2. PICK result \in {"ready", "error"} :
            loads' = [loads EXCEPT ![fetchToken] = result] /\ pendingLoad' = 0
      BY <1>3, <2>1 DEF PageLoaded, PageFailed, ResolveCurrentLoad
    <2>3. LoadOrder'
      BY <1>1, <2>1, <2>2 DEF LoadInvariant, LoadOrder
    <2>4. NoAbandonedLoad'
      BY <1>1, <2>1, <2>2 DEF LoadInvariant, NoAbandonedLoad, TypeOK
    <2> QED BY <2>2, <2>3, <2>4 DEF LoadInvariant, PendingLoadCanPublish
  <1> QED BY <1>2, <1>3

LEMMA DisposeOrdered ==
  ASSUME TypeOK, LoadInvariant, ~Reentrant, Dispose
  PROVE  LoadInvariant'
  <1>1. /\ loading = <<>> /\ settling = {} /\ pendingLoad' = 0 /\ disposed'
        /\ fetchToken' = fetchToken + 1 /\ loads' = SettlePending("disposed")
        /\ UNCHANGED <<loading, fetches, settling>>
    BY DEF Dispose, HostCalls, FramesClosed
  <1>2. \A t \in DOMAIN loads' : loads'[t] # "pending"
    BY <1>1 DEF SettlePending, LoadInvariant, NoAbandonedLoad
  <1>3. fetchToken \in Nat /\ fetchToken' # 0 /\ \A f \in fetches : f.token \in Nat
    BY <1>1 DEF TypeOK, Fetches
  <1> QED
    BY <1>1, <1>2, <1>3
       DEF LoadInvariant, LoadOrder, PendingLoadCanPublish, NoAbandonedLoad

\* Steps that leave the loads alone.
LEMMA OthersOrdered ==
  ASSUME LoadInvariant, UNCHANGED <<loadVars, fetches, disposed>>,
         disposed => UNCHANGED settling
  PROVE  LoadInvariant'
  BY DEF loadVars, LoadInvariant, LoadOrder, PendingLoadCanPublish, NoAbandonedLoad

LEMMA ApplicationOrdered ==
  ASSUME TypeOK, LoadInvariant, NEW p \in patches \cup settling,
         Confirm(p) \/ Reload(p) \/ Reject(p), loading = <<>>, ~disposed,
         UNCHANGED disposed
  PROVE  LoadInvariant'
  BY OthersOrdered, StartLoadOrdered DEF Confirm, Reload, Reject

LEMMA EditStepOrdered ==
  ASSUME TypeOK, LoadInvariant, EditStep
  PROVE  LoadInvariant'
  <1>1. ASSUME NEW p \in patches, AnswerIgnored(p) PROVE LoadInvariant'
    BY <1>1, OthersOrdered DEF AnswerIgnored, TakeAnswer
  <1>2. ASSUME NEW p \in patches, AnswerApplied(p) PROVE LoadInvariant'
    BY <1>2, ApplicationOrdered DEF AnswerApplied, TakeAnswer, EventLoop, FramesClosed
  <1>3. ASSUME NEW b, BatchIgnored(b) \/ BatchReverted(b) \/ BatchConfirmed(b)
        PROVE  LoadInvariant'
    BY <1>3, OthersOrdered DEF BatchIgnored, BatchReverted, BatchConfirmed, TakeBatch
  <1>4. ASSUME NEW p \in settling, BatchSettlesOne(p) PROVE LoadInvariant'
    <2>1. ~disposed BY DEF LoadInvariant, LoadOrder
    <2> QED BY <1>4, <2>1, ApplicationOrdered DEF BatchSettlesOne
  <1> QED BY <1>1, <1>2, <1>3, <1>4 DEF EditStep

LEMMA ReadOrdered ==
  ASSUME TypeOK, LoadInvariant, NEW f \in fetches, ServerReadsPage(f)
  PROVE  LoadInvariant'
  <1>1. UNCHANGED <<loadVars, settling, disposed>>
    BY DEF ServerReadsPage, clientVars
  <1>2. PICK g : fetches' = (fetches \ {f}) \cup {g} /\ g.token = f.token
    BY DEF ServerReadsPage, TypeOK, Fetches
  <1>3. LoadOrder'
    BY <1>1, <1>2 DEF LoadInvariant, LoadOrder, loadVars
  <1>4. PendingLoadCanPublish'
    BY <1>1, <1>2 DEF LoadInvariant, PendingLoadCanPublish, loadVars
  <1> QED BY <1>1, <1>3, <1>4 DEF LoadInvariant, NoAbandonedLoad, loadVars

LEMMA NextOrdered ==
  ASSUME TypeOK, LoadInvariant, ~Reentrant, [Next]_vars
  PROVE  LoadInvariant'
  <1>1. CASE Refetch
    BY <1>1, StartLoadOrdered DEF Refetch, HostCalls, FramesClosed
  <1>2. ASSUME \/ \E change \in Change : SetCell(change)
               \/ \E changes \in Batches : ApplyChanges(changes)
        PROVE  LoadInvariant'
    BY <1>2, OthersOrdered DEF SetCell, ApplyChanges
  <1>3. ASSUME NEW r \in Rows, CreateNode(r) \/ AddSavedNode(r) \/ RemoveNode(r)
        PROVE  LoadInvariant'
    BY <1>3, OthersOrdered DEF CreateNode, AddSavedNode, RemoveNode
  <1>4. CASE LoadStep
    BY <1>4, RequestOrdered, PageOrdered DEF LoadStep
  <1>5. CASE RowStep
    BY <1>5, OthersOrdered
       DEF RowStep, CreateRejected, CreateResolved, RemoveSettles, TakeCreated
  <1>6. CASE ServerStep
    <2>1. ASSUME NEW p, ServerStoresCell(p) \/ ServerRefusesCell(p) PROVE LoadInvariant'
      BY <2>1, OthersOrdered DEF ServerStoresCell, ServerRefusesCell, clientVars
    <2>2. ASSUME NEW r, ServerInserts(r) \/ ServerDeletes(r) \/ FormSaves(r) \/ OthersChange(r)
          PROVE  LoadInvariant'
      BY <2>2, OthersOrdered DEF ServerInserts, ServerDeletes, FormSaves, OthersChange, clientVars
    <2> QED BY <1>6, <2>1, <2>2, ReadOrdered DEF ServerStep
  <1>7. CASE UNCHANGED vars
    BY <1>7, OthersOrdered DEF vars
  <1> QED
    <2>1. CASE HostStep
      <3>1. CASE Dispose BY <3>1, DisposeOrdered
      <3> QED BY <1>1, <1>2, <1>3, <2>1, <3>1 DEF HostStep
    <2>2. CASE EditStep BY <2>2, EditStepOrdered
    <2> QED BY <1>4, <1>5, <1>6, <1>7, <2>1, <2>2 DEF Next

LEMMA LoadsInOrder == ~Reentrant => (Spec => []LoadInvariant)
  <1> SUFFICES ASSUME ~Reentrant PROVE Spec => []LoadInvariant OBVIOUS
  <1>1. TypeOK /\ LoadInvariant /\ [Next]_vars => LoadInvariant'
    BY NextOrdered
  <1> QED BY <1>1, InitLoads, TypeCorrect, PTL DEF Spec

\* Where no subscriber calls back from inside a notification, the pending load
\* is always the newest one and its request is still out (the tokens of refetch,
\* resolveCurrentLoad and dispose).
THEOREM PendingLoadsCanPublish == ~Reentrant => (Spec => []PendingLoadCanPublish)
  <1>1. LoadInvariant => PendingLoadCanPublish BY DEF LoadInvariant
  <1> QED BY <1>1, LoadsInOrder, PTL

\* Under the same assumption no caller of refetch holds a promise that nothing
\* can settle any more.
THEOREM NoLoadIsAbandoned == ~Reentrant => (Spec => []NoAbandonedLoad)
  <1>1. LoadInvariant => NoAbandonedLoad BY DEF LoadInvariant
  <1> QED BY <1>1, LoadsInOrder, PTL

\* The only steps that take an answer of a page request off the wire.
LEMMA PagesAreTaken ==
  ASSUME [Next]_vars, NEW f \in fetches \ fetches'
  PROVE  \/ PageIgnored(f) \/ PageLoaded(f) \/ PageFailed(f)
         \/ UNCHANGED <<viewVars, loads>>
  <1>1. CASE HostStep
    BY <1>1 DEF HostStep, Refetch, Dispose, SetCell, ApplyChanges, CreateNode,
                AddSavedNode, RemoveNode
  <1>2. CASE LoadStep
    <2>1. ASSUME NEW g \in fetches, PageIgnored(g) \/ PageLoaded(g) \/ PageFailed(g)
          PROVE  PageIgnored(f) \/ PageLoaded(f) \/ PageFailed(f)
      <3>1. f = g BY <2>1 DEF PageIgnored, PageLoaded, PageFailed, TakePage
      <3> QED BY <2>1, <3>1
    <2> QED BY <1>2, <2>1 DEF LoadStep, RequestPage, RequestThrows
  <1>3. CASE EditStep
    BY <1>3 DEF EditStep, AnswerIgnored, AnswerApplied, TakeAnswer, BatchIgnored,
                BatchReverted, BatchConfirmed, TakeBatch, BatchSettlesOne,
                Confirm, Reload, Reject
  <1>4. CASE RowStep
    BY <1>4 DEF RowStep, CreateRejected, CreateResolved, RemoveSettles, TakeCreated
  <1>5. CASE ServerStep
    BY <1>5 DEF ServerStep, ServerReadsPage, ServerStoresCell, ServerRefusesCell,
                ServerInserts, ServerDeletes, FormSaves, OthersChange, clientVars, loadVars
  <1>6. CASE UNCHANGED vars
    BY <1>6 DEF vars
  <1> QED BY <1>1, <1>2, <1>3, <1>4, <1>5, <1>6 DEF Next

\* Pages show in the order they were asked for, whatever the order they arrive
\* in: an answer that is used belongs to the newest load and settles it.
THEOREM OnlyNewestPagesShow == ~Reentrant => (Spec => OnlyNewestPageShows)
  <1>1. TypeOK /\ LoadInvariant /\ [Next]_vars => [ShowsNewest]_vars
    <2> SUFFICES ASSUME TypeOK, LoadInvariant, [Next]_vars, NEW f \in fetches \ fetches'
                 PROVE  \/ UNCHANGED <<viewVars, loads>>
                        \/ /\ f.token = fetchToken
                           /\ \/ loads'[f.token] = "error"
                              \/ loads'[f.token] = "ready" /\ status' = "ready" /\ nodes' = f.rows
      BY DEF ShowsNewest
    <2>1. CASE PageIgnored(f) BY <2>1 DEF PageIgnored
    <2>2. CASE PageLoaded(f) \/ PageFailed(f)
      <3>1. f.token = fetchToken /\ pendingLoad = fetchToken
        BY <2>2 DEF PageLoaded, PageFailed, PageIsStale, LoadInvariant, LoadOrder
      <3>2. fetchToken \in DOMAIN loads
        BY <3>1, BoundAssumption DEF TypeOK, LoadInvariant, LoadOrder
      <3>3. CASE PageLoaded(f)
        <4>1. ResolveCurrentLoad(f.token, "ready") BY <3>3 DEF PageLoaded
        <4>2. loads'[f.token] = "ready" BY <3>1, <3>2, <4>1 DEF ResolveCurrentLoad
        <4> QED BY <3>1, <3>3, <4>2 DEF PageLoaded, PublishReady
      <3>4. CASE PageFailed(f)
        <4>1. ResolveCurrentLoad(f.token, "error") BY <3>4 DEF PageFailed
        <4>2. loads'[f.token] = "error" BY <3>1, <3>2, <4>1 DEF ResolveCurrentLoad
        <4> QED BY <3>1, <4>2
      <3> QED BY <2>2, <3>3, <3>4
    <2> QED BY <2>1, <2>2, PagesAreTaken
  <1> SUFFICES ASSUME ~Reentrant PROVE Spec => OnlyNewestPageShows OBVIOUS
  <1>2. Spec => []LoadInvariant BY LoadsInOrder
  <1> QED BY <1>1, <1>2, TypeCorrect, PTL DEF Spec, OnlyNewestPageShows

--------------------------------------------------------------------------------
(* The loading state.                                                        *)

\* Steps that leave the loads alone never enter a loading state, and a step that
\* settles the pending load leaves it.
LEMMA NextLoading ==
  ASSUME TypeOK, LoadingMeansLoad, [Next]_vars
  PROVE  LoadingMeansLoad'
  <1> USE DEF LoadingMeansLoad
  <1>1. ASSUME UNCHANGED <<pendingLoad, loading, disposed>>,
               UNCHANGED viewVars \/ \E table : Mutate(table)
        PROVE  LoadingMeansLoad'
    BY <1>1 DEF viewVars, Mutate, PublishDataMutation
  <1>2. ASSUME StartLoad PROVE LoadingMeansLoad'
    <2>1. loading' # <<>>
      BY <1>2, BoundAssumption DEF StartLoad, TypeOK
    <2> QED BY <2>1
  <1>3. CASE HostStep
    <2>1. CASE Refetch BY <1>2, <2>1 DEF Refetch
    <2>2. CASE Dispose BY <2>2 DEF Dispose
    <2>3. ASSUME \/ \E change \in Change : SetCell(change)
                 \/ \E changes \in Batches : ApplyChanges(changes)
          PROVE  LoadingMeansLoad'
      BY <1>1, <2>3 DEF SetCell, ApplyChanges, loadVars
    <2>4. ASSUME NEW r \in Rows, CreateNode(r) \/ AddSavedNode(r) \/ RemoveNode(r)
          PROVE  LoadingMeansLoad'
      BY <1>1, <2>4 DEF CreateNode, AddSavedNode, RemoveNode, loadVars
    <2> QED BY <1>3, <2>1, <2>2, <2>3, <2>4 DEF HostStep
  <1>4. CASE RequestPage \/ RequestThrows
    <2>1. Head(loading) # 0
      BY <1>4, BoundAssumption, HeadTailProperties DEF RequestPage, RequestThrows, TypeOK
    <2> QED
      BY <1>4, <2>1 DEF RequestPage, RequestThrows, PublishLoadError
  <1>5. ASSUME NEW f \in fetches, PageIgnored(f) \/ PageLoaded(f) \/ PageFailed(f)
        PROVE  LoadingMeansLoad'
    BY <1>5 DEF PageIgnored, PageLoaded, PageFailed, TakePage, PublishReady,
                PublishLoadError, viewVars
  <1>6. CASE EditStep
    <2>1. ASSUME NEW p, Confirm(p) \/ Reload(p) \/ Reject(p), UNCHANGED disposed
          PROVE  LoadingMeansLoad'
      BY <1>1, <1>2, <2>1 DEF Confirm, Reload, Reject, loadVars
    <2>2. ASSUME NEW b, BatchIgnored(b) \/ BatchReverted(b) \/ BatchConfirmed(b)
          PROVE  LoadingMeansLoad'
      BY <1>1, <2>2 DEF BatchIgnored, BatchReverted, BatchConfirmed, TakeBatch, loadVars
    <2>3. ASSUME NEW p \in patches, AnswerIgnored(p) \/ AnswerApplied(p)
          PROVE  LoadingMeansLoad'
      BY <1>1, <2>1, <2>3 DEF AnswerIgnored, AnswerApplied, TakeAnswer, loadVars
    <2>4. ASSUME NEW p \in settling, BatchSettlesOne(p) PROVE LoadingMeansLoad'
      BY <2>1, <2>4 DEF BatchSettlesOne
    <2> QED BY <1>6, <2>2, <2>3, <2>4 DEF EditStep
  <1>7. CASE RowStep
    BY <1>1, <1>7
       DEF RowStep, CreateRejected, CreateResolved, RemoveSettles, TakeCreated, loadVars
  <1>8. CASE ServerStep
    BY <1>1, <1>8
       DEF ServerStep, ServerReadsPage, ServerStoresCell, ServerRefusesCell, ServerInserts,
           ServerDeletes, FormSaves, OthersChange, clientVars, loadVars
  <1>9. CASE UNCHANGED vars
    BY <1>1, <1>9 DEF vars, loadVars
  <1> QED BY <1>3, <1>4, <1>5, <1>6, <1>7, <1>8, <1>9 DEF Next, LoadStep

\* A live source that shows a loading state has a load under way that ends it,
\* even if subscribers call it back.
THEOREM LoadingHasItsLoad == Spec => []LoadingMeansLoad
  <1>1. Init => LoadingMeansLoad BY DEF Init, LoadingMeansLoad
  <1>2. TypeOK /\ LoadingMeansLoad /\ [Next]_vars => LoadingMeansLoad' BY NextLoading
  <1> QED BY <1>1, <1>2, TypeCorrect, PTL DEF Spec

--------------------------------------------------------------------------------
(* The edits under way.                                                      *)

\* A disposed source marks no cell.
EditInvariant ==
  /\ LiveTokenHasItsEdit
  /\ disposed => \A r \in Rows, c \in Cols : cellTokens[r][c] = 0

\* Taking p off the wire, and the token of its cell with it, loses no live edit.
LEMMA ClearedKeepsOthers ==
  ASSUME TypeOK, EditInvariant, NEW p \in Patches, cellTokens' = Cleared(p),
         patches \cup settling \subseteq patches' \cup settling' \cup {p},
         UNCHANGED disposed
  PROVE  EditInvariant'
  <1>1. p.row \in Rows /\ p.col \in Cols BY DEF Patches
  <1>2. ASSUME NEW r \in Rows, NEW c \in Cols, cellTokens'[r][c] # 0
        PROVE  /\ cellTokens'[r][c] = cellTokens[r][c]
               /\ ~(p.row = r /\ p.col = c /\ p.token = cellTokens[r][c])
    BY <1>1, <1>2 DEF Cleared, IsCurrent, TypeOK
  <1>3. LiveTokenHasItsEdit'
    BY <1>2 DEF LiveTokenHasItsEdit, EditInvariant
  <1>4. disposed' => \A r \in Rows, c \in Cols : cellTokens'[r][c] = 0
    BY <1>2 DEF EditInvariant
  <1> QED BY <1>3, <1>4 DEF EditInvariant

LEMMA AnswersKeepEdits ==
  ASSUME TypeOK, EditInvariant, NEW p \in patches, AnswerIgnored(p) \/ AnswerApplied(p)
  PROVE  EditInvariant'
  <1>1. p \in Patches /\ patches' = patches \ {p} /\ UNCHANGED <<settling, disposed>>
    BY DEF AnswerIgnored, AnswerApplied, TakeAnswer, TypeOK
  <1>2. CASE AnswerIgnored(p)
    <2>1. UNCHANGED cellTokens /\ (disposed \/ ~IsCurrent(p))
      BY <1>2 DEF AnswerIgnored
    <2>2. LiveTokenHasItsEdit'
      BY <1>1, <2>1 DEF EditInvariant, LiveTokenHasItsEdit, IsCurrent
    <2> QED BY <1>1, <2>1, <2>2 DEF EditInvariant
  <1>3. CASE AnswerApplied(p)
    BY <1>1, <1>3, ClearedKeepsOthers DEF AnswerApplied
  <1> QED BY <1>2, <1>3

LEMMA BatchesKeepEdits ==
  ASSUME TypeOK, EditInvariant, NEW b,
         BatchIgnored(b) \/ BatchReverted(b) \/ BatchConfirmed(b)
  PROVE  EditInvariant'
  <1>1. /\ settling = {} /\ patches' = patches \ BatchOf(b) /\ UNCHANGED disposed
    BY DEF BatchIgnored, BatchReverted, BatchConfirmed, TakeBatch, EventLoop, FramesClosed
  <1>2. ASSUME NEW r \in Rows, NEW c \in Cols, cellTokens[r][c] # 0
        PROVE  \/ \E p \in patches' : p.row = r /\ p.col = c /\ p.token = cellTokens[r][c]
               \/ \E p \in LiveAt(b, r, c) : p \in LiveOf(b) /\ p.row = r /\ p.col = c
                                              /\ p.token = cellTokens[r][c]
    BY <1>1, <1>2 DEF EditInvariant, LiveTokenHasItsEdit, LiveAt, LiveOf, IsCurrent
  <1>3. CASE BatchIgnored(b)
    BY <1>1, <1>3 DEF BatchIgnored, EditInvariant, LiveTokenHasItsEdit
  <1>4. CASE BatchReverted(b)
    <2>1. cellTokens' = [r \in Rows |-> [c \in Cols |->
                           IF LiveAt(b, r, c) = {} THEN cellTokens[r][c] ELSE 0]]
      BY <1>4 DEF BatchReverted
    <2>2. LiveTokenHasItsEdit'
      BY <1>2, <2>1 DEF LiveTokenHasItsEdit
    <2> QED BY <1>1, <2>1, <2>2 DEF EditInvariant
  <1>5. CASE BatchConfirmed(b)
    <2>1. UNCHANGED cellTokens /\ settling' = LiveOf(b)
      BY <1>5 DEF BatchConfirmed
    <2>2. LiveTokenHasItsEdit'
      BY <1>2, <2>1 DEF LiveTokenHasItsEdit
    <2> QED BY <1>1, <2>1, <2>2 DEF EditInvariant
  <1> QED BY <1>3, <1>4, <1>5

LEMMA SetCellKeepsEdits ==
  ASSUME TypeOK, EditInvariant, NEW change \in Change, SetCell(change)
  PROVE  EditInvariant'
  <1> DEFINE token == cellTokenCounter + 1
             sent  == Request(token, change, nodes[change.row][change.col], 0)
  <1>1. /\ cellTokens' = [cellTokens EXCEPT ![change.row][change.col] = token]
        /\ patches' = patches \cup {sent} /\ UNCHANGED <<settling, disposed>> /\ ~disposed
    BY DEF SetCell, HostCalls
  <1>2. sent.row = change.row /\ sent.col = change.col /\ sent.token = token
    BY DEF Request
  <1>3. change.row \in Rows /\ change.col \in Cols
    BY DEF Change
  <1>4. ASSUME NEW r \in Rows, NEW c \in Cols, cellTokens'[r][c] # 0
        PROVE  \E p \in patches' \cup settling' :
                 p.row = r /\ p.col = c /\ p.token = cellTokens'[r][c]
    <2> HIDE DEF sent
    <2>1. CASE r = change.row /\ c = change.col
      BY <1>1, <1>2, <1>3, <2>1 DEF TypeOK
    <2>2. CASE ~(r = change.row /\ c = change.col)
      <3>1. cellTokens'[r][c] = cellTokens[r][c]
        BY <1>1, <1>3, <2>2 DEF TypeOK
      <3> QED BY <1>1, <1>4, <3>1 DEF EditInvariant, LiveTokenHasItsEdit
    <2> QED BY <2>1, <2>2
  <1> QED BY <1>1, <1>4 DEF EditInvariant, LiveTokenHasItsEdit

LEMMA ApplyChangesKeepsEdits ==
  ASSUME TypeOK, EditInvariant, NEW changes \in Batches, ApplyChanges(changes)
  PROVE  EditInvariant'
  <1> DEFINE Sent(i) == Request(cellTokenCounter + i, changes[i],
               ValueAfter(changes, i - 1, changes[i].row, changes[i].col),
               cellTokenCounter + 1)
  <1>1. /\ cellTokens' = [r \in Rows |-> [c \in Cols |-> LastToken(changes, r, c)]]
        /\ patches' = patches \cup {Sent(i) : i \in DOMAIN changes}
        /\ UNCHANGED <<settling, disposed>> /\ ~disposed
    BY DEF ApplyChanges, HostCalls
  <1>2. \A i \in DOMAIN changes :
          /\ Sent(i) \in patches' /\ Sent(i).token = cellTokenCounter + i
          /\ Sent(i).row = changes[i].row /\ Sent(i).col = changes[i].col
    BY <1>1 DEF Request
  <1>3. ASSUME NEW r \in Rows, NEW c \in Cols, cellTokens'[r][c] # 0
        PROVE  \E p \in patches' \cup settling' :
                 p.row = r /\ p.col = c /\ p.token = cellTokens'[r][c]
    <2> HIDE DEF Sent
    <2>1. cellTokens'[r][c] = LastToken(changes, r, c)
      BY <1>1
    <2>2. CASE \E i \in DOMAIN changes : IsLastTouch(changes, Len(changes), r, c, i)
      <3>1. PICK i \in DOMAIN changes :
              /\ IsLastTouch(changes, Len(changes), r, c, i)
              /\ LastToken(changes, r, c) = cellTokenCounter + i
        BY <2>2 DEF LastToken
      <3> QED BY <1>2, <2>1, <3>1 DEF IsLastTouch
    <2>3. CASE ~\E i \in DOMAIN changes : IsLastTouch(changes, Len(changes), r, c, i)
      <3>1. cellTokens'[r][c] = cellTokens[r][c]
        BY <2>1, <2>3 DEF LastToken
      <3> QED BY <1>1, <1>3, <3>1 DEF EditInvariant, LiveTokenHasItsEdit
    <2> QED BY <2>2, <2>3
  <1> QED BY <1>1, <1>3 DEF EditInvariant, LiveTokenHasItsEdit

\* The server answers an edit without renaming it.
LEMMA ServerKeepsEdits ==
  ASSUME TypeOK, EditInvariant, NEW p \in patches,
         ServerStoresCell(p) \/ ServerRefusesCell(p)
  PROVE  EditInvariant'
  <1>1. PICK reply : AnswerWith(p, reply)
    BY DEF ServerStoresCell, ServerRefusesCell
  <1>2. UNCHANGED <<cellTokens, settling, disposed>>
    BY DEF ServerStoresCell, ServerRefusesCell, clientVars, tokenVars
  <1>3. PICK q \in patches' : q.row = p.row /\ q.col = p.col /\ q.token = p.token
    <2>1. p \in Patches BY DEF TypeOK
    <2>2. [p EXCEPT !.reply = reply] \in patches' BY <1>1 DEF AnswerWith
    <2> QED BY <2>1, <2>2 DEF Patches
  <1>4. patches \subseteq patches' \cup {p}
    BY <1>1 DEF AnswerWith
  <1>5. LiveTokenHasItsEdit'
    BY <1>2, <1>3, <1>4 DEF EditInvariant, LiveTokenHasItsEdit
  <1> QED
    BY <1>2, <1>5 DEF EditInvariant

LEMMA NextKeepsEdits ==
  ASSUME TypeOK, EditInvariant, [Next]_vars
  PROVE  EditInvariant'
  <1>1. ASSUME UNCHANGED <<cellTokens, patches, settling, disposed>> PROVE EditInvariant'
    BY <1>1 DEF EditInvariant, LiveTokenHasItsEdit
  <1>2. CASE HostStep
    <2>1. CASE Refetch BY <1>1, <2>1 DEF Refetch, tokenVars
    <2>2. CASE Dispose
      BY <2>2 DEF Dispose, EditInvariant, LiveTokenHasItsEdit
    <2>3. ASSUME \/ \E change \in Change : SetCell(change)
                 \/ \E changes \in Batches : ApplyChanges(changes)
          PROVE  EditInvariant'
      BY <2>3, SetCellKeepsEdits, ApplyChangesKeepsEdits
    <2>4. ASSUME NEW r \in Rows, CreateNode(r) \/ AddSavedNode(r) \/ RemoveNode(r)
          PROVE  EditInvariant'
      BY <1>1, <2>4 DEF CreateNode, AddSavedNode, RemoveNode, tokenVars
    <2> QED BY <1>2, <2>1, <2>2, <2>3, <2>4 DEF HostStep
  <1>3. CASE LoadStep
    BY <1>1, <1>3 DEF LoadStep, RequestPage, RequestThrows, PageIgnored, PageLoaded,
                      PageFailed, TakePage, tokenVars
  <1>4. CASE EditStep
    <2>1. ASSUME NEW p \in settling, BatchSettlesOne(p) PROVE EditInvariant'
      BY <2>1, ClearedKeepsOthers DEF BatchSettlesOne, TypeOK
    <2> QED BY <1>4, <2>1, AnswersKeepEdits, BatchesKeepEdits DEF EditStep
  <1>5. CASE RowStep
    BY <1>1, <1>5
       DEF RowStep, CreateRejected, CreateResolved, RemoveSettles, TakeCreated, tokenVars
  <1>6. CASE ServerStep
    <2>1. ASSUME NEW f, ServerReadsPage(f) PROVE EditInvariant'
      BY <1>1, <2>1 DEF ServerReadsPage, clientVars, tokenVars
    <2>2. ASSUME NEW r, ServerInserts(r) \/ ServerDeletes(r) \/ FormSaves(r) \/ OthersChange(r)
          PROVE  EditInvariant'
      BY <1>1, <2>2 DEF ServerInserts, ServerDeletes, FormSaves, OthersChange, clientVars, tokenVars
    <2> QED BY <1>6, <2>1, <2>2, ServerKeepsEdits DEF ServerStep
  <1>7. CASE UNCHANGED vars
    BY <1>1, <1>7 DEF vars, tokenVars
  <1> QED BY <1>2, <1>3, <1>4, <1>5, <1>6, <1>7 DEF Next

\* A cell marked as being saved is being saved: no interleaving of edits,
\* answers, batches, reloads and disposal leaves a token whose edit is gone.
THEOREM LiveTokensHaveTheirEdits == Spec => []LiveTokenHasItsEdit
  <1>1. Init => EditInvariant
    BY DEF Init, EditInvariant, LiveTokenHasItsEdit
  <1>2. TypeOK /\ EditInvariant /\ [Next]_vars => EditInvariant'
    BY NextKeepsEdits
  <1>3. EditInvariant => LiveTokenHasItsEdit BY DEF EditInvariant
  <1> QED BY <1>1, <1>2, <1>3, TypeCorrect, PTL DEF Spec

--------------------------------------------------------------------------------
(* Disposal.                                                                 *)

LEMMA DisposedIsSilent ==
  ASSUME LoadInvariant, disposed, [Next]_vars, ~UNCHANGED vars
  PROVE  emitted' = {} /\ UNCHANGED viewVars
  <1>1. settling = {} /\ loading = <<>>
    BY DEF LoadInvariant, LoadOrder
  <1>2. CASE HostStep
    BY <1>2 DEF HostStep, Refetch, Dispose, SetCell, ApplyChanges, CreateNode,
                AddSavedNode, RemoveNode, HostCalls
  <1>3. CASE LoadStep
    BY <1>1, <1>3 DEF LoadStep, RequestPage, RequestThrows, PageIgnored, PageLoaded,
                      PageFailed, TakePage, PageIsStale
  <1>4. CASE EditStep
    BY <1>1, <1>4 DEF EditStep, AnswerIgnored, AnswerApplied, BatchIgnored, BatchReverted,
                      BatchConfirmed
  <1>5. CASE RowStep
    BY <1>5 DEF RowStep, CreateRejected, CreateResolved, RemoveSettles, TakeCreated
  <1>6. CASE ServerStep
    BY <1>6 DEF ServerStep, ServerReadsPage, ServerStoresCell, ServerRefusesCell,
                ServerInserts, ServerDeletes, FormSaves, OthersChange, clientVars
  <1> QED BY <1>2, <1>3, <1>4, <1>5, <1>6 DEF Next

\* Nothing that arrives after dispose() is seen or heard (the disposed checks of
\* every answer handler).
THEOREM SilenceAfterDispose == ~Reentrant => (Spec => SilentAfterDispose)
  <1> SUFFICES ASSUME ~Reentrant PROVE Spec => SilentAfterDispose OBVIOUS
  <1>1. LoadInvariant /\ [Next]_vars => [StaysSilent]_vars
    BY DisposedIsSilent DEF StaysSilent
  <1>2. Spec => []LoadInvariant BY LoadsInOrder
  <1> QED BY <1>1, <1>2, PTL DEF Spec, SilentAfterDispose

--------------------------------------------------------------------------------
(* The contract of a level source.  Its load is the unsettled promise, of    *)
(* which there is at most one; it shows the newest one answered "ready".     *)

\* A promise that exists has a token that was given out, and rows have been
\* committed once one was answered "ready".
PromiseOrder ==
  /\ \A t \in 1 .. MaxFetches : loads[t] # "unborn" => t <= fetchToken
  /\ LoadsThatAre("ready") # {} => committed # NoSnapshot

ContractInvariant == TypeOK /\ LoadInvariant /\ SnapshotCoherent /\ PromiseOrder

LEMMA NewestOfNone == Newest({}) = 0
  BY DEF Newest

LEMMA NewestIsLargest ==
  ASSUME NEW ts \in SUBSET Nat, NEW m \in ts, \A u \in ts : u <= m
  PROVE  Newest(ts) = m
  <1>1. \A t \in ts : (\A u \in ts : u <= t) => t = m
    OBVIOUS
  <1> QED BY <1>1 DEF Newest

LEMMA OnlyNewestIsPending ==
  ASSUME TypeOK, LoadInvariant, NEW t \in 1 .. MaxFetches, loads[t] = "pending"
  PROVE  t = fetchToken
  <1>1. t = pendingLoad \/ \E i \in DOMAIN loading : loading[i] = t
    BY DEF LoadInvariant, NoAbandonedLoad, TypeOK
  <1>2. CASE t = pendingLoad
    BY <1>2 DEF LoadInvariant, PendingLoadCanPublish
  <1>3. CASE \E i \in DOMAIN loading : loading[i] = t
    <2>1. loading = <<fetchToken>>
      BY <1>3 DEF LoadInvariant, LoadOrder
    <2> QED BY <1>3, <2>1
  <1> QED BY <1>1, <1>2, <1>3

\* The load that is under way is the one that is pending.
LEMMA PendingIsUnderWay ==
  ASSUME TypeOK, LoadInvariant
  PROVE  /\ UnderWay \in 0 .. MaxFetches
         /\ \A t \in 1 .. MaxFetches : loads[t] = "pending" => UnderWay = t
         /\ LoadsThatAre("pending") = {} => UnderWay = 0
  <1>1. DOMAIN loads = 1 .. MaxFetches /\ 1 .. MaxFetches \subseteq Nat
    BY DEF TypeOK
  <1>2. ASSUME NEW t \in 1 .. MaxFetches, loads[t] = "pending" PROVE UnderWay = t
    <2>1. t \in LoadsThatAre("pending") /\ LoadsThatAre("pending") \in SUBSET Nat
      BY <1>1, <1>2 DEF LoadsThatAre
    <2>2. \A u \in LoadsThatAre("pending") : u = t
      BY <1>1, <1>2, OnlyNewestIsPending DEF LoadsThatAre
    <2>3. \A u \in LoadsThatAre("pending") : u <= t
      BY <2>2, <1>1
    <2> QED BY <2>1, <2>3, NewestIsLargest DEF UnderWay
  <1>3. ASSUME LoadsThatAre("pending") = {} PROVE UnderWay = 0
    BY <1>3, NewestOfNone DEF UnderWay
  <1>4. \A t \in LoadsThatAre("pending") : t \in 1 .. MaxFetches /\ loads[t] = "pending"
    BY <1>1 DEF LoadsThatAre
  <1>5. UnderWay \in 0 .. MaxFetches
    <2>1. CASE LoadsThatAre("pending") = {}
      BY <2>1, <1>3, BoundAssumption
    <2>2. CASE LoadsThatAre("pending") # {}
      BY <2>2, <1>2, <1>4, BoundAssumption
    <2> QED BY <2>1, <2>2
  <1> QED BY <1>2, <1>3, <1>5

\* The newest promise, which is pending, is answered.
Settles(result) ==
  /\ fetchToken \in 1 .. MaxFetches /\ loads[fetchToken] = "pending"
  /\ loads' = [loads EXCEPT ![fetchToken] = result]
  /\ UNCHANGED <<fetchToken, disposed>>

\* What a step does to the loads and, with them, to the published state.
StartsLoad == StartLoad /\ loading = <<>> /\ ~disposed /\ UNCHANGED disposed
LandsLoad  == Settles("ready") /\ \E table : PublishReady(table)
FailsLoad  == Settles("error") /\ PublishLoadError
KeepsLoads == /\ UNCHANGED <<loads, fetchToken, disposed>>
              /\ UNCHANGED viewVars \/ (~disposed /\ \E table : Mutate(table))
Disposes   == Dispose /\ UNCHANGED viewVars
LoadMove   == StartsLoad \/ LandsLoad \/ FailsLoad \/ KeepsLoads \/ Disposes

LEMMA RequestMoves ==
  ASSUME TypeOK, LoadInvariant, RequestPage \/ RequestThrows
  PROVE  LoadMove
  <1>1. CASE RequestPage
    BY <1>1 DEF RequestPage, LoadMove, KeepsLoads
  <1>2. CASE RequestThrows
    <2>1. loading = <<fetchToken>> /\ loading # <<>>
      BY <1>2 DEF RequestThrows, LoadInvariant, LoadOrder
    <2>2. Head(loading) = fetchToken /\ ~disposed /\ loads[fetchToken] = "pending"
      BY <2>1 DEF LoadInvariant, LoadOrder
    <2>3. fetchToken \in 1 .. MaxFetches
      BY <2>1 DEF TypeOK
    <2> QED BY <1>2, <2>2, <2>3 DEF RequestThrows, Settles, LoadMove, FailsLoad
  <1> QED BY <1>1, <1>2

LEMMA PageMoves ==
  ASSUME TypeOK, LoadInvariant, NEW f \in fetches,
         PageIgnored(f) \/ PageLoaded(f) \/ PageFailed(f)
  PROVE  LoadMove
  <1>1. UNCHANGED <<fetchToken, disposed>>
    BY DEF PageIgnored, PageLoaded, PageFailed, TakePage
  <1>2. CASE PageIgnored(f)
    BY <1>1, <1>2 DEF PageIgnored, LoadMove, KeepsLoads
  <1>3. CASE PageLoaded(f) \/ PageFailed(f)
    <2>1. f.token = fetchToken /\ pendingLoad = fetchToken /\ fetchToken # 0
      BY <1>3 DEF PageLoaded, PageFailed, PageIsStale, LoadInvariant, LoadOrder
    <2>2. fetchToken \in 1 .. MaxFetches /\ loads[fetchToken] = "pending"
      BY <2>1 DEF LoadInvariant, PendingLoadCanPublish, TypeOK
    <2>3. CASE PageLoaded(f)
      BY <1>1, <2>1, <2>2, <2>3
         DEF PageLoaded, ResolveCurrentLoad, Settles, LandsLoad, LoadMove
    <2>4. CASE PageFailed(f)
      BY <1>1, <2>1, <2>2, <2>4
         DEF PageFailed, ResolveCurrentLoad, Settles, FailsLoad, LoadMove
    <2> QED BY <1>3, <2>3, <2>4
  <1> QED BY <1>2, <1>3

LEMMA ApplicationMoves ==
  ASSUME NEW p, Confirm(p) \/ Reload(p) \/ Reject(p), loading = <<>>, ~disposed,
         UNCHANGED disposed
  PROVE  LoadMove
  BY DEF Confirm, Reload, Reject, loadVars, LoadMove, StartsLoad, KeepsLoads

LEMMA EditMoves ==
  ASSUME LoadInvariant, EditStep
  PROVE  LoadMove
  <1>1. ASSUME NEW p \in patches, AnswerIgnored(p) PROVE LoadMove
    BY <1>1 DEF AnswerIgnored, TakeAnswer, loadVars, LoadMove, KeepsLoads
  <1>2. ASSUME NEW p \in patches, AnswerApplied(p) PROVE LoadMove
    BY <1>2, ApplicationMoves DEF AnswerApplied, TakeAnswer, EventLoop, FramesClosed
  <1>3. ASSUME NEW b, BatchIgnored(b) \/ BatchReverted(b) \/ BatchConfirmed(b)
        PROVE  LoadMove
    BY <1>3 DEF BatchIgnored, BatchReverted, BatchConfirmed, TakeBatch, loadVars, LoadMove,
                KeepsLoads
  <1>4. ASSUME NEW p \in settling, BatchSettlesOne(p) PROVE LoadMove
    <2>1. ~disposed BY DEF LoadInvariant, LoadOrder
    <2> QED BY <1>4, <2>1, ApplicationMoves DEF BatchSettlesOne
  <1> QED BY <1>1, <1>2, <1>3, <1>4 DEF EditStep

LEMMA NextMoves ==
  ASSUME TypeOK, LoadInvariant, ~Reentrant, [Next]_vars
  PROVE  LoadMove
  <1> USE DEF LoadMove
  <1>1. CASE HostStep
    <2>1. CASE Refetch
      BY <2>1 DEF Refetch, HostCalls, FramesClosed, StartsLoad
    <2>2. CASE Dispose
      BY <2>2 DEF Dispose, Disposes
    <2>3. ASSUME \/ \E change \in Change : SetCell(change)
                 \/ \E changes \in Batches : ApplyChanges(changes)
          PROVE  LoadMove
      BY <2>3 DEF SetCell, ApplyChanges, HostCalls, loadVars, KeepsLoads
    <2>4. ASSUME NEW r \in Rows, CreateNode(r) \/ AddSavedNode(r) \/ RemoveNode(r)
          PROVE  LoadMove
      BY <2>4 DEF CreateNode, AddSavedNode, RemoveNode, HostCalls, loadVars, KeepsLoads
    <2> QED BY <1>1, <2>1, <2>2, <2>3, <2>4 DEF HostStep
  <1>2. CASE LoadStep
    BY <1>2, RequestMoves, PageMoves DEF LoadStep
  <1>3. CASE RowStep
    BY <1>3 DEF RowStep, CreateRejected, CreateResolved, RemoveSettles, TakeCreated,
                loadVars, KeepsLoads
  <1>4. CASE ServerStep
    <2>1. \A f : ServerReadsPage(f) => UNCHANGED clientVars
      BY DEF ServerReadsPage
    <2>2. \A p : ServerStoresCell(p) \/ ServerRefusesCell(p) => UNCHANGED clientVars
      BY DEF ServerStoresCell, ServerRefusesCell
    <2>3. \A r : ServerInserts(r) \/ ServerDeletes(r) \/ FormSaves(r) \/ OthersChange(r)
                  => UNCHANGED clientVars
      BY DEF ServerInserts, ServerDeletes, FormSaves, OthersChange
    <2>4. UNCHANGED clientVars
      BY <1>4, <2>1, <2>2, <2>3 DEF ServerStep
    <2> QED BY <2>4 DEF clientVars, loadVars, KeepsLoads
  <1>5. CASE UNCHANGED vars
    BY <1>5 DEF vars, loadVars, KeepsLoads
  <1> QED BY <1>1, <1>2, <1>3, <1>4, <1>5, EditMoves DEF Next

LEMMA PromisesStayInOrder ==
  ASSUME ContractInvariant, TypeOK', LoadMove
  PROVE  PromiseOrder'
  <1> USE DEF ContractInvariant
  <1>0. /\ DOMAIN loads = 1 .. MaxFetches /\ DOMAIN loads' = 1 .. MaxFetches
        /\ fetchToken \in Nat /\ nodes' # NoSnapshot
    BY MarkAssumption DEF TypeOK
  <1>1. ASSUME NEW t \in 1 .. MaxFetches, loads[t] = "ready" PROVE committed # NoSnapshot
    BY <1>0, <1>1 DEF PromiseOrder, LoadsThatAre
  <1>2. CASE StartsLoad
    <2>1. /\ fetchToken' = fetchToken + 1 /\ UNCHANGED committed
          /\ fetchToken + 1 \in 1 .. MaxFetches
          /\ loads' = [SettlePending("superseded") EXCEPT ![fetchToken + 1] = "pending"]
      BY <1>0, <1>2, BoundAssumption DEF StartsLoad, StartLoad
    <2>2. \A t \in 1 .. MaxFetches :
            /\ loads'[t] = "ready" => loads[t] = "ready"
            /\ loads'[t] # "unborn" => loads[t] # "unborn" \/ t = fetchToken + 1 \/ t = pendingLoad
      BY <1>0, <2>1 DEF SettlePending
    <2>3. pendingLoad \in 1 .. MaxFetches => pendingLoad <= fetchToken
      BY <1>0 DEF LoadInvariant, PendingLoadCanPublish
    <2> QED BY <1>0, <1>1, <2>1, <2>2, <2>3 DEF PromiseOrder, LoadsThatAre
  <1>3. CASE LandsLoad
    <2>1. committed' # NoSnapshot
      BY <1>3, MarkAssumption DEF LandsLoad, PublishReady, TypeOK
    <2> QED BY <1>0, <1>3, <2>1 DEF LandsLoad, Settles, PromiseOrder
  <1>4. CASE FailsLoad
    BY <1>0, <1>1, <1>4 DEF FailsLoad, Settles, PublishLoadError, PromiseOrder, LoadsThatAre
  <1>5. CASE KeepsLoads
    <2>1. committed # NoSnapshot => committed' # NoSnapshot
      BY <1>0, <1>5 DEF KeepsLoads, viewVars, Mutate, PublishDataMutation
    <2> QED BY <1>5, <2>1 DEF KeepsLoads, PromiseOrder, LoadsThatAre
  <1>6. CASE Disposes
    <2>1. /\ fetchToken' = fetchToken + 1 /\ UNCHANGED committed
          /\ loads' = SettlePending("disposed")
      BY <1>6 DEF Disposes, Dispose, viewVars
    <2>2. \A t \in 1 .. MaxFetches :
            /\ loads'[t] = "ready" => loads[t] = "ready"
            /\ loads'[t] # "unborn" => loads[t] # "unborn" \/ t = pendingLoad
      BY <1>0, <2>1 DEF SettlePending
    <2>3. pendingLoad \in 1 .. MaxFetches => pendingLoad <= fetchToken
      BY <1>0 DEF LoadInvariant, PendingLoadCanPublish
    <2> QED BY <1>0, <1>1, <2>1, <2>2, <2>3 DEF PromiseOrder, LoadsThatAre
  <1> QED BY <1>2, <1>3, <1>4, <1>5, <1>6 DEF LoadMove

\* The set of promises with one result, after a step that settles or adds some.
LEMMA SameOnScreen ==
  ASSUME DOMAIN loads = DOMAIN loads',
         \A t \in DOMAIN loads : loads'[t] = "ready" <=> loads[t] = "ready"
  PROVE  UNCHANGED OnScreen
  <1>1. LoadsThatAre("ready")' = LoadsThatAre("ready") BY DEF LoadsThatAre
  <1> QED BY <1>1 DEF OnScreen

LEMMA SameUnderWay ==
  ASSUME UNCHANGED loads
  PROVE  UNCHANGED UnderWay
  BY DEF UnderWay, LoadsThatAre, Newest

LEMMA InitKeepsContract == Init => Source!Init
  <1> SUFFICES ASSUME Init PROVE Source!Init OBVIOUS
  <1>1. LoadsThatAre("pending") = {1} /\ LoadsThatAre("ready") = {}
    BY BoundAssumption DEF Init, LoadsThatAre
  <1>2. Newest({1}) = 1 BY NewestIsLargest
  <1>3. UnderWay = 1 /\ OnScreen = 0
    BY <1>1, <1>2, NewestOfNone DEF UnderWay, OnScreen
  <1>4. Phase = "loading" /\ disposed = FALSE /\ 1 \in 1 .. MaxFetches
    BY BoundAssumption DEF Init, Phase
  <1> QED BY <1>3, <1>4 DEF Source!Init

LEMMA StartAsks ==
  ASSUME ContractInvariant, TypeOK', LoadInvariant', StartsLoad
  PROVE  \E l \in 1 .. MaxFetches : Source!Ask(l)
  <1> DEFINE new == fetchToken + 1
  <1>1. /\ new \in 1 .. MaxFetches /\ fetchToken \in Nat /\ DOMAIN loads = 1 .. MaxFetches
        /\ loads' = [SettlePending("superseded") EXCEPT ![new] = "pending"]
    BY BoundAssumption DEF ContractInvariant, TypeOK, StartsLoad, StartLoad
  <1>2. loads'[new] = "pending" /\ DOMAIN loads' = DOMAIN loads
    BY <1>1 DEF SettlePending
  <1>3. UnderWay' = new
    <2>1. ASSUME NEW t \in DOMAIN loads, loads'[t] = "pending" PROVE t = new
      <3>1. t # new => loads[t] = "pending" /\ t # pendingLoad
        BY <1>1, <2>1 DEF SettlePending
      <3> QED
        BY <3>1 DEF StartsLoad, ContractInvariant, LoadInvariant, NoAbandonedLoad
    <2>2. LoadsThatAre("pending")' = {new}
      BY <1>1, <1>2, <2>1 DEF LoadsThatAre
    <2>3. Newest({new}) = new
      BY <1>1, NewestIsLargest
    <2> QED BY <2>2, <2>3 DEF UnderWay
  <1>4. ASSUME NEW t \in DOMAIN loads PROVE loads'[t] = "ready" <=> loads[t] = "ready"
    <2>1. loads[new] = "unborn"
      BY <1>1 DEF ContractInvariant, PromiseOrder
    <2>2. t = pendingLoad => loads[t] = "pending"
      BY <1>1, <1>4 DEF ContractInvariant, LoadInvariant, PendingLoadCanPublish
    <2> QED BY <1>1, <2>1, <2>2 DEF SettlePending
  <1>5. UNCHANGED OnScreen
    BY <1>2, <1>4, SameOnScreen
  <1>6. Phase' = "loading"
    BY DEF StartsLoad, StartLoad, Phase
  <1> QED BY <1>1, <1>3, <1>5, <1>6 DEF Source!Ask, StartsLoad

LEMMA SettlingEndsLoad ==
  ASSUME ContractInvariant, TypeOK', LoadInvariant', NEW result \in {"ready", "error"},
         Settles(result)
  PROVE  UnderWay = fetchToken /\ UnderWay' = 0 /\ UnderWay # 0
  <1>1. /\ fetchToken \in 1 .. MaxFetches /\ loads[fetchToken] = "pending"
        /\ DOMAIN loads = 1 .. MaxFetches /\ DOMAIN loads' = 1 .. MaxFetches
        /\ loads' = [loads EXCEPT ![fetchToken] = result]
    BY DEF Settles, ContractInvariant, TypeOK
  <1>2. UnderWay = fetchToken /\ UnderWay # 0
    BY <1>1, PendingIsUnderWay DEF ContractInvariant
  <1>3. LoadsThatAre("pending")' = {}
    BY <1>1, OnlyNewestIsPending DEF LoadsThatAre, ContractInvariant
  <1>4. UnderWay' = 0
    BY <1>3, NewestOfNone DEF UnderWay
  <1> QED BY <1>2, <1>4

LEMMA LandingLands ==
  ASSUME ContractInvariant, TypeOK', LoadInvariant', LandsLoad
  PROVE  Source!Land
  <1>1. UnderWay = fetchToken /\ UnderWay' = 0 /\ UnderWay # 0
    BY SettlingEndsLoad DEF LandsLoad
  <1>2. /\ fetchToken \in 1 .. MaxFetches
        /\ DOMAIN loads = 1 .. MaxFetches /\ DOMAIN loads' = 1 .. MaxFetches
        /\ loads' = [loads EXCEPT ![fetchToken] = "ready"]
    BY DEF LandsLoad, Settles, ContractInvariant, TypeOK
  <1>3. LoadsThatAre("ready")' \in SUBSET Nat /\ fetchToken \in LoadsThatAre("ready")'
    BY <1>2 DEF LoadsThatAre
  <1>4. \A t \in LoadsThatAre("ready")' : t <= fetchToken
    BY <1>2 DEF LoadsThatAre, ContractInvariant, PromiseOrder
  <1>5. OnScreen' = fetchToken
    BY <1>3, <1>4, NewestIsLargest DEF OnScreen
  <1>6. Phase' = "ready" /\ UNCHANGED disposed
    BY DEF LandsLoad, Settles, PublishReady, Phase
  <1> QED BY <1>1, <1>5, <1>6 DEF Source!Land

LEMMA FailingFails ==
  ASSUME ContractInvariant, TypeOK', LoadInvariant', FailsLoad
  PROVE  Source!Fail
  <1>1. UnderWay = fetchToken /\ UnderWay' = 0 /\ UnderWay # 0
    BY SettlingEndsLoad DEF FailsLoad
  <1>2. UNCHANGED OnScreen
    BY SameOnScreen DEF FailsLoad, Settles, ContractInvariant, TypeOK
  <1>3. Phase' = "error" /\ UNCHANGED disposed
    BY DEF FailsLoad, Settles, PublishLoadError, Phase
  <1> QED BY <1>1, <1>2, <1>3 DEF Source!Fail

\* Only a row that comes before any page moves the status by itself.
LEMMA KeepingStutters ==
  ASSUME ContractInvariant, KeepsLoads
  PROVE  Source!RowComesFirst \/ UNCHANGED Source!vars
  <1>1. UNCHANGED <<UnderWay, OnScreen, disposed>>
    BY SameUnderWay, SameOnScreen DEF KeepsLoads
  <1>2. CASE UNCHANGED Phase
    BY <1>1, <1>2 DEF Source!vars
  <1>3. CASE Phase' # Phase
    <2>1. ~disposed /\ status' = "ready" /\ status \in {"initialLoading", "initialError"}
      BY <1>3 DEF KeepsLoads, viewVars, Mutate, PublishDataMutation, Phase,
                  ContractInvariant, TypeOK, Statuses
    <2>2. OnScreen = 0
      BY <2>1, NewestOfNone DEF ContractInvariant, SnapshotCoherent, PromiseOrder, OnScreen
    <2> QED BY <1>1, <2>1, <2>2 DEF Source!RowComesFirst, Phase
  <1> QED BY <1>2, <1>3

LEMMA DisposingStops ==
  ASSUME ContractInvariant, TypeOK', LoadInvariant', Disposes
  PROVE  Source!Stop
  <1>1. loads' = SettlePending("disposed") /\ DOMAIN loads = 1 .. MaxFetches
    BY DEF Disposes, Dispose, ContractInvariant, TypeOK
  <1>2. \A t \in DOMAIN loads : t = pendingLoad => loads[t] = "pending"
    BY <1>1 DEF ContractInvariant, LoadInvariant, PendingLoadCanPublish
  <1>3. UNCHANGED OnScreen
    BY <1>1, <1>2, SameOnScreen DEF SettlePending
  <1>4. LoadsThatAre("pending")' = {}
    <2>1. \A t \in DOMAIN loads' : loads'[t] # "pending"
      <3>1. pendingLoad' = 0 /\ loading' = <<>>
        BY DEF LoadInvariant, LoadOrder, Disposes, Dispose
      <3> QED BY <3>1 DEF LoadInvariant, NoAbandonedLoad, TypeOK
    <2> QED BY <2>1 DEF LoadsThatAre
  <1>5. UnderWay' = 0
    BY <1>4, NewestOfNone DEF UnderWay
  <1>6. UNCHANGED Phase /\ ~disposed /\ disposed' = TRUE
    BY DEF Disposes, Dispose, HostCalls, viewVars, Phase
  <1> QED BY <1>3, <1>5, <1>6 DEF Source!Stop

LEMMA NextKeepsContract ==
  ASSUME ContractInvariant, TypeOK', LoadInvariant', ~Reentrant, [Next]_vars
  PROVE  [Source!Next]_(Source!vars)
  <1>1. LoadMove
    BY NextMoves DEF ContractInvariant
  <1> QED
    BY <1>1, StartAsks, LandingLands, FailingFails, KeepingStutters, DisposingStops
       DEF LoadMove, Source!Next

\* Where no subscriber calls back from inside a notification, the REST source keeps
\* the contract of a level source: pages show in the order they were asked for,
\* and a load is given up only for a newer one, a failure or disposal.
THEOREM SourceKeepsContract == ~Reentrant => (Spec => KeepsSourceContract)
  <1> SUFFICES ASSUME ~Reentrant PROVE Spec => KeepsSourceContract OBVIOUS
  <1>1. Init => PromiseOrder
    BY BoundAssumption DEF Init, PromiseOrder, LoadsThatAre
  <1>2. ContractInvariant /\ TypeOK' /\ [Next]_vars => PromiseOrder'
    BY NextMoves, PromisesStayInOrder DEF ContractInvariant
  <1>3. ContractInvariant /\ TypeOK' /\ LoadInvariant' /\ [Next]_vars
          => [Source!Next]_(Source!vars)
    BY NextKeepsContract
  <1>4. ContractInvariant <=> TypeOK /\ LoadInvariant /\ SnapshotCoherent /\ PromiseOrder
    BY DEF ContractInvariant
  <1>5. Spec => []LoadInvariant
    BY LoadsInOrder
  <1> QED
    BY <1>1, <1>2, <1>3, <1>4, <1>5, InitKeepsContract, TypeCorrect, SnapshotIsCoherent, PTL
       DEF Spec, KeepsSourceContract, Source!Spec

================================================================================
