------------------------- MODULE RestConvergence_proofs -------------------------
(***************************************************************************)
(* Why the rows of a REST level source are the server's unless one of the  *)
(* races that RestConvergence names took place.                            *)
(*                                                                         *)
(* Two facts hold in every behaviour: every edit has a token of its own    *)
(* (TokensOnce), and a row is stored and removed at most once (RowsOnce).  *)
(* On behaviours without a race they make three more inductive: the edits  *)
(* of a cell are answered in order (AnsweredInOrder), rows are loaded only *)
(* while they are stored (RowsAgree), and what a cell shows is known from  *)
(* the edit that marks it (CellsAgree).                                    *)
(***************************************************************************)
EXTENDS RestConvergence, RestLevelSource_proofs, WellFoundedInduction

\* The edits whose answer is still to be handled.
Edits           == patches \cup settling
NoEditsOf(r)    == \A p \in Edits : p.row # r

\* Every edit has a token of its own, and a "value" answer names its cell only.
TokensOnce ==
  /\ \A r \in Rows, c \in Cols : cellTokens[r][c] <= cellTokenCounter
  /\ \A p \in Edits :
       /\ p.token \in 1 .. cellTokenCounter
       /\ \A q \in Edits : p.token = q.token => p = q
       /\ p.reply.kind = "value" => \A c \in Cols \ {p.col} : p.reply.cells[c] = Keep
  /\ patches \cap settling = {}
  /\ \A p \in settling : Answered(p)

\* A row the server neither stores nor was asked to remove, and no form saved, was
\* never seen; a row that was removed is never stored again.
Unborn(r) == server[r] = Gone /\ removes[r] = "none" /\ r \notin saved

RowsOnce ==
  \A r \in Rows :
    /\ creates[r] # "none" => r \in Creatable
    /\ r \in Creatable /\ creates[r] \in {"none", "sent"} => Unborn(r)
    /\ creates[r] = "stored" => ~Unborn(r)
    /\ r \in FormRows \ saved => Unborn(r)
    /\ removes[r] \in {"stored", "resolved"} => server[r] = Gone
    /\ Unborn(r) => ~Present(r) /\ NoEditsOf(r) /\ \A f \in fetches : f.rows[r] = Gone

\* The answers to the edits of one cell are given in the order of the edits.
AnsweredInOrder ==
  \A p, q \in Edits :
    (p.row = q.row /\ p.col = q.col /\ Answered(q) /\ ~Answered(p)) => q.token < p.token

\* A loaded row is stored, unless the answer to its removal is on its way; a row
\* that is stored and not loaded has no edit.
RowsAgree ==
  \A r \in Rows :
    /\ Present(r) /\ removes[r] # "stored" => server[r] # Gone
    /\ ~Present(r) /\ server[r] # Gone => NoEditsOf(r)

\* The answer to p says that its cell holds v, or does not name the cell.
Tells(p, v) ==
  /\ p.reply.kind = "value" => p.reply.cells[p.col] = v
  /\ p.reply.kind = "columns" => p.reply.cells[p.col] \in {v, Keep}

\* A cell no edit marks shows what is stored, and no edit of it can still be
\* stored.  A cell that is marked shows the value of the edit that marks it,
\* which is the latest, and the answer to that edit tells what is stored.
CellAgrees(r, c) ==
  /\ cellTokens[r][c] = 0 => nodes[r][c] = server[r][c]
  /\ \A p \in Edits : p.row = r /\ p.col = c =>
       /\ cellTokens[r][c] = 0 => Answered(p)
       /\ cellTokens[r][c] # 0 => p.token <= cellTokens[r][c]
       /\ IsCurrent(p) => nodes[r][c] = p.value /\ Tells(p, server[r][c])

CellsAgree ==
  \A r \in Rows : Present(r) /\ server[r] # Gone => \A c \in Cols : CellAgrees(r, c)

Agrees    == AnsweredInOrder /\ RowsAgree /\ CellsAgree
Agreement == (~raced /\ ~disposed) => Agrees

--------------------------------------------------------------------------------
(* The edits.                                                                *)

\* The steps that make or answer an edit; every other step at most takes edits
\* out, and unmarks cells.
EditsChange ==
  \/ \E change \in Change : SetCell(change)
  \/ \E changes \in Batches : ApplyChanges(changes)
  \/ \E p \in patches : ServerStoresCell(p) \/ ServerRefusesCell(p)

EditsLeave ==
  /\ Edits' \subseteq Edits
  /\ patches' \cap settling' = {} /\ \A p \in settling' : Answered(p)
  /\ UNCHANGED cellTokenCounter
  /\ \A r \in Rows, c \in Cols : cellTokens'[r][c] \in {0, cellTokens[r][c]}

LEMMA ClearedUnmarks ==
  ASSUME TypeOK, NEW p \in Patches, cellTokens' = Cleared(p),
         NEW r \in Rows, NEW c \in Cols
  PROVE  cellTokens'[r][c] = IF p.row = r /\ p.col = c /\ IsCurrent(p) THEN 0
                             ELSE cellTokens[r][c]
  BY DEF Cleared, IsCurrent, TypeOK, Patches

LEMMA EditsOnlyLeave ==
  ASSUME TypeOK, TokensOnce, [Next]_vars
  PROVE  EditsChange \/ EditsLeave
  <1> USE DEF EditsLeave, Edits, TokensOnce
  <1>1. ASSUME UNCHANGED <<patches, settling, tokenVars>> PROVE EditsLeave
    BY <1>1 DEF tokenVars
  <1>2. CASE Refetch \/ \E r \in Rows : CreateNode(r) \/ AddSavedNode(r) \/ RemoveNode(r)
    BY <1>1, <1>2 DEF Refetch, CreateNode, AddSavedNode, RemoveNode
  <1>3. CASE Dispose
    BY <1>3 DEF Dispose
  <1>4. CASE LoadStep
    BY <1>1, <1>4 DEF LoadStep, RequestPage, RequestThrows, PageIgnored, PageLoaded,
                      PageFailed, TakePage
  <1>5. CASE RowStep
    BY <1>1, <1>5 DEF RowStep, CreateRejected, CreateResolved, RemoveSettles, TakeCreated
  <1>6. ASSUME NEW p \in patches, AnswerIgnored(p) \/ AnswerApplied(p) PROVE EditsLeave
    BY <1>6, ClearedUnmarks DEF AnswerIgnored, AnswerApplied, TakeAnswer, TypeOK
  <1>7. ASSUME NEW b, BatchIgnored(b) \/ BatchReverted(b) \/ BatchConfirmed(b)
        PROVE  EditsLeave
    <2>1. settling = {} /\ patches' = patches \ BatchOf(b) /\ UNCHANGED cellTokenCounter
      BY <1>7 DEF BatchIgnored, BatchReverted, BatchConfirmed, TakeBatch, EventLoop,
                  FramesClosed
    <2>2. LiveOf(b) \subseteq BatchOf(b) /\ BatchOf(b) \subseteq patches
      BY DEF LiveOf, BatchOf
    <2>3. \A p \in BatchOf(b) : Answered(p)
      BY <1>7 DEF BatchIgnored, BatchReverted, BatchConfirmed, TakeBatch
    <2>4. CASE BatchIgnored(b) BY <2>1, <2>4 DEF BatchIgnored
    <2>5. CASE BatchReverted(b)
      <3>1. \A r \in Rows, c \in Cols : cellTokens'[r][c] \in {0, cellTokens[r][c]}
        BY <2>5 DEF BatchReverted
      <3> QED BY <2>1, <2>5, <3>1 DEF BatchReverted
    <2>6. CASE BatchConfirmed(b)
      BY <2>1, <2>2, <2>3, <2>6 DEF BatchConfirmed
    <2> QED BY <1>7, <2>4, <2>5, <2>6
  <1>8. ASSUME NEW p \in settling, BatchSettlesOne(p) PROVE EditsLeave
    <2>1. p \in Patches /\ settling' = settling \ {p}
          /\ UNCHANGED <<patches, cellTokenCounter>> /\ cellTokens' = Cleared(p)
      BY <1>8 DEF BatchSettlesOne, TypeOK
    <2> QED BY <2>1, ClearedUnmarks
  <1>9. CASE ServerStep
    <2>1. ASSUME NEW f, ServerReadsPage(f) PROVE EditsLeave
      BY <1>1, <2>1 DEF ServerReadsPage, clientVars
    <2>2. ASSUME NEW r, ServerInserts(r) \/ ServerDeletes(r) \/ FormSaves(r) \/ OthersChange(r)
          PROVE  EditsLeave
      BY <1>1, <2>2 DEF ServerInserts, ServerDeletes, FormSaves, OthersChange, clientVars
    <2> QED BY <1>9, <2>1, <2>2 DEF ServerStep, EditsChange
  <1>10. CASE UNCHANGED vars
    BY <1>1, <1>10 DEF vars
  <1>11. CASE HostStep
    BY <1>2, <1>3, <1>11 DEF HostStep, EditsChange
  <1>12. CASE EditStep
    BY <1>6, <1>7, <1>8, <1>12 DEF EditStep
  <1> QED BY <1>4, <1>5, <1>9, <1>10, <1>11, <1>12 DEF Next

\* New edits with new tokens.
LEMMA AddedAreOnce ==
  ASSUME TypeOK, TypeOK', TokensOnce, NEW S,
         patches' = patches \cup S, UNCHANGED settling,
         cellTokenCounter <= cellTokenCounter',
         \A s \in S : s.token \in cellTokenCounter + 1 .. cellTokenCounter',
         \A s \in S : s.reply.kind = "none",
         \A s, t \in S : s.token = t.token => s = t,
         \A r \in Rows, c \in Cols : cellTokens'[r][c] <= cellTokenCounter'
  PROVE  TokensOnce'
  <1>1. cellTokenCounter \in Nat /\ cellTokenCounter' \in Nat
    BY DEF TypeOK
  <1>2. \A p \in Edits : p.token \in 1 .. cellTokenCounter
    BY DEF TokensOnce
  <1>3. ASSUME NEW p \in Edits, NEW s \in S PROVE p.token # s.token /\ p # s
    BY <1>1, <1>2
  <1>4. Edits' = Edits \cup S
    BY DEF Edits
  <1>5. ASSUME NEW p \in Edits', NEW q \in Edits', p.token = q.token PROVE p = q
    BY <1>3, <1>4, <1>5 DEF TokensOnce
  <1>6. \A p \in Edits' : p.token \in 1 .. cellTokenCounter'
    BY <1>1, <1>2, <1>4
  <1>7. \A p \in Edits' :
          p.reply.kind = "value" => \A c \in Cols \ {p.col} : p.reply.cells[c] = Keep
    BY <1>4 DEF TokensOnce
  <1>8. patches' \cap settling' = {}
    BY <1>3 DEF TokensOnce, Edits
  <1>9. \A p \in settling' : Answered(p)
    BY DEF TokensOnce
  <1> QED BY <1>5, <1>6, <1>7, <1>8, <1>9 DEF TokensOnce

\* What SetCell and ApplyChanges send.
SentAlone(change) ==
  Request(cellTokenCounter + 1, change, nodes[change.row][change.col], 0)
SentWith(changes, i) ==
  Request(cellTokenCounter + i, changes[i],
          ValueAfter(changes, i - 1, changes[i].row, changes[i].col), cellTokenCounter + 1)

LEMMA RequestsSent ==
  /\ \A change :
       LET sent == SentAlone(change)
       IN  /\ sent.token = cellTokenCounter + 1 /\ sent.reply.kind = "none"
           /\ sent.row = change.row /\ sent.col = change.col /\ sent.value = change.value
  /\ \A changes, i :
       LET sent == SentWith(changes, i)
       IN  /\ sent.token = cellTokenCounter + i /\ sent.reply.kind = "none"
           /\ sent.row = changes[i].row /\ sent.col = changes[i].col
           /\ sent.value = changes[i].value
  BY DEF SentAlone, SentWith, Request, Unanswered

LEMMA GreatestMember ==
  ASSUME NEW n \in Nat, NEW S, S \subseteq 1 .. n, S # {}
  PROVE  \E m \in S : \A k \in S : k <= m
  <1> DEFINE T == {n - k : k \in S}
  <1>1. T \subseteq Nat /\ T # {}
    <2>1. PICK k \in S : TRUE OBVIOUS
    <2>2. n - k \in T OBVIOUS
    <2>3. \A i \in S : n - i \in Nat OBVIOUS
    <2> QED BY <2>2, <2>3
  <1>2. PICK x \in T : \A y \in T : ~(<<y, x>> \in OpToRel(<, Nat))
    BY <1>1, WFMin, NatLessThanWellFounded
  <1>3. \A y \in T : ~(y < x)
    BY <1>1, <1>2 DEF OpToRel
  <1>4. PICK m \in S : x = n - m
    OBVIOUS
  <1>5. ASSUME NEW k \in S PROVE k <= m
    <2>1. n - k \in T OBVIOUS
    <2>2. ~(n - k < n - m) BY <1>3, <1>4, <2>1
    <2> QED BY <2>2
  <1> QED BY <1>5

\* The last change of a batch that touches a cell gives the cell its token.
LEMMA LastTokens ==
  ASSUME TypeOK, NEW changes \in Batches, NEW r \in Rows, NEW c \in Cols
  PROVE  \/ /\ LastToken(changes, r, c) = cellTokens[r][c]
            /\ ValueAfter(changes, Len(changes), r, c) = nodes[r][c]
            /\ \A i \in DOMAIN changes : ~(changes[i].row = r /\ changes[i].col = c)
         \/ \E i \in DOMAIN changes :
              /\ changes[i].row = r /\ changes[i].col = c
              /\ LastToken(changes, r, c) = cellTokenCounter + i
              /\ ValueAfter(changes, Len(changes), r, c) = changes[i].value
              /\ \A j \in DOMAIN changes : (changes[j].row = r /\ changes[j].col = c) => j <= i
  <1> DEFINE n == Len(changes)
             touches == {i \in DOMAIN changes : changes[i].row = r /\ changes[i].col = c}
             Last(i) == IsLastTouch(changes, n, r, c, i)
  <1>1. n \in Nat /\ DOMAIN changes = 1 .. n
    BY BatchIsSeq
  <1>2. CASE touches = {}
    <2>1. ~\E i \in 1 .. n : Last(i)
      BY <1>1, <1>2 DEF IsLastTouch
    <2> QED BY <1>1, <1>2, <2>1 DEF LastToken, ValueAfter
  <1>3. CASE touches # {}
    <2>1. PICK m \in touches : \A k \in touches : k <= m
      BY <1>1, <1>3, GreatestMember
    <2>2. Last(m)
      BY <1>1, <2>1 DEF IsLastTouch
    <2>3. \A i \in 1 .. n : Last(i) => i \in touches /\ \A k \in touches : k <= i
      BY <1>1 DEF IsLastTouch
    <2> DEFINE i == CHOOSE i \in 1 .. n : Last(i)
    <2>4. i \in 1 .. n /\ Last(i)
      BY <1>1, <2>1, <2>2
    <2>5. LastToken(changes, r, c) = cellTokenCounter + i
      BY <1>1, <2>4 DEF LastToken
    <2>6. ValueAfter(changes, n, r, c) = changes[i].value
      BY <1>1, <2>4 DEF ValueAfter
    <2> HIDE DEF i, Last
    <2>7. i \in touches /\ \A k \in touches : k <= i
      BY <2>3, <2>4
    <2> QED BY <1>1, <2>5, <2>6, <2>7
  <1> QED BY <1>2, <1>3

LEMMA SetCellIsOnce ==
  ASSUME TypeOK, TypeOK', TokensOnce, NEW change \in Change, SetCell(change)
  PROVE  TokensOnce'
  <1>1. /\ patches' = patches \cup {SentAlone(change)} /\ UNCHANGED settling
        /\ cellTokenCounter' = cellTokenCounter + 1
        /\ cellTokens' = [cellTokens EXCEPT ![change.row][change.col] = cellTokenCounter + 1]
    BY DEF SetCell, SentAlone
  <1>2. cellTokenCounter \in Nat
    BY DEF TypeOK
  <1>3. \A s \in {SentAlone(change)} :
          s.token = cellTokenCounter + 1 /\ s.reply.kind = "none"
    BY RequestsSent
  <1>4. \A r \in Rows, c \in Cols : cellTokens'[r][c] <= cellTokenCounter'
    <2> SUFFICES ASSUME NEW r \in Rows, NEW c \in Cols
                 PROVE  cellTokens'[r][c] <= cellTokenCounter'
      OBVIOUS
    <2>1. cellTokens'[r][c] \in {cellTokenCounter + 1, cellTokens[r][c]}
      BY <1>1 DEF TypeOK
    <2>2. cellTokens[r][c] \in Nat /\ cellTokens[r][c] <= cellTokenCounter
      BY DEF TypeOK, TokensOnce
    <2> QED BY <1>1, <1>2, <2>1, <2>2
  <1> DEFINE S == {SentAlone(change)}
  <1>5. \A s \in S : s.token \in cellTokenCounter + 1 .. cellTokenCounter'
    BY <1>1, <1>2, <1>3
  <1>6. \A s, t \in S : s.token = t.token => s = t
    OBVIOUS
  <1>7. patches' = patches \cup S /\ \A s \in S : s.reply.kind = "none"
    BY <1>1, <1>3
  <1>8. cellTokenCounter <= cellTokenCounter'
    BY <1>1, <1>2
  <1> HIDE DEF S
  <1> QED BY <1>1, <1>4, <1>5, <1>6, <1>7, <1>8, AddedAreOnce

LEMMA ApplyChangesIsOnce ==
  ASSUME TypeOK, TypeOK', TokensOnce, NEW changes \in Batches, ApplyChanges(changes)
  PROVE  TokensOnce'
  <1> DEFINE S == {SentWith(changes, i) : i \in DOMAIN changes}
  <1>1. /\ patches' = patches \cup S /\ UNCHANGED settling
        /\ cellTokenCounter' = cellTokenCounter + Len(changes)
        /\ cellTokens' = [r \in Rows |-> [c \in Cols |-> LastToken(changes, r, c)]]
    BY DEF ApplyChanges, SentWith
  <1>2. cellTokenCounter \in Nat /\ Len(changes) \in Nat /\ DOMAIN changes = 1 .. Len(changes)
    BY BatchIsSeq DEF TypeOK
  <1>3. \A i \in DOMAIN changes :
          /\ SentWith(changes, i).token = cellTokenCounter + i
          /\ SentWith(changes, i).reply.kind = "none"
    BY RequestsSent
  <1>4. \A s \in S : s.token \in cellTokenCounter + 1 .. cellTokenCounter'
    BY <1>1, <1>2, <1>3
  <1>5. ASSUME NEW r \in Rows, NEW c \in Cols PROVE cellTokens'[r][c] <= cellTokenCounter'
    <2>1. cellTokens'[r][c] = LastToken(changes, r, c) BY <1>1
    <2>2. cellTokens[r][c] \in Nat /\ cellTokens[r][c] <= cellTokenCounter
      BY DEF TypeOK, TokensOnce
    <2>3. LastToken(changes, r, c) = cellTokens[r][c]
          \/ \E i \in DOMAIN changes : LastToken(changes, r, c) = cellTokenCounter + i
      BY LastTokens
    <2> HIDE DEF S
    <2> QED BY <1>1, <1>2, <2>1, <2>2, <2>3
  <1>6. \A s, t \in S : s.token = t.token => s = t
    BY <1>2, <1>3
  <1>7. \A s \in S : s.reply.kind = "none"
    BY <1>3
  <1>8. cellTokenCounter <= cellTokenCounter'
    BY <1>1, <1>2
  <1> HIDE DEF S
  <1> QED BY <1>1, <1>4, <1>5, <1>6, <1>7, <1>8, AddedAreOnce

\* The server's answer to p.
AnswerOf(p, reply) == [p EXCEPT !.reply = reply]

LEMMA AnswerOfParts ==
  ASSUME NEW p \in Patches, NEW reply
  PROVE  LET q == AnswerOf(p, reply)
         IN  /\ q.token = p.token /\ q.row = p.row /\ q.col = p.col /\ q.value = p.value
             /\ q.reply = reply
  BY DEF AnswerOf, Patches

\* The answer to an edit the server stored, and to one it refused.
LEMMA ServerAnswers ==
  ASSUME TypeOK, TokensOnce, NEW p \in patches, ServerStoresCell(p) \/ ServerRefusesCell(p)
  PROVE  \E reply :
           /\ patches' = (patches \ {p}) \cup {AnswerOf(p, reply)}
           /\ reply.kind # "none" /\ ~Answered(p)
           /\ reply.kind = "value" => \A c \in Cols \ {p.col} : reply.cells[c] = Keep
           /\ \/ UNCHANGED server /\ reply.kind = "failed"
              \/ \E v \in Values : /\ server[p.row] # Gone
                                   /\ server' = [server EXCEPT ![p.row][p.col] = v]
                                   /\ reply.kind = "value" => reply.cells[p.col] = v
                                   /\ reply.kind = "columns" => reply.cells[p.col] \in {v, Keep}
  <1>0. p \in Patches /\ p.row \in Rows /\ p.col \in Cols BY DEF TypeOK, Patches
  <1>1. CASE ServerRefusesCell(p)
    <2> WITNESS [kind |-> "failed", cells |-> Unanswered.cells]
    <2> QED BY <1>1 DEF ServerRefusesCell, AnswerWith, AnswerOf
  <1>2. CASE ServerStoresCell(p)
    <2>1. PICK v \in {p.value} \cup Rewrites, kind \in ReplyKinds :
            \E reply \in ReplyTo(p, v, kind) :
              server' = [server EXCEPT ![p.row][p.col] = v] /\ AnswerWith(p, reply)
      BY <1>2 DEF ServerStoresCell
    <2>2. PICK reply \in ReplyTo(p, v, kind) :
            server' = [server EXCEPT ![p.row][p.col] = v] /\ AnswerWith(p, reply)
      BY <2>1
    <2>3. ~Answered(p) /\ server[p.row] # Gone /\ v \in Values
      BY <1>0, <1>2, ShapeAssumption DEF ServerStoresCell, Patches
    <2>4. server[p.row] \in RowImages
      BY <1>0, <2>3, LoadedRow DEF TypeOK
    <2> DEFINE image == [server[p.row] EXCEPT ![p.col] = v]
    <2>5. image[p.col] = v
      BY <1>0, <2>4 DEF RowImages
    <2>6. \A c \in Cols : Unanswered.cells[c] = Keep
      BY DEF Unanswered
    <2>7. kind # "none" BY ReplyAssumption
    <2>8. /\ reply.kind # "none"
          /\ reply.kind = "value" => \A c \in Cols \ {p.col} : reply.cells[c] = Keep
          /\ reply.kind = "value" => reply.cells[p.col] = v
          /\ reply.kind = "columns" => reply.cells[p.col] \in {v, Keep}
      <3> HIDE DEF image
      <3>1. CASE kind = "value"
        <4>1. reply = [kind |-> kind, cells |-> [Unanswered.cells EXCEPT ![p.col] = v]]
          BY <2>2, <3>1 DEF ReplyTo
        <4> QED BY <1>0, <3>1, <4>1 DEF Unanswered
      <3>2. CASE kind = "columns"
        <4>1. PICK named \in SUBSET Cols :
                reply = [kind |-> kind,
                         cells |-> [c \in Cols |-> IF c \in named THEN image[c] ELSE Keep]]
          BY <2>2, <3>2 DEF ReplyTo, image
        <4>2. reply.kind = kind /\ reply.cells[p.col] \in {image[p.col], Keep}
          BY <1>0, <4>1
        <4> QED BY <2>5, <3>2, <4>2
      <3>3. CASE kind \notin {"value", "columns"}
        <4>1. ASSUME kind = "otherRow" PROVE reply.kind = kind
          BY <2>2, <4>1 DEF ReplyTo
        <4>2. ASSUME kind # "otherRow" PROVE reply.kind = kind
          <5>1. kind \notin {"value", "columns", "otherRow"} BY <3>3, <4>2
          <5> QED BY <2>2, <5>1 DEF ReplyTo
        <4> QED BY <2>7, <3>3, <4>1, <4>2
      <3> QED BY <3>1, <3>2, <3>3
    <2> HIDE DEF image
    <2> WITNESS reply
    <2> QED BY <2>2, <2>3, <2>8 DEF AnswerWith, AnswerOf
  <1> QED BY <1>1, <1>2

LEMMA AnswersAreOnce ==
  ASSUME TypeOK, TokensOnce, NEW p \in patches, ServerStoresCell(p) \/ ServerRefusesCell(p)
  PROVE  TokensOnce'
  <1>1. PICK reply :
          /\ patches' = (patches \ {p}) \cup {AnswerOf(p, reply)}
          /\ reply.kind = "value" => \A c \in Cols \ {p.col} : reply.cells[c] = Keep
    BY ServerAnswers
  <1>2. UNCHANGED <<tokenVars, settling>>
    BY DEF ServerStoresCell, ServerRefusesCell, clientVars
  <1>3. p \in Patches BY DEF TypeOK
  <1> DEFINE q == AnswerOf(p, reply)
  <1>4. q.token = p.token /\ q.col = p.col /\ q.reply = reply
    BY <1>3, AnswerOfParts
  <1> HIDE DEF q
  <1>5. patches' = (patches \ {p}) \cup {q} BY <1>1 DEF q
  <1>6. Edits' = (Edits \ {p}) \cup {q}
    BY <1>2, <1>5 DEF Edits, TokensOnce
  <1>7. \A x \in Edits \ {p} : x.token # q.token
    BY <1>4 DEF TokensOnce, Edits
  <1>8. \A x \in Edits' :
          /\ x.token \in 1 .. cellTokenCounter
          /\ \A y \in Edits' : x.token = y.token => x = y
    BY <1>4, <1>6, <1>7 DEF TokensOnce, Edits
  <1>9. \A x \in Edits' :
          x.reply.kind = "value" => \A c \in Cols \ {x.col} : x.reply.cells[c] = Keep
    BY <1>1, <1>4, <1>6 DEF TokensOnce
  <1>10. patches' \cap settling' = {}
    BY <1>2, <1>5, <1>7 DEF TokensOnce, Edits
  <1> QED BY <1>2, <1>8, <1>9, <1>10 DEF TokensOnce, tokenVars

LEMMA NextIsOnce ==
  ASSUME TypeOK, TypeOK', TokensOnce, [Next]_vars
  PROVE  TokensOnce'
  <1>1. ASSUME EditsLeave PROVE TokensOnce'
    <2>1. \A r \in Rows, c \in Cols : cellTokens'[r][c] <= cellTokenCounter'
      <3> SUFFICES ASSUME NEW r \in Rows, NEW c \in Cols
                   PROVE  cellTokens'[r][c] <= cellTokenCounter'
        OBVIOUS
      <3>1. cellTokens'[r][c] \in {0, cellTokens[r][c]} /\ cellTokenCounter' = cellTokenCounter
        BY <1>1 DEF EditsLeave
      <3>2. cellTokenCounter \in Nat /\ cellTokens[r][c] <= cellTokenCounter
        BY DEF TypeOK, TokensOnce
      <3> QED BY <3>1, <3>2
    <2>2. Edits' \subseteq Edits /\ cellTokenCounter' = cellTokenCounter
      BY <1>1 DEF EditsLeave
    <2> QED BY <1>1, <2>1, <2>2 DEF EditsLeave, TokensOnce
  <1> QED
    BY <1>1, EditsOnlyLeave, SetCellIsOnce, ApplyChangesIsOnce, AnswersAreOnce
       DEF EditsChange

--------------------------------------------------------------------------------
(* The rows.                                                                 *)

\* What a step may do to the life of row r on the server.
RowMoves(r) ==
  LET RemovesStay == removes'[r] = removes[r]
      CreatesStay == creates'[r] = creates[r]
      SavedStays  == r \in saved' <=> r \in saved
      StoredStays == server'[r] = Gone <=> server[r] = Gone
  IN  \/ CreatesStay /\ RemovesStay /\ StoredStays /\ SavedStays
      \/ CreatesStay /\ RemovesStay /\ r \in FormRows \ saved /\ r \in saved'
      \/ /\ CreatesStay /\ RemovesStay /\ r \in saved /\ r \in saved'
         /\ server[r] # Gone /\ UNCHANGED <<patches, removes>>
      \/ /\ RemovesStay /\ StoredStays /\ SavedStays
         /\ \/ r \in Creatable /\ creates[r] = "none" /\ creates'[r] = "sent"
            \/ creates[r] = "sent" /\ creates'[r] = "failed"
            \/ creates[r] = "stored" /\ creates'[r] \in {"resolved", "rejected"}
            \/ creates[r] = "failed" /\ creates'[r] = "rejected"
      \/ /\ RemovesStay /\ creates[r] = "sent" /\ creates'[r] = "stored" /\ SavedStays
         /\ server[r] = Gone /\ server'[r] # Gone
      \/ /\ CreatesStay /\ StoredStays /\ SavedStays
         /\ \/ removes[r] = "none" /\ removes'[r] = "sent" /\ Present(r)
            \/ removes[r] = "sent" /\ removes'[r] = "failed"
            \/ removes[r] = "stored" /\ removes'[r] = "resolved"
            \/ removes[r] = "failed" /\ removes'[r] = "rejected"
      \/ /\ CreatesStay /\ removes[r] = "sent" /\ removes'[r] = "stored" /\ server'[r] = Gone
         /\ SavedStays

LEMMA NewRowIsStored == NewRow # Gone
  BY ShapeAssumption, MarkAssumption

LEMMA RowsMove ==
  ASSUME TypeOK, [Next]_vars, NEW r \in Rows
  PROVE  RowMoves(r)
  <1> USE DEF RowMoves
  <1>1. ASSUME UNCHANGED <<server, creates, removes, saved>> PROVE RowMoves(r)
    BY <1>1
  <1>2. CASE HostStep
    <2>1. ASSUME NEW s \in Rows, CreateNode(s) PROVE RowMoves(r)
      BY <2>1 DEF CreateNode, TypeOK
    <2>2. ASSUME NEW s \in Rows, RemoveNode(s) PROVE RowMoves(r)
      BY <2>2 DEF RemoveNode, TypeOK
    <2>3. ASSUME \/ Refetch \/ Dispose
                 \/ \E change \in Change : SetCell(change)
                 \/ \E changes \in Batches : ApplyChanges(changes)
                 \/ \E s \in Rows : AddSavedNode(s)
          PROVE  RowMoves(r)
      <3>1. UNCHANGED <<server, creates, removes, saved>>
        BY <2>3 DEF Refetch, Dispose, SetCell, ApplyChanges, AddSavedNode, rowOpVars
      <3> QED BY <1>1, <3>1
    <2> QED BY <1>2, <2>1, <2>2, <2>3 DEF HostStep
  <1>3. CASE LoadStep
    <2>1. UNCHANGED <<server, creates, removes, saved>>
      BY <1>3 DEF LoadStep, RequestPage, RequestThrows, PageIgnored, PageLoaded, PageFailed,
                  TakePage, rowOpVars
    <2> QED BY <1>1, <2>1
  <1>4. CASE EditStep
    <2>1. UNCHANGED <<server, creates, removes, saved>>
      BY <1>4 DEF EditStep, AnswerIgnored, AnswerApplied, TakeAnswer, BatchIgnored,
                  BatchReverted, BatchConfirmed, TakeBatch, BatchSettlesOne, rowOpVars
    <2> QED BY <1>1, <2>1
  <1>5. CASE RowStep
    <2>1. ASSUME NEW s \in Rows, CreateRejected(s) \/ CreateResolved(s) PROVE RowMoves(r)
      BY <2>1 DEF CreateRejected, CreateResolved, TakeCreated, TypeOK
    <2>2. ASSUME NEW s \in Rows, RemoveSettles(s) PROVE RowMoves(r)
      BY <2>2 DEF RemoveSettles, TypeOK
    <2> QED BY <1>5, <2>1, <2>2 DEF RowStep
  <1>6. CASE ServerStep
    <2>1. ASSUME NEW f, ServerReadsPage(f) PROVE RowMoves(r)
      BY <1>1, <2>1 DEF ServerReadsPage, rowOpVars
    <2>2. ASSUME NEW p \in patches, ServerStoresCell(p) PROVE RowMoves(r)
      <3>1. p.row \in Rows /\ p.col \in Cols BY DEF TypeOK, Patches
      <3>2. PICK v \in Values : server' = [server EXCEPT ![p.row][p.col] = v]
        BY <2>2, ShapeAssumption DEF ServerStoresCell, TypeOK, Patches
      <3>3. server[p.row] \in RowImages
        BY <2>2, <3>1, LoadedRow DEF ServerStoresCell, TypeOK
      <3>4. [server[p.row] EXCEPT ![p.col] = v] \in RowImages
        BY <3>3 DEF RowImages
      <3>5. server'[p.row] # Gone
        BY <3>1, <3>2, <3>4, MarkAssumption DEF TypeOK, Tables
      <3>6. r # p.row => server'[r] = server[r]
        BY <3>2 DEF TypeOK, Tables
      <3> QED BY <2>2, <3>5, <3>6 DEF ServerStoresCell, rowOpVars
    <2>3. ASSUME NEW p, ServerRefusesCell(p) PROVE RowMoves(r)
      BY <1>1, <2>3 DEF ServerRefusesCell, rowOpVars
    <2>4. ASSUME NEW s \in Rows, ServerInserts(s) PROVE RowMoves(r)
      BY <2>4, NewRowIsStored DEF ServerInserts, TypeOK, Tables
    <2>5. ASSUME NEW s \in Rows, ServerDeletes(s) PROVE RowMoves(r)
      BY <2>5 DEF ServerDeletes, TypeOK, Tables
    <2>6. ASSUME NEW s \in Rows, FormSaves(s) PROVE RowMoves(r)
      BY <2>6 DEF FormSaves, TypeOK, Tables
    <2>7. ASSUME NEW s \in Rows, OthersChange(s) PROVE RowMoves(r)
      BY <2>7 DEF OthersChange, TypeOK, Tables, rowOpVars
    <2> QED BY <1>6, <2>1, <2>2, <2>3, <2>4, <2>5, <2>6, <2>7 DEF ServerStep
  <1>7. CASE UNCHANGED vars
    BY <1>1, <1>7 DEF vars, rowOpVars
  <1> QED BY <1>2, <1>3, <1>4, <1>5, <1>6, <1>7 DEF Next

LEMMA ApplicationLoadsNoRow ==
  ASSUME TypeOK, NEW p \in Patches, Confirm(p) \/ Reload(p) \/ Reject(p), NEW r \in Rows
  PROVE  ~Present(r) => nodes'[r] = nodes[r]
  <1>1. p.row \in Rows BY DEF Patches
  <1>2. CASE Confirm(p)
    BY <1>1, <1>2 DEF Confirm, Writes, Present, Mutate, viewVars, TypeOK, Tables
  <1>3. CASE Reload(p) BY <1>3 DEF Reload, StartLoad
  <1>4. CASE Reject(p) BY <1>4 DEF Reject, viewVars
  <1> QED BY <1>2, <1>3, <1>4

\* How a row that is not loaded comes in: with a page, a form or an insert.
LEMMA RowsComeIn ==
  ASSUME TypeOK, [Next]_vars, NEW r \in Rows, ~Present(r), Present(r)'
  PROVE  (\E f \in fetches : PageLoaded(f)) \/ AddSavedNode(r) \/ (CreateResolved(r) /\ ~disposed)
  <1> USE DEF Present
  <1>0. ASSUME UNCHANGED nodes PROVE FALSE
    BY <1>0
  <1>1. CASE HostStep
    <2>1. ASSUME NEW change \in Change, SetCell(change) PROVE FALSE
      <3>1. change.row # r /\ nodes' = [nodes EXCEPT ![change.row][change.col] = change.value]
        BY <2>1 DEF SetCell, Mutate
      <3> QED BY <3>1 DEF TypeOK, Tables
    <2>2. ASSUME NEW changes \in Batches, ApplyChanges(changes) PROVE FALSE
      BY <2>2 DEF ApplyChanges, Mutate
    <2>3. ASSUME NEW s \in Rows, AddSavedNode(s) PROVE s = r
      BY <2>3 DEF AddSavedNode, Mutate, TypeOK, Tables
    <2>4. ASSUME \/ Refetch \/ Dispose
                 \/ \E s \in Rows : CreateNode(s) \/ RemoveNode(s)
          PROVE  FALSE
      BY <2>4 DEF Refetch, StartLoad, Dispose, CreateNode, RemoveNode, viewVars
    <2> QED BY <1>1, <2>1, <2>2, <2>3, <2>4 DEF HostStep
  <1>2. CASE LoadStep
    BY <1>0, <1>2
       DEF LoadStep, RequestPage, RequestThrows, PageIgnored, PageFailed, PublishLoadError,
           viewVars
  <1>3. CASE EditStep
    <2>1. ASSUME NEW p \in Patches, Confirm(p) \/ Reload(p) \/ Reject(p) PROVE FALSE
      BY <2>1, ApplicationLoadsNoRow
    <2>2. ASSUME NEW p \in patches, AnswerIgnored(p) \/ AnswerApplied(p) PROVE FALSE
      BY <1>0, <2>1, <2>2 DEF AnswerIgnored, AnswerApplied, viewVars, TypeOK
    <2>3. ASSUME NEW b, BatchIgnored(b) \/ BatchReverted(b) \/ BatchConfirmed(b) PROVE FALSE
      BY <1>0, <2>3 DEF BatchIgnored, BatchReverted, Reverted, Mutate, BatchConfirmed, viewVars
    <2>4. ASSUME NEW p \in settling, BatchSettlesOne(p) PROVE FALSE
      BY <2>1, <2>4 DEF BatchSettlesOne, TypeOK
    <2> QED BY <1>3, <2>2, <2>3, <2>4 DEF EditStep
  <1>4. CASE RowStep
    <2>1. ASSUME NEW s \in Rows, CreateRejected(s) PROVE FALSE
      BY <1>0, <2>1 DEF CreateRejected, viewVars
    <2>2. ASSUME NEW s \in Rows, CreateResolved(s) PROVE s = r /\ ~disposed
      BY <1>0, <2>2 DEF CreateResolved, Mutate, viewVars, TypeOK, Tables
    <2>3. ASSUME NEW s \in Rows, RemoveSettles(s) PROVE FALSE
      BY <1>0, <2>3 DEF RemoveSettles, Mutate, viewVars, TypeOK, Tables
    <2> QED BY <1>4, <2>1, <2>2, <2>3 DEF RowStep
  <1>5. CASE ServerStep
    BY <1>0, <1>5 DEF ServerStep, ServerReadsPage, ServerStoresCell, ServerRefusesCell,
                      ServerInserts, ServerDeletes, FormSaves, OthersChange, clientVars, viewVars
  <1>6. CASE UNCHANGED vars
    BY <1>0, <1>6 DEF vars, viewVars
  <1> QED BY <1>1, <1>2, <1>3, <1>4, <1>5, <1>6 DEF Next

\* Only loaded rows are edited.
LEMMA EditsAreOfLoadedRows ==
  ASSUME TypeOK, TokensOnce, [Next]_vars, NEW r \in Rows, ~Present(r), NoEditsOf(r)
  PROVE  NoEditsOf(r)'
  <1>1. CASE EditsLeave
    BY <1>1 DEF EditsLeave, NoEditsOf
  <1>2. ASSUME NEW change \in Change, SetCell(change) PROVE NoEditsOf(r)'
    <2>1. change.row # r /\ patches' = patches \cup {SentAlone(change)} /\ UNCHANGED settling
      BY <1>2 DEF SetCell, SentAlone
    <2> QED BY <2>1, RequestsSent DEF NoEditsOf, Edits
  <1>3. ASSUME NEW changes \in Batches, ApplyChanges(changes) PROVE NoEditsOf(r)'
    <2>1. /\ \A i \in DOMAIN changes : changes[i].row # r
          /\ patches' = patches \cup {SentWith(changes, i) : i \in DOMAIN changes}
          /\ UNCHANGED settling
      BY <1>3 DEF ApplyChanges, SentWith
    <2>2. \A i \in DOMAIN changes : SentWith(changes, i).row = changes[i].row
      BY RequestsSent
    <2> QED BY <2>1, <2>2 DEF NoEditsOf, Edits
  <1>4. ASSUME NEW p \in patches, ServerStoresCell(p) \/ ServerRefusesCell(p)
        PROVE  NoEditsOf(r)'
    <2>1. PICK reply : patches' = (patches \ {p}) \cup {AnswerOf(p, reply)}
      BY <1>4, ServerAnswers
    <2>2. UNCHANGED settling /\ AnswerOf(p, reply).row = p.row
      BY <1>4, AnswerOfParts DEF ServerStoresCell, ServerRefusesCell, clientVars, TypeOK
    <2> QED BY <2>1, <2>2 DEF NoEditsOf, Edits
  <1> QED BY <1>1, <1>2, <1>3, <1>4, EditsOnlyLeave DEF EditsChange

\* A page holds what the server stored when it was read.
LEMMA PagesAreRead ==
  ASSUME TypeOK, [Next]_vars, NEW r \in Rows, NEW f \in fetches'
  PROVE  f.rows[r] \in {Gone, server[r]} \cup {g.rows[r] : g \in fetches}
  <1>1. ASSUME fetches' \subseteq fetches PROVE f.rows[r] \in {g.rows[r] : g \in fetches}
    BY <1>1
  <1>2. CASE HostStep
    BY <1>1, <1>2 DEF HostStep, Refetch, Dispose, SetCell, ApplyChanges, CreateNode,
                      AddSavedNode, RemoveNode
  <1>3. CASE LoadStep
    <2>1. CASE RequestPage
      <3> DEFINE g == [token |-> Head(loading), stage |-> "sent", rows |-> Empty]
      <3>1. fetches' = fetches \cup {g} BY <2>1 DEF RequestPage
      <3>2. g.rows[r] = Gone BY DEF Empty
      <3> QED BY <1>1, <3>1, <3>2
    <2>2. CASE ~RequestPage
      BY <1>1, <1>3, <2>2 DEF LoadStep, RequestThrows, PageIgnored, PageLoaded, PageFailed,
                              TakePage
    <2> QED BY <2>1, <2>2
  <1>4. CASE EditStep
    BY <1>1, <1>4 DEF EditStep, AnswerIgnored, AnswerApplied, BatchIgnored, BatchReverted,
                      BatchConfirmed, TakeBatch, BatchSettlesOne, Confirm, Reload, Reject
  <1>5. CASE RowStep
    BY <1>1, <1>5 DEF RowStep, CreateRejected, CreateResolved, RemoveSettles, TakeCreated
  <1>6. CASE ServerStep
    <2>1. ASSUME NEW g \in fetches, ServerReadsPage(g)
          PROVE  f.rows[r] \in {server[r]} \cup {h.rows[r] : h \in fetches}
      <3>1. PICK h \in {[g EXCEPT !.stage = "answered", !.rows = server],
                        [g EXCEPT !.stage = "failed"]} : fetches' = (fetches \ {g}) \cup {h}
        BY <2>1 DEF ServerReadsPage
      <3>2. h.rows = server \/ h.rows = g.rows
        BY <3>1 DEF TypeOK, Fetches
      <3> QED BY <3>1, <3>2
    <2> QED BY <1>1, <1>6, <2>1
            DEF ServerStep, ServerStoresCell, ServerRefusesCell, ServerInserts, ServerDeletes,
                FormSaves, OthersChange
  <1>7. CASE UNCHANGED vars
    BY <1>1, <1>7 DEF vars
  <1> QED BY <1>2, <1>3, <1>4, <1>5, <1>6, <1>7 DEF Next

LEMMA NextRowsOnce ==
  ASSUME TypeOK, TokensOnce, RowsOnce, [Next]_vars
  PROVE  RowsOnce'
  <1> SUFFICES ASSUME NEW r \in Rows
               PROVE
                 /\ creates'[r] # "none" => r \in Creatable
                 /\ r \in Creatable /\ creates'[r] \in {"none", "sent"} => Unborn(r)'
                 /\ creates'[r] = "stored" => ~Unborn(r)'
                 /\ r \in FormRows \ saved' => Unborn(r)'
                 /\ removes'[r] \in {"stored", "resolved"} => server'[r] = Gone
                 /\ Unborn(r)' => /\ ~Present(r)' /\ NoEditsOf(r)'
                                  /\ \A f \in fetches' : f.rows[r] = Gone
    BY DEF RowsOnce
  <1>1. RowMoves(r) BY RowsMove
  <1>2. /\ creates[r] # "none" => r \in Creatable
        /\ r \in Creatable /\ creates[r] \in {"none", "sent"} => Unborn(r)
        /\ creates[r] = "stored" => ~Unborn(r)
        /\ r \in FormRows \ saved => Unborn(r)
        /\ removes[r] \in {"stored", "resolved"} => server[r] = Gone
        /\ Unborn(r) => /\ ~Present(r) /\ NoEditsOf(r)
                        /\ \A f \in fetches : f.rows[r] = Gone
    BY DEF RowsOnce
  <1>3. r \in FormRows \cup saved => r \notin Creatable
    BY ShapeAssumption DEF TypeOK
  <1>4. /\ creates'[r] # "none" => r \in Creatable
        /\ r \in Creatable /\ creates'[r] \in {"none", "sent"} => Unborn(r)'
        /\ creates'[r] = "stored" => ~Unborn(r)'
        /\ r \in FormRows \ saved' => Unborn(r)'
        /\ removes'[r] \in {"stored", "resolved"} => server'[r] = Gone
    BY <1>1, <1>2, <1>3 DEF RowMoves, Unborn
  <1>5. Unborn(r)' => Unborn(r)
    BY <1>1, <1>2 DEF RowMoves, Unborn
  <1>6. ASSUME Unborn(r)
        PROVE  ~Present(r)' /\ NoEditsOf(r)' /\ \A f \in fetches' : f.rows[r] = Gone
    <2>1. server[r] = Gone /\ r \notin saved BY <1>6 DEF Unborn
    <2>2. ~Present(r)'
      <3>1. creates[r] # "stored" BY <1>2, <1>6
      <3>2. ~AddSavedNode(r) /\ ~CreateResolved(r)
        BY <2>1, <3>1 DEF AddSavedNode, CreateResolved
      <3>3. \A f \in fetches : PageLoaded(f) => ~Present(r)'
        BY <1>2, <1>6 DEF PageLoaded, Present
      <3> QED BY <1>2, <1>6, <3>2, <3>3, RowsComeIn
    <2>3. NoEditsOf(r)'
      BY <1>2, <1>6, EditsAreOfLoadedRows
    <2>4. \A f \in fetches' : f.rows[r] = Gone
      BY <1>2, <1>6, <2>1, PagesAreRead
    <2> QED BY <2>2, <2>3, <2>4
  <1> QED BY <1>4, <1>5, <1>6

--------------------------------------------------------------------------------
(* Steps without a race: rows.                                               *)

\* Nothing a step of these may do parts the rows from the server's.
Undisturbed == [Next]_vars /\ ~disposed /\ ~disposed' /\ PagesTaken = {} /\ ~Races

LEMMA NoPageIsTaken ==
  ASSUME Undisturbed, NEW f \in fetches
  PROVE  ~PageLoaded(f)
  BY DEF Undisturbed, PagesTaken, PageLoaded, TakePage

\* A row that comes in is the server's, and is not touched by the same step there.
LEMMA RowsComeInAsStored ==
  ASSUME TypeOK, Undisturbed, NEW r \in Rows, ~Present(r), Present(r)'
  PROVE  server[r] # Gone /\ nodes'[r] = server[r] /\ server' = server
  <1>1. CASE AddSavedNode(r)
    <2>1. r \in saved /\ nodes'[r] = NewRow /\ server' = server
      BY <1>1 DEF AddSavedNode, Mutate, TypeOK, Tables
    <2>2. server[r] = NewRow
      BY <2>1, NewRowIsStored DEF Undisturbed, Races, SavedRowIsOld
    <2> QED BY <2>1, <2>2, NewRowIsStored
  <1>2. CASE CreateResolved(r) /\ ~disposed
    <2>1. /\ creates[r] # "resolved" /\ creates'[r] = "resolved"
          /\ nodes'[r] = NewRow /\ server' = server
      BY <1>2 DEF CreateResolved, TakeCreated, Mutate, TypeOK, Tables
    <2>2. server[r] = NewRow
      BY <2>1 DEF Undisturbed, Races, CreateLandsLate
    <2> QED BY <2>1, <2>2, NewRowIsStored
  <1> QED BY <1>1, <1>2, RowsComeIn, NoPageIsTaken DEF Undisturbed

LEMMA ApplicationKeepsRows ==
  ASSUME TypeOK, NEW p \in Patches, Confirm(p) \/ Reload(p) \/ Reject(p), NEW r \in Rows
  PROVE  Present(r) => Present(r)'
  <1>1. p.row \in Rows /\ p.reply.cells \in [Cols -> Values \cup {Keep}]
    BY DEF Patches, Replies
  <1>2. CASE Confirm(p) /\ Writes(p)
    <2>1. nodes[p.row] \in RowImages
      BY <1>1, <1>2, LoadedRow DEF Writes, Present, TypeOK
    <2>2. Merge(nodes[p.row], p.reply.cells) # Gone
      BY <1>1, <2>1, MergeTyped, MarkAssumption
    <2>3. nodes' = [nodes EXCEPT ![p.row] = Merge(@, p.reply.cells)]
      BY <1>2 DEF Confirm, Mutate
    <2> QED BY <1>1, <2>2, <2>3 DEF Present, TypeOK, Tables
  <1>3. CASE Confirm(p) /\ ~Writes(p)
    BY <1>3 DEF Confirm, viewVars, Present
  <1>4. CASE Reload(p) \/ Reject(p)
    BY <1>4 DEF Reload, StartLoad, Reject, viewVars, Present
  <1> QED BY <1>2, <1>3, <1>4

\* A row goes out when its removal was stored.
LEMMA RowsGoOutWhenRemoved ==
  ASSUME TypeOK, TypeOK', Undisturbed, NEW r \in Rows, Present(r), ~Present(r)'
  PROVE  removes[r] = "stored" /\ server' = server
  <1> USE DEF Present
  <1>0. ASSUME UNCHANGED nodes PROVE FALSE
    BY <1>0
  <1>1. CASE HostStep
    <2>1. ASSUME NEW change \in Change, SetCell(change) PROVE FALSE
      <3>1. change.row \in Rows /\ change.col \in Cols /\ change.value \in Values
        BY DEF Change
      <3>2. nodes' = [nodes EXCEPT ![change.row][change.col] = change.value]
            /\ nodes[change.row] \in RowImages
        BY <2>1, <3>1, LoadedRow DEF SetCell, Mutate, TypeOK
      <3>3. [nodes[change.row] EXCEPT ![change.col] = change.value] \in RowImages
        BY <3>1, <3>2 DEF RowImages
      <3> QED BY <3>1, <3>2, <3>3, MarkAssumption DEF TypeOK, Tables
    <2>2. ASSUME NEW changes \in Batches, ApplyChanges(changes) PROVE FALSE
      <3>1. nodes'[r] = [c \in Cols |-> ValueAfter(changes, Len(changes), r, c)]
        BY <2>2 DEF ApplyChanges, Mutate
      <3>2. \A c \in Cols : ValueAfter(changes, Len(changes), r, c) \in Values
        <4>1. nodes \in Tables /\ nodes[r] # Gone /\ Len(changes) \in 0 .. Len(changes)
          BY BatchIsSeq DEF TypeOK
        <4> QED BY <4>1, ValueAfterTyped
      <3> QED BY <3>1, <3>2, MarkAssumption DEF RowImages
    <2>3. ASSUME NEW s \in Rows, AddSavedNode(s) PROVE FALSE
      BY <2>3, NewRowIsStored DEF AddSavedNode, Mutate, TypeOK, Tables
    <2>4. ASSUME \/ Refetch \/ Dispose
                 \/ \E s \in Rows : CreateNode(s) \/ RemoveNode(s)
          PROVE  FALSE
      BY <2>4 DEF Refetch, StartLoad, Dispose, CreateNode, RemoveNode, viewVars
    <2> QED BY <1>1, <2>1, <2>2, <2>3, <2>4 DEF HostStep
  <1>2. CASE LoadStep
    BY <1>0, <1>2, NoPageIsTaken
       DEF LoadStep, RequestPage, RequestThrows, PageIgnored, PageFailed, PublishLoadError,
           viewVars
  <1>3. CASE EditStep
    <2>1. ASSUME NEW p \in Patches, Confirm(p) \/ Reload(p) \/ Reject(p) PROVE FALSE
      BY <2>1, ApplicationKeepsRows
    <2>2. ASSUME NEW p \in patches, AnswerIgnored(p) \/ AnswerApplied(p) PROVE FALSE
      BY <1>0, <2>1, <2>2 DEF AnswerIgnored, AnswerApplied, viewVars, TypeOK
    <2>3. ASSUME NEW b, BatchReverted(b) PROVE FALSE
      <3>1. \E p \in LiveOf(b) : Reconciled("rejected", p, p.value, Reverted(b)) \in emitted'
        BY <2>3 DEF BatchReverted, AnyLiveRejected
      <3> QED BY <3>1 DEF Reconciled, Undisturbed, Races, EditRejected
    <2>4. ASSUME NEW b, BatchIgnored(b) \/ BatchConfirmed(b) PROVE FALSE
      BY <1>0, <2>4 DEF BatchIgnored, BatchConfirmed, viewVars
    <2>5. ASSUME NEW p \in settling, BatchSettlesOne(p) PROVE FALSE
      BY <2>1, <2>5 DEF BatchSettlesOne, TypeOK
    <2> QED BY <1>3, <2>2, <2>3, <2>4, <2>5 DEF EditStep
  <1>4. CASE RowStep
    <2>1. ASSUME NEW s \in Rows, CreateRejected(s) \/ CreateResolved(s) PROVE FALSE
      BY <1>0, <2>1, NewRowIsStored
         DEF CreateRejected, CreateResolved, Mutate, viewVars, TypeOK, Tables
    <2>2. ASSUME NEW s \in Rows, RemoveSettles(s)
          PROVE  removes[r] = "stored" /\ server' = server
      BY <1>0, <2>2 DEF RemoveSettles, Mutate, viewVars, TypeOK, Tables
    <2> QED BY <1>4, <2>1, <2>2 DEF RowStep
  <1>5. CASE ServerStep
    BY <1>0, <1>5 DEF ServerStep, ServerReadsPage, ServerStoresCell, ServerRefusesCell,
                      ServerInserts, ServerDeletes, FormSaves, OthersChange, clientVars, viewVars
  <1>6. CASE UNCHANGED vars
    BY <1>0, <1>6 DEF vars, viewVars
  <1> QED BY <1>1, <1>2, <1>3, <1>4, <1>5, <1>6 DEF Next, Undisturbed

\* The answer to a removal takes the row out.
LEMMA RemovedRowsGoOut ==
  ASSUME TypeOK, Undisturbed, NEW r \in Rows,
         removes[r] = "stored", removes'[r] # "stored"
  PROVE  ~Present(r)'
  <1>1. ASSUME NEW s \in Rows, RemoveSettles(s) PROVE ~Present(r)'
    <2>1. s = r BY <1>1 DEF RemoveSettles, TypeOK
    <2> QED BY <1>1, <2>1 DEF RemoveSettles, Mutate, viewVars, Present, Undisturbed, TypeOK, Tables
  <1>2. CASE HostStep
    BY <1>2 DEF HostStep, Refetch, Dispose, SetCell, ApplyChanges, CreateNode, AddSavedNode,
                RemoveNode, rowOpVars, TypeOK
  <1>3. CASE LoadStep
    BY <1>3 DEF LoadStep, RequestPage, RequestThrows, PageIgnored, PageLoaded, PageFailed,
                TakePage, rowOpVars
  <1>4. CASE EditStep
    BY <1>4 DEF EditStep, AnswerIgnored, AnswerApplied, TakeAnswer, BatchIgnored,
                BatchReverted, BatchConfirmed, TakeBatch, BatchSettlesOne, rowOpVars
  <1>5. CASE RowStep
    BY <1>1, <1>5 DEF RowStep, CreateRejected, CreateResolved, TakeCreated
  <1>6. CASE ServerStep
    <2>1. ASSUME NEW s \in Rows, ServerDeletes(s) PROVE FALSE
      BY <2>1 DEF ServerDeletes, TypeOK
    <2> QED
      BY <1>6, <2>1 DEF ServerStep, ServerReadsPage, ServerStoresCell, ServerRefusesCell,
                        ServerInserts, FormSaves, OthersChange, rowOpVars
  <1>7. CASE UNCHANGED vars
    BY <1>7 DEF vars, rowOpVars
  <1> QED BY <1>2, <1>3, <1>4, <1>5, <1>6, <1>7 DEF Next, Undisturbed

\* Nobody else changes a row that is loaded.
LEMMA LoadedRowsAreOurs ==
  ASSUME TypeOK, Undisturbed, NEW r \in Rows, Present(r), r \in saved,
         UNCHANGED <<patches, removes>>
  PROVE  server'[r] = server[r]
  BY DEF Undisturbed, Races, ChangedElsewhere

LEMMA RowsStayAgreed ==
  ASSUME TypeOK, TypeOK', TokensOnce, RowsOnce, RowsAgree, Undisturbed
  PROVE  RowsAgree'
  <1> SUFFICES ASSUME NEW r \in Rows
               PROVE  /\ Present(r)' /\ removes'[r] # "stored" => server'[r] # Gone
                      /\ ~Present(r)' /\ server'[r] # Gone => NoEditsOf(r)'
    BY DEF RowsAgree
  <1>1. RowMoves(r)
    BY RowsMove DEF Undisturbed
  <1>2. /\ Present(r) /\ removes[r] # "stored" => server[r] # Gone
        /\ ~Present(r) /\ server[r] # Gone => NoEditsOf(r)
        /\ Unborn(r) => ~Present(r) /\ NoEditsOf(r)
        /\ creates[r] = "sent" => Unborn(r)
        /\ r \in FormRows \ saved => Unborn(r)
        /\ removes[r] = "stored" => server[r] = Gone
    BY DEF RowsAgree, RowsOnce
  <1>3. CASE Present(r)
    <2>1. ASSUME Present(r)', removes'[r] # "stored" PROVE server'[r] # Gone
      <3>1. removes[r] # "stored" BY <2>1, RemovedRowsGoOut
      <3> QED BY <1>1, <1>2, <1>3, <2>1, <3>1, LoadedRowsAreOurs DEF RowMoves
    <2>2. ASSUME ~Present(r)' PROVE server'[r] = Gone
      BY <1>2, <1>3, <2>2, RowsGoOutWhenRemoved
    <2> QED BY <2>1, <2>2
  <1>4. CASE ~Present(r)
    <2>1. Present(r)' => server'[r] # Gone
      BY <1>4, RowsComeInAsStored
    <2>2. ASSUME ~Present(r)', server'[r] # Gone PROVE NoEditsOf(r)'
      <3>1. NoEditsOf(r)
        BY <1>1, <1>2, <1>4, <2>2 DEF RowMoves
      <3> QED BY <1>4, <3>1, EditsAreOfLoadedRows DEF Undisturbed
    <2> QED BY <2>1, <2>2
  <1> QED BY <1>3, <1>4

--------------------------------------------------------------------------------
(* Steps without a race: cells.                                              *)

LEMMA OrderStays ==
  ASSUME TypeOK, TokensOnce, AnsweredInOrder, Undisturbed
  PROVE  AnsweredInOrder'
  <1>0. \A p \in Edits : p.token \in Nat /\ p.token <= cellTokenCounter
    BY DEF TokensOnce, TypeOK
  <1>1. CASE EditsLeave
    BY <1>1 DEF EditsLeave, AnsweredInOrder
  <1>2. ASSUME NEW S, Edits' = Edits \cup S,
               \A s \in S : ~Answered(s) /\ cellTokenCounter < s.token /\ s.token \in Nat
        PROVE  AnsweredInOrder'
    <2> SUFFICES ASSUME NEW p \in Edits', NEW q \in Edits', p.row = q.row, p.col = q.col,
                        Answered(q), ~Answered(p)
                 PROVE  q.token < p.token
      BY DEF AnsweredInOrder
    <2>1. q \in Edits BY <1>2
    <2>2. CASE p \in Edits BY <2>1, <2>2 DEF AnsweredInOrder
    <2>3. CASE p \in S BY <1>0, <1>2, <2>1, <2>3 DEF TypeOK
    <2> QED BY <1>2, <2>2, <2>3
  <1>3. ASSUME NEW change \in Change, SetCell(change) PROVE AnsweredInOrder'
    <2> DEFINE S == {SentAlone(change)}
    <2>1. Edits' = Edits \cup S
      BY <1>3 DEF SetCell, SentAlone, Edits
    <2>2. cellTokenCounter \in Nat BY DEF TypeOK
    <2>3. SentAlone(change).token = cellTokenCounter + 1 /\ ~Answered(SentAlone(change))
      BY RequestsSent DEF Answered
    <2>4. \A s \in S : ~Answered(s) /\ cellTokenCounter < s.token /\ s.token \in Nat
      BY <2>2, <2>3
    <2> HIDE DEF S
    <2> QED BY <1>2, <2>1, <2>4
  <1>4. ASSUME NEW changes \in Batches, ApplyChanges(changes) PROVE AnsweredInOrder'
    <2> DEFINE S == {SentWith(changes, i) : i \in DOMAIN changes}
    <2>1. Edits' = Edits \cup S
      BY <1>4 DEF ApplyChanges, SentWith, Edits
    <2>2. cellTokenCounter \in Nat /\ DOMAIN changes = 1 .. Len(changes) /\ Len(changes) \in Nat
      BY BatchIsSeq DEF TypeOK
    <2>3. \A i \in DOMAIN changes : /\ SentWith(changes, i).token = cellTokenCounter + i
                                    /\ ~Answered(SentWith(changes, i))
      BY RequestsSent DEF Answered
    <2>4. \A s \in S : ~Answered(s) /\ cellTokenCounter < s.token /\ s.token \in Nat
      BY <2>2, <2>3
    <2> HIDE DEF S
    <2> QED BY <1>2, <2>1, <2>4
  <1>5. ASSUME NEW e \in patches, ServerStoresCell(e) \/ ServerRefusesCell(e)
        PROVE  AnsweredInOrder'
    <2>1. PICK reply : /\ patches' = (patches \ {e}) \cup {AnswerOf(e, reply)}
                       /\ reply.kind # "none" /\ ~Answered(e)
      BY <1>5, ServerAnswers
    <2> DEFINE a == AnswerOf(e, reply)
    <2>2. a.token = e.token /\ a.row = e.row /\ a.col = e.col /\ Answered(a)
      BY <2>1, AnswerOfParts DEF TypeOK, Answered
    <2> HIDE DEF a
    <2>3. settling' = settling /\ patches' = (patches \ {e}) \cup {a}
      BY <1>5, <2>1 DEF ServerStoresCell, ServerRefusesCell, clientVars, a
    <2>4. e \notin patches'
      BY <2>1, <2>2, <2>3
    <2>5. ASSUME NEW q \in patches, ~Answered(q), q.row = e.row, q.col = e.col
          PROVE  ~(q.token < e.token)
      BY <2>1, <2>4, <2>5 DEF Undisturbed, Races, HandledOutOfOrder
    <2> SUFFICES ASSUME NEW p \in Edits', NEW q \in Edits', p.row = q.row, p.col = q.col,
                        Answered(q), ~Answered(p)
                 PROVE  q.token < p.token
      BY DEF AnsweredInOrder
    <2>6. p \in Edits /\ p # e
      BY <2>2, <2>3, <2>4 DEF Edits, TokensOnce
    <2>7. CASE q # a
      BY <2>3, <2>6, <2>7 DEF Edits, AnsweredInOrder
    <2>8. CASE q = a
      <3>1. p \in patches
        BY <2>6 DEF Edits, TokensOnce
      <3>2. ~(p.token < e.token)
        BY <2>2, <2>5, <2>8, <3>1
      <3>3. p.token # e.token /\ p.token \in Nat /\ e.token \in Nat
        BY <1>0, <2>6 DEF TokensOnce, Edits
      <3> QED BY <2>2, <2>8, <3>2, <3>3
    <2> QED BY <2>7, <2>8
  <1> QED BY <1>1, <1>3, <1>4, <1>5, EditsOnlyLeave DEF EditsChange, Undisturbed

\* A cell of which nothing is known to change, but that edits of it may be gone.
LEMMA CellUntouched ==
  ASSUME NEW r \in Rows, NEW c \in Cols, CellAgrees(r, c), Edits' \subseteq Edits,
         nodes'[r][c] = nodes[r][c], server'[r][c] = server[r][c],
         cellTokens'[r][c] = cellTokens[r][c]
  PROVE  CellAgrees(r, c)'
  BY DEF CellAgrees, IsCurrent

\* A row that comes in has no edits, and so no cell that is marked.
LEMMA CellsComeInAgreed ==
  ASSUME EditInvariant', RowsAgree, TypeOK, TokensOnce, Undisturbed,
         NEW r \in Rows, ~Present(r), Present(r)', NEW c \in Cols
  PROVE  CellAgrees(r, c)'
  <1>1. server[r] # Gone /\ nodes'[r] = server[r] /\ server' = server
    BY RowsComeInAsStored
  <1>2. NoEditsOf(r)
    BY <1>1 DEF RowsAgree
  <1>3. NoEditsOf(r)'
    BY <1>2, EditsAreOfLoadedRows DEF Undisturbed
  <1>4. cellTokens'[r][c] = 0
    BY <1>3 DEF EditInvariant, LiveTokenHasItsEdit, NoEditsOf, Edits
  <1> QED BY <1>1, <1>3, <1>4 DEF CellAgrees, NoEditsOf

LEMMA SetCellAgrees ==
  ASSUME TypeOK, TokensOnce, NEW change \in Change, SetCell(change),
         NEW r \in Rows, NEW c \in Cols, Present(r), CellAgrees(r, c)
  PROVE  CellAgrees(r, c)'
  <1> DEFINE s == SentAlone(change)
  <1>1. /\ s.token = cellTokenCounter + 1 /\ ~Answered(s) /\ s.reply.kind = "none"
        /\ s.row = change.row /\ s.col = change.col /\ s.value = change.value
    BY RequestsSent DEF Answered
  <1>2. /\ nodes' = [nodes EXCEPT ![change.row][change.col] = change.value]
        /\ cellTokens' = [cellTokens EXCEPT ![change.row][change.col] = cellTokenCounter + 1]
        /\ Edits' = Edits \cup {s} /\ server' = server
    BY DEF SetCell, Mutate, SentAlone, Edits
  <1> HIDE DEF s
  <1>3. \A p \in Edits : p.token \in Nat /\ p.token <= cellTokenCounter
    BY DEF TokensOnce, TypeOK
  <1>4. cellTokenCounter \in Nat /\ change.row \in Rows /\ change.col \in Cols
    BY DEF TypeOK, Change
  <1>5. CASE r = change.row /\ c = change.col
    <2>1. nodes[r] \in [Cols -> Values]
      BY LoadedRow DEF TypeOK, Present, RowImages
    <2>2. nodes'[r][c] = change.value /\ cellTokens'[r][c] = cellTokenCounter + 1
      BY <1>2, <1>4, <1>5, <2>1 DEF TypeOK, Tables
    <2>3. ASSUME NEW p \in Edits', p.row = r, p.col = c
          PROVE  /\ p.token <= cellTokenCounter + 1
                 /\ p.token = cellTokenCounter + 1 => p = s
      BY <1>1, <1>2, <1>3, <1>4
    <2> QED BY <1>1, <1>4, <2>2, <2>3 DEF CellAgrees, IsCurrent, Tells
  <1>6. CASE ~(r = change.row /\ c = change.col)
    <2>1. nodes'[r][c] = nodes[r][c] /\ cellTokens'[r][c] = cellTokens[r][c]
      <3>1. CASE r # change.row
        BY <1>2, <1>4, <3>1 DEF TypeOK, Tables
      <3>2. CASE r = change.row /\ c # change.col
        <4>1. nodes[r] \in [Cols -> Values]
          BY LoadedRow DEF TypeOK, Present, RowImages
        <4> QED BY <1>2, <1>4, <3>2, <4>1 DEF TypeOK, Tables
      <3> QED BY <1>6, <3>1, <3>2
    <2>2. \A p \in Edits' : p.row = r /\ p.col = c => p \in Edits
      BY <1>1, <1>2, <1>6
    <2> QED BY <1>2, <2>1, <2>2 DEF CellAgrees, IsCurrent
  <1> QED BY <1>5, <1>6

LEMMA ApplyChangesAgrees ==
  ASSUME TypeOK, TokensOnce, NEW changes \in Batches, ApplyChanges(changes),
         NEW r \in Rows, NEW c \in Cols, Present(r), CellAgrees(r, c)
  PROVE  CellAgrees(r, c)'
  <1>1. \A i \in DOMAIN changes :
          LET s == SentWith(changes, i)
          IN  /\ s.token = cellTokenCounter + i /\ s.reply.kind = "none"
              /\ s.row = changes[i].row /\ s.col = changes[i].col /\ s.value = changes[i].value
    BY RequestsSent
  <1>2. /\ nodes'[r][c] = ValueAfter(changes, Len(changes), r, c)
        /\ cellTokens'[r][c] = LastToken(changes, r, c) /\ server' = server
        /\ Edits' = Edits \cup {SentWith(changes, i) : i \in DOMAIN changes}
    BY DEF ApplyChanges, Mutate, SentWith, Edits
  <1>3. \A p \in Edits : p.token \in Nat /\ p.token <= cellTokenCounter
    BY DEF TokensOnce, TypeOK
  <1>4. cellTokenCounter \in Nat /\ DOMAIN changes = 1 .. Len(changes) /\ Len(changes) \in Nat
    BY BatchIsSeq DEF TypeOK
  <1>5. CASE /\ LastToken(changes, r, c) = cellTokens[r][c]
             /\ ValueAfter(changes, Len(changes), r, c) = nodes[r][c]
             /\ \A i \in DOMAIN changes : ~(changes[i].row = r /\ changes[i].col = c)
    <2>1. \A p \in Edits' : p.row = r /\ p.col = c => p \in Edits
      BY <1>1, <1>2, <1>5
    <2> QED BY <1>2, <1>5, <2>1 DEF CellAgrees, IsCurrent
  <1>6. ASSUME NEW i \in DOMAIN changes,
               changes[i].row = r, changes[i].col = c,
               LastToken(changes, r, c) = cellTokenCounter + i,
               ValueAfter(changes, Len(changes), r, c) = changes[i].value,
               \A j \in DOMAIN changes : (changes[j].row = r /\ changes[j].col = c) => j <= i
        PROVE  CellAgrees(r, c)'
    <2>1. nodes'[r][c] = changes[i].value /\ cellTokens'[r][c] = cellTokenCounter + i
      BY <1>2, <1>6
    <2>2. ASSUME NEW p \in Edits', p.row = r, p.col = c
          PROVE  /\ p.token <= cellTokenCounter + i
                 /\ p.token = cellTokenCounter + i =>
                      p.value = changes[i].value /\ p.reply.kind = "none"
      <3>1. CASE p \in Edits BY <1>3, <1>4, <3>1
      <3>2. ASSUME NEW j \in DOMAIN changes, p = SentWith(changes, j)
            PROVE  j <= i /\ p.token = cellTokenCounter + j /\ p.value = changes[j].value
                   /\ p.reply.kind = "none"
        BY <1>1, <1>6, <2>2, <3>2
      <3> QED BY <1>2, <1>4, <3>1, <3>2
    <2> QED BY <1>4, <2>1, <2>2 DEF CellAgrees, IsCurrent, Tells
  <1> QED BY <1>5, <1>6, LastTokens

LEMMA AnswerAgrees ==
  ASSUME TypeOK, TokensOnce, AnsweredInOrder,
         NEW e \in patches, ServerStoresCell(e) \/ ServerRefusesCell(e),
         NEW r \in Rows, NEW c \in Cols, server[r] # Gone, CellAgrees(r, c)
  PROVE  CellAgrees(r, c)'
  <1>1. PICK reply :
           /\ patches' = (patches \ {e}) \cup {AnswerOf(e, reply)}
           /\ reply.kind # "none" /\ ~Answered(e)
           /\ \/ UNCHANGED server /\ reply.kind = "failed"
              \/ \E v \in Values : /\ server' = [server EXCEPT ![e.row][e.col] = v]
                                   /\ reply.kind = "value" => reply.cells[e.col] = v
                                   /\ reply.kind = "columns" => reply.cells[e.col] \in {v, Keep}
    BY ServerAnswers
  <1> DEFINE a == AnswerOf(e, reply)
  <1>2. /\ a.token = e.token /\ a.row = e.row /\ a.col = e.col /\ a.value = e.value
        /\ a.reply = reply
    BY AnswerOfParts DEF TypeOK
  <1> HIDE DEF a
  <1>3. /\ UNCHANGED <<settling, nodes, cellTokens>> /\ patches' = (patches \ {e}) \cup {a}
    BY <1>1 DEF ServerStoresCell, ServerRefusesCell, clientVars, viewVars, tokenVars, a
  <1>4. Edits' = (Edits \ {e}) \cup {a} /\ e \in Edits
    BY <1>3 DEF Edits, TokensOnce
  <1>5. e.row \in Rows /\ e.col \in Cols /\ e.token # 0
    BY <1>4 DEF TypeOK, Patches, TokensOnce
  <1>6. server[r] \in [Cols -> Values]
    BY LoadedRow DEF TypeOK, RowImages
  <1>7. CASE ~(e.row = r /\ e.col = c)
    <2>1. server'[r][c] = server[r][c]
      <3>1. CASE UNCHANGED server BY <3>1
      <3>2. ASSUME NEW v, server' = [server EXCEPT ![e.row][e.col] = v]
            PROVE  server'[r][c] = server[r][c]
        BY <1>5, <1>6, <1>7, <3>2 DEF TypeOK, Tables
      <3> QED BY <1>1, <3>1, <3>2
    <2>2. \A p \in Edits' : p.row = r /\ p.col = c => p \in Edits
      BY <1>2, <1>4, <1>7
    <2> QED BY <1>3, <2>1, <2>2 DEF CellAgrees, IsCurrent
  <1>8. CASE e.row = r /\ e.col = c
    <2>1. cellTokens[r][c] # 0 /\ e.token <= cellTokens[r][c]
      BY <1>1, <1>4, <1>8 DEF CellAgrees
    <2>2. Tells(a, server'[r][c])
      <3>1. CASE UNCHANGED server /\ reply.kind = "failed"
        BY <1>2, <3>1 DEF Tells
      <3>2. ASSUME NEW v, server' = [server EXCEPT ![e.row][e.col] = v],
                   reply.kind = "value" => reply.cells[e.col] = v,
                   reply.kind = "columns" => reply.cells[e.col] \in {v, Keep}
            PROVE  Tells(a, server'[r][c])
        <4>1. server'[r][c] = v
          BY <1>5, <1>6, <1>8, <3>2 DEF TypeOK, Tables
        <4> QED BY <1>2, <3>2, <4>1 DEF Tells
      <3> QED BY <1>1, <3>1, <3>2
    <2>3. ASSUME NEW p \in Edits \ {e}, p.row = r, p.col = c, IsCurrent(p)
          PROVE  p.reply.kind = "none"
      <3>1. p.token = cellTokens[r][c] BY <2>3 DEF IsCurrent
      <3>2. p.token \in Nat /\ e.token \in Nat /\ ~(p.token < e.token)
        BY <1>4, <2>1, <3>1 DEF TypeOK, TokensOnce
      <3> QED BY <1>1, <1>4, <1>8, <2>3, <3>2 DEF AnsweredInOrder, Answered
    <2>4. ASSUME NEW p \in Edits', p.row = r, p.col = c
          PROVE  /\ p.token <= cellTokens[r][c]
                 /\ p.token = cellTokens[r][c] =>
                      nodes[r][c] = p.value /\ Tells(p, server'[r][c])
      <3>1. CASE p = a
        BY <1>2, <1>4, <1>8, <2>1, <2>2, <3>1 DEF CellAgrees, IsCurrent
      <3>2. CASE p \in Edits \ {e}
        BY <1>4, <2>1, <2>3, <2>4, <3>2 DEF CellAgrees, IsCurrent, Tells
      <3> QED BY <1>4, <3>1, <3>2
    <2> QED BY <1>3, <2>1, <2>4 DEF CellAgrees, IsCurrent
  <1> QED BY <1>7, <1>8

\* The answer to the edit that marks a cell is applied.
Applied(p) ==
  /\ IsCurrent(p) /\ cellTokens' = Cleared(p)
  /\ Confirm(p) \/ Reload(p) \/ Reject(p)
  /\ p \in Landed /\ Edits' \subseteq Edits /\ UNCHANGED server

\* What a confirmed edit leaves in the cells of its row.
LEMMA ConfirmedCells ==
  ASSUME TypeOK, NEW p \in Patches, Confirm(p), Present(p.row), NEW c \in Cols
  PROVE  LET told == p.reply.cells[c]
         IN  /\ p.reply.kind \in {"value", "columns"}
             /\ nodes'[p.row][c] \in {nodes[p.row][c], told}
             /\ told = Keep => nodes'[p.row][c] = nodes[p.row][c]
             /\ p.reply.kind = "columns" /\ told # Keep => nodes'[p.row][c] = told
             /\ c = p.col /\ told # Keep /\ told # nodes'[p.row][c] => told = p.value
             /\ c = p.col /\ told = p.value => nodes'[p.row][c] \in {nodes[p.row][c], p.value}
  <1> DEFINE told == p.reply.cells[c]
  <1>1. p.row \in Rows /\ p.col \in Cols BY DEF Patches
  <1>2. p.reply.kind \in {"value", "columns"}
    BY DEF Confirm, NamesLostRow
  <1>3. CASE Writes(p)
    <2>1. nodes' = [nodes EXCEPT ![p.row] = Merge(@, p.reply.cells)]
      BY <1>3 DEF Confirm, Mutate
    <2>2. nodes'[p.row][c] = IF told = Keep THEN nodes[p.row][c] ELSE told
      BY <1>1, <2>1 DEF Merge, TypeOK, Tables
    <2> QED BY <1>2, <2>2
  <1>4. CASE ~Writes(p)
    <2>1. UNCHANGED nodes /\ p.reply.kind # "columns" /\ Authoritative(p) = p.value
      BY <1>4 DEF Confirm, viewVars, Writes
    <2> QED BY <1>2, <2>1 DEF Authoritative
  <1> QED BY <1>3, <1>4

LEMMA ApplicationAgrees ==
  ASSUME TypeOK, TokensOnce, AnsweredInOrder, Undisturbed, NEW p \in Edits, Applied(p),
         NEW r \in Rows, NEW c \in Cols, Present(r), server[r] # Gone, CellAgrees(r, c)
  PROVE  CellAgrees(r, c)'
  <1>1. p \in Patches /\ p.row \in Rows /\ p.col \in Cols /\ p.token \in Nat \ {0}
    BY DEF TypeOK, Edits, Patches, TokensOnce
  <1>2. /\ Edits' \subseteq Edits /\ UNCHANGED server
        /\ cellTokens'[r][c] = IF p.row = r /\ p.col = c THEN 0 ELSE cellTokens[r][c]
    BY <1>1, ClearedUnmarks DEF Applied
  <1>3. CASE r # p.row
    <2>1. nodes'[r] = nodes[r]
      BY <1>1, <1>3 DEF Applied, Confirm, Mutate, Reload, StartLoad, Reject, viewVars, TypeOK, Tables
    <2> QED BY <1>2, <1>3, <2>1, CellUntouched
  <1>4. CASE r = p.row
    <2>1. ~Reload(p)
      BY DEF Reload, Applied, Undisturbed, Races, ReloadAsked
    <2>2. ~Reject(p)
      <3>1. ASSUME Reject(p) PROVE Reconciled("rejected", p, p.value, nodes) \in emitted'
        BY <3>1 DEF Reject, Emit, Undisturbed
      <3> QED BY <3>1 DEF Reconciled, Undisturbed, Races, EditRejected
    <2>3. Confirm(p)
      BY <2>1, <2>2 DEF Applied
    <2> DEFINE told == p.reply.cells[c]
    <2>4. /\ p.reply.kind \in {"value", "columns"}
          /\ told = Keep => nodes'[r][c] = nodes[r][c]
          /\ p.reply.kind = "columns" /\ told # Keep => nodes'[r][c] = told
          /\ c = p.col /\ told # Keep /\ told # nodes'[r][c] => told = p.value
          /\ c = p.col /\ told = p.value => nodes'[r][c] \in {nodes[r][c], p.value}
      BY <1>1, <1>4, <2>3, ConfirmedCells
    <2>5. server[r][c] # Keep
      BY LoadedRow, MarkAssumption DEF TypeOK, RowImages
    <2>6. p.reply.kind = "columns" =>
            IF c = p.col THEN told = Keep => server[r][c] = p.value
            ELSE told # Keep => cellTokens[r][c] = 0 /\ server[r][c] = told
      BY <1>4 DEF Applied, Undisturbed, Races, OtherCellsLand, CellIn
    <2>7. CASE c = p.col
      <3>1. cellTokens[r][c] = p.token /\ nodes[r][c] = p.value /\ Tells(p, server[r][c])
        BY <1>4, <2>7 DEF Applied, IsCurrent, CellAgrees
      <3>2. nodes'[r][c] = server[r][c]
        BY <2>4, <2>5, <2>6, <2>7, <3>1 DEF Tells
      <3>3. ASSUME NEW q \in Edits', q.row = r, q.col = c PROVE Answered(q) /\ q.token # 0
        <4>1. q \in Edits /\ q.token \in Nat \ {0} /\ q.token <= p.token
          BY <1>1, <1>2, <3>1, <3>3 DEF CellAgrees, TokensOnce, TypeOK
        <4>2. Answered(p) BY DEF Applied, Landed
        <4>3. ~Answered(q) => p.token < q.token
          BY <1>4, <2>7, <3>3, <4>1, <4>2 DEF AnsweredInOrder
        <4> QED BY <1>1, <4>1, <4>3
      <3> QED BY <1>2, <1>4, <2>7, <3>2, <3>3 DEF CellAgrees, IsCurrent
    <2>8. CASE c # p.col
      <3>1. p.reply.kind = "value" => told = Keep
        BY <2>8 DEF TokensOnce
      <3>2. CASE told = Keep
        BY <1>2, <2>4, <2>8, <3>2, CellUntouched
      <3>3. CASE told # Keep
        <4>1. nodes'[r][c] = server[r][c] /\ cellTokens[r][c] = 0
          BY <2>4, <2>6, <2>8, <3>1, <3>3
        <4>2. nodes[r][c] = server[r][c]
          BY <4>1 DEF CellAgrees
        <4> QED BY <1>2, <2>8, <4>1, <4>2, CellUntouched
      <3> QED BY <3>2, <3>3
    <2> QED BY <2>7, <2>8
  <1> QED BY <1>3, <1>4

\* Every other step leaves the cells of a row that stays loaded and stored alone.
Untouched(r) ==
  /\ nodes'[r] = nodes[r] /\ server'[r] = server[r]
  /\ cellTokens' = cellTokens /\ Edits' \subseteq Edits

LEMMA StepsOnARow ==
  ASSUME TypeOK, TokensOnce, RowsOnce, Undisturbed,
         NEW r \in Rows, Present(r), server[r] # Gone, Present(r)', server'[r] # Gone
  PROVE  EditsChange \/ (\E p \in Edits : Applied(p)) \/ Untouched(r)
  <1> USE DEF Untouched
  <1>1. ASSUME UNCHANGED <<nodes, server, patches, settling, cellTokens>> PROVE Untouched(r)
    BY <1>1 DEF Edits
  <1>2. CASE HostStep
    <2>1. ASSUME NEW s \in Rows, AddSavedNode(s) PROVE Untouched(r)
      <3>1. s # r /\ nodes' = [nodes EXCEPT ![s] = NewRow]
        BY <2>1 DEF AddSavedNode, Mutate
      <3>2. UNCHANGED <<server, patches, settling, cellTokens>>
        BY <2>1 DEF AddSavedNode, tokenVars
      <3> QED BY <3>1, <3>2 DEF TypeOK, Tables, Edits
    <2>2. ASSUME Refetch \/ \E s \in Rows : CreateNode(s) \/ RemoveNode(s)
          PROVE  Untouched(r)
      BY <1>1, <2>2 DEF Refetch, StartLoad, CreateNode, RemoveNode, viewVars, tokenVars
    <2>3. ~Dispose BY DEF Dispose, Undisturbed
    <2> QED BY <1>2, <2>1, <2>2, <2>3 DEF HostStep, EditsChange
  <1>3. CASE LoadStep
    BY <1>1, <1>3, NoPageIsTaken
       DEF LoadStep, RequestPage, RequestThrows, PageIgnored, PageFailed, TakePage,
           PublishLoadError, viewVars, tokenVars
  <1>4. CASE EditStep
    <2>1. ASSUME NEW p \in patches, AnswerIgnored(p) PROVE Untouched(r)
      BY <2>1 DEF AnswerIgnored, TakeAnswer, viewVars, Edits
    <2>2. ASSUME NEW p \in patches, AnswerApplied(p) PROVE Applied(p) /\ p \in Edits
      <3>1. patches' = patches \ {p} /\ settling' = settling /\ UNCHANGED server /\ Answered(p)
        BY <2>2 DEF AnswerApplied, TakeAnswer
      <3>2. p \in Landed /\ Edits' \subseteq Edits
        BY <2>2, <3>1 DEF AnswerApplied, Landed, Edits, TokensOnce
      <3> QED BY <2>2, <3>1, <3>2 DEF AnswerApplied, Applied, Edits
    <2>3. ASSUME NEW b, BatchIgnored(b) PROVE FALSE
      BY <2>3 DEF BatchIgnored, Undisturbed
    <2>4. ASSUME NEW b, BatchReverted(b) PROVE FALSE
      <3>1. \E p \in LiveOf(b) : Reconciled("rejected", p, p.value, Reverted(b)) \in emitted'
        BY <2>4 DEF BatchReverted, AnyLiveRejected
      <3> QED BY <3>1 DEF Reconciled, Undisturbed, Races, EditRejected
    <2>5. ASSUME NEW b, BatchConfirmed(b) PROVE Untouched(r)
      BY <2>5 DEF BatchConfirmed, TakeBatch, LiveOf, BatchOf, viewVars, Edits
    <2>6. ASSUME NEW p \in settling, BatchSettlesOne(p) PROVE Applied(p) /\ p \in Edits
      <3>1. settling' = settling \ {p} /\ patches' = patches /\ UNCHANGED server /\ Answered(p)
        BY <2>6 DEF BatchSettlesOne, TokensOnce
      <3>2. IsCurrent(p)
        BY <3>1 DEF Undisturbed, Races, OvertakenInBatch
      <3>3. p \in Landed /\ Edits' \subseteq Edits
        BY <3>1, <3>2 DEF Landed, Edits
      <3> QED BY <2>6, <3>1, <3>2, <3>3 DEF BatchSettlesOne, Applied, Edits
    <2> QED BY <1>4, <2>1, <2>2, <2>3, <2>4, <2>5, <2>6 DEF EditStep
  <1>5. CASE RowStep
    <2>1. ASSUME NEW s \in Rows, CreateRejected(s) PROVE Untouched(r)
      BY <1>1, <2>1 DEF CreateRejected, TakeCreated, viewVars, tokenVars
    <2>2. ASSUME NEW s \in Rows, CreateResolved(s) \/ RemoveSettles(s) PROVE Untouched(r)
      <3>1. nodes' = nodes \/ nodes' = [nodes EXCEPT ![s] = NewRow]
                           \/ nodes' = [nodes EXCEPT ![s] = Gone]
        BY <2>2 DEF CreateResolved, RemoveSettles, Mutate, viewVars
      <3>2. CreateResolved(s) => s # r
        BY DEF CreateResolved, Undisturbed
      <3>3. nodes'[r] = nodes[r]
        BY <2>2, <3>1, <3>2 DEF TypeOK, Tables, Present, CreateResolved, RemoveSettles, Mutate, viewVars
      <3>4. UNCHANGED <<server, patches, settling, cellTokens>>
        BY <2>2 DEF CreateResolved, TakeCreated, RemoveSettles, tokenVars
      <3> QED BY <3>3, <3>4 DEF Edits
    <2> QED BY <1>5, <2>1, <2>2 DEF RowStep
  <1>6. CASE ServerStep
    <2>1. ASSUME NEW f, ServerReadsPage(f) PROVE Untouched(r)
      BY <1>1, <2>1 DEF ServerReadsPage, clientVars, viewVars, tokenVars
    <2>2. ASSUME NEW s \in Rows,
                 ServerInserts(s) \/ ServerDeletes(s) \/ FormSaves(s) \/ OthersChange(s)
          PROVE  Untouched(r)
      <3>1. CASE ServerInserts(s) \/ ServerDeletes(s)
        BY <3>1 DEF ServerInserts, ServerDeletes, TypeOK, Tables, clientVars, viewVars,
                    tokenVars, Edits
      <3>2. CASE FormSaves(s)
        <4>1. s # r BY <3>2 DEF FormSaves, RowsOnce, Unborn
        <4> QED BY <3>2, <4>1 DEF FormSaves, TypeOK, Tables, clientVars, viewVars,
                                  tokenVars, Edits
      <3>3. CASE OthersChange(s)
        <4>1. server'[r] = server[r]
          BY <3>3, LoadedRowsAreOurs DEF OthersChange, TypeOK, Tables, rowOpVars
        <4> QED BY <3>3, <4>1 DEF OthersChange, clientVars, viewVars, tokenVars, Edits
      <3> QED BY <2>2, <3>1, <3>2, <3>3
    <2> QED BY <1>6, <2>1, <2>2 DEF ServerStep, EditsChange
  <1>7. CASE UNCHANGED vars
    BY <1>1, <1>7 DEF vars, viewVars, tokenVars
  <1> QED BY <1>2, <1>3, <1>4, <1>5, <1>6, <1>7 DEF Next, Undisturbed

LEMMA CellsStayAgreed ==
  ASSUME TypeOK, EditInvariant', TokensOnce, RowsOnce, Agrees, Undisturbed
  PROVE  CellsAgree'
  <1> SUFFICES ASSUME NEW r \in Rows, Present(r)', server'[r] # Gone, NEW c \in Cols
               PROVE  CellAgrees(r, c)'
    BY DEF CellsAgree
  <1>1. CASE ~Present(r)
    BY <1>1, CellsComeInAgreed DEF Agrees
  <1>2. CASE Present(r) /\ server[r] = Gone
    <2>1. RowMoves(r) BY RowsMove DEF Undisturbed
    <2>2. ~Unborn(r) /\ creates[r] # "sent" /\ r \notin FormRows \ saved
      BY <1>2 DEF RowsOnce
    <2> QED BY <1>2, <2>1, <2>2 DEF RowMoves
  <1>3. CASE Present(r) /\ server[r] # Gone
    <2>1. CellAgrees(r, c)
      BY <1>3 DEF Agrees, CellsAgree
    <2>2. CASE EditsChange
      BY <1>3, <2>1, <2>2, SetCellAgrees, ApplyChangesAgrees, AnswerAgrees DEF EditsChange, Agrees
    <2>3. ASSUME NEW p \in Edits, Applied(p) PROVE CellAgrees(r, c)'
      BY <1>3, <2>1, <2>3, ApplicationAgrees DEF Agrees
    <2>4. CASE Untouched(r)
      BY <2>1, <2>4, CellUntouched DEF Untouched
    <2> QED BY <1>3, <2>2, <2>3, <2>4, StepsOnARow
  <1> QED BY <1>1, <1>2, <1>3

--------------------------------------------------------------------------------
(* Every behaviour.                                                          *)

ConvergenceInvariant == EditInvariant /\ TokensOnce /\ RowsOnce /\ Agreement

LEMMA InitConverges == TrackedInit => ConvergenceInvariant
  <1> SUFFICES ASSUME TrackedInit PROVE ConvergenceInvariant OBVIOUS
  <1> USE DEF TrackedInit, Init, Edits, Present, Empty
  <1>1. EditInvariant BY DEF EditInvariant, LiveTokenHasItsEdit
  <1>2. TokensOnce BY DEF TokensOnce
  <1>3. RowsOnce BY ShapeAssumption, NewRowIsStored DEF RowsOnce, Unborn, NoEditsOf
  <1>4. Agrees
    BY DEF Agrees, AnsweredInOrder, RowsAgree, CellsAgree, NoEditsOf
  <1> QED BY <1>1, <1>2, <1>3, <1>4 DEF ConvergenceInvariant, Agreement

\* A disposed source stays disposed.
LEMMA DisposedForGood ==
  ASSUME [Next]_vars, disposed PROVE disposed'
  BY DEF Next, HostStep, LoadStep, EditStep, RowStep, ServerStep, vars,
         Refetch, Dispose, SetCell, ApplyChanges, CreateNode, AddSavedNode, RemoveNode,
         RequestPage, RequestThrows, PageIgnored, PageLoaded, PageFailed, TakePage,
         AnswerIgnored, AnswerApplied, TakeAnswer, BatchIgnored, BatchReverted,
         BatchConfirmed, TakeBatch, BatchSettlesOne,
         CreateRejected, CreateResolved, TakeCreated, RemoveSettles,
         ServerReadsPage, ServerStoresCell, ServerRefusesCell, ServerInserts,
         ServerDeletes, FormSaves, OthersChange, clientVars

\* A page that shows the server's rows while nothing is saved.
LEMMA FreshPageAgrees ==
  ASSUME TypeOK, EditInvariant', Next, NEW f \in PagesTaken, IsFresh(f)
  PROVE  Agrees'
  <1>1. PageLoaded(f)
    <2>1. f \in fetches \ fetches' /\ ~PageIsStale(f) /\ f.stage = "answered"
      BY DEF PagesTaken
    <2>2. PICK g \in fetches : PageIgnored(g) \/ PageLoaded(g) \/ PageFailed(g)
                               \/ ServerReadsPage(g)
      BY <2>1
         DEF Next, HostStep, LoadStep, EditStep, RowStep, ServerStep,
             Refetch, Dispose, SetCell, ApplyChanges, CreateNode, AddSavedNode, RemoveNode,
             RequestPage, RequestThrows,
             AnswerIgnored, AnswerApplied, TakeAnswer, BatchIgnored, BatchReverted,
             BatchConfirmed, TakeBatch, BatchSettlesOne, Confirm, Reload, Reject,
             CreateRejected, CreateResolved, TakeCreated, RemoveSettles,
             ServerStoresCell, ServerRefusesCell, ServerInserts, ServerDeletes, FormSaves, OthersChange
    <2>3. f = g
      BY <2>1, <2>2 DEF PageIgnored, PageLoaded, PageFailed, TakePage, ServerReadsPage
    <2> QED BY <2>1, <2>2, <2>3 DEF PageIgnored, PageFailed, ServerReadsPage
  <1>2. /\ nodes' = server /\ UNCHANGED <<server, patches, settling, cellTokens>>
        /\ patches = {} /\ settling = {}
    BY <1>1 DEF PageLoaded, TakePage, EventLoop, FramesClosed, IsFresh, tokenVars
  <1>3. Edits' = {}
    BY <1>2 DEF Edits
  <1>4. \A r \in Rows, c \in Cols : cellTokens'[r][c] = 0
    BY <1>3 DEF EditInvariant, LiveTokenHasItsEdit, Edits
  <1> QED
    BY <1>2, <1>3, <1>4
       DEF Agrees, AnsweredInOrder, RowsAgree, CellsAgree, CellAgrees, Present, NoEditsOf

LEMMA NextConverges ==
  ASSUME TypeOK, TypeOK', ConvergenceInvariant, [TrackedNext]_trackedVars
  PROVE  ConvergenceInvariant'
  <1>1. [Next]_vars
    BY DEF TrackedNext, trackedVars
  <1>2. EditInvariant' /\ TokensOnce' /\ RowsOnce'
    BY <1>1, NextKeepsEdits, NextIsOnce, NextRowsOnce DEF ConvergenceInvariant
  <1>3. ASSUME ~raced', ~disposed' PROVE Agrees'
    <2>1. ~disposed BY <1>1, <1>3, DisposedForGood
    <2>2. CASE UNCHANGED trackedVars
      <3>1. Agrees
        BY <1>3, <2>1, <2>2 DEF ConvergenceInvariant, Agreement, trackedVars
      <3> QED
        BY <2>2, <3>1
           DEF trackedVars, vars, viewVars, tokenVars, rowOpVars, Agrees, AnsweredInOrder,
               RowsAgree, CellsAgree, CellAgrees, IsCurrent, Present, NoEditsOf, Edits
    <2>3. CASE TrackedNext /\ PagesTaken # {}
      <3>1. PICK f \in PagesTaken : IsFresh(f)
        BY <1>3, <2>3 DEF TrackedNext
      <3> QED BY <1>2, <2>3, <3>1, FreshPageAgrees DEF TrackedNext
    <2>4. CASE TrackedNext /\ PagesTaken = {}
      <3>1. ~raced /\ ~Races
        BY <1>3, <2>4 DEF TrackedNext
      <3>2. Undisturbed
        BY <1>1, <1>3, <2>1, <2>4, <3>1 DEF Undisturbed
      <3>3. Agrees
        BY <2>1, <3>1 DEF ConvergenceInvariant, Agreement
      <3> QED
        BY <1>2, <3>2, <3>3, OrderStays, RowsStayAgreed, CellsStayAgreed
           DEF ConvergenceInvariant, Agrees
    <2> QED BY <2>2, <2>3, <2>4
  <1> QED BY <1>2, <1>3 DEF ConvergenceInvariant, Agreement

\* Unless one of the named races took place since the last page that was shown
\* undisturbed, every loaded row is stored and every cell that is not marked
\* shows what the server stores: the answers of setCell, applyCellChanges,
\* createNode and removeNode, and the records addSavedNode takes, carry no
\* version, and need none outside the named races.
THEOREM RowsConverge == TrackedSpec => []ConvergesUnlessRaced
  <1>1. TrackedSpec => Spec
    <2>1. TrackedInit => Init BY DEF TrackedInit
    <2>2. [TrackedNext]_trackedVars => [Next]_vars
      BY DEF TrackedNext, trackedVars
    <2> QED BY <2>1, <2>2, PTL DEF TrackedSpec, Spec
  <1>2. TypeOK /\ TypeOK' /\ ConvergenceInvariant /\ [TrackedNext]_trackedVars
          => ConvergenceInvariant'
    BY NextConverges
  <1>3. ConvergenceInvariant => ConvergesUnlessRaced
    BY DEF ConvergenceInvariant, Agreement, Agrees, RowsAgree, CellsAgree, CellAgrees,
           ConvergesUnlessRaced
  <1> QED BY <1>1, <1>2, <1>3, InitConverges, TypeCorrect, PTL DEF TrackedSpec

================================================================================
