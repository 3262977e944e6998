------------------------- MODULE DraftCommit_proofs -------------------------
(***************************************************************************)
(* Proofs about the drafts of one path and their inserts (DraftCommit).    *)
(*                                                                         *)
(* WaitingMeansCreating and OneCreatePerKey are not inductive: nothing in  *)
(* them says that a create on its way is remembered under its key, which   *)
(* is what keeps a second one from being started.  IInv adds this.         *)
(***************************************************************************)
EXTENDS DraftCommit, TLAPS, WellFoundedInduction

USE ContentsAssumption, DraftKeysAssumption, CommitsAssumption, NoDraftAssumption

\* A create on its way is remembered under its key, and its promise is unanswered.
CreatesAreRemembered ==
  \A c \in creates : pendingCreates[c.key] = c.promise /\ promises[c.promise] = "pending"

\* No two creates answer the same promise.
OneCreatePerPromise == \A c, d \in creates : c.promise = d.promise => c = d

IInv ==
  /\ DraftTypeOK
  /\ CreatesAreRemembered
  /\ OneCreatePerPromise
  /\ OneCreatePerKey
  /\ WaitingMeansCreating

DraftMap == [DraftKeys -> Drafts \cup {NoDraft}]

\* The drafts ds become es, and only blank append rows come and go.
OnlyBlanksMove(ds, es) ==
  \A k \in DraftKeys :
    \/ es[k] = ds[k]
    \/ /\ es[k] \in {NoDraft, Editing(Blank, FALSE)}
       /\ ~Has(ds, k) \/ k \in BlankAppend(ds)

\* Whatever is shown as saving in es was saved before.
NothingStartsSaving(ds, es) ==
  \A k \in DraftKeys : (Has(es, k) /\ es[k].state = "saving") => es[k] = ds[k]

(***************************************************************************)
(* Free keys and promises.                                                 *)
(***************************************************************************)

LEMMA LeastMember ==
  ASSUME NEW S, S \subseteq Nat, S # {}
  PROVE  \E m \in S : \A n \in S : m <= n
<1>1. PICK m \in S : \A n \in S : ~(<<n, m>> \in OpToRel(<, Nat))
  BY WFMin, NatLessThanWellFounded
<1>2. \A n \in S : ~(n < m)
  BY <1>1 DEF OpToRel
<1> QED BY <1>2

LEMMA FreshPromise ==
  ASSUME DraftTypeOK, PromisesLeft
  PROVE  NewPromise \in Promises /\ promises[NewPromise] = "unborn"
<1> DEFINE unborn == {p \in Promises : promises[p] = "unborn"}
<1>1. unborn \subseteq Nat /\ unborn # {}
  BY DEF PromisesLeft, Promises
<1>2. \E p \in unborn : \A q \in unborn : p <= q
  BY <1>1, LeastMember
<1>3. \E p \in Promises : promises[p] = "unborn"
                          /\ \A q \in Promises : promises[q] = "unborn" => p <= q
  BY <1>2
<1> QED BY <1>3 DEF NewPromise

LEMMA FreshKey ==
  ASSUME NEW ds, FreeKeys(ds) # {}
  PROVE  NextKey(ds) \in DraftKeys /\ ~Has(ds, NextKey(ds))
<1>1. FreeKeys(ds) \subseteq Nat
  BY DEF FreeKeys, DraftKeys
<1>2. \E k \in FreeKeys(ds) : \A j \in FreeKeys(ds) : k <= j
  BY <1>1, LeastMember
<1>3. NextKey(ds) \in FreeKeys(ds)
  BY <1>2 DEF NextKey
<1> QED BY <1>3 DEF FreeKeys

(***************************************************************************)
(* What a notification does to the drafts.                                 *)
(***************************************************************************)

LEMMA EditingIsDraft ==
  ASSUME NEW content \in Contents \cup {Blank}, NEW child \in BOOLEAN
  PROVE  Editing(content, child) \in Drafts /\ Editing(content, child) # NoDraft
<1>1. Editing(content, child) \in Drafts
  BY DEF Editing, Drafts
<1> QED BY <1>1

LEMMA ReconciledMoves ==
  ASSUME NEW ds \in DraftMap, NEW s, NEW a
  PROVE  /\ Reconciled(ds, s, a) \in DraftMap
         /\ \A k \in DraftKeys :
              \/ Reconciled(ds, s, a)[k] = ds[k]
              \/ Reconciled(ds, s, a)[k] = NoDraft /\ k \in BlankAppend(ds)
         /\ ~MayAppend(s, a) => BlankAppend(Reconciled(ds, s, a)) = {}
<1>1. \A k \in DraftKeys :
        Reconciled(ds, s, a)[k] = IF ~MayAppend(s, a) /\ k \in BlankAppend(ds) THEN NoDraft ELSE ds[k]
  BY DEF Reconciled
<1>2. Reconciled(ds, s, a) \in DraftMap
  BY DEF Reconciled, DraftMap
<1>3. ASSUME ~MayAppend(s, a), NEW k \in BlankAppend(Reconciled(ds, s, a))
      PROVE  FALSE
  <2>1. k \in DraftKeys /\ Has(Reconciled(ds, s, a), k)
    BY <1>3 DEF BlankAppend
  <2>2. k \notin BlankAppend(ds)
    BY <1>1, <1>3, <2>1 DEF Has
  <2>3. Reconciled(ds, s, a)[k] = ds[k]
    BY <1>1, <2>1, <2>2
  <2>4. k \in BlankAppend(ds)
    BY <1>3, <2>3 DEF BlankAppend, Has
  <2> QED BY <2>2, <2>4
<1> QED BY <1>1, <1>2, <1>3

LEMMA WithBlankMoves ==
  ASSUME NEW ds \in DraftMap, NEW s, NEW a
  PROVE  /\ WithBlank(ds, s, a) \in DraftMap
         /\ \A k \in DraftKeys :
              \/ WithBlank(ds, s, a)[k] = ds[k]
              \/ WithBlank(ds, s, a)[k] = Editing(Blank, FALSE) /\ ~Has(ds, k)
         /\ ~MayAppend(s, a) => WithBlank(ds, s, a) = ds
<1>1. CASE MayAppend(s, a) /\ BlankAppend(ds) = {} /\ FreeKeys(ds) # {}
  <2>1. WithBlank(ds, s, a) = [ds EXCEPT ![NextKey(ds)] = Editing(Blank, FALSE)]
    BY <1>1 DEF WithBlank
  <2>2. NextKey(ds) \in DraftKeys /\ ~Has(ds, NextKey(ds))
    BY <1>1, FreshKey
  <2>3. Editing(Blank, FALSE) \in Drafts
    BY EditingIsDraft
  <2>4. WithBlank(ds, s, a) \in DraftMap
    BY <2>1, <2>3 DEF DraftMap
  <2>5. \A k \in DraftKeys :
              \/ WithBlank(ds, s, a)[k] = ds[k]
              \/ WithBlank(ds, s, a)[k] = Editing(Blank, FALSE) /\ ~Has(ds, k)
    BY <2>1, <2>2 DEF DraftMap
  <2> QED BY <1>1, <2>4, <2>5
<1>2. CASE ~(MayAppend(s, a) /\ BlankAppend(ds) = {} /\ FreeKeys(ds) # {})
  <2>1. WithBlank(ds, s, a) = ds
    BY <1>2 DEF WithBlank
  <2> QED BY <2>1
<1> QED BY <1>1, <1>2

LEMMA BlankMoves ==
  ASSUME NEW ds \in DraftMap, NEW s, NEW a
  PROVE  LET es == WithBlank(Reconciled(ds, s, a), s, a) IN
         /\ es \in DraftMap
         /\ OnlyBlanksMove(ds, es)
         /\ ~MayAppend(s, a) => BlankAppend(es) = {}
<1> DEFINE rs == Reconciled(ds, s, a)
           es == WithBlank(rs, s, a)
<1>1. /\ rs \in DraftMap
      /\ \A k \in DraftKeys : rs[k] = ds[k] \/ (rs[k] = NoDraft /\ k \in BlankAppend(ds))
      /\ ~MayAppend(s, a) => BlankAppend(rs) = {}
  BY ReconciledMoves
<1> HIDE DEF rs
<1>2. /\ es \in DraftMap
      /\ \A k \in DraftKeys : es[k] = rs[k] \/ (es[k] = Editing(Blank, FALSE) /\ ~Has(rs, k))
      /\ ~MayAppend(s, a) => es = rs
  BY <1>1, WithBlankMoves
<1> HIDE DEF es
<1>3. ASSUME NEW k \in DraftKeys
      PROVE  \/ es[k] = ds[k]
             \/ /\ es[k] \in {NoDraft, Editing(Blank, FALSE)}
                /\ ~Has(ds, k) \/ k \in BlankAppend(ds)
  <2>1. CASE rs[k] = ds[k]
    BY <2>1, <1>2 DEF Has
  <2>2. CASE rs[k] = NoDraft /\ k \in BlankAppend(ds)
    BY <2>2, <1>2
  <2> QED BY <1>1, <2>1, <2>2
<1>4. OnlyBlanksMove(ds, es)
  BY <1>3 DEF OnlyBlanksMove
<1>5. ~MayAppend(s, a) => BlankAppend(es) = {}
  BY <1>1, <1>2
<1> QED BY <1>2, <1>4, <1>5 DEF es, rs

LEMMA NotificationMoves ==
  ASSUME NEW ds \in DraftMap, NEW s, NEW n, NEW a
  PROVE  LET es == AfterNotification(ds, s, n, a) IN
         /\ es \in DraftMap
         /\ OnlyBlanksMove(ds, es)
         /\ (Live /\ ~MayAppend(s, a)) => BlankAppend(es) = {}
<1> DEFINE es == AfterNotification(ds, s, n, a)
<1>1. CASE disposed \/ ~registered
  <2>1. es = ds
    BY <1>1 DEF AfterNotification
  <2> QED BY <1>1, <2>1 DEF OnlyBlanksMove, Live
<1>2. CASE ~(disposed \/ ~registered) /\ s = "ready" /\ n = 0
  <2>1. es = WithBlank(Reconciled(ds, s, a), s, a)
    BY <1>2 DEF AfterNotification
  <2> QED BY <2>1, BlankMoves
<1>3. CASE ~(disposed \/ ~registered) /\ ~(s = "ready" /\ n = 0)
  <2>1. es = Reconciled(ds, s, a)
    BY <1>3 DEF AfterNotification
  <2>2. /\ es \in DraftMap
        /\ \A k \in DraftKeys : es[k] = ds[k] \/ (es[k] = NoDraft /\ k \in BlankAppend(ds))
        /\ ~MayAppend(s, a) => BlankAppend(es) = {}
    BY <2>1, ReconciledMoves
  <2> HIDE DEF es
  <2>3. OnlyBlanksMove(ds, es)
    BY <2>2 DEF OnlyBlanksMove
  <2> QED BY <2>2, <2>3 DEF es
<1> QED BY <1>1, <1>2, <1>3

LEMMA BlanksDoNotSave ==
  ASSUME NEW ds, NEW es, OnlyBlanksMove(ds, es)
  PROVE  NothingStartsSaving(ds, es)
<1> SUFFICES ASSUME NEW k \in DraftKeys, Has(es, k), es[k].state = "saving"
             PROVE  es[k] = ds[k]
  BY DEF NothingStartsSaving
<1>1. es[k] # NoDraft
  BY DEF Has
<1>2. es[k] # Editing(Blank, FALSE)
  BY DEF Editing
<1> QED BY <1>1, <1>2 DEF OnlyBlanksMove

(***************************************************************************)
(* What keeps the invariant, whichever step does it.                       *)
(***************************************************************************)

\* The creates on their way stay as they are.
LEMMA QuietStepsKeep ==
  ASSUME IInv, DraftTypeOK', creates' = creates,
         \A c \in creates : /\ pendingCreates'[c.key] = pendingCreates[c.key]
                            /\ promises'[c.promise] = promises[c.promise],
         \A p \in Promises : promises'[p] = "pending" => promises[p] = "pending",
         NothingStartsSaving(drafts, drafts')
  PROVE  IInv'
<1>1. CreatesAreRemembered' /\ OneCreatePerPromise' /\ OneCreatePerKey'
  BY DEF IInv, CreatesAreRemembered, OneCreatePerPromise, OneCreatePerKey
<1>2. ASSUME NEW k \in DraftKeys, Has(drafts', k), drafts'[k].state = "saving"
      PROVE  \E c \in creates' : c.key = k /\ c.content = drafts'[k].content
  <2>1. drafts'[k] = drafts[k]
    BY <1>2 DEF NothingStartsSaving
  <2>2. Has(drafts, k) /\ drafts[k].state = "saving"
    BY <1>2, <2>1 DEF Has
  <2> QED BY <2>1, <2>2 DEF IInv, WaitingMeansCreating
<1>3. \A p \in Promises : promises'[p] = "pending" => \E c \in creates' : c.promise = p
  BY DEF IInv, WaitingMeansCreating
<1>4. WaitingMeansCreating'
  BY <1>2, <1>3 DEF WaitingMeansCreating
<1> QED BY <1>1, <1>4 DEF IInv

\* A create moves to another stage.
LEMMA MovedType ==
  ASSUME DraftTypeOK, NEW c \in creates, NEW stage \in {"sent", "stored", "landed", "refused"},
         Move(c, stage)
  PROVE  creates' \subseteq Creates
<1>1. c \in Creates
  BY DEF DraftTypeOK
<1>2. [c EXCEPT !.stage = stage] \in Creates
  BY <1>1 DEF Creates
<1> QED BY <1>2 DEF Move, DraftTypeOK

LEMMA MovesKeep ==
  ASSUME IInv, NEW c \in creates, NEW stage \in {"sent", "stored", "landed", "refused"},
         Move(c, stage), DraftTypeOK', UNCHANGED <<pendingCreates, promises>>,
         NothingStartsSaving(drafts, drafts')
  PROVE  IInv'
<1> DEFINE d == [c EXCEPT !.stage = stage]
<1>1. c \in Creates /\ creates \subseteq Creates
  BY DEF IInv, DraftTypeOK
<1>2. d.key = c.key /\ d.promise = c.promise /\ d.content = c.content
  BY <1>1 DEF Creates
<1>3. creates' = (creates \ {c}) \cup {d}
  BY DEF Move
<1> HIDE DEF d
\* Every create then has one of the same key, promise and content before.
<1>4. \A e \in creates' : \/ e \in creates /\ e # c
                          \/ e = d
  BY <1>3
<1>5. CreatesAreRemembered'
  <2> SUFFICES ASSUME NEW e \in creates'
               PROVE  pendingCreates'[e.key] = e.promise /\ promises'[e.promise] = "pending"
    BY DEF CreatesAreRemembered
  <2> QED BY <1>2, <1>4 DEF IInv, CreatesAreRemembered
<1>6. OneCreatePerPromise'
  <2> SUFFICES ASSUME NEW e \in creates', NEW f \in creates', e.promise = f.promise
               PROVE  e = f
    BY DEF OneCreatePerPromise
  <2> QED BY <1>2, <1>4 DEF IInv, OneCreatePerPromise
<1>7. OneCreatePerKey'
  <2> SUFFICES ASSUME NEW e \in creates', NEW f \in creates', e.key = f.key
               PROVE  e = f
    BY DEF OneCreatePerKey
  <2> QED BY <1>2, <1>4 DEF IInv, OneCreatePerKey
<1>8. \A e \in creates : \E f \in creates' :
        f.key = e.key /\ f.promise = e.promise /\ f.content = e.content
  BY <1>2, <1>3
<1>9. ASSUME NEW k \in DraftKeys, Has(drafts', k), drafts'[k].state = "saving"
      PROVE  \E f \in creates' : f.key = k /\ f.content = drafts'[k].content
  <2>1. drafts'[k] = drafts[k]
    BY <1>9 DEF NothingStartsSaving
  <2>2. Has(drafts, k) /\ drafts[k].state = "saving"
    BY <1>9, <2>1 DEF Has
  <2>3. PICK e \in creates : e.key = k /\ e.content = drafts[k].content
    BY <2>2 DEF IInv, WaitingMeansCreating
  <2> QED BY <1>8, <2>1, <2>3
<1>10. \A p \in Promises : promises'[p] = "pending" => \E f \in creates' : f.promise = p
  BY <1>8 DEF IInv, WaitingMeansCreating
<1>11. WaitingMeansCreating'
  BY <1>9, <1>10 DEF WaitingMeansCreating
<1> QED BY <1>5, <1>6, <1>7, <1>11 DEF IInv

\* A create ends: nobody waits for it any longer.
LEMMA SettledKeeps ==
  ASSUME IInv, NEW c \in creates, NEW ds \in DraftMap, NEW result \in {"resolved", "rejected"},
         Settle(c, ds, result),
         \A k \in DraftKeys : (Has(ds, k) /\ ds[k].state = "saving") =>
                             ds[k] = drafts[k] /\ k # c.key
  PROVE  IInv'
<1>1. c \in Creates /\ creates \subseteq Creates /\ creates' = creates \ {c}
  BY DEF IInv, DraftTypeOK, Settle
<1>2. c.key \in DraftKeys /\ c.promise \in Promises
  BY <1>1 DEF Creates
<1>3. promises' = [promises EXCEPT ![c.promise] = result]
  BY DEF Settle
<1>4. drafts' = IF LastOne(c) THEN [k \in DraftKeys |-> NoDraft] ELSE ds
  BY DEF Settle
<1>5. pendingCreates' = IF LastOne(c) THEN [k \in DraftKeys |-> 0]
                        ELSE [pendingCreates EXCEPT ![c.key] = 0]
  BY DEF Settle
<1>6. LastOne(c) => creates' = {}
  BY <1>1 DEF LastOne
<1>7. DraftTypeOK'
  <2>1. drafts' \in [DraftKeys -> Drafts \cup {NoDraft}]
    BY <1>4 DEF DraftMap
  <2>2. pendingCreates' \in [DraftKeys -> Promises \cup {0}]
    BY <1>5 DEF IInv, DraftTypeOK
  <2>3. promises' \in [Promises -> {"unborn", "pending", "resolved", "rejected"}]
    BY <1>3 DEF IInv, DraftTypeOK
  <2>4. creates' \subseteq Creates
    BY <1>1
  <2>5. /\ UNCHANGED <<status, rows, canAppend, registration, registered, disposed>>
        /\ call' = NoCall /\ takenAway' = {}
    BY DEF Settle, Quietly, sourceVars, levelVars
  <2> QED BY <2>1, <2>2, <2>3, <2>4, <2>5 DEF IInv, DraftTypeOK, NoCall
<1>8. \A d \in creates' : d \in creates /\ d.key # c.key /\ d.promise # c.promise
  BY <1>1 DEF IInv, OneCreatePerKey, OneCreatePerPromise
<1>9. CreatesAreRemembered'
  <2> SUFFICES ASSUME NEW d \in creates'
               PROVE  pendingCreates'[d.key] = d.promise /\ promises'[d.promise] = "pending"
    BY DEF CreatesAreRemembered
  <2>1. d.key \in DraftKeys /\ d.promise \in Promises
    BY <1>1 DEF Creates
  <2>2. pendingCreates'[d.key] = pendingCreates[d.key]
    BY <1>5, <1>6, <1>8, <2>1 DEF IInv, DraftTypeOK
  <2>3. promises'[d.promise] = promises[d.promise]
    BY <1>3, <1>8, <2>1 DEF IInv, DraftTypeOK
  <2> QED BY <1>8, <2>2, <2>3 DEF IInv, CreatesAreRemembered
<1>10. OneCreatePerPromise' /\ OneCreatePerKey'
  BY <1>1 DEF IInv, OneCreatePerPromise, OneCreatePerKey
<1>11. ASSUME NEW k \in DraftKeys, Has(drafts', k), drafts'[k].state = "saving"
       PROVE  \E d \in creates' : d.key = k /\ d.content = drafts'[k].content
  <2>1. drafts' = ds
    BY <1>4, <1>11 DEF Has
  <2>2. drafts'[k] = drafts[k] /\ k # c.key
    BY <1>11, <2>1
  <2>3. PICK d \in creates : d.key = k /\ d.content = drafts[k].content
    BY <1>11, <2>2 DEF IInv, WaitingMeansCreating, Has
  <2> QED BY <1>1, <2>2, <2>3
<1>12. ASSUME NEW p \in Promises, promises'[p] = "pending"
       PROVE  \E d \in creates' : d.promise = p
  <2>1. p # c.promise /\ promises[p] = "pending"
    BY <1>2, <1>3, <1>12 DEF IInv, DraftTypeOK
  <2>2. PICK d \in creates : d.promise = p
    BY <2>1 DEF IInv, WaitingMeansCreating
  <2> QED BY <1>1, <2>1, <2>2
<1>13. WaitingMeansCreating'
  BY <1>11, <1>12 DEF WaitingMeansCreating
<1> QED BY <1>7, <1>9, <1>10, <1>13 DEF IInv

(***************************************************************************)
(* The invariant holds at first and is kept by every step.                 *)
(***************************************************************************)

LEMMA InitInv == DraftInit => IInv
<1> SUFFICES ASSUME DraftInit PROVE IInv
  OBVIOUS
<1>1. DraftTypeOK
  <2>1. /\ drafts \in [DraftKeys -> Drafts \cup {NoDraft}]
        /\ pendingCreates \in [DraftKeys -> Promises \cup {0}]
        /\ promises \in [Promises -> {"unborn", "pending", "resolved", "rejected"}]
    BY DEF DraftInit
  <2>2. rows \in 0 .. MaxRows /\ registration \in Nat
    BY DEF DraftInit
  <2>3. /\ creates \subseteq Creates /\ status \in Status /\ canAppend \in BOOLEAN
        /\ registered \in BOOLEAN /\ disposed \in BOOLEAN /\ takenAway \subseteq DraftKeys
    BY DEF DraftInit, Status
  <2>4. call \in [key : DraftKeys \cup {0}, promise : Promises \cup {0}]
    BY DEF DraftInit, NoCall
  <2> QED BY <2>1, <2>2, <2>3, <2>4 DEF DraftTypeOK
<1>2. CreatesAreRemembered /\ OneCreatePerPromise /\ OneCreatePerKey
  BY DEF DraftInit, CreatesAreRemembered, OneCreatePerPromise, OneCreatePerKey
<1>3. WaitingMeansCreating
  BY DEF DraftInit, WaitingMeansCreating, Has
<1> QED BY <1>1, <1>2, <1>3 DEF IInv

\* Steps of the host that touch the drafts only.
LEMMA DraftsOnlyKeep ==
  ASSUME IInv, drafts' \in DraftMap, NothingStartsSaving(drafts, drafts'),
         UNCHANGED <<pendingCreates, promises, creates, status, rows, canAppend>>,
         registration' \in Nat, registered' \in BOOLEAN, disposed' \in BOOLEAN,
         call' = NoCall, takenAway' \subseteq DraftKeys
  PROVE  IInv'
<1>1. DraftTypeOK'
  BY DEF IInv, DraftTypeOK, DraftMap, NoCall
<1> QED BY <1>1, QuietStepsKeep

LEMMA AddDraftKeeps ==
  ASSUME IInv, NEW content \in Contents \cup {Blank}, NEW child \in BOOLEAN,
         AddDraft(content, child)
  PROVE  IInv'
<1>1. Editing(content, child) \in Drafts
  BY EditingIsDraft
<1>2. drafts' = [drafts EXCEPT ![NextKey(drafts)] = Editing(content, child)]
  BY DEF AddDraft
<1>3. drafts \in DraftMap
  BY DEF IInv, DraftTypeOK, DraftMap
<1>4. drafts' \in DraftMap
  BY <1>1, <1>2, <1>3 DEF DraftMap
<1>5. NothingStartsSaving(drafts, drafts')
  BY <1>2, <1>3 DEF NothingStartsSaving, DraftMap, Editing
<1>6. /\ UNCHANGED <<pendingCreates, promises, creates, status, rows, canAppend,
                      registration, registered, disposed>>
      /\ call' = NoCall /\ takenAway' = {}
  BY DEF AddDraft, Quietly, sourceVars, levelVars
<1> QED BY <1>4, <1>5, <1>6, DraftsOnlyKeep DEF IInv, DraftTypeOK

\* A draft goes: the host removes it, or the cursor leaves it untouched.
LEMMA DraftGoesKeeps ==
  ASSUME IInv, NEW k \in DraftKeys, RemoveDraft(k) \/ LeaveBlankChild(k)
  PROVE  IInv'
<1>1. drafts' = [drafts EXCEPT ![k] = NoDraft]
  BY DEF RemoveDraft, LeaveBlankChild
<1>2. drafts \in DraftMap
  BY DEF IInv, DraftTypeOK, DraftMap
<1>3. drafts' \in DraftMap
  BY <1>1, <1>2 DEF DraftMap
<1>4. NothingStartsSaving(drafts, drafts')
  BY <1>1, <1>2 DEF NothingStartsSaving, DraftMap, Has
<1>5. /\ UNCHANGED <<pendingCreates, promises, creates, status, rows, canAppend,
                      registration, registered, disposed>>
      /\ call' = NoCall /\ takenAway' \subseteq DraftKeys
  BY DEF RemoveDraft, LeaveBlankChild, Quietly, sourceVars, levelVars
<1> QED BY <1>3, <1>4, <1>5, DraftsOnlyKeep DEF IInv, DraftTypeOK

LEMMA SetDraftCellKeeps ==
  ASSUME IInv, NEW k \in DraftKeys, NEW content \in Contents \cup {Blank},
         SetDraftCell(k, content)
  PROVE  IInv'
<1>1. drafts' = [drafts EXCEPT ![k].state = "editing", ![k].content = content]
  BY DEF SetDraftCell
<1>2. drafts \in DraftMap /\ drafts[k] \in Drafts
  BY DEF IInv, DraftTypeOK, DraftMap, SetDraftCell, Has
<1>3. /\ drafts'[k] = [drafts[k] EXCEPT !.state = "editing", !.content = content]
      /\ \A j \in DraftKeys \ {k} : drafts'[j] = drafts[j]
      /\ drafts' = [drafts EXCEPT ![k] = drafts'[k]]
  BY <1>1, <1>2 DEF DraftMap
<1>4. drafts'[k] \in Drafts /\ drafts'[k].state = "editing"
  BY <1>2, <1>3 DEF Drafts
<1>5. drafts' \in DraftMap
  BY <1>2, <1>3, <1>4 DEF DraftMap
<1>6. NothingStartsSaving(drafts, drafts')
  BY <1>3, <1>4 DEF NothingStartsSaving
<1>7. /\ UNCHANGED <<pendingCreates, promises, creates, status, rows, canAppend,
                      registration, registered, disposed>>
      /\ call' = NoCall /\ takenAway' = {}
  BY DEF SetDraftCell, Quietly, sourceVars, levelVars
<1> QED BY <1>5, <1>6, <1>7, DraftsOnlyKeep DEF IInv, DraftTypeOK

LEMMA MoveToAddRowKeeps == ASSUME IInv, MoveToAddRow PROVE IInv'
<1>1. drafts \in DraftMap
  BY DEF IInv, DraftTypeOK, DraftMap
<1>2. drafts' \in DraftMap /\ OnlyBlanksMove(drafts, drafts')
  BY <1>1, BlankMoves DEF MoveToAddRow
<1>3. NothingStartsSaving(drafts, drafts')
  BY <1>2, BlanksDoNotSave
<1>4. /\ UNCHANGED <<pendingCreates, promises, creates, status, rows, canAppend,
                      registration, registered, disposed>>
      /\ call' = NoCall /\ takenAway' = {}
  BY DEF MoveToAddRow, Quietly, sourceVars, levelVars
<1> QED BY <1>2, <1>3, <1>4, DraftsOnlyKeep DEF IInv, DraftTypeOK

\* The level goes, or comes back empty.
LEMMA RegistrationKeeps == ASSUME IInv, Unregister \/ Register PROVE IInv'
<1>1. CASE Unregister
  <2>1. drafts' = [k \in DraftKeys |-> NoDraft]
    BY <1>1 DEF Unregister
  <2>2. drafts' \in DraftMap /\ NothingStartsSaving(drafts, drafts')
    BY <2>1 DEF DraftMap, NothingStartsSaving, Has
  <2>3. /\ UNCHANGED <<pendingCreates, promises, creates, status, rows, canAppend,
                        registration, disposed>>
        /\ registered' = FALSE /\ call' = NoCall /\ takenAway' = {}
    BY <1>1 DEF Unregister, Quietly, sourceVars
  <2> QED BY <2>2, <2>3, DraftsOnlyKeep DEF IInv, DraftTypeOK
<1>2. CASE Register
  <2>1. /\ UNCHANGED <<drafts, pendingCreates, promises, creates, disposed>>
        /\ registered' = TRUE /\ registration' = registration + 1
        /\ status' = "initialLoading" /\ rows' = 0 /\ canAppend' = FALSE
        /\ call' = NoCall /\ takenAway' = {}
    BY <1>2 DEF Register, Quietly
  <2>2. DraftTypeOK'
    <3>1. rows' \in 0 .. MaxRows /\ registration' \in Nat
      BY <2>1 DEF IInv, DraftTypeOK
    <3>2. status' \in Status
      BY <2>1 DEF Status
    <3>3. call' \in [key : DraftKeys \cup {0}, promise : Promises \cup {0}]
      BY <2>1 DEF NoCall
    <3> QED BY <2>1, <3>1, <3>2, <3>3 DEF IInv, DraftTypeOK
  <2>3. NothingStartsSaving(drafts, drafts')
    BY <2>1 DEF NothingStartsSaving
  <2> QED BY <2>1, <2>2, <2>3, QuietStepsKeep
<1> QED BY <1>1, <1>2

LEMMA DisposeKeeps == ASSUME IInv, Dispose PROVE IInv'
<1>1. /\ UNCHANGED <<promises, creates, status, rows, canAppend, registration, registered>>
      /\ disposed' = TRUE /\ call' = NoCall /\ takenAway' = {}
  BY DEF Dispose, Quietly, sourceVars
<1>2. \/ UNCHANGED <<drafts, pendingCreates>>
      \/ /\ creates = {}
         /\ drafts' = [k \in DraftKeys |-> NoDraft]
         /\ pendingCreates' = [k \in DraftKeys |-> 0]
  BY DEF Dispose
<1>3. DraftTypeOK'
  BY <1>1, <1>2 DEF IInv, DraftTypeOK, NoCall
<1>4. NothingStartsSaving(drafts, drafts')
  BY <1>2 DEF NothingStartsSaving, Has
<1>5. \A c \in creates : pendingCreates'[c.key] = pendingCreates[c.key]
  BY <1>2
<1> QED BY <1>1, <1>3, <1>4, <1>5, QuietStepsKeep

(***************************************************************************)
(* A commit.                                                               *)
(***************************************************************************)

\* Committed without an insert: refused, shared or thrown.
LEMMA IdleCommitKeeps ==
  ASSUME IInv, NEW k \in DraftKeys, CommitRefused(k) \/ CommitShared(k) \/ CommitThrows(k)
  PROVE  IInv'
<1>1. /\ UNCHANGED <<drafts, creates, status, rows, canAppend, registration, registered, disposed>>
      /\ takenAway' = {}
  BY DEF CommitRefused, CommitShared, CommitThrows, Called, sourceVars, levelVars
<1>2. NothingStartsSaving(drafts, drafts')
  BY <1>1 DEF NothingStartsSaving
<1>3. CASE CommitShared(k)
  <2>1. UNCHANGED <<pendingCreates, promises>> /\ call' = [key |-> k, promise |-> pendingCreates[k]]
    BY <1>3 DEF CommitShared, Called
  <2>2. DraftTypeOK'
    BY <1>1, <2>1 DEF IInv, DraftTypeOK
  <2> QED BY <1>1, <1>2, <2>1, <2>2, QuietStepsKeep
<1>4. CASE CommitRefused(k) \/ CommitThrows(k)
  <2> DEFINE p == NewPromise
  <2>1. p \in Promises /\ promises[p] = "unborn"
    BY <1>4, FreshPromise DEF IInv, CommitRefused, CommitThrows
  <2> HIDE DEF p
  <2>2. /\ promises' = [promises EXCEPT ![p] = "rejected"]
        /\ call' = [key |-> k, promise |-> p]
        /\ \/ pendingCreates' = pendingCreates
           \/ /\ pendingCreates[k] = 0
              /\ pendingCreates' = [pendingCreates EXCEPT ![k] = p]
    BY <1>4 DEF CommitRefused, CommitThrows, Called, p
  <2>3. DraftTypeOK'
    BY <1>1, <2>1, <2>2 DEF IInv, DraftTypeOK
  <2>4. ASSUME NEW c \in creates
        PROVE  /\ pendingCreates'[c.key] = pendingCreates[c.key]
               /\ promises'[c.promise] = promises[c.promise]
    <3>1. c.key \in DraftKeys /\ c.promise \in Promises /\ c.promise # 0
      BY DEF IInv, DraftTypeOK, Creates, Promises
    <3>2. pendingCreates[c.key] = c.promise /\ promises[c.promise] = "pending"
      BY DEF IInv, CreatesAreRemembered
    <3>3. c.promise # p
      BY <2>1, <3>2
    <3> QED BY <2>2, <3>1, <3>2, <3>3 DEF IInv, DraftTypeOK
  <2>5. \A q \in Promises : promises'[q] = "pending" => promises[q] = "pending"
    BY <2>1, <2>2 DEF IInv, DraftTypeOK
  <2> QED BY <1>1, <1>2, <2>3, <2>4, <2>5, QuietStepsKeep
<1> QED BY <1>3, <1>4

LEMMA CommitStartsKeeps ==
  ASSUME IInv, NEW k \in DraftKeys, CommitStarts(k)
  PROVE  IInv'
<1> DEFINE p == NewPromise
           c == Create(k, p)
<1>1. p \in Promises /\ promises[p] = "unborn"
  BY FreshPromise DEF IInv, CommitStarts
<1> HIDE DEF p
<1>2. drafts \in DraftMap /\ drafts[k] \in Drafts /\ drafts[k].content \in Contents
  BY DEF IInv, DraftTypeOK, DraftMap, CommitStarts, Committable, Filled, Has, Drafts
<1>3. /\ c \in Creates
      /\ c.key = k /\ c.promise = p /\ c.content = drafts[k].content
  BY <1>1, <1>2 DEF Create, Creates, IInv, DraftTypeOK
<1> HIDE DEF c
<1>4. /\ drafts' = [drafts EXCEPT ![k].state = "saving"]
      /\ creates' = creates \cup {c}
      /\ promises' = [promises EXCEPT ![p] = "pending"]
      /\ pendingCreates' = [pendingCreates EXCEPT ![k] = p]
      /\ pendingCreates[k] = 0
      /\ call' = [key |-> k, promise |-> p] /\ takenAway' = {}
      /\ UNCHANGED <<status, rows, canAppend, registration, registered, disposed>>
  BY DEF CommitStarts, Called, sourceVars, levelVars, c, p
<1>5. /\ drafts'[k] = [drafts[k] EXCEPT !.state = "saving"]
      /\ \A j \in DraftKeys \ {k} : drafts'[j] = drafts[j]
      /\ drafts' = [drafts EXCEPT ![k] = drafts'[k]]
  BY <1>2, <1>4 DEF DraftMap
<1>6. drafts'[k] \in Drafts /\ drafts'[k].content = drafts[k].content
  BY <1>2, <1>5 DEF Drafts
<1>7. DraftTypeOK'
  <2>1. drafts' \in [DraftKeys -> Drafts \cup {NoDraft}]
    BY <1>2, <1>5, <1>6 DEF DraftMap
  <2>2. /\ pendingCreates' \in [DraftKeys -> Promises \cup {0}]
        /\ promises' \in [Promises -> {"unborn", "pending", "resolved", "rejected"}]
    BY <1>1, <1>4 DEF IInv, DraftTypeOK
  <2>3. creates' \subseteq Creates
    BY <1>3, <1>4 DEF IInv, DraftTypeOK
  <2> QED BY <1>1, <1>4, <2>1, <2>2, <2>3 DEF IInv, DraftTypeOK
\* No create of this key or promise was on its way.
<1>8. ASSUME NEW d \in creates
      PROVE  /\ d.key \in DraftKeys /\ d.promise \in Promises
             /\ d.key # k /\ d.promise # p
  <2>1. d.key \in DraftKeys /\ d.promise \in Promises /\ d.promise # 0
    BY DEF IInv, DraftTypeOK, Creates, Promises
  <2>2. pendingCreates[d.key] = d.promise /\ promises[d.promise] = "pending"
    BY DEF IInv, CreatesAreRemembered
  <2> QED BY <1>1, <1>4, <2>1, <2>2
<1>9. CreatesAreRemembered'
  <2> SUFFICES ASSUME NEW d \in creates'
               PROVE  pendingCreates'[d.key] = d.promise /\ promises'[d.promise] = "pending"
    BY DEF CreatesAreRemembered
  <2>1. CASE d = c
    BY <1>1, <1>3, <1>4, <2>1 DEF IInv, DraftTypeOK
  <2>2. CASE d \in creates
    BY <1>4, <1>8, <2>2 DEF IInv, DraftTypeOK, CreatesAreRemembered
  <2> QED BY <1>4, <2>1, <2>2
<1>10. OneCreatePerPromise' /\ OneCreatePerKey'
  BY <1>3, <1>4, <1>8 DEF IInv, OneCreatePerPromise, OneCreatePerKey
<1>11. ASSUME NEW j \in DraftKeys, Has(drafts', j), drafts'[j].state = "saving"
       PROVE  \E d \in creates' : d.key = j /\ d.content = drafts'[j].content
  <2>1. CASE j = k
    BY <1>3, <1>4, <1>6, <2>1
  <2>2. CASE j # k
    <3>1. drafts'[j] = drafts[j]
      BY <1>5, <2>2
    <3>2. Has(drafts, j) /\ drafts[j].state = "saving"
      BY <1>11, <3>1 DEF Has
    <3>3. PICK d \in creates : d.key = j /\ d.content = drafts[j].content
      BY <3>2 DEF IInv, WaitingMeansCreating
    <3> QED BY <1>4, <3>1, <3>3
  <2> QED BY <2>1, <2>2
<1>12. ASSUME NEW q \in Promises, promises'[q] = "pending"
       PROVE  \E d \in creates' : d.promise = q
  <2>1. CASE q = p
    BY <1>3, <1>4, <2>1
  <2>2. CASE q # p
    <3>1. promises[q] = "pending"
      BY <1>4, <1>12, <2>2 DEF IInv, DraftTypeOK
    <3> QED BY <1>4, <3>1 DEF IInv, WaitingMeansCreating
  <2> QED BY <2>1, <2>2
<1>13. WaitingMeansCreating'
  BY <1>11, <1>12 DEF WaitingMeansCreating
<1> QED BY <1>7, <1>9, <1>10, <1>13 DEF IInv

LEMMA CommitKeeps == ASSUME IInv, NEW k \in DraftKeys, Commit(k) PROVE IInv'
BY IdleCommitKeeps, CommitStartsKeeps DEF Commit

(***************************************************************************)
(* A create on its way, and the source around the drafts.                  *)
(***************************************************************************)

LEMMA ServerAnswersKeeps ==
  ASSUME IInv, NEW c \in creates, ServerAnswers(c)
  PROVE  IInv'
<1>1. PICK stage \in {"stored", "refused"} : Move(c, stage)
  BY DEF ServerAnswers
<1>2. /\ UNCHANGED <<drafts, pendingCreates, promises, status, rows, canAppend,
                      registration, registered, disposed>>
      /\ call' = NoCall /\ takenAway' = {}
  BY DEF ServerAnswers, Quietly, sourceVars, levelVars
<1>3. creates' \subseteq Creates
  BY <1>1, MovedType DEF IInv
<1>4. DraftTypeOK'
  BY <1>2, <1>3 DEF IInv, DraftTypeOK, NoCall
<1>5. NothingStartsSaving(drafts, drafts')
  BY <1>2 DEF NothingStartsSaving
<1> QED BY <1>1, <1>2, <1>4, <1>5, MovesKeep

LEMMA RowLandsKeeps ==
  ASSUME IInv, NEW c \in creates, RowLands(c)
  PROVE  IInv'
<1>1. Move(c, "landed") /\ creates' \subseteq Creates
  BY MovedType DEF IInv, RowLands
<1>2. /\ UNCHANGED <<pendingCreates, promises, registration, registered, disposed>>
      /\ call' = NoCall /\ takenAway' = {}
  BY DEF RowLands, Quietly, levelVars
<1>3. drafts \in DraftMap
  BY DEF IInv, DraftTypeOK, DraftMap
<1>4. drafts' \in DraftMap /\ OnlyBlanksMove(drafts, drafts')
  <2>1. \/ drafts' = drafts
        \/ drafts' = AfterNotification(drafts, status', rows', canAppend')
    BY DEF RowLands
  <2>2. CASE drafts' = drafts
    BY <1>3, <2>2 DEF OnlyBlanksMove
  <2>3. CASE drafts' = AfterNotification(drafts, status', rows', canAppend')
    BY <1>3, <2>3, NotificationMoves
  <2> QED BY <2>1, <2>2, <2>3
<1>5. rows' \in 0 .. MaxRows /\ status' \in Status /\ canAppend' \in BOOLEAN
  <2>1. CASE registered /\ c.of = registration
    <3>1. rows' = IF rows < MaxRows THEN rows + 1 ELSE rows
      BY <2>1 DEF RowLands
    <3>2. status' = IF status \in {"refreshing", "refreshError"} THEN status ELSE "ready"
      BY <2>1 DEF RowLands
    <3>3. rows \in 0 .. MaxRows /\ status \in Status
      BY DEF IInv, DraftTypeOK
    <3>4. rows' \in 0 .. MaxRows
      BY <3>1, <3>3
    <3>5. canAppend' \in BOOLEAN
      BY <2>1 DEF RowLands
    <3> QED BY <3>2, <3>3, <3>4, <3>5 DEF Status
  <2>2. CASE ~(registered /\ c.of = registration)
    BY <2>2 DEF RowLands, sourceVars, IInv, DraftTypeOK
  <2> QED BY <2>1, <2>2
<1>6. DraftTypeOK'
  BY <1>1, <1>2, <1>4, <1>5 DEF IInv, DraftTypeOK, DraftMap, NoCall
<1>7. NothingStartsSaving(drafts, drafts')
  BY <1>4, BlanksDoNotSave
<1> QED BY <1>1, <1>2, <1>6, <1>7, MovesKeep

LEMMA RowIsAlreadyThereKeeps ==
  ASSUME IInv, NEW c \in creates, RowIsAlreadyThere(c)
  PROVE  IInv'
<1>1. Move(c, "refused") /\ creates' \subseteq Creates
  BY MovedType DEF IInv, RowIsAlreadyThere
<1>2. /\ UNCHANGED <<drafts, pendingCreates, promises, status, rows, canAppend,
                      registration, registered, disposed>>
      /\ call' = NoCall /\ takenAway' = {}
  BY DEF RowIsAlreadyThere, Quietly, sourceVars, levelVars
<1>3. DraftTypeOK'
  BY <1>1, <1>2 DEF IInv, DraftTypeOK, NoCall
<1>4. NothingStartsSaving(drafts, drafts')
  BY <1>2 DEF NothingStartsSaving
<1> QED BY <1>1, <1>2, <1>3, <1>4, MovesKeep

LEMMA CommitSucceedsKeeps ==
  ASSUME IInv, NEW c \in creates, CommitSucceeds(c)
  PROVE  IInv'
<1> DEFINE ds == [drafts EXCEPT ![c.key] = NoDraft]
<1>1. drafts \in DraftMap
  BY DEF IInv, DraftTypeOK, DraftMap
<1>2. ds \in DraftMap
  BY <1>1 DEF DraftMap
<1>3. \A k \in DraftKeys : (Has(ds, k) /\ ds[k].state = "saving") =>
                           ds[k] = drafts[k] /\ k # c.key
  BY <1>1 DEF DraftMap, Has
<1>4. Settle(c, ds, "resolved")
  BY DEF CommitSucceeds
<1> HIDE DEF ds
<1> QED BY <1>2, <1>3, <1>4, SettledKeeps

LEMMA CommitFailsKeeps ==
  ASSUME IInv, NEW c \in creates, CommitFails(c)
  PROVE  IInv'
<1> DEFINE ds == IF Has(drafts, c.key) THEN [drafts EXCEPT ![c.key].state = "failed"]
                 ELSE drafts
<1>1. drafts \in DraftMap /\ c.key \in DraftKeys
  BY DEF IInv, DraftTypeOK, DraftMap, Creates
<1>2. Settle(c, ds, "rejected")
  BY DEF CommitFails
<1>3. CASE Has(drafts, c.key)
  <2>1. ds = [drafts EXCEPT ![c.key].state = "failed"]
    BY <1>3
  <2>2. drafts[c.key] \in Drafts
    BY <1>1, <1>3 DEF DraftMap, Has
  <2>3. /\ ds[c.key] = [drafts[c.key] EXCEPT !.state = "failed"]
        /\ \A j \in DraftKeys \ {c.key} : ds[j] = drafts[j]
        /\ ds = [drafts EXCEPT ![c.key] = ds[c.key]]
    BY <1>1, <2>1 DEF DraftMap
  <2> HIDE DEF ds
  <2>4. ds[c.key] \in Drafts /\ ds[c.key].state = "failed"
    BY <2>2, <2>3 DEF Drafts
  <2>5. ds \in DraftMap
    BY <1>1, <2>3, <2>4 DEF DraftMap
  <2>6. \A k \in DraftKeys : (Has(ds, k) /\ ds[k].state = "saving") =>
                             ds[k] = drafts[k] /\ k # c.key
    BY <2>3, <2>4
  <2> QED BY <1>2, <2>5, <2>6, SettledKeeps
<1>4. CASE ~Has(drafts, c.key)
  <2>1. ds = drafts
    BY <1>4
  <2> HIDE DEF ds
  <2> QED BY <1>1, <1>2, <1>4, <2>1, SettledKeeps
<1> QED BY <1>3, <1>4

LEMMA SourceStepKeeps == ASSUME IInv, SourceStep PROVE IInv'
<1>1. PICK s \in Status, n \in 0 .. MaxRows, a \in BOOLEAN : SourceBecomes(s, n, a)
  BY DEF SourceStep, RowsLoad, RowsReady, RowsFail, IInv, DraftTypeOK, Status
<1>2. /\ status' = s /\ rows' = n /\ canAppend' = a
      /\ drafts' = AfterNotification(drafts, s, n, a)
      /\ UNCHANGED <<pendingCreates, promises, creates, registration, registered, disposed>>
      /\ call' = NoCall /\ takenAway' = {}
  BY <1>1 DEF SourceBecomes, Quietly, levelVars
<1>3. drafts \in DraftMap
  BY DEF IInv, DraftTypeOK, DraftMap
<1>4. drafts' \in DraftMap /\ OnlyBlanksMove(drafts, drafts')
  BY <1>2, <1>3, NotificationMoves
<1>5. DraftTypeOK'
  BY <1>2, <1>4 DEF IInv, DraftTypeOK, DraftMap, NoCall
<1>6. NothingStartsSaving(drafts, drafts')
  BY <1>4, BlanksDoNotSave
<1> QED BY <1>2, <1>5, <1>6, QuietStepsKeep

LEMMA NextInv == ASSUME IInv, DraftNext PROVE IInv'
<1>1. CASE \E content \in Contents \cup {Blank}, child \in BOOLEAN : AddDraft(content, child)
  BY <1>1, AddDraftKeeps
<1>2. CASE \E k \in DraftKeys, content \in Contents \cup {Blank} : SetDraftCell(k, content)
  BY <1>2, SetDraftCellKeeps
<1>3. CASE \E k \in DraftKeys : RemoveDraft(k) \/ LeaveBlankChild(k)
  BY <1>3, DraftGoesKeeps
<1>4. CASE \E k \in DraftKeys : Commit(k) \/ LeaveFilled(k)
  BY <1>4, CommitKeeps DEF LeaveFilled
<1>5. CASE MoveToAddRow \/ Unregister \/ Register \/ Dispose
  BY <1>5, MoveToAddRowKeeps, RegistrationKeeps, DisposeKeeps
<1>6. CASE CreateStep
  BY <1>6, ServerAnswersKeeps, RowLandsKeeps, RowIsAlreadyThereKeeps,
     CommitSucceedsKeeps, CommitFailsKeeps DEF CreateStep
<1>7. CASE SourceStep
  BY <1>7, SourceStepKeeps
<1> QED BY <1>1, <1>2, <1>3, <1>4, <1>5, <1>6, <1>7 DEF DraftNext, HostStep

LEMMA StutterInv == ASSUME IInv, UNCHANGED draftVars PROVE IInv'
<1>1. UNCHANGED <<drafts, pendingCreates, promises, creates, status, rows, canAppend,
                  registration, registered, disposed, call, takenAway>>
  BY DEF draftVars, sourceVars, levelVars, draftHistory
<1>2. DraftTypeOK'
  BY <1>1 DEF IInv, DraftTypeOK
<1> QED BY <1>1, <1>2, QuietStepsKeep DEF NothingStartsSaving

LEMMA Invariant == DraftSpec => []IInv
<1>1. IInv /\ [DraftNext]_draftVars => IInv'
  BY NextInv, StutterInv
<1> QED BY InitInv, <1>1, PTL DEF DraftSpec

\* Every reachable state of the drafts is well typed.
THEOREM TypeCorrect == DraftSpec => []DraftTypeOK
<1>1. IInv => DraftTypeOK
  BY DEF IInv
<1> QED BY <1>1, Invariant, PTL

\* Nobody waits for an insert that is not on its way: neither a locked draft nor the
\* caller of commit (drafts.ts).
THEOREM NobodyWaitsInVain == DraftSpec => []WaitingMeansCreating
<1>1. IInv => WaitingMeansCreating
  BY DEF IInv
<1> QED BY <1>1, Invariant, PTL

\* A draft is never inserted twice at a time (pendingCreates of drafts.ts).
THEOREM NoDoubleInsert == DraftSpec => []OneCreatePerKey
<1>1. IInv => OneCreatePerKey
  BY DEF IInv
<1> QED BY <1>1, Invariant, PTL

(***************************************************************************)
(* Steps.                                                                  *)
(***************************************************************************)

\* The key of a create is the key of a pending promise, and a commit of that key can
\* only be a shared one.
LEMMA CommitFindsCreate ==
  ASSUME IInv, NEW c \in creates, Live, NEW k \in DraftKeys, Commit(k), k = c.key
  PROVE  call'.promise = c.promise
<1>1. pendingCreates[k] = c.promise /\ c.promise # 0
  BY DEF IInv, CreatesAreRemembered, DraftTypeOK, Creates, Promises
<1>2. CommitShared(k)
  BY <1>1 DEF Commit, CommitRefused, CommitThrows, CommitStarts
<1> QED BY <1>1, <1>2 DEF CommitShared, Called

\* All commits of a draft in one turn observe one operation (drafts.ts).
THEOREM CommitsObserveOneOperation == DraftSpec => CommitsShareTheOperation
<1>1. ASSUME IInv, [DraftNext]_draftVars
      PROVE  SharesTheOperation \/ UNCHANGED draftVars
  <2>1. CASE \E k \in DraftKeys : Commit(k)
    <3>1. PICK k \in DraftKeys : Commit(k)
      BY <2>1
    <3>2. call'.key = k
      BY <3>1 DEF Commit, CommitRefused, CommitShared, CommitThrows, CommitStarts, Called
    <3> QED BY <1>1, <3>1, <3>2, CommitFindsCreate DEF SharesTheOperation
  <2>2. CASE call' = NoCall
    <3>1. \A c \in creates : c.key # 0
      BY <1>1 DEF IInv, DraftTypeOK, Creates, DraftKeys
    <3> QED BY <2>2, <3>1 DEF SharesTheOperation, NoCall
  <2>3. \/ UNCHANGED draftVars
        \/ \E k \in DraftKeys : Commit(k)
        \/ call' = NoCall
    <3>1. HostStep => (\E k \in DraftKeys : Commit(k)) \/ call' = NoCall
      BY DEF HostStep, AddDraft, SetDraftCell, RemoveDraft, LeaveBlankChild, LeaveFilled,
             MoveToAddRow, Unregister, Register, Dispose, Quietly
    <3>2. CreateStep \/ SourceStep => call' = NoCall
      BY DEF CreateStep, ServerAnswers, RowLands, RowIsAlreadyThere, CommitSucceeds, CommitFails,
             Settle, SourceStep, RowsLoad, RowsReady, RowsFail, SourceBecomes, Quietly
    <3> QED BY <1>1, <3>1, <3>2 DEF DraftNext
  <2> QED BY <2>1, <2>2, <2>3
<1> QED BY <1>1, Invariant, PTL DEF DraftSpec, CommitsShareTheOperation

\* Notifications do not take a filled draft.
LEMMA BlanksKeepFilled ==
  ASSUME NEW ds, NEW es, OnlyBlanksMove(ds, es), NEW k \in DraftKeys, Filled(ds, k)
  PROVE  es[k] = ds[k]
BY DEF OnlyBlanksMove, Filled, BlankAppend, Has

\* Nothing but the landing of its own content, the host, or the end of its level takes
\* a filled draft away (drafts.ts, phantom-row-lifecycle.ts).
THEOREM TypedInputSurvives == DraftSpec => FilledDraftSurvives
<1>1. ASSUME IInv, [DraftNext]_draftVars
      PROVE  KeepsFilledDrafts
  <2> SUFFICES ASSUME NEW k \in DraftKeys, Filled(drafts, k), ~Has(drafts', k)
               PROVE  \/ k \in takenAway' \/ ~registered' \/ disposed'
                      \/ \E c \in creates : /\ c.key = k /\ c.stage = "landed"
                                           /\ (c.content = drafts[k].content \/ Outlived(c))
    BY DEF KeepsFilledDrafts
  <2>1. /\ drafts \in DraftMap /\ Has(drafts, k)
        /\ drafts[k] \in Drafts /\ drafts[k].content # Blank
    BY <1>1 DEF IInv, DraftTypeOK, DraftMap, Filled, Has
  <2>2. drafts'[k] # drafts[k]
    BY <2>1 DEF Has
  <2>3. ~UNCHANGED drafts
    BY <2>2
  \* The host.
  <2>4. ASSUME NEW content \in Contents \cup {Blank}, NEW child \in BOOLEAN, AddDraft(content, child)
        PROVE  FALSE
    <3>1. NextKey(drafts) # k
      BY <2>1, <2>4, FreshKey DEF AddDraft
    <3> QED BY <2>1, <2>2, <2>4, <3>1 DEF AddDraft, DraftMap
  <2>5. ASSUME NEW j \in DraftKeys, NEW content \in Contents \cup {Blank}, SetDraftCell(j, content)
        PROVE  FALSE
    <3>1. drafts' = [drafts EXCEPT ![j].state = "editing", ![j].content = content]
      BY <2>5 DEF SetDraftCell
    <3>2. j = k
      BY <2>1, <2>2, <3>1 DEF DraftMap
    <3>3. drafts'[k] = [drafts[k] EXCEPT !.state = "editing", !.content = content]
      BY <2>1, <3>1, <3>2 DEF DraftMap
    <3>4. drafts'[k] \in Drafts
      BY <2>1, <2>5, <3>3 DEF Drafts
    <3> QED BY <3>4 DEF Has
  <2>6. ASSUME NEW j \in DraftKeys, RemoveDraft(j)
        PROVE  k \in takenAway'
    <3>1. j = k
      BY <2>1, <2>2, <2>6 DEF RemoveDraft, DraftMap
    <3> QED BY <2>6, <3>1 DEF RemoveDraft
  <2>7. ASSUME NEW j \in DraftKeys, LeaveBlankChild(j)
        PROVE  FALSE
    <3>1. j # k
      BY <2>1, <2>7 DEF LeaveBlankChild, Editing
    <3> QED BY <2>1, <2>2, <2>7, <3>1 DEF LeaveBlankChild, DraftMap
  <2>8. ASSUME NEW j \in DraftKeys, Commit(j)
        PROVE  FALSE
    <3>1. CommitStarts(j)
      BY <2>3, <2>8 DEF Commit, CommitRefused, CommitShared, CommitThrows
    <3>2. drafts' = [drafts EXCEPT ![j].state = "saving"]
      BY <3>1 DEF CommitStarts
    <3>3. drafts'[k] = [drafts[k] EXCEPT !.state = "saving"]
      BY <2>1, <2>2, <3>2 DEF DraftMap
    <3>4. drafts'[k] \in Drafts
      BY <2>1, <3>3 DEF Drafts
    <3> QED BY <3>4 DEF Has
  <2>9. ASSUME MoveToAddRow
        PROVE  FALSE
    <3>1. OnlyBlanksMove(drafts, drafts')
      BY <2>1, <2>9, BlankMoves DEF MoveToAddRow
    <3> QED BY <2>2, <3>1, BlanksKeepFilled
  <2>10. ASSUME Unregister \/ Register \/ Dispose
         PROVE  ~registered' \/ disposed'
    BY <2>3, <2>10 DEF Unregister, Register, Dispose
  <2>11. HostStep => k \in takenAway' \/ ~registered' \/ disposed'
    BY <2>4, <2>5, <2>6, <2>7, <2>8, <2>9, <2>10 DEF HostStep, LeaveFilled
  \* A create.
  <2>12. ASSUME NEW c \in creates, RowLands(c)
         PROVE  FALSE
    <3>1. drafts' = AfterNotification(drafts, status', rows', canAppend')
      BY <2>3, <2>12 DEF RowLands
    <3>2. OnlyBlanksMove(drafts, drafts')
      BY <2>1, <3>1, NotificationMoves
    <3> QED BY <2>2, <3>2, BlanksKeepFilled
  <2>13. ASSUME NEW c \in creates, CommitSucceeds(c)
         PROVE  \/ disposed'
                \/ /\ c.key = k /\ c.stage = "landed"
                   /\ (c.content = drafts[k].content \/ Outlived(c))
    <3>1. CASE LastOne(c)
      BY <2>13, <3>1 DEF CommitSucceeds, Settle, LastOne, levelVars
    <3>2. CASE ~LastOne(c)
      <4>1. drafts' = [drafts EXCEPT ![c.key] = NoDraft]
        BY <2>13, <3>2 DEF CommitSucceeds, Settle
      <4>2. c.key = k /\ c.stage = "landed"
        BY <2>1, <2>2, <2>13, <4>1 DEF CommitSucceeds, DraftMap
      <4>3. CASE drafts[k].state = "saving"
        <5>1. PICK d \in creates : d.key = k /\ d.content = drafts[k].content
          BY <1>1, <2>1, <4>3 DEF IInv, WaitingMeansCreating
        <5>2. d = c
          BY <1>1, <4>2, <5>1 DEF IInv, OneCreatePerKey
        <5> QED BY <4>2, <5>1, <5>2
      <4>4. CASE drafts[k].state # "saving"
        BY <2>1, <4>2, <4>4 DEF Outlived
      <4> QED BY <4>3, <4>4
    <3> QED BY <3>1, <3>2
  <2>14. ASSUME NEW c \in creates, CommitFails(c)
         PROVE  disposed'
    <3>1. CASE LastOne(c)
      BY <2>14, <3>1 DEF CommitFails, Settle, LastOne, levelVars
    <3>2. CASE ~LastOne(c)
      <4>1. drafts' = IF Has(drafts, c.key) THEN [drafts EXCEPT ![c.key].state = "failed"]
                      ELSE drafts
        BY <2>14, <3>2 DEF CommitFails, Settle
      <4>2. drafts' = [drafts EXCEPT ![c.key].state = "failed"]
        BY <2>3, <4>1
      <4>3. drafts'[k] = [drafts[k] EXCEPT !.state = "failed"]
        BY <2>1, <2>2, <4>2 DEF DraftMap
      <4>4. drafts'[k] \in Drafts
        BY <2>1, <4>3 DEF Drafts
      <4> QED BY <4>4 DEF Has
    <3> QED BY <3>1, <3>2
  <2>15. ASSUME NEW c \in creates, ServerAnswers(c) \/ RowIsAlreadyThere(c)
         PROVE  FALSE
    BY <2>3, <2>15 DEF ServerAnswers, RowIsAlreadyThere
  <2>16. CASE CreateStep
    <3>1. PICK c \in creates : \/ ServerAnswers(c) \/ RowLands(c) \/ RowIsAlreadyThere(c)
                              \/ CommitSucceeds(c) \/ CommitFails(c)
      BY <2>16 DEF CreateStep
    <3>2. CASE CommitSucceeds(c)
      BY <2>13, <3>2
    <3> QED BY <2>12, <2>14, <2>15, <3>1, <3>2
  \* The source.
  <2>17. ASSUME SourceStep
         PROVE  FALSE
    <3>1. PICK s, n, a : drafts' = AfterNotification(drafts, s, n, a)
      BY <2>17 DEF SourceStep, RowsLoad, RowsReady, RowsFail, SourceBecomes
    <3>2. OnlyBlanksMove(drafts, drafts')
      BY <2>1, <3>1, NotificationMoves
    <3> QED BY <2>2, <3>2, BlanksKeepFilled
  <2>18. DraftNext
    BY <1>1, <2>3 DEF draftVars
  <2> QED BY <2>11, <2>16, <2>17, <2>18 DEF DraftNext
<1> QED BY <1>1, Invariant, PTL DEF DraftSpec, FilledDraftSurvives

\* No notification of the source leaves a blank row where none can be appended
\* (phantom-row-lifecycle.ts).
THEOREM BlankRowStaysInPlace == DraftSpec => BlankRowFollowsSource
<1>1. ASSUME IInv, [DraftNext]_draftVars
      PROVE  LeavesNoStrayBlank
  <2> SUFFICES ASSUME UNCHANGED levelVars, Live, ~UNCHANGED <<status, rows, canAppend>>,
                      ~MayAppend(status', canAppend')
               PROVE  BlankAppend(drafts') = {}
    BY DEF LeavesNoStrayBlank
  <2>1. drafts \in DraftMap
    BY <1>1 DEF IInv, DraftTypeOK, DraftMap
  <2>2. ~HostStep
    BY DEF HostStep, AddDraft, SetDraftCell, RemoveDraft, Commit, CommitRefused, CommitShared,
           CommitThrows, CommitStarts, LeaveBlankChild, LeaveFilled, MoveToAddRow, Unregister,
           Register, Dispose, sourceVars, levelVars
  <2>3. CASE SourceStep
    <3>1. drafts' = AfterNotification(drafts, status', rows', canAppend')
      BY <2>3 DEF SourceStep, RowsLoad, RowsReady, RowsFail, SourceBecomes
    <3> QED BY <2>1, <3>1, NotificationMoves
  <2>4. CASE CreateStep
    <3>1. PICK c \in creates : RowLands(c)
      BY <2>4 DEF CreateStep, ServerAnswers, RowIsAlreadyThere, CommitSucceeds, CommitFails, Settle,
                  sourceVars
    <3>2. drafts' = AfterNotification(drafts, status', rows', canAppend')
      BY <3>1 DEF RowLands, sourceVars
    <3> QED BY <2>1, <3>2, NotificationMoves
  <2>5. ~UNCHANGED draftVars
    BY DEF draftVars, sourceVars
  <2> QED BY <1>1, <2>2, <2>3, <2>4, <2>5 DEF DraftNext
<1> QED BY <1>1, Invariant, PTL DEF DraftSpec, BlankRowFollowsSource
================================================================================
