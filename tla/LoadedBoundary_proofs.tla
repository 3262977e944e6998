-------------------------- MODULE LoadedBoundary_proofs --------------------------
(***************************************************************************)
(* Proofs about LoadedBoundary: a pending landing always has its button,   *)
(* its load or its answer still to come, and once its load was asked for   *)
(* it lands on the rows of that load.                                      *)
(*                                                                         *)
(* The second needs the first (a landing that is not parked has its load   *)
(* on the way when the rows arrive) and two facts about time: a newest     *)
(* load that is out keeps the source loading, so no other notification     *)
(* can land before it, and a promise that is answered "ready" finds the    *)
(* landing done by the notification that went before it.                   *)
(***************************************************************************)
EXTENDS LoadedBoundary, TLAPS

\* A load that is out keeps the source loading.
LoadingHasLoad == load # NoLoad => rowsStatus = "loading"

\* The notification of the rows was before the answer to the promise.
ReadyIsLate ==
  \A rec \in answers : rec.result = "ready" => pending = NoLanding

IInv ==
  /\ BoundaryTypeOK
  /\ PendingLandingIsServed
  /\ LandsOnTheLoadAsked
  /\ LoadingHasLoad
  /\ ReadyIsLate

(***************************************************************************)
(* The operators the actions are built from.                               *)
(***************************************************************************)

\* The answer to a load that ends goes to the request that led to it, if any.
LEMMA ToldType ==
  ASSUME BoundaryTypeOK, NEW result \in Results
  PROVE  /\ Told(result) \subseteq [token : Tokens, result : Results]
         /\ \A rec \in Told(result) : rec.result = result
         /\ \A t \in Tokens :
              load # NoLoad /\ load.by = t => \E rec \in Told(result) : rec.token = t
<1>1. CASE load # NoLoad /\ load.by # Nobody
  <2>1. Told(result) = {[token |-> load.by, result |-> result]}
    BY <1>1 DEF Told
  <2>2. load.by \in Tokens
    BY <1>1 DEF BoundaryTypeOK, PageLoads
  <2> QED BY <2>1, <2>2
<1>2. CASE ~(load # NoLoad /\ load.by # Nobody)
  <2>1. Told(result) = {}
    BY <1>2 DEF Told
  <2> QED BY <2>1, <1>2, BoundaryAssumption
<1> QED BY <1>1, <1>2

\* The request that waits for a button is told when it is called off.
LEMMA CancelledType ==
  ASSUME BoundaryTypeOK
  PROVE  /\ Cancelled \subseteq [token : Tokens, result : Results]
         /\ \A rec \in Cancelled : rec.result = "superseded"
         /\ \A t \in Tokens :
              waiting # Nobody /\ waiting.token = t => \E rec \in Cancelled : rec.token = t
<1>1. CASE waiting # Nobody
  <2>1. Cancelled = {[token |-> waiting.token, result |-> "superseded"]}
    BY <1>1 DEF Cancelled
  <2>2. waiting.token \in Tokens /\ "superseded" \in Results
    BY <1>1 DEF BoundaryTypeOK, Results
  <2> QED BY <2>1, <2>2
<1>2. CASE waiting = Nobody
  BY <1>2 DEF Cancelled
<1> QED BY <1>1, <1>2

\* Resolve keeps its landing while rows are loading and drops it otherwise.
LEMMA ResolveKeeps ==
  ASSUME NEW p, NEW rows, Resolve(p, "loading", rows)
  PROVE  pending' = p /\ UNCHANGED <<cursor, landing>>
  BY DEF Resolve, Landable

\* Outside of loading, no landing stays pending.
LEMMA ResolveEnds ==
  ASSUME NEW p, NEW st, NEW rows, Resolve(p, st, rows), st # "loading"
  PROVE  pending' = NoLanding
  BY DEF Resolve, Landable

\* A landing made by Resolve is well typed.
LEMMA ResolveType ==
  ASSUME BoundaryTypeOK, NEW p \in Landings \cup {NoLanding}, NEW st, NEW rows \in PageLoads,
         Resolve(p, st, rows)
  PROVE  /\ pending' \in {p, NoLanding}
         /\ cursor' \in Rows
         /\ landing' \in Landed \cup {NoLanding}
<1>1. CASE p = NoLanding \/ ~Landable(st)
  BY <1>1 DEF Resolve, BoundaryTypeOK
<1>2. CASE ~(p = NoLanding \/ ~Landable(st)) /\ st = "error"
  BY <1>2 DEF Resolve, BoundaryTypeOK
<1>3. CASE ~(p = NoLanding \/ ~Landable(st)) /\ st # "error"
  <2>1. p.token \in Tokens /\ rows.page \in PageNumbers /\ rows.by \in Tokens \cup {Nobody}
    BY <1>3 DEF Landings, PageLoads
  <2>2. Edge(p.event.direction) \in {"first", "last", "nested"}
    BY DEF Edge
  <2> DEFINE parked == waiting' # Nobody /\ waiting'.token = p.token
  <2>3. parked \in BOOLEAN
    OBVIOUS
  <2>4. /\ pending' = NoLanding
        /\ cursor' = [page |-> rows.page, edge |-> Edge(p.event.direction)]
        /\ landing' = [token |-> p.token, rowsOf |-> rows.by, parked |-> parked]
    BY <1>3 DEF Resolve
  <2> HIDE DEF parked
  <2> QED BY <2>1, <2>2, <2>3, <2>4 DEF Rows, Landed
<1> QED BY <1>1, <1>2, <1>3

(***************************************************************************)
(* Every step preserves the invariant.                                     *)
(***************************************************************************)

LEMMA InitInv == ASSUME BoundaryInit PROVE IInv
<1>1. BoundaryTypeOK
  <2>1. page \in PageNumbers /\ Nobody \in Tokens \cup {Nobody}
    BY BoundaryAssumption DEF BoundaryInit, PageNumbers
  <2>2. shown \in PageLoads /\ cursor \in Rows
    BY <2>1 DEF BoundaryInit, PageLoads, Rows
  <2>3. token \in 0..MaxRequests
    BY BoundaryAssumption DEF BoundaryInit
  <2> QED BY <2>1, <2>2, <2>3 DEF BoundaryInit, BoundaryTypeOK
<1>2. PendingLandingIsServed /\ LandsOnTheLoadAsked /\ LoadingHasLoad /\ ReadyIsLate
  BY DEF BoundaryInit, PendingLandingIsServed, LandsOnTheLoadAsked, LoadingHasLoad, ReadyIsLate
<1> QED BY <1>1, <1>2 DEF IInv

\* A new load: what is pending stays, and the load it replaces is answered.
LEMMA StartLoadInv ==
  ASSUME IInv, Quiet, NEW p \in PageNumbers, NEW by \in Tokens \cup {Nobody},
         NEW told, told \subseteq [token : Tokens, result : Results],
         \A rec \in told : rec.result # "ready",
         StartPageLoad(p, by), answers' = told \cup Told("superseded"),
         shown' = shown, token' = token, left' = left,
         waiting' \in {waiting, Nobody}, focus' \in Directions \cup {"grid"},
         pending # NoLanding =>
           \/ waiting' # Nobody /\ waiting'.token = pending.token
           \/ by = pending.token
           \/ load # NoLoad /\ load.by = pending.token
           \/ \E rec \in told : rec.token = pending.token
  PROVE  IInv'
<1>1. BoundaryTypeOK /\ "superseded" \in Results
  BY DEF IInv, Results
<1>2. pending' = pending /\ cursor' = cursor /\ landing' = landing
  BY ResolveKeeps DEF StartPageLoad
<1>3. page' = p /\ load' = [page |-> p, by |-> by] /\ rowsStatus' = "loading"
  BY DEF StartPageLoad
<1>4. load' \in PageLoads
  BY <1>3 DEF PageLoads
<1>5. answers' \subseteq [token : Tokens, result : Results]
      /\ \A rec \in answers' : rec.result # "ready"
  BY <1>1, ToldType
<1>6. BoundaryTypeOK'
  BY <1>1, <1>2, <1>3, <1>4, <1>5 DEF BoundaryTypeOK
<1>7. PendingLandingIsServed'
  <2> SUFFICES ASSUME pending # NoLanding
               PROVE  PendingLandingIsServed'
    BY <1>2 DEF PendingLandingIsServed
  <2>1. pending.token \in Tokens
    BY <1>1 DEF BoundaryTypeOK, Landings
  <2>2. CASE waiting' # Nobody /\ waiting'.token = pending.token
    BY <2>2, <1>2 DEF PendingLandingIsServed
  <2>3. CASE by = pending.token
    <3>1. load'.by = pending.token
      BY <2>3, <1>3
    <3>2. load' # NoLoad
      BY <1>4, BoundaryAssumption
    <3> QED BY <3>1, <3>2, <1>2 DEF PendingLandingIsServed
  <2>4. CASE load # NoLoad /\ load.by = pending.token
    <3>1. \E rec \in Told("superseded") : rec.token = pending.token
      BY <2>4, <2>1, <1>1, ToldType
    <3> QED BY <3>1, <1>2 DEF PendingLandingIsServed
  <2>5. CASE \E rec \in told : rec.token = pending.token
    BY <2>5, <1>2 DEF PendingLandingIsServed
  <2> QED BY <2>2, <2>3, <2>4, <2>5
<1>8. LandsOnTheLoadAsked'
  BY <1>2 DEF IInv, LandsOnTheLoadAsked
<1>9. LoadingHasLoad' /\ ReadyIsLate'
  BY <1>3, <1>5 DEF LoadingHasLoad, ReadyIsLate
<1> QED BY <1>6, <1>7, <1>8, <1>9 DEF IInv

LEMMA ContinueInv == ASSUME IInv, Continue PROVE IInv'
<1>1. BoundaryTypeOK /\ PendingLandingIsServed /\ answers = {}
  BY DEF IInv, Continue, Quiet
<1> DEFINE none == {}
        p == IF focus = "after" THEN page + 1 ELSE page - 1
<1>2. p \in PageNumbers
  BY <1>1, BoundaryAssumption DEF Continue, Available, BoundaryTypeOK, Directions, PageNumbers
<1>3. waiting.token \in Tokens
  BY <1>1 DEF Continue, BoundaryTypeOK
<1>4. StartPageLoad(p, waiting.token) /\ answers' = none \cup Told("superseded")
  BY DEF Continue
<1>5. pending # NoLanding =>
        waiting.token = pending.token \/ (load # NoLoad /\ load.by = pending.token)
  BY <1>1 DEF PendingLandingIsServed
<1>6. /\ waiting' = Nobody /\ shown' = shown /\ token' = token
      /\ left' = left /\ focus' \in Directions \cup {"grid"}
  BY <1>1 DEF Continue, BoundaryTypeOK
<1>7. /\ none \subseteq [token : Tokens, result : Results]
      /\ \A rec \in none : rec.result # "ready"
  OBVIOUS
<1>8. Quiet
  BY DEF Continue
<1>9. pending # NoLanding =>
        \/ waiting' # Nobody /\ waiting'.token = pending.token
        \/ waiting.token = pending.token
        \/ load # NoLoad /\ load.by = pending.token
        \/ \E rec \in none : rec.token = pending.token
  BY <1>5
<1> HIDE DEF p, none
<1> QED BY <1>2, <1>3, <1>4, <1>6, <1>7, <1>8, <1>9, StartLoadInv

LEMMA TurnPageInv ==
  ASSUME IInv, NEW p \in PageNumbers, TurnPage(p) PROVE IInv'
<1>1. BoundaryTypeOK /\ PendingLandingIsServed /\ answers = {}
  BY DEF IInv, TurnPage, Quiet
<1>2. /\ Cancelled \subseteq [token : Tokens, result : Results]
      /\ \A rec \in Cancelled : rec.result # "ready"
  BY <1>1, CancelledType
<1>3. pending # NoLanding =>
        \/ load # NoLoad /\ load.by = pending.token
        \/ \E rec \in Cancelled : rec.token = pending.token
  <2>1. pending # NoLanding => pending.token \in Tokens
    BY <1>1 DEF BoundaryTypeOK, Landings
  <2>2. CASE pending # NoLanding /\ waiting # Nobody /\ waiting.token = pending.token
    BY <1>1, <2>1, <2>2, CancelledType
  <2> QED BY <1>1, <2>2 DEF PendingLandingIsServed
<1>4. /\ Quiet /\ StartPageLoad(p, Nobody) /\ answers' = Cancelled \cup Told("superseded")
      /\ waiting' = Nobody /\ shown' = shown /\ token' = token
      /\ left' = left /\ focus' \in Directions \cup {"grid"}
  BY DEF TurnPage
<1> QED BY <1>2, <1>3, <1>4, StartLoadInv

LEMMA OtherLoadInv ==
  ASSUME IInv, NEW p \in PageNumbers, OtherLoad(p) PROVE IInv'
<1> DEFINE none == {}
<1>1. BoundaryTypeOK /\ PendingLandingIsServed /\ answers = {}
  BY DEF IInv, OtherLoad, Quiet
<1>2. pending # NoLanding =>
        \/ waiting' # Nobody /\ waiting'.token = pending.token
        \/ load # NoLoad /\ load.by = pending.token
  BY <1>1 DEF PendingLandingIsServed, OtherLoad
<1>3. /\ Quiet /\ StartPageLoad(p, Nobody) /\ answers' = none \cup Told("superseded")
      /\ waiting' = waiting /\ shown' = shown /\ token' = token
      /\ left' = left /\ focus' \in Directions \cup {"grid"}
  BY <1>1 DEF OtherLoad, BoundaryTypeOK
<1>4. /\ none \subseteq [token : Tokens, result : Results]
      /\ \A rec \in none : rec.result # "ready"
  OBVIOUS
<1>5. pending # NoLanding =>
        \/ waiting' # Nobody /\ waiting'.token = pending.token
        \/ Nobody = pending.token
        \/ load # NoLoad /\ load.by = pending.token
        \/ \E rec \in none : rec.token = pending.token
  BY <1>2
<1> HIDE DEF none
<1> QED BY <1>3, <1>4, <1>5, StartLoadInv

LEMMA LeaveButtonInv == ASSUME IInv, LeaveButton PROVE IInv'
<1>1. BoundaryTypeOK /\ PendingLandingIsServed /\ answers = {}
  BY DEF IInv, LeaveButton, Quiet
<1>2. UNCHANGED <<page, rowsStatus, load, shown, cursor, pending, token, landing, left>>
      /\ focus' = "grid"
  BY DEF LeaveButton
<1>3. CASE waiting' = waiting /\ answers' = answers
  BY <1>2, <1>3
  DEF IInv, BoundaryTypeOK, PendingLandingIsServed, LandsOnTheLoadAsked, LoadingHasLoad, ReadyIsLate
<1>4. CASE waiting' = Nobody /\ answers' = Cancelled
  <2>1. /\ answers' \subseteq [token : Tokens, result : Results]
        /\ \A rec \in answers' : rec.result # "ready"
    BY <1>1, <1>4, CancelledType
  <2>2. BoundaryTypeOK'
    BY <1>1, <1>2, <1>4, <2>1 DEF BoundaryTypeOK
  <2>3. PendingLandingIsServed'
    <3>1. pending # NoLanding => pending.token \in Tokens
      BY <1>1 DEF BoundaryTypeOK, Landings
    <3>2. CASE pending # NoLanding /\ waiting # Nobody /\ waiting.token = pending.token
      <4>1. \E rec \in answers' : rec.token = pending.token
        BY <1>1, <1>4, <3>1, <3>2, CancelledType
      <4> QED BY <4>1, <1>2 DEF PendingLandingIsServed
    <3> QED BY <1>1, <1>2, <3>2 DEF PendingLandingIsServed
  <2>4. LandsOnTheLoadAsked' /\ LoadingHasLoad' /\ ReadyIsLate'
    BY <1>2, <2>1 DEF IInv, LandsOnTheLoadAsked, LoadingHasLoad, ReadyIsLate
  <2> QED BY <2>2, <2>3, <2>4 DEF IInv
<1> QED BY <1>3, <1>4 DEF LeaveButton

LEMMA PressAtEdgeInv ==
  ASSUME IInv, NEW d \in Directions, NEW r \in BOOLEAN, PressAtEdge(d, r)
  PROVE  IInv'
<1>1. BoundaryTypeOK /\ PendingLandingIsServed /\ answers = {}
  BY DEF IInv, PressAtEdge, Quiet
<1>2. UNCHANGED <<page, rowsStatus, load, shown, cursor, landing, left>>
  BY DEF PressAtEdge
<1>3. AfterChildren(cursor, r) \in {pending, NoLanding}
  BY DEF AfterChildren
<1>4. CASE pending' \in {pending, NoLanding} /\ UNCHANGED <<token, waiting, answers, focus>>
  BY <1>1, <1>2, <1>4
  DEF IInv, BoundaryTypeOK, PendingLandingIsServed, LandsOnTheLoadAsked, LoadingHasLoad, ReadyIsLate
<1>5. CASE /\ token' = token + 1 /\ answers' = Cancelled /\ focus' = d
           /\ pending' = [event |-> [direction |-> d, origin |-> cursor], token |-> token']
           /\ waiting' = [direction |-> d, token |-> token']
  <2>1. token' \in Tokens
    BY <1>1, <1>5, BoundaryAssumption DEF PressAtEdge, BoundaryTypeOK, Tokens
  <2>2. token' \in 0..MaxRequests
    BY <2>1, BoundaryAssumption DEF Tokens
  <2>3. pending' \in Landings
    BY <1>1, <1>5, <2>1 DEF Landings, Events, BoundaryTypeOK
  <2>4. waiting' \in [direction : Directions, token : Tokens] /\ waiting' # Nobody
    BY <1>5, <2>1, BoundaryAssumption
  <2>5. /\ answers' \subseteq [token : Tokens, result : Results]
        /\ \A rec \in answers' : rec.result # "ready"
    BY <1>1, <1>5, CancelledType
  <2>6. BoundaryTypeOK'
    BY <1>1, <1>2, <1>5, <2>2, <2>3, <2>4, <2>5 DEF BoundaryTypeOK
  <2>7. PendingLandingIsServed'
    BY <1>5, <2>4 DEF PendingLandingIsServed
  <2>8. LandsOnTheLoadAsked' /\ LoadingHasLoad' /\ ReadyIsLate'
    BY <1>2, <2>5 DEF IInv, LandsOnTheLoadAsked, LoadingHasLoad, ReadyIsLate
  <2> QED BY <2>6, <2>7, <2>8 DEF IInv
<1> QED BY <1>3, <1>4, <1>5 DEF PressAtEdge

LEMMA LoadLandsInv == ASSUME IInv, PageLands PROVE IInv'
<1>1. BoundaryTypeOK /\ PendingLandingIsServed /\ answers = {} /\ load \in PageLoads /\ load # NoLoad
  BY DEF IInv, PageLands, Quiet, BoundaryTypeOK
<1>2. /\ UNCHANGED <<page, token, waiting, focus, left>>
      /\ shown' = load /\ rowsStatus' = "ready" /\ load' = NoLoad /\ answers' = Told("ready")
      /\ Resolve(pending, "ready", load)
  BY DEF PageLands
<1>3. pending' = NoLanding
  BY <1>2, ResolveEnds
<1>4. /\ pending \in Landings \cup {NoLanding} /\ "ready" \in Results
  BY <1>1 DEF BoundaryTypeOK, Results
<1>5. cursor' \in Rows /\ landing' \in Landed \cup {NoLanding}
  BY <1>1, <1>2, <1>4, ResolveType
<1>6. answers' \subseteq [token : Tokens, result : Results]
  BY <1>1, <1>2, <1>4, ToldType
<1>7. BoundaryTypeOK'
  BY <1>1, <1>2, <1>3, <1>5, <1>6 DEF BoundaryTypeOK
<1>8. LandsOnTheLoadAsked'
  <2>1. CASE landing' = landing
    BY <2>1 DEF IInv, LandsOnTheLoadAsked
  <2>2. CASE landing' # landing
    <3>1. /\ pending # NoLanding
          /\ landing' = [token |-> pending.token, rowsOf |-> load.by,
                         parked |-> waiting' # Nobody /\ waiting'.token = pending.token]
      BY <1>2, <2>2 DEF Resolve, Landable
    <3>2. (waiting' # Nobody /\ waiting'.token = pending.token) \/ load.by = pending.token
      BY <1>1, <1>2, <3>1 DEF PendingLandingIsServed
    <3> QED BY <3>1, <3>2 DEF LandsOnTheLoadAsked
  <2> QED BY <2>1, <2>2
<1>9. PendingLandingIsServed' /\ LoadingHasLoad' /\ ReadyIsLate'
  BY <1>2, <1>3 DEF PendingLandingIsServed, LoadingHasLoad, ReadyIsLate
<1> QED BY <1>7, <1>8, <1>9 DEF IInv

LEMMA LoadFailsInv == ASSUME IInv, PageFails PROVE IInv'
<1>1. BoundaryTypeOK
  BY DEF IInv
<1>2. /\ UNCHANGED <<page, shown, token, waiting, focus, left>>
      /\ rowsStatus' = "error" /\ load' = NoLoad /\ answers' = Told("error")
      /\ Resolve(pending, "error", shown)
  BY DEF PageFails
<1>3. pending' = NoLanding
  BY <1>2, ResolveEnds
<1>4. UNCHANGED <<cursor, landing>>
  BY <1>2 DEF Resolve
<1>5. answers' \subseteq [token : Tokens, result : Results]
  <2>1. "error" \in Results
    BY DEF Results
  <2> QED BY <1>1, <1>2, <2>1, ToldType
<1>6. BoundaryTypeOK'
  BY <1>1, <1>2, <1>3, <1>4, <1>5 DEF BoundaryTypeOK
<1> QED BY <1>2, <1>3, <1>4, <1>6
        DEF IInv, PendingLandingIsServed, LandsOnTheLoadAsked, LoadingHasLoad, ReadyIsLate

\* A notification that is not the one of a load finds the source loading whenever
\* the load of the pending landing is out.
LEMMA EditAnsweredInv == ASSUME IInv, EditAnswered PROVE IInv'
<1>1. BoundaryTypeOK /\ PendingLandingIsServed /\ LoadingHasLoad /\ answers = {}
  BY DEF IInv, EditAnswered, Quiet
<1>2. /\ UNCHANGED <<page, rowsStatus, load, shown, token, waiting, answers, focus, left>>
      /\ Resolve(pending, rowsStatus, shown)
  BY DEF EditAnswered
<1>3. pending \in Landings \cup {NoLanding} /\ shown \in PageLoads
  BY <1>1 DEF BoundaryTypeOK
<1>4. /\ pending' \in {pending, NoLanding}
      /\ cursor' \in Rows /\ landing' \in Landed \cup {NoLanding}
  BY <1>1, <1>2, <1>3, ResolveType
<1>5. BoundaryTypeOK'
  BY <1>1, <1>2, <1>4 DEF BoundaryTypeOK
<1>6. LandsOnTheLoadAsked'
  <2>1. CASE landing' = landing
    BY <2>1 DEF IInv, LandsOnTheLoadAsked
  <2>2. CASE landing' # landing
    <3>1. /\ pending # NoLanding /\ rowsStatus # "loading"
          /\ landing' = [token |-> pending.token, rowsOf |-> shown.by,
                         parked |-> waiting' # Nobody /\ waiting'.token = pending.token]
      BY <1>2, <2>2 DEF Resolve, Landable
    <3>2. waiting' # Nobody /\ waiting'.token = pending.token
      BY <1>1, <1>2, <3>1 DEF PendingLandingIsServed, LoadingHasLoad
    <3> QED BY <3>1, <3>2 DEF LandsOnTheLoadAsked
  <2> QED BY <2>1, <2>2
<1>7. PendingLandingIsServed' /\ LoadingHasLoad' /\ ReadyIsLate'
  BY <1>1, <1>2, <1>4 DEF PendingLandingIsServed, LoadingHasLoad, ReadyIsLate
<1> QED BY <1>5, <1>6, <1>7 DEF IInv

\* An answer "ready" finds no landing left, any other drops the one it is for.
LEMMA LoadAnsweredInv ==
  ASSUME IInv, NEW rec \in answers, LoadAnswered(rec) PROVE IInv'
<1>1. BoundaryTypeOK /\ PendingLandingIsServed /\ ReadyIsLate
  BY DEF IInv
<1>2. /\ UNCHANGED <<page, rowsStatus, load, shown, token, waiting, focus, left>>
      /\ answers' = answers \ {rec}
  BY DEF LoadAnswered
<1>3. CASE pending = NoLanding \/ pending.token # rec.token
  <2>1. UNCHANGED <<pending, cursor, landing>>
    BY <1>3 DEF LoadAnswered
  <2>2. BoundaryTypeOK'
    BY <1>1, <1>2, <2>1 DEF BoundaryTypeOK
  <2> QED BY <1>1, <1>2, <1>3, <2>1, <2>2
          DEF IInv, PendingLandingIsServed, LandsOnTheLoadAsked, LoadingHasLoad, ReadyIsLate
<1>4. CASE ~(pending = NoLanding \/ pending.token # rec.token)
  <2>1. rec.result # "ready"
    BY <1>1, <1>4 DEF ReadyIsLate
  <2>2. pending' = NoLanding /\ UNCHANGED <<cursor, landing>>
    BY <1>4, <2>1 DEF LoadAnswered
  <2>3. BoundaryTypeOK'
    BY <1>1, <1>2, <2>2 DEF BoundaryTypeOK
  <2> QED BY <1>2, <2>2, <2>3
          DEF IInv, PendingLandingIsServed, LandsOnTheLoadAsked, LoadingHasLoad, ReadyIsLate
<1> QED BY <1>3, <1>4

LEMMA MoveCursorInv ==
  ASSUME IInv, NEW edge \in {"first", "last", "nested"}, MoveCursor(edge) PROVE IInv'
<1>1. UNCHANGED <<page, rowsStatus, load, shown, pending, token, waiting, answers, focus,
                  landing, left>>
      /\ cursor' = [page |-> shown.page, edge |-> edge]
  BY DEF MoveCursor
<1>2. cursor' \in Rows
  BY <1>1 DEF IInv, BoundaryTypeOK, PageLoads, Rows
<1> QED BY <1>1, <1>2
        DEF IInv, BoundaryTypeOK, PendingLandingIsServed, LandsOnTheLoadAsked, LoadingHasLoad,
            ReadyIsLate

LEMMA DisposeInv == ASSUME IInv, LeaveTable PROVE IInv'
<1>1. BoundaryTypeOK
  BY DEF IInv
<1>2. answers' \subseteq [token : Tokens, result : Results]
  <2>1. "disposed" \in Results
    BY DEF Results
  <2> QED BY <1>1, <2>1, ToldType DEF LeaveTable
<1>3. BoundaryTypeOK'
  BY <1>1, <1>2 DEF LeaveTable, BoundaryTypeOK
<1> QED BY <1>3
        DEF LeaveTable, IInv, PendingLandingIsServed, LandsOnTheLoadAsked, LoadingHasLoad,
            ReadyIsLate

LEMMA StepInv == ASSUME IInv, [BoundaryNext]_boundaryVars PROVE IInv'
<1>1. CASE UNCHANGED boundaryVars
  BY <1>1
  DEF boundaryVars, IInv, BoundaryTypeOK, PendingLandingIsServed, LandsOnTheLoadAsked, LoadingHasLoad,
      ReadyIsLate
<1>2. CASE BoundaryNext
  BY <1>2, ContinueInv, TurnPageInv, OtherLoadInv, LeaveButtonInv, PressAtEdgeInv,
     LoadLandsInv, LoadFailsInv, EditAnsweredInv, LoadAnsweredInv, MoveCursorInv, DisposeInv
  DEF BoundaryNext
<1> QED BY <1>1, <1>2

(***************************************************************************)
(* The theorems.                                                           *)
(***************************************************************************)

LEMMA Invariant == BoundarySpec => []IInv
<1>1. BoundaryInit => IInv
  BY InitInv
<1>2. IInv /\ [BoundaryNext]_boundaryVars => IInv'
  BY StepInv
<1> QED BY <1>1, <1>2, PTL DEF BoundarySpec

\* Every reachable state is well typed, for any number of pages and requests.
THEOREM TypeCorrect == BoundarySpec => []BoundaryTypeOK
<1>1. IInv => BoundaryTypeOK
  BY DEF IInv
<1> QED BY <1>1, Invariant, PTL

\* No pending landing of the runtime is left without its button, its load or its
\* answer, so no key at an edge is swallowed for ever (loaded-boundary.ts).
THEOREM PendingLandingsAreServed == BoundarySpec => []PendingLandingIsServed
<1>1. IInv => PendingLandingIsServed
  BY DEF IInv
<1> QED BY <1>1, Invariant, PTL

\* Once the load of a request has been asked for, its landing is on the rows that
\* this load brought (loaded-boundary.ts, table-grid-pager-boundary.ts).
THEOREM LandingsAreOnTheLoadAsked == BoundarySpec => []LandsOnTheLoadAsked
<1>1. IInv => LandsOnTheLoadAsked
  BY DEF IInv
<1> QED BY <1>1, Invariant, PTL

(***************************************************************************)
(* The root source keeps the contract of a level source.                   *)
(***************************************************************************)

\* A load that starts is asked for, whatever it replaces.
LEMMA StartAsks ==
  ASSUME ~left, UNCHANGED <<shown, left>>, NEW p \in PageNumbers, NEW by \in Tokens \cup {Nobody},
         StartPageLoad(p, by)
  PROVE  RootSource!Next
<1>1. load' \in PageLoads /\ rowsStatus' = "loading"
  BY DEF StartPageLoad, PageLoads
<1>2. RootSource!Ask(load')
  BY <1>1 DEF RootSource!Ask
<1> QED BY <1>1, <1>2 DEF RootSource!Next

\* Every step is one of the contract; those that neither load nor leave are none
\* of its business.
LEMMA StepKeepsContract ==
  ASSUME BoundaryTypeOK, [BoundaryNext]_boundaryVars
  PROVE  [RootSource!Next]_(RootSource!vars)
<1>1. CASE Continue
  <2> DEFINE p == IF focus = "after" THEN page + 1 ELSE page - 1
  <2>1. p \in PageNumbers /\ waiting.token \in Tokens
    BY <1>1, BoundaryAssumption
    DEF Continue, Available, BoundaryTypeOK, Directions, PageNumbers
  <2>2. StartPageLoad(p, waiting.token) /\ ~left /\ UNCHANGED <<shown, left>>
    BY <1>1 DEF Continue
  <2> HIDE DEF p
  <2> QED BY <2>1, <2>2, StartAsks
<1>2. ASSUME NEW p \in PageNumbers, TurnPage(p) \/ OtherLoad(p)
      PROVE  RootSource!Next
  BY <1>2, StartAsks DEF TurnPage, OtherLoad
<1>3. CASE PageLands
  <2>1. RootSource!Land
    BY <1>3 DEF PageLands, RootSource!Land
  <2> QED BY <2>1 DEF RootSource!Next
<1>4. CASE PageFails
  <2>1. RootSource!Fail
    BY <1>4 DEF PageFails, RootSource!Fail
  <2> QED BY <2>1 DEF RootSource!Next
<1>5. CASE LeaveTable
  <2>1. RootSource!Stop
    BY <1>5 DEF LeaveTable, RootSource!Stop
  <2> QED BY <2>1 DEF RootSource!Next
<1>6. CASE LeaveButton \/ EditAnswered \/ UNCHANGED boundaryVars
  BY <1>6 DEF LeaveButton, EditAnswered, boundaryVars, RootSource!vars
<1>7. ASSUME NEW rec \in answers, LoadAnswered(rec)
      PROVE  UNCHANGED RootSource!vars
  BY <1>7 DEF LoadAnswered, RootSource!vars
<1>8. ASSUME NEW edge, MoveCursor(edge)
      PROVE  UNCHANGED RootSource!vars
  BY <1>8 DEF MoveCursor, RootSource!vars
<1>9. ASSUME NEW d, NEW ready, PressAtEdge(d, ready)
      PROVE  UNCHANGED RootSource!vars
  BY <1>9 DEF PressAtEdge, RootSource!vars
<1> QED BY <1>1, <1>2, <1>3, <1>4, <1>5, <1>6, <1>7, <1>8, <1>9 DEF BoundaryNext

\* The root source that the pager and the runtime work with keeps the contract that
\* the REST source keeps, for any number of pages and requests
\* (table-grid-pager-boundary.ts, rest-level-source.ts).
THEOREM RootSourceKeepsContract == BoundarySpec => PagesKeepSourceContract
<1>1. BoundaryInit => RootSource!Init
  <2>1. BoundaryInit => BoundaryTypeOK
    BY InitInv DEF IInv
  <2> QED BY <2>1 DEF BoundaryInit, BoundaryTypeOK, RootSource!Init
<1>2. BoundaryTypeOK /\ [BoundaryNext]_boundaryVars => [RootSource!Next]_(RootSource!vars)
  BY StepKeepsContract
<1> QED BY <1>1, <1>2, TypeCorrect, PTL DEF BoundarySpec, PagesKeepSourceContract, RootSource!Spec

================================================================================
