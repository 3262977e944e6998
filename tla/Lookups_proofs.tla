----------------------------- MODULE Lookups_proofs -----------------------------
(***************************************************************************)
(* What the two caches behind lookup cells and pickers promise, for every  *)
(* set of keys and requests and all bounds.                                *)
(*                                                                         *)
(* ValueLookup: three numbers belong to a key: its entry, the version its  *)
(* row had when it was last asked for (due), and the version an answer on  *)
(* its way carries.  They are ordered only for the load that owns the key, *)
(* so the argument starts with who owns what (LoadsInOrder), orders the    *)
(* numbers (AnswersAreCurrent), and then follows the calls                 *)
(* (CallsAreServed).                                                       *)
(*                                                                         *)
(* SearchLookup: what the cache serves is as new as the latest stale mark, *)
(* it stays within its limit, and a page that is still trusted gives way   *)
(* only to a later search.  The last needs more than the code looks at.    *)
(* An answer is stored for the latest request of its scope, whatever       *)
(* search it came from; that request cannot have been sent again while its *)
(* search is out, so no search of the scope is newer than it               *)
(* (LatestIsNewest).                                                       *)
(***************************************************************************)
EXTENDS ValueLookup, SearchLookup, SequenceTheorems, TLAPS

\* Load ids are not used twice, and a key belongs to the load sent last for it.
LoadsInOrder ==
  /\ \A l \in loads : l.id <= lastLoad
  /\ \A l, m \in loads : l.id = m.id => l = m
  /\ \A k \in Keys : asked[k] <= lastLoad
  /\ \A k \in Loading : loadingEntries[k] = asked[k]
  /\ LoadingHasItsLoad

\* What the server has is at least what an entry or a key asked for is due, and
\* so is what an answer carries to the keys its load owns.
AnswersAreCurrent ==
  /\ \A k \in Keys : server[k] # None =>
       due[k] <= server[k] /\ (entries[k] # None => entries[k] <= server[k])
  /\ \A l \in loads : l.stage = "answered" =>
       \A k \in Owned(l) :
         /\ l.rows[k] = None => server[k] = None
         /\ l.rows[k] # None =>
              /\ l.rows[k] >= due[k]
              /\ entries[k] # None => l.rows[k] >= entries[k]
              /\ server[k] # None => l.rows[k] <= server[k]

\* A call has what it asked for, or waits for the load that will bring it.
CallsAreServed ==
  \A c \in calls, k \in Keys :
    /\ c.loadOf[k] <= lastLoad
    /\ (c.loadOf[k] # 0 /\ c.loadOf[k] = asked[k]) =>
         \/ entries[k] # None \/ server[k] = None
         \/ loadingEntries[k] = asked[k] /\ asked[k] \in c.waitsFor

ValuesInvariant ==
  /\ TypeOK /\ LoadsInOrder /\ AnswersAreCurrent /\ FreshAsAsked /\ CallsAreServed

\* What a request becomes when the server reads it.
ReadFor(l, answer) ==
  \/ answer = [l EXCEPT !.stage = "answered",
                       !.rows = [k \in Keys |-> IF k \in l.keys THEN server[k] ELSE None]]
  \/ answer = [l EXCEPT !.stage = "failed"]

LEMMA InitValues == Init => ValuesInvariant
  BY KeysAssumption, BoundsAssumption, NoneAssumption
     DEF Init, ValuesInvariant, TypeOK, LoadsInOrder, LoadingHasItsLoad, AnswersAreCurrent,
         FreshAsAsked, CallsAreServed, Loading, Cached, Answers, Versions, NoAnswer

--------------------------------------------------------------------------------
(* Types.                                                                    *)

LEMMA StartLoadTyped ==
  ASSUME TypeOK, NEW keys \in SUBSET Keys, keys # {}, StartLoad(keys)
  PROVE  /\ server' \in Answers /\ entries' \in Answers
         /\ loadingEntries' \in [Keys -> LoadIds \cup {0}]
         /\ loads' \subseteq Loads
         /\ lastLoad' \in 0 .. MaxLoads
         /\ asked' \in [Keys -> LoadIds \cup {0}] /\ due' \in [Keys -> Versions \cup {0}]
         /\ \A k \in keys : loadingEntries'[k] = lastLoad + 1
         /\ \A k \in Keys \ keys : loadingEntries'[k] = loadingEntries[k]
  <1>1. lastLoad + 1 \in LoadIds
    BY BoundsAssumption DEF TypeOK, StartLoad, LoadIds
  <1>2. NoAnswer \in Answers BY DEF NoAnswer, Answers
  <1>3. [id |-> lastLoad + 1, keys |-> keys, stage |-> "sent", rows |-> NoAnswer] \in Loads
    BY <1>1, <1>2 DEF Loads
  <1>4. due' \in [Keys -> Versions \cup {0}]
    BY DEF TypeOK, StartLoad, Answers
  <1>5. /\ loadingEntries' \in [Keys -> LoadIds \cup {0}]
        /\ asked' \in [Keys -> LoadIds \cup {0}]
    BY <1>1 DEF TypeOK, StartLoad, Asks
  <1>6. /\ \A k \in keys : loadingEntries'[k] = lastLoad + 1
        /\ \A k \in Keys \ keys : loadingEntries'[k] = loadingEntries[k]
    BY DEF StartLoad, Asks
  <1>7. loads' \subseteq Loads BY <1>3 DEF TypeOK, StartLoad
  <1>8. lastLoad' \in 0 .. MaxLoads BY <1>1 DEF StartLoad, LoadIds
  <1> QED BY <1>4, <1>5, <1>6, <1>7, <1>8 DEF TypeOK, StartLoad

LEMMA CallsTyped ==
  ASSUME TypeOK, NEW values \in SUBSET Keys, LoadMissingEntries(values)
  PROVE  TypeOK'
  <1> DEFINE missing == MissingOf(values)
  <1>1. missing \in SUBSET Keys BY DEF MissingOf
  <1>2. Waiting(missing, loadingEntries') \in Calls /\ \A k \in missing : loadingEntries'[k] # 0
    <2>1. /\ loadingEntries' \in [Keys -> LoadIds \cup {0}]
          /\ \A k \in missing : loadingEntries'[k] # 0
      <3>1. CASE missing \subseteq Loading
        BY <3>1, <1>1 DEF LoadMissingEntries, TypeOK, cache, Loading
      <3>2. CASE ~(missing \subseteq Loading)
        <4>1. StartLoad(missing \ Loading) BY <3>2 DEF LoadMissingEntries
        <4>2. missing \ Loading \in SUBSET Keys /\ missing \ Loading # {} BY <1>1, <3>2
        <4>3. lastLoad + 1 # 0 BY BoundsAssumption DEF TypeOK
        <4> QED BY <1>1, <4>1, <4>2, <4>3, StartLoadTyped DEF Loading
      <3> QED BY <3>1, <3>2
    <2>2. \A k \in missing : loadingEntries'[k] \in LoadIds BY <1>1, <2>1
    <2>3. [k \in Keys |-> IF k \in missing THEN loadingEntries'[k] ELSE 0] \in [Keys -> LoadIds \cup {0}]
      BY <2>1
    <2> QED BY <2>1, <2>2, <2>3 DEF Waiting, Calls
  <1>3. calls' \subseteq Calls BY <1>2 DEF TypeOK, LoadMissingEntries
  <1>4. CASE missing \subseteq Loading
    BY <1>3, <1>4 DEF LoadMissingEntries, TypeOK, cache, history
  <1>5. CASE ~(missing \subseteq Loading)
    <2>1. StartLoad(missing \ Loading) BY <1>5 DEF LoadMissingEntries
    <2>2. missing \ Loading \in SUBSET Keys /\ missing \ Loading # {} BY <1>1, <1>5
    <2> HIDE DEF missing
    <2> QED BY <1>3, <2>1, <2>2, StartLoadTyped DEF TypeOK
  <1> QED BY <1>4, <1>5

LEMMA NextTyped == TypeOK /\ [Next]_vars => TypeOK'
  <1> SUFFICES ASSUME TypeOK, [Next]_vars PROVE TypeOK' OBVIOUS
  <1>1. ASSUME NEW values \in SUBSET Keys, LoadMissingEntries(values) PROVE TypeOK'
    BY <1>1, CallsTyped
  <1>2. CASE ReloadEntries
    <2>1. Cached \cup Loading \in SUBSET Keys BY DEF Cached, Loading
    <2> QED BY <1>2, <2>1, StartLoadTyped DEF ReloadEntries, TypeOK
  <1>3. ASSUME NEW l \in loads, LoadLands(l) PROVE TypeOK'
    <2>1. l \in Loads BY DEF TypeOK
    <2>2. entries' \in Answers
      BY <1>3, <2>1 DEF LoadLands, TypeOK, Answers, Loads
    <2>3. calls' \subseteq Calls
      BY <1>3 DEF LoadLands, TypeOK, Calls
    <2>4. loadingEntries' \in [Keys -> LoadIds \cup {0}]
      BY <1>3 DEF LoadLands, TakeAnswer, TypeOK
    <2> QED BY <1>3, <2>2, <2>3, <2>4 DEF LoadLands, TakeAnswer, TypeOK, history
  <1>4. ASSUME NEW l \in loads, LoadFails(l) PROVE TypeOK'
    <2>1. loadingEntries' \in [Keys -> LoadIds \cup {0}] /\ due' \in [Keys -> Versions \cup {0}]
      BY <1>4 DEF LoadFails, TakeAnswer, TypeOK
    <2>2. loads' \subseteq Loads /\ calls' \subseteq Calls
      BY <1>4 DEF LoadFails, TakeAnswer, TypeOK
    <2> QED BY <1>4, <2>1, <2>2 DEF LoadFails, TakeAnswer, TypeOK
  <1>5. ASSUME NEW l \in loads, ServerReads(l) PROVE TypeOK'
    <2>1. l \in Loads BY DEF TypeOK
    <2>2. [k \in Keys |-> IF k \in l.keys THEN server[k] ELSE None] \in Answers
      BY DEF TypeOK, Answers
    <2>3. PICK answer : loads' = (loads \ {l}) \cup {answer} /\ ReadFor(l, answer)
      BY <1>5 DEF ServerReads, ReadFor
    <2>4. answer \in Loads BY <2>1, <2>2, <2>3 DEF ReadFor, Loads
    <2>5. loads' \subseteq Loads BY <2>3, <2>4 DEF TypeOK
    <2> QED BY <1>5, <2>5 DEF ServerReads, TypeOK, cache, history
  <1>6. ASSUME NEW c \in calls, CallReturns(c) PROVE TypeOK'
    BY <1>6 DEF CallReturns, TypeOK, cache, history
  <1>7. ASSUME NEW k \in Keys, RowEdited(k) PROVE TypeOK'
    <2>1. server[k] \in Versions BY <1>7 DEF RowEdited, TypeOK, Answers
    <2>2. server[k] + 1 \in Versions BY <1>7, <2>1, BoundsAssumption DEF RowEdited, Versions
    <2>3. server' \in Answers BY <1>7, <2>2 DEF RowEdited, TypeOK, Answers
    <2> QED BY <1>7, <2>3 DEF RowEdited, TypeOK, cache, history
  <1>8. ASSUME NEW k \in Keys, RowDeleted(k) PROVE TypeOK'
    BY <1>8 DEF RowDeleted, TypeOK, Answers, cache, history
  <1>9. CASE UNCHANGED vars BY <1>9 DEF vars, TypeOK, cache, history
  <1> QED BY <1>1, <1>2, <1>3, <1>4, <1>5, <1>6, <1>7, <1>8, <1>9 DEF Next

\* Every reachable state of the cache is well typed, and no empty request is sent.
THEOREM ValuesTyped == Spec => []TypeOK
  <1>1. Init => TypeOK BY InitValues DEF ValuesInvariant
  <1> QED BY <1>1, NextTyped, PTL DEF Spec

--------------------------------------------------------------------------------
(* Who owns what.                                                            *)

LEMMA StartLoadOrdered ==
  ASSUME TypeOK, LoadsInOrder, NEW keys \in SUBSET Keys, StartLoad(keys)
  PROVE  LoadsInOrder'
  <1> DEFINE new == [id |-> lastLoad + 1, keys |-> keys, stage |-> "sent", rows |-> NoAnswer]
  <1>1. loads' = loads \cup {new} /\ lastLoad' = lastLoad + 1 /\ lastLoad \in Nat
    BY BoundsAssumption DEF StartLoad, TypeOK
  <1>2. \A l \in loads : l.id \in Nat /\ l.id <= lastLoad /\ l.id # new.id
    BY <1>1 DEF TypeOK, Loads, LoadIds, LoadsInOrder
  <1>3. \A l \in loads' : l.id <= lastLoad' BY <1>1, <1>2
  <1>4. \A l, m \in loads' : l.id = m.id => l = m BY <1>1, <1>2 DEF LoadsInOrder
  <1>5. \A k \in Keys : /\ asked[k] \in Nat /\ asked[k] <= lastLoad
                        /\ asked'[k] = IF k \in keys THEN lastLoad + 1 ELSE asked[k]
                        /\ loadingEntries'[k] = IF k \in keys THEN lastLoad + 1
                                                ELSE loadingEntries[k]
    BY DEF StartLoad, Asks, LoadsInOrder, TypeOK, LoadIds
  <1>6. \A k \in Keys : asked'[k] <= lastLoad' BY <1>1, <1>5
  <1>7. \A k \in Loading' : loadingEntries'[k] = asked'[k]
    BY <1>5 DEF Loading, LoadsInOrder
  <1>8. LoadingHasItsLoad'
    <2> SUFFICES ASSUME NEW k \in Keys, loadingEntries'[k] # 0
                 PROVE  \E l \in loads' : l.id = loadingEntries'[k] /\ k \in l.keys
      BY DEF LoadingHasItsLoad, Loading
    <2>1. CASE k \in keys
      <3>1. new \in loads' /\ new.id = lastLoad + 1 /\ new.keys = keys BY <1>1
      <3>2. loadingEntries'[k] = lastLoad + 1 BY <1>5, <2>1
      <3> HIDE DEF new
      <3> QED BY <2>1, <3>1, <3>2
    <2>2. CASE k \notin keys
      BY <1>1, <1>5, <2>2 DEF LoadsInOrder, LoadingHasItsLoad, Loading
    <2> QED BY <2>1, <2>2
  <1> QED BY <1>3, <1>4, <1>6, <1>7, <1>8 DEF LoadsInOrder

\* Taking an answer frees exactly the keys its load owns.
LEMMA AnswerOrdered ==
  ASSUME TypeOK, LoadsInOrder, NEW l \in loads, TakeAnswer(l), UNCHANGED asked
  PROVE  LoadsInOrder'
  <1>1. \A k \in Loading' : /\ k \in Loading /\ k \notin Owned(l)
                            /\ loadingEntries'[k] = loadingEntries[k]
    BY DEF TakeAnswer, Loading
  <1>2. LoadingHasItsLoad'
    <2> SUFFICES ASSUME NEW k \in Loading'
                 PROVE  \E m \in loads' : m.id = loadingEntries'[k] /\ k \in m.keys
      BY DEF LoadingHasItsLoad
    <2>1. PICK m \in loads : m.id = loadingEntries[k] /\ k \in m.keys
      BY <1>1 DEF LoadsInOrder, LoadingHasItsLoad
    <2>2. m # l BY <1>1, <2>1 DEF Owned, Loading
    <2> QED BY <1>1, <2>1, <2>2 DEF TakeAnswer
  <1> QED BY <1>1, <1>2 DEF LoadsInOrder, TakeAnswer

LEMMA ReadOrdered ==
  ASSUME TypeOK, LoadsInOrder, NEW l \in loads, ServerReads(l)
  PROVE  LoadsInOrder'
  <1>1. PICK answer : loads' = (loads \ {l}) \cup {answer} /\ ReadFor(l, answer)
    BY DEF ServerReads, ReadFor
  <1>2. l \in Loads BY DEF TypeOK
  <1>3. answer.id = l.id /\ answer.keys = l.keys BY <1>1, <1>2 DEF ReadFor, Loads
  <1>4. UNCHANGED <<loadingEntries, lastLoad, asked>> /\ Loading' = Loading
    BY DEF ServerReads, cache, history, Loading
  <1>5. LoadingHasItsLoad' BY <1>1, <1>3, <1>4 DEF LoadsInOrder, LoadingHasItsLoad
  <1> QED BY <1>1, <1>3, <1>4, <1>5 DEF LoadsInOrder

LEMMA NextOrdered == TypeOK /\ LoadsInOrder /\ [Next]_vars => LoadsInOrder'
  <1> SUFFICES ASSUME TypeOK, LoadsInOrder, [Next]_vars PROVE LoadsInOrder' OBVIOUS
  <1> DEFINE Still == UNCHANGED <<loadingEntries, loads, lastLoad, asked>>
  <1>1. ASSUME Still PROVE LoadsInOrder'
    BY <1>1 DEF LoadsInOrder, LoadingHasItsLoad, Loading
  <1>2. ASSUME NEW values \in SUBSET Keys, LoadMissingEntries(values) PROVE LoadsInOrder'
    <2>1. CASE MissingOf(values) \subseteq Loading
      BY <1>1, <1>2, <2>1 DEF LoadMissingEntries, cache, history
    <2>2. CASE ~(MissingOf(values) \subseteq Loading)
      BY <1>2, <2>2, StartLoadOrdered DEF LoadMissingEntries, MissingOf
    <2> QED BY <2>1, <2>2
  <1>3. CASE ReloadEntries
    <2>1. Cached \cup Loading \in SUBSET Keys BY DEF Cached, Loading
    <2> QED BY <1>3, <2>1, StartLoadOrdered DEF ReloadEntries
  <1>4. ASSUME NEW l \in loads, LoadLands(l) \/ LoadFails(l) PROVE LoadsInOrder'
    BY <1>4, AnswerOrdered DEF LoadLands, LoadFails, history
  <1>5. ASSUME NEW l \in loads, ServerReads(l) PROVE LoadsInOrder' BY <1>5, ReadOrdered
  <1>6. ASSUME NEW c \in calls, CallReturns(c) PROVE LoadsInOrder'
    BY <1>1, <1>6 DEF CallReturns, cache, history
  <1>7. ASSUME NEW k \in Keys, RowEdited(k) \/ RowDeleted(k) PROVE LoadsInOrder'
    BY <1>1, <1>7 DEF RowEdited, RowDeleted, cache, history
  <1>8. CASE UNCHANGED vars BY <1>1, <1>8 DEF vars, cache, history
  <1> QED BY <1>2, <1>3, <1>4, <1>5, <1>6, <1>7, <1>8 DEF Next

--------------------------------------------------------------------------------
(* The order of the three numbers of a key.                                  *)

LEMMA Numbers ==
  ASSUME TypeOK
  PROVE  /\ \A k \in Keys : /\ server[k] # None => server[k] \in Nat
                            /\ entries[k] # None => entries[k] \in Nat
                            /\ due[k] \in Nat
         /\ \A l \in loads, k \in Keys : l.rows[k] # None => l.rows[k] \in Nat
         /\ \A l \in loads : l.keys \subseteq Keys
  BY BoundsAssumption DEF TypeOK, Answers, Versions, Loads

LEMMA StartLoadCurrent ==
  ASSUME TypeOK, LoadsInOrder, AnswersAreCurrent, FreshAsAsked,
         NEW keys \in SUBSET Keys, StartLoad(keys)
  PROVE  AnswersAreCurrent' /\ FreshAsAsked'
  <1> DEFINE new == [id |-> lastLoad + 1, keys |-> keys, stage |-> "sent", rows |-> NoAnswer]
  <1>1. /\ loads' = loads \cup {new} /\ new.stage # "answered"
        /\ UNCHANGED <<server, entries>>
    BY DEF StartLoad
  <1>2. \A k \in Keys : /\ loadingEntries'[k] = IF k \in keys THEN lastLoad + 1
                                                ELSE loadingEntries[k]
                        /\ due'[k] = IF k \in keys /\ server[k] # None THEN server[k] ELSE due[k]
    BY DEF StartLoad, Asks, TypeOK
  <1>3. \A l \in loads : l.id # lastLoad + 1
    BY BoundsAssumption DEF LoadsInOrder, TypeOK, Loads, LoadIds
  <1>4. ASSUME NEW k \in Keys, server'[k] # None
        PROVE  due'[k] <= server'[k] /\ (entries'[k] # None => entries'[k] <= server'[k])
    BY <1>1, <1>2, <1>4, Numbers DEF AnswersAreCurrent
  <1>5. ASSUME NEW l \in loads', l.stage = "answered", NEW k \in Owned(l)'
        PROVE  l \in loads /\ k \in Owned(l) /\ due'[k] = due[k]
    <2>1. l \in loads /\ k \in l.keys /\ loadingEntries'[k] = l.id
      BY <1>1, <1>5 DEF Owned
    <2>2. k \in Keys BY <2>1, Numbers
    <2>3. k \notin keys BY <1>2, <1>3, <2>1, <2>2
    <2> QED BY <1>2, <2>1, <2>2, <2>3 DEF Owned
  <1>6. AnswersAreCurrent' BY <1>1, <1>4, <1>5 DEF AnswersAreCurrent
  <1>7. ASSUME NEW k \in Keys, entries'[k] # None, loadingEntries'[k] = 0
        PROVE  server'[k] = None \/ entries'[k] >= due'[k]
    <2>1. k \notin keys BY <1>2, <1>7, BoundsAssumption DEF TypeOK
    <2> QED BY <1>1, <1>2, <1>7, <2>1 DEF FreshAsAsked, Cached, Loading
  <1>8. FreshAsAsked' BY <1>7 DEF FreshAsAsked, Cached, Loading
  <1> QED BY <1>6, <1>8

\* The keys an answer frees are owned by no other load.
LEMMA FreedOnce ==
  ASSUME TypeOK, LoadsInOrder, NEW l \in loads, TakeAnswer(l), NEW m \in loads', NEW k \in Owned(m)'
  PROVE  m \in loads /\ k \in Owned(m) /\ k \notin Owned(l)
  <1>1. m \in loads /\ m # l /\ k \in Keys BY Numbers DEF TakeAnswer, Owned
  <1>2. m.id # 0 BY <1>1 DEF TypeOK, Loads, LoadIds
  <1>3. loadingEntries'[k] = m.id /\ k \in m.keys BY DEF Owned
  <1>4. k \notin Owned(l) BY <1>1, <1>2, <1>3 DEF TakeAnswer
  <1> QED BY <1>1, <1>3, <1>4 DEF TakeAnswer, Owned

LEMMA LandsCurrent ==
  ASSUME TypeOK, LoadsInOrder, AnswersAreCurrent, FreshAsAsked,
         NEW l \in loads, LoadLands(l)
  PROVE  AnswersAreCurrent' /\ FreshAsAsked' /\ GoesForward
  <1>1. /\ l.stage = "answered" /\ TakeAnswer(l)
        /\ UNCHANGED <<server, due>> /\ loads' = loads \ {l}
        /\ \A k \in Keys : entries'[k] = IF k \in Owned(l) /\ l.rows[k] # None
                                         THEN l.rows[k] ELSE entries[k]
    BY DEF LoadLands, TakeAnswer, history
  <1>2. \A k \in Owned(l) : /\ l.rows[k] = None => server[k] = None
                            /\ l.rows[k] # None =>
                                 /\ l.rows[k] >= due[k]
                                 /\ entries[k] # None => l.rows[k] >= entries[k]
                                 /\ server[k] # None => l.rows[k] <= server[k]
    BY <1>1 DEF AnswersAreCurrent
  <1>3. GoesForward BY <1>1, <1>2, Numbers DEF GoesForward, Cached
  <1>4. \A m \in loads', k \in Keys : k \in Owned(m)' =>
          m \in loads /\ k \in Owned(m) /\ entries'[k] = entries[k]
    BY <1>1, FreedOnce
  <1>5. \A m \in loads : Owned(m) \subseteq Keys BY Numbers DEF Owned
  <1>6. \A m \in loads' : m.stage = "answered" => \A k \in Owned(m)' :
          /\ m.rows[k] = None => server'[k] = None
          /\ m.rows[k] # None => /\ m.rows[k] >= due'[k]
                                 /\ entries'[k] # None => m.rows[k] >= entries'[k]
                                 /\ server'[k] # None => m.rows[k] <= server'[k]
    BY <1>1, <1>4, <1>5, FreedOnce DEF AnswersAreCurrent
  <1>7. \A k \in Keys : server'[k] # None =>
          due'[k] <= server'[k] /\ (entries'[k] # None => entries'[k] <= server'[k])
    BY <1>1, <1>2 DEF AnswersAreCurrent
  <1>8. ASSUME NEW k \in Keys, entries'[k] # None, loadingEntries'[k] = 0
        PROVE  server'[k] = None \/ entries'[k] >= due'[k]
    <2>1. CASE k \in Owned(l) BY <1>1, <1>2, <1>8, <2>1
    <2>2. CASE k \notin Owned(l)
      BY <1>1, <1>8, <2>2 DEF TakeAnswer, FreshAsAsked, Cached, Loading
    <2> QED BY <2>1, <2>2
  <1> QED BY <1>3, <1>6, <1>7, <1>8 DEF AnswersAreCurrent, FreshAsAsked, Cached, Loading

LEMMA FailsCurrent ==
  ASSUME TypeOK, LoadsInOrder, AnswersAreCurrent, FreshAsAsked,
         NEW l \in loads, LoadFails(l)
  PROVE  AnswersAreCurrent' /\ FreshAsAsked'
  <1>1. /\ TakeAnswer(l) /\ UNCHANGED <<server, entries>>
        /\ \A k \in Keys : due'[k] = IF k \in Owned(l) THEN 0 ELSE due[k]
    BY DEF LoadFails, TakeAnswer
  <1>2. \A m \in loads : Owned(m) \subseteq Keys BY Numbers DEF Owned
  <1>3. \A m \in loads' : \A k \in Owned(m)' :
          m \in loads /\ k \in Owned(m) /\ due'[k] = due[k]
    BY <1>1, <1>2, FreedOnce
  <1>4. \A k \in Keys : server'[k] # None =>
          due'[k] <= server'[k] /\ (entries'[k] # None => entries'[k] <= server'[k])
    BY <1>1, Numbers DEF AnswersAreCurrent
  <1>5. AnswersAreCurrent' BY <1>1, <1>3, <1>4 DEF AnswersAreCurrent
  <1>6. ASSUME NEW k \in Keys, entries'[k] # None, loadingEntries'[k] = 0
        PROVE  server'[k] = None \/ entries'[k] >= due'[k]
    <2>1. CASE k \in Owned(l) BY <1>1, <1>6, <2>1, Numbers
    <2>2. CASE k \notin Owned(l)
      BY <1>1, <1>6, <2>2 DEF TakeAnswer, FreshAsAsked, Cached, Loading
    <2> QED BY <2>1, <2>2
  <1> QED BY <1>5, <1>6 DEF FreshAsAsked, Cached, Loading

LEMMA ReadCurrent ==
  ASSUME TypeOK, LoadsInOrder, AnswersAreCurrent, FreshAsAsked,
         NEW l \in loads, ServerReads(l)
  PROVE  AnswersAreCurrent' /\ FreshAsAsked'
  <1>1. PICK answer : loads' = (loads \ {l}) \cup {answer} /\ ReadFor(l, answer)
    BY DEF ServerReads, ReadFor
  <1>2. UNCHANGED <<server, entries, loadingEntries, due>>
    BY DEF ServerReads, cache, history
  <1>3. l \in Loads BY DEF TypeOK
  <1>4. answer.stage = "answered" =>
          \A k \in Keys : k \in answer.keys => answer.rows[k] = server[k]
    BY <1>1, <1>3 DEF ReadFor, Loads
  <1>5. answer.keys \subseteq Keys BY <1>1, <1>3 DEF ReadFor, Loads
  <1>6. \A m : Owned(m)' = Owned(m) BY <1>2 DEF Owned
  <1>7. \A k \in Owned(answer) : k \in Keys /\ k \in answer.keys BY <1>5 DEF Owned
  <1>8. answer.stage = "answered" => \A k \in Owned(answer) :
          /\ answer.rows[k] = None => server[k] = None
          /\ answer.rows[k] # None => /\ answer.rows[k] >= due[k]
                                      /\ entries[k] # None => answer.rows[k] >= entries[k]
                                      /\ server[k] # None => answer.rows[k] <= server[k]
    BY <1>4, <1>7, Numbers DEF AnswersAreCurrent
  <1>9. AnswersAreCurrent' BY <1>1, <1>2, <1>6, <1>8 DEF AnswersAreCurrent
  <1> QED BY <1>2, <1>9 DEF FreshAsAsked, Cached, Loading

LEMMA RowsCurrent ==
  ASSUME TypeOK, AnswersAreCurrent, FreshAsAsked,
         NEW r \in Keys, RowEdited(r) \/ RowDeleted(r)
  PROVE  AnswersAreCurrent' /\ FreshAsAsked'
  <1>1. UNCHANGED <<entries, loadingEntries, loads, due>>
    BY DEF RowEdited, RowDeleted, cache, history
  <1>2. \A k \in Keys : /\ server[k] = None => server'[k] = None
                        /\ server'[k] # None => server'[k] >= server[k] /\ server'[k] \in Nat
    BY Numbers DEF RowEdited, RowDeleted, TypeOK, Answers
  <1>3. \A m \in loads : Owned(m)' = Owned(m) /\ Owned(m) \subseteq Keys
    BY <1>1, Numbers DEF Owned
  <1>4. AnswersAreCurrent' BY <1>1, <1>2, <1>3, Numbers DEF AnswersAreCurrent
  <1>5. FreshAsAsked' BY <1>1, <1>2 DEF FreshAsAsked, Cached, Loading
  <1> QED BY <1>4, <1>5

Ordered == LoadsInOrder /\ AnswersAreCurrent /\ FreshAsAsked

LEMMA NextCurrent ==
  TypeOK /\ Ordered /\ [Next]_vars => AnswersAreCurrent' /\ FreshAsAsked' /\ GoesForward
  <1> SUFFICES ASSUME TypeOK, LoadsInOrder, AnswersAreCurrent, FreshAsAsked, [Next]_vars
               PROVE  AnswersAreCurrent' /\ FreshAsAsked' /\ GoesForward
    BY DEF Ordered
  <1> DEFINE Still == UNCHANGED <<server, entries, loadingEntries, loads, due>>
  <1>1. ASSUME UNCHANGED entries PROVE GoesForward
    BY <1>1, Numbers DEF GoesForward, Cached
  <1>2. ASSUME Still PROVE AnswersAreCurrent' /\ FreshAsAsked'
    BY <1>2 DEF AnswersAreCurrent, FreshAsAsked, Cached, Loading, Owned
  <1>3. ASSUME NEW values \in SUBSET Keys, LoadMissingEntries(values)
        PROVE  AnswersAreCurrent' /\ FreshAsAsked' /\ UNCHANGED entries
    <2>1. CASE MissingOf(values) \subseteq Loading
      BY <1>2, <1>3, <2>1 DEF LoadMissingEntries, cache, history
    <2>2. CASE ~(MissingOf(values) \subseteq Loading)
      <3>1. StartLoad(MissingOf(values) \ Loading) BY <1>3, <2>2 DEF LoadMissingEntries
      <3>2. MissingOf(values) \ Loading \in SUBSET Keys BY DEF MissingOf
      <3>3. UNCHANGED entries BY <3>1 DEF StartLoad
      <3> QED BY <3>1, <3>2, <3>3, StartLoadCurrent
    <2> QED BY <2>1, <2>2
  <1>4. CASE ReloadEntries
    <2>1. StartLoad(Cached \cup Loading) /\ Cached \cup Loading \in SUBSET Keys
      BY <1>4 DEF ReloadEntries, Cached, Loading
    <2>2. UNCHANGED entries BY <2>1 DEF StartLoad
    <2> QED BY <1>1, <2>1, <2>2, StartLoadCurrent
  <1>5. ASSUME NEW l \in loads, LoadLands(l)
        PROVE  AnswersAreCurrent' /\ FreshAsAsked' /\ GoesForward
    BY <1>5, LandsCurrent
  <1>6. ASSUME NEW l \in loads, LoadFails(l) \/ ServerReads(l)
        PROVE  AnswersAreCurrent' /\ FreshAsAsked' /\ UNCHANGED entries
    BY <1>6, FailsCurrent, ReadCurrent DEF LoadFails, ServerReads, cache
  <1>7. ASSUME NEW c \in calls, CallReturns(c)
        PROVE  AnswersAreCurrent' /\ FreshAsAsked' /\ UNCHANGED entries
    BY <1>2, <1>7 DEF CallReturns, cache, history
  <1>8. ASSUME NEW k \in Keys, RowEdited(k) \/ RowDeleted(k)
        PROVE  AnswersAreCurrent' /\ FreshAsAsked' /\ UNCHANGED entries
    BY <1>8, RowsCurrent DEF RowEdited, RowDeleted, cache
  <1>9. CASE UNCHANGED vars BY <1>1, <1>2, <1>9 DEF vars, cache, history
  <1> QED BY <1>1, <1>3, <1>4, <1>5, <1>6, <1>7, <1>8, <1>9 DEF Next

--------------------------------------------------------------------------------
(* The calls.                                                                *)

\* What CallsAreServed asks of one call.
Served(c) ==
  \A k \in Keys :
    /\ c.loadOf[k] <= lastLoad
    /\ (c.loadOf[k] # 0 /\ c.loadOf[k] = asked[k]) =>
         \/ entries[k] # None \/ server[k] = None
         \/ loadingEntries[k] = asked[k] /\ asked[k] \in c.waitsFor

\* A key asked for again is no longer the business of earlier calls.
LEMMA StartLoadServes ==
  ASSUME TypeOK, NEW keys \in SUBSET Keys, StartLoad(keys), NEW c \in calls, Served(c)
  PROVE  Served(c)'
  <1>1. /\ lastLoad \in Nat /\ lastLoad' = lastLoad + 1
        /\ UNCHANGED <<server, entries>>
        /\ \A k \in Keys : c.loadOf[k] \in Nat
    BY BoundsAssumption DEF StartLoad, TypeOK, Calls, LoadIds
  <1>2. \A k \in Keys : /\ loadingEntries'[k] = IF k \in keys THEN lastLoad + 1
                                                ELSE loadingEntries[k]
                        /\ asked'[k] = IF k \in keys THEN lastLoad + 1 ELSE asked[k]
    BY DEF StartLoad, Asks, TypeOK
  <1> QED BY <1>1, <1>2 DEF Served

LEMMA NewCallServed ==
  ASSUME TypeOK, LoadsInOrder', NEW keys \in SUBSET Keys, NEW c,
         c = Waiting(keys, loadingEntries'), loadingEntries' \in [Keys -> LoadIds \cup {0}],
         lastLoad' \in Nat
  PROVE  Served(c)'
  <1> SUFFICES ASSUME NEW k \in Keys
               PROVE  /\ c.loadOf[k] <= lastLoad'
                      /\ (c.loadOf[k] # 0 /\ c.loadOf[k] = asked'[k]) =>
                           loadingEntries'[k] = asked'[k] /\ asked'[k] \in c.waitsFor
    BY DEF Served
  <1>1. c.loadOf[k] = IF k \in keys THEN loadingEntries'[k] ELSE 0 BY DEF Waiting
  <1>2. k \in keys => loadingEntries'[k] \in c.waitsFor BY DEF Waiting
  <1>3. loadingEntries'[k] # 0 => /\ loadingEntries'[k] = asked'[k]
                                  /\ asked'[k] <= lastLoad'
    BY DEF LoadsInOrder, Loading
  <1> QED BY <1>1, <1>2, <1>3

LEMMA NextServes ==
  TypeOK /\ LoadsInOrder /\ CallsAreServed /\ AnswersAreCurrent /\ [Next]_vars => CallsAreServed'
  <1> SUFFICES ASSUME TypeOK, LoadsInOrder, AnswersAreCurrent, [Next]_vars,
                      \A c \in calls : Served(c)
               PROVE  \A c \in calls' : Served(c)'
    BY DEF CallsAreServed, Served
  <1> DEFINE Still == UNCHANGED <<server, entries, loadingEntries, lastLoad, asked>>
  <1>1. ASSUME Still, calls' \subseteq calls PROVE \A c \in calls' : Served(c)'
    BY <1>1 DEF Served
  <1>2. ASSUME NEW values \in SUBSET Keys, LoadMissingEntries(values)
        PROVE  \A c \in calls' : Served(c)'
    <2> DEFINE missing == MissingOf(values)
    <2>0. PICK new : new = Waiting(missing, loadingEntries') OBVIOUS
    <2>1. calls' = calls \cup {new} BY <1>2, <2>0 DEF LoadMissingEntries
    <2>2. TypeOK' /\ LoadsInOrder' BY NextTyped, NextOrdered
    <2>3. missing \in SUBSET Keys BY DEF MissingOf
    <2>4. Served(new)'
      <3>1. loadingEntries' \in [Keys -> LoadIds \cup {0}] /\ lastLoad' \in Nat
        BY <2>2, BoundsAssumption DEF TypeOK
      <3> QED BY <2>0, <2>2, <2>3, <3>1, NewCallServed
    <2>5. \A c \in calls : Served(c)'
      <3>1. CASE missing \subseteq Loading
        BY <1>2, <3>1 DEF LoadMissingEntries, Served, cache, history
      <3>2. CASE ~(missing \subseteq Loading)
        <4>1. StartLoad(missing \ Loading) /\ missing \ Loading \in SUBSET Keys
          BY <1>2, <2>3, <3>2 DEF LoadMissingEntries
        <4> QED BY <4>1, StartLoadServes
      <3> QED BY <3>1, <3>2
    <2> QED BY <2>1, <2>4, <2>5
  <1>3. CASE ReloadEntries
    <2>1. StartLoad(Cached \cup Loading) /\ Cached \cup Loading \in SUBSET Keys
      BY <1>3 DEF ReloadEntries, Cached, Loading
    <2>2. calls' = calls BY <1>3 DEF ReloadEntries
    <2> QED BY <2>1, <2>2, StartLoadServes
  <1>4. ASSUME NEW l \in loads, LoadLands(l) PROVE \A c \in calls' : Served(c)'
    <2> SUFFICES ASSUME NEW d \in calls', NEW k \in Keys
                 PROVE  /\ d.loadOf[k] <= lastLoad'
                        /\ (d.loadOf[k] # 0 /\ d.loadOf[k] = asked'[k]) =>
                             \/ entries'[k] # None \/ server'[k] = None
                             \/ loadingEntries'[k] = asked'[k] /\ asked'[k] \in d.waitsFor
      BY DEF Served
    <2>1. PICK c \in calls : d = [c EXCEPT !.waitsFor = @ \ {l.id}]
      BY <1>4 DEF LoadLands
    <2>2. d.loadOf = c.loadOf /\ d.waitsFor = c.waitsFor \ {l.id}
      BY <2>1 DEF TypeOK, Calls
    <2>3. /\ UNCHANGED <<server, lastLoad, asked>> /\ l.stage = "answered"
          /\ entries'[k] = IF k \in Owned(l) /\ l.rows[k] # None THEN l.rows[k] ELSE entries[k]
          /\ loadingEntries'[k] = IF k \in Owned(l) THEN 0 ELSE loadingEntries[k]
      BY <1>4 DEF LoadLands, TakeAnswer, history
    <2>4. CASE k \in Owned(l) BY <2>2, <2>3, <2>4 DEF AnswersAreCurrent, Served
    <2>5. CASE k \notin Owned(l)
      <3>1. loadingEntries[k] # l.id \/ loadingEntries[k] = 0
        BY <2>5 DEF LoadsInOrder, LoadingHasItsLoad, Loading, Owned
      <3>2. l.id # 0 BY DEF TypeOK, Loads, LoadIds
      <3> QED BY <2>2, <2>3, <2>5, <3>1, <3>2 DEF Served
    <2> QED BY <2>4, <2>5
  <1>5. ASSUME NEW l \in loads, LoadFails(l) PROVE \A c \in calls' : Served(c)'
    <2> SUFFICES ASSUME NEW c \in calls, l.id \notin c.waitsFor, NEW k \in Keys
                 PROVE  /\ c.loadOf[k] <= lastLoad'
                        /\ (c.loadOf[k] # 0 /\ c.loadOf[k] = asked'[k]) =>
                             \/ entries'[k] # None \/ server'[k] = None
                             \/ loadingEntries'[k] = asked'[k] /\ asked'[k] \in c.waitsFor
      BY <1>5 DEF LoadFails, Served
    <2>1. /\ UNCHANGED <<server, entries, lastLoad, asked>>
          /\ loadingEntries'[k] = IF k \in Owned(l) THEN 0 ELSE loadingEntries[k]
      BY <1>5 DEF LoadFails, TakeAnswer
    <2> QED BY <2>1 DEF Served, Owned
  <1>6. ASSUME NEW l \in loads, ServerReads(l) PROVE \A c \in calls' : Served(c)'
    BY <1>1, <1>6 DEF ServerReads, cache, history
  <1>7. ASSUME NEW c \in calls, CallReturns(c) PROVE \A d \in calls' : Served(d)'
    BY <1>1, <1>7 DEF CallReturns, cache, history
  <1>8. ASSUME NEW r \in Keys, RowEdited(r) \/ RowDeleted(r)
        PROVE  \A c \in calls' : Served(c)'
    <2>1. UNCHANGED <<entries, loadingEntries, lastLoad, calls, asked>>
      BY <1>8 DEF RowEdited, RowDeleted, cache, history
    <2>2. \A k \in Keys : server[k] = None => server'[k] = None
      BY <1>8 DEF RowEdited, RowDeleted, TypeOK, Answers
    <2> QED BY <2>1, <2>2 DEF Served
  <1>9. CASE UNCHANGED vars BY <1>1, <1>9 DEF vars, cache, history
  <1> QED BY <1>2, <1>3, <1>4, <1>5, <1>6, <1>7, <1>8, <1>9 DEF Next

--------------------------------------------------------------------------------
(* The properties.                                                           *)

LEMMA NextInvariant == ValuesInvariant /\ [Next]_vars => ValuesInvariant'
  BY NextTyped, NextOrdered, NextCurrent, NextServes DEF ValuesInvariant, Ordered

LEMMA ValuesInOrder == Spec => []ValuesInvariant
  BY InitValues, NextInvariant, PTL DEF Spec

\* No key stays marked as loading after its request was answered, so every key
\* can be asked for again.
THEOREM LoadingKeysHaveLoads == Spec => []LoadingHasItsLoad
  <1>1. ValuesInvariant => LoadingHasItsLoad BY DEF ValuesInvariant, LoadsInOrder
  <1> QED BY <1>1, ValuesInOrder, PTL

\* A reload after an edit is not undone by the answer to an older request.
THEOREM EntriesAreFreshAsAsked == Spec => []FreshAsAsked
  <1>1. ValuesInvariant => FreshAsAsked BY DEF ValuesInvariant
  <1> QED BY <1>1, ValuesInOrder, PTL

\* A call that returns has the entries it waited for.
THEOREM CallsFindTheirEntries == Spec => []CallFindsEntries
  <1>1. ValuesInvariant => CallFindsEntries
    BY DEF ValuesInvariant, CallsAreServed, CallFindsEntries, Returned
  <1> QED BY <1>1, ValuesInOrder, PTL

\* Labels never disappear and never go back, in whatever order answers arrive.
THEOREM EntriesOnlyGoForward == Spec => EntriesGoForward
  <1>1. ValuesInvariant /\ [Next]_vars => [GoesForward]_vars
    BY NextCurrent DEF ValuesInvariant, Ordered
  <1> QED BY <1>1, ValuesInOrder, PTL DEF Spec, EntriesGoForward

--------------------------------------------------------------------------------
\* The order names no scope twice.
OrderIsInjective ==
  \A i, j \in DOMAIN order : order[i] = order[j] => i = j

\* Searches are told from each other by their number, and none comes from later.
SearchesAreKnown ==
  /\ \A q \in searches : q.id <= lastSearch /\ q.marks <= staleMarks
  /\ \A p, q \in searches : p.id = q.id => p = q
  /\ \A s \in Scopes : PageCached(s) => pages[s].sentAs <= lastSearch
  /\ \A r \in Requests : loading[r] <= lastSearch

\* A search that counts as fresh read the rows after the latest mark.
FreshReadsAreLate ==
  /\ editsMarked <= edits
  /\ \A q \in searches : Fresh(q) /\ q.stage = "answered" => q.read >= editsMarked

\* The search of the latest request of a scope is the newest one of that scope,
\* of those that are out and those that are trusted.
LatestIsNewest ==
  \A q \in searches :
    Fresh(q) /\ latest[ScopeOf[q.request]] = q.request =>
      /\ \A p \in searches :
           Fresh(p) /\ ScopeOf[p.request] = ScopeOf[q.request] => p.id <= q.id
      /\ Trusted(ScopeOf[q.request]) => pages[ScopeOf[q.request]].sentAs <= q.id

SearchesInvariant ==
  /\ SearchTypeOK
  /\ OrderIsInjective
  /\ CacheIsBounded
  /\ SearchesAreKnown
  /\ FreshReadsAreLate
  /\ ServedIsFresh
  /\ LatestIsNewest

(***************************************************************************)
(* Storing a page.                                                         *)
(***************************************************************************)

\* The order after a page was stored: no scope twice, within the limit, and what
\* was dropped is exactly what is no longer in it.
StoredWell(s, stored, n, kept) ==
  /\ kept \in Seq(Scopes) /\ Len(kept) <= MaxCachedSearches
  /\ \A i, j \in DOMAIN kept : kept[i] = kept[j] => i = j
  /\ \A t \in Scopes :
       (\E i \in DOMAIN kept : kept[i] = t) <=>
          /\ \E i \in DOMAIN stored : stored[i] = t
          /\ ~ \E i \in 1 .. n : stored[i] = t
  /\ \A t \in Scopes : (\E i \in DOMAIN stored : stored[i] = t) <=> PageCached(t) \/ t = s

LEMMA Stored ==
  ASSUME SearchTypeOK, OrderIsInjective, NEW s \in Scopes,
         NEW stored, stored = OrderWith(s),
         NEW n, n = Excess(stored),
         NEW kept, kept = SubSeq(stored, n + 1, Len(stored))
  PROVE  StoredWell(s, stored, n, kept)
<1>1. /\ stored \in Seq(Scopes)
      /\ \A i, j \in DOMAIN stored : stored[i] = stored[j] => i = j
      /\ \A t \in Scopes : (\E i \in DOMAIN stored : stored[i] = t) <=> PageCached(t) \/ t = s
  <2>1. CASE PageCached(s)
    BY <2>1 DEF OrderWith, SearchTypeOK, OrderIsInjective, PageCached
  <2>2. CASE ~PageCached(s)
    <3>1. stored = Append(order, s) /\ order \in Seq(Scopes)
      BY <2>2 DEF OrderWith, SearchTypeOK
    <3>2. /\ stored \in Seq(Scopes) /\ Len(stored) = Len(order) + 1
          /\ DOMAIN stored = 1 .. Len(order) + 1 /\ DOMAIN order = 1 .. Len(order)
          /\ \A i \in 1 .. Len(order) : stored[i] = order[i]
          /\ stored[Len(order) + 1] = s
      BY <3>1
    <3>3. Len(order) \in Nat
      BY <3>1
    <3>4. \A i \in 1 .. Len(order) : order[i] # s
      BY <2>2, <3>2 DEF SearchTypeOK, PageCached
    <3>5. \A i, j \in DOMAIN stored : stored[i] = stored[j] => i = j
      BY <3>2, <3>3, <3>4 DEF OrderIsInjective
    <3>6. \A t \in Scopes : (\E i \in DOMAIN stored : stored[i] = t) <=> PageCached(t) \/ t = s
      <4>1. \A t \in Scopes : (\E i \in DOMAIN order : order[i] = t) <=> PageCached(t)
        BY DEF SearchTypeOK, PageCached
      <4>2. 1 .. Len(order) + 1 = 1 .. Len(order) \cup {Len(order) + 1}
        BY <3>3
      <4> QED BY <3>2, <4>1, <4>2
    <3> QED BY <3>2, <3>5, <3>6
  <2> QED BY <2>1, <2>2
<1>2. Len(stored) \in Nat /\ DOMAIN stored = 1 .. Len(stored)
  BY <1>1
<1>3. /\ n \in 0 .. Len(stored) /\ Len(stored) - n <= MaxCachedSearches
  <2>1. MaxCachedSearches \in Nat
    BY CacheAssumption
  <2>2. CASE Len(stored) > MaxCachedSearches
    BY <1>2, <2>1, <2>2 DEF Excess
  <2>3. CASE ~(Len(stored) > MaxCachedSearches)
    BY <1>2, <2>1, <2>3 DEF Excess
  <2> QED BY <2>2, <2>3
<1>4. /\ kept \in Seq(Scopes) /\ Len(kept) = Len(stored) - n
      /\ \A i \in 1 .. Len(kept) : kept[i] = stored[n + i]
  <2>1. n + 1 \in Int /\ Len(stored) \in Int /\ n \in Nat
    BY <1>2, <1>3
  <2>2. \A i \in n + 1 .. Len(stored) : stored[i] \in Scopes
    BY <1>1, <1>2, <1>3
  <2>3. /\ kept \in Seq(Scopes)
        /\ Len(kept) = IF n + 1 <= Len(stored) THEN Len(stored) - (n + 1) + 1 ELSE 0
        /\ \A i \in 1 .. Len(stored) - (n + 1) + 1 : kept[i] = stored[n + 1 + i - 1]
    BY <2>1, <2>2, SubSeqProperties
  <2>4. Len(kept) = Len(stored) - n
    BY <2>3, <1>2, <1>3
  <2> QED BY <2>3, <2>4, <1>2, <1>3
<1>5. DOMAIN kept = 1 .. (Len(stored) - n)
  BY <1>4
<1>6. ASSUME NEW i \in DOMAIN kept
      PROVE  n + i \in DOMAIN stored /\ kept[i] = stored[n + i] /\ i \in Nat
  BY <1>2, <1>3, <1>4, <1>5
<1>8. \A i, j \in DOMAIN kept : kept[i] = kept[j] => i = j
  <2> SUFFICES ASSUME NEW i \in DOMAIN kept, NEW j \in DOMAIN kept, kept[i] = kept[j]
               PROVE  i = j
    OBVIOUS
  <2>1. stored[n + i] = stored[n + j] /\ n + i \in DOMAIN stored /\ n + j \in DOMAIN stored
    BY <1>6
  <2>2. n + i = n + j
    BY <1>1, <2>1
  <2>3. i \in Nat /\ j \in Nat /\ n \in Nat
    BY <1>3, <1>6
  <2> QED BY <2>2, <2>3
<1>7. ASSUME NEW t \in Scopes
      PROVE  (\E i \in DOMAIN kept : kept[i] = t) <=>
                 /\ \E i \in DOMAIN stored : stored[i] = t
                 /\ ~ \E i \in 1 .. n : stored[i] = t
  <2>1. ASSUME NEW i \in DOMAIN kept, kept[i] = t
        PROVE  n + i \in DOMAIN stored /\ stored[n + i] = t
    BY <2>1, <1>6
  <2>2. ASSUME NEW i \in DOMAIN kept, kept[i] = t, NEW j \in 1 .. n, stored[j] = t
        PROVE  FALSE
    <3>1. j \in DOMAIN stored
      BY <1>2, <1>3
    <3>2. stored[n + i] = stored[j] /\ n + i \in DOMAIN stored
      BY <1>6, <2>2
    <3>3. n + i = j
      BY <3>1, <3>2, <1>1
    <3>4. i \in Nat \ {0} /\ n \in Nat /\ j \in 1 .. n
      BY <1>3, <1>2, <1>5
    <3> QED BY <3>3, <3>4
  <2>3. ASSUME NEW i \in DOMAIN stored, stored[i] = t, i \notin 1 .. n
        PROVE  i - n \in DOMAIN kept /\ kept[i - n] = t
    <3>1. i - n \in DOMAIN kept
      BY <2>3, <1>2, <1>3, <1>5
    <3>2. kept[i - n] = stored[n + (i - n)]
      BY <3>1, <1>6
    <3>3. n + (i - n) = i
      BY <1>2, <1>3
    <3> QED BY <2>3, <3>1, <3>2, <3>3
  <2> QED BY <2>1, <2>2, <2>3
<1>9. Len(kept) <= MaxCachedSearches
  BY <1>3, <1>4
<1> QED BY <1>1, <1>4, <1>7, <1>8, <1>9 DEF StoredWell

(***************************************************************************)
(* Every step preserves the invariant.                                     *)
(***************************************************************************)

LEMMA InitInv == SearchInit => SearchesInvariant
  BY ScopeAssumption, CacheAssumption, BoundAssumption, MarkAssumption
  DEF SearchInit, SearchesInvariant, SearchTypeOK, OrderIsInjective, CacheIsBounded, SearchesAreKnown,
      FreshReadsAreLate, ServedIsFresh, LatestIsNewest, PageCached, Trusted

\* A request that is sent has no search out that is fresh, so the new search is the
\* only one it waits for; it is the newest of its scope.
LEMMA LoadInv == ASSUME SearchesInvariant, NEW r \in Requests, LoadSearchResults(r) PROVE SearchesInvariant'
<1> DEFINE new == [id |-> lastSearch + 1, request |-> r, marks |-> staleMarks,
                   stage |-> "sent", read |-> 0]
<1>1. SearchTypeOK /\ SearchesAreKnown /\ ServedIsFresh /\ LatestIsNewest
  BY DEF SearchesInvariant
<1>2. /\ UNCHANGED <<pages, order, staleMarks, edits, editsMarked>>
      /\ lastSearch < MaxSearches /\ lastSearch' = lastSearch + 1 /\ loading[r] = 0
      /\ loading' = [loading EXCEPT ![r] = lastSearch + 1]
      /\ latest' = [latest EXCEPT ![ScopeOf[r]] = r]
      /\ searches' = searches \cup {new}
  BY DEF LoadSearchResults
<1>3. ScopeOf[r] \in Scopes /\ lastSearch \in Nat /\ MaxSearches \in Nat
  BY <1>1, ScopeAssumption, BoundAssumption DEF SearchTypeOK
<1>4. lastSearch + 1 \in 1 .. MaxSearches
  BY <1>2, <1>3
<1>5. new \in Searches
  BY <1>1, <1>4 DEF SearchTypeOK, Searches
<1>6. SearchTypeOK'
  BY <1>1, <1>2, <1>3, <1>4, <1>5 DEF SearchTypeOK
<1>7. /\ new.id = lastSearch + 1 /\ new.request = r /\ new.marks = staleMarks
      /\ new.stage = "sent"
  OBVIOUS
<1> HIDE DEF new
<1>8. \A q \in searches : Fresh(q) => q.request # r
  <2>1. \A q \in searches : Fresh(q) => loading[q.request] = q.id
    BY <1>1 DEF ServedIsFresh
  <2>2. \A q \in searches : q.id # 0
    BY <1>1 DEF SearchTypeOK, Searches
  <2> QED BY <2>1, <2>2, <1>2
<1>9. SearchesAreKnown'
  <2>1. \A q \in searches : q.id \in Nat /\ q.marks \in Nat /\ q.id <= lastSearch
    BY <1>1, <1>3 DEF SearchTypeOK, Searches, SearchesAreKnown
  <2>2. \A q \in searches' : q.id <= lastSearch' /\ q.marks <= staleMarks'
    BY <1>1, <1>2, <1>3, <1>7, <2>1 DEF SearchesAreKnown, SearchTypeOK
  <2>3. \A p, q \in searches' : p.id = q.id => p = q
    BY <1>1, <1>2, <1>3, <1>7, <2>1 DEF SearchesAreKnown
  <2>4. \A s \in Scopes : PageCached(s)' => pages'[s].sentAs <= lastSearch'
    BY <1>1, <1>2, <1>3 DEF SearchesAreKnown, PageCached, SearchTypeOK, Pages
  <2>5. \A t \in Requests : loading'[t] <= lastSearch'
    BY <1>1, <1>2, <1>3 DEF SearchesAreKnown, SearchTypeOK
  <2> QED BY <2>2, <2>3, <2>4, <2>5 DEF SearchesAreKnown
<1>10. ServedIsFresh'
  <2>1. \A s \in Scopes : Trusted(s)' => pages'[s].read >= editsMarked'
    BY <1>1, <1>2 DEF ServedIsFresh, Trusted, PageCached
  <2>2. \A t \in Requests : loading'[t] # 0 =>
          \E q \in searches' : q.id = loading'[t] /\ q.request = t /\ Fresh(q)'
    <3>1. ASSUME NEW t \in Requests, t # r, loading'[t] # 0
          PROVE  \E q \in searches' : q.id = loading'[t] /\ q.request = t /\ Fresh(q)'
      <4>1. loading'[t] = loading[t]
        BY <1>1, <1>2, <3>1 DEF SearchTypeOK
      <4>2. PICK q \in searches : q.id = loading[t] /\ q.request = t /\ Fresh(q)
        BY <1>1, <3>1, <4>1 DEF ServedIsFresh
      <4> QED BY <1>2, <4>1, <4>2 DEF Fresh
    <3>2. loading'[r] = new.id /\ new \in searches' /\ new.marks = staleMarks'
      BY <1>1, <1>2, <1>7 DEF SearchTypeOK
    <3> QED BY <3>1, <3>2, <1>7 DEF Fresh
  <2>3. \A q \in searches' : Fresh(q)' => loading'[q.request] = q.id
    <3>1. ASSUME NEW q \in searches, Fresh(q)'
          PROVE  loading'[q.request] = q.id
      <4>1. Fresh(q) /\ q.request # r /\ q.request \in Requests
        BY <1>1, <1>2, <1>8, <3>1 DEF Fresh, SearchTypeOK, Searches
      <4> QED BY <1>1, <1>2, <4>1 DEF ServedIsFresh, SearchTypeOK
    <3>2. loading'[new.request] = new.id
      BY <1>1, <1>2, <1>7 DEF SearchTypeOK
    <3> QED BY <1>2, <3>1, <3>2
  <2> QED BY <2>1, <2>2, <2>3 DEF ServedIsFresh
<1>11. LatestIsNewest'
  <2> SUFFICES ASSUME NEW q \in searches', Fresh(q)',
                      latest'[ScopeOf[q.request]] = q.request
               PROVE  /\ \A p \in searches' :
                           Fresh(p)' /\ ScopeOf[p.request] = ScopeOf[q.request] => p.id <= q.id
                      /\ Trusted(ScopeOf[q.request])' =>
                           pages'[ScopeOf[q.request]].sentAs <= q.id
    BY DEF LatestIsNewest
  <2>1. CASE q = new
    <3>1. \A p \in searches : p.id <= lastSearch /\ p.id \in Nat
      BY <1>1, <1>3 DEF SearchesAreKnown, SearchTypeOK, Searches
    <3>2. \A p \in searches' : p.id <= q.id
      BY <1>2, <1>3, <1>7, <2>1, <3>1
    <3>3. Trusted(ScopeOf[q.request])' => pages'[ScopeOf[q.request]].sentAs <= q.id
      <4>1. ScopeOf[q.request] = ScopeOf[r]
        BY <2>1, <1>7
      <4>2. PageCached(ScopeOf[r]) => /\ pages[ScopeOf[r]].sentAs <= lastSearch
                                      /\ pages[ScopeOf[r]].sentAs \in Nat
        BY <1>1, <1>3 DEF SearchesAreKnown, SearchTypeOK, Pages, PageCached
      <4> QED BY <1>2, <1>3, <1>7, <2>1, <4>1, <4>2 DEF Trusted, PageCached
    <3> QED BY <3>2, <3>3
  <2>2. CASE q # new
    <3>1. q \in searches /\ Fresh(q) /\ q.request # r /\ q.request \in Requests
      BY <1>1, <1>2, <1>8, <2>2 DEF Fresh, SearchTypeOK, Searches
    <3>2. ScopeOf[q.request] # ScopeOf[r]
      BY <1>1, <1>2, <1>3, <3>1 DEF SearchTypeOK
    <3>3. latest[ScopeOf[q.request]] = q.request
      BY <1>1, <1>2, <3>1, <3>2, ScopeAssumption DEF SearchTypeOK
    <3> QED BY <1>1, <1>2, <1>7, <3>1, <3>2, <3>3
            DEF LatestIsNewest, Fresh, Trusted, PageCached
  <2> QED BY <2>1, <2>2
<1>12. OrderIsInjective' /\ CacheIsBounded' /\ FreshReadsAreLate'
  <2>1. OrderIsInjective' /\ CacheIsBounded'
    BY <1>2 DEF SearchesInvariant, OrderIsInjective, CacheIsBounded
  <2>2. \A q \in searches' : Fresh(q)' /\ q.stage = "answered" => q.read >= editsMarked'
    BY <1>2, <1>7 DEF SearchesInvariant, FreshReadsAreLate, Fresh
  <2> QED BY <2>1, <2>2, <1>2 DEF SearchesInvariant, FreshReadsAreLate
<1> QED BY <1>6, <1>9, <1>10, <1>11, <1>12 DEF SearchesInvariant

\* After a mark nothing is trusted, waited for or fresh.
LEMMA MarkInv == ASSUME SearchesInvariant, MarkSearchesStale PROVE SearchesInvariant'
<1>1. SearchTypeOK /\ SearchesAreKnown /\ FreshReadsAreLate
  BY DEF SearchesInvariant
<1>2. /\ UNCHANGED <<order, latest, searches, lastSearch, edits>>
      /\ pages' = Distrusted /\ loading' = [r \in Requests |-> 0]
      /\ staleMarks' = staleMarks + 1 /\ editsMarked' = edits
  BY DEF MarkSearchesStale
<1>3. /\ \A s \in Scopes : ~PageCached(s) => pages'[s] = NoPage
      /\ \A s \in Scopes : PageCached(s) => pages'[s] = [pages[s] EXCEPT !.requestKey = NoRequest]
      /\ pages' = [s \in Scopes |-> pages'[s]]
  BY <1>2 DEF Distrusted
<1>4. \A s \in Scopes : PageCached(s) =>
        /\ pages[s] \in Pages /\ pages'[s] \in Pages
        /\ pages'[s].requestKey = NoRequest /\ pages'[s].sentAs = pages[s].sentAs
  <2> SUFFICES ASSUME NEW s \in Scopes, PageCached(s)
               PROVE  /\ pages[s] \in Pages /\ pages'[s] \in Pages
                      /\ pages'[s].requestKey = NoRequest /\ pages'[s].sentAs = pages[s].sentAs
    OBVIOUS
  <2>1. pages[s] \in Pages
    BY <1>1 DEF SearchTypeOK, PageCached
  <2>2. pages'[s] = [pages[s] EXCEPT !.requestKey = NoRequest]
    BY <1>3
  <2> QED BY <2>1, <2>2 DEF Pages
<1>5. \A s \in Scopes : (pages'[s] # NoPage <=> PageCached(s)) /\ ~Trusted(s)'
  BY <1>3, <1>4, MarkAssumption DEF PageCached, Trusted
<1>6. \A q \in searches' : ~Fresh(q)'
  BY <1>1, <1>2 DEF Fresh, SearchesAreKnown, SearchTypeOK, Searches
<1>7. SearchTypeOK'
  <2>1. pages' \in [Scopes -> Pages \cup {NoPage}]
    BY <1>3, <1>4
  <2>2. \A s \in Scopes : pages'[s] # NoPage <=> \E i \in DOMAIN order' : order'[i] = s
    BY <1>1, <1>2, <1>5 DEF SearchTypeOK, PageCached
  <2>3. loading' \in [Requests -> 0 .. MaxSearches]
    BY <1>2, BoundAssumption
  <2> QED BY <1>1, <1>2, <2>1, <2>2, <2>3 DEF SearchTypeOK
<1>8. SearchesAreKnown'
  <2>1. \A q \in searches' : q.id <= lastSearch' /\ q.marks <= staleMarks'
    BY <1>1, <1>2 DEF SearchesAreKnown, SearchTypeOK, Searches
  <2>2. \A s \in Scopes : PageCached(s)' => pages'[s].sentAs <= lastSearch'
    BY <1>1, <1>2, <1>4, <1>5 DEF SearchesAreKnown, PageCached
  <2>3. \A t \in Requests : loading'[t] <= lastSearch'
    BY <1>1, <1>2 DEF SearchTypeOK
  <2> QED BY <1>1, <1>2, <2>1, <2>2, <2>3 DEF SearchesAreKnown
<1>9. OrderIsInjective' /\ CacheIsBounded'
  BY <1>2 DEF SearchesInvariant, OrderIsInjective, CacheIsBounded
<1>10. ServedIsFresh' /\ LatestIsNewest' /\ FreshReadsAreLate'
  <2>1. ServedIsFresh'
    BY <1>2, <1>5, <1>6 DEF ServedIsFresh
  <2>2. LatestIsNewest'
    BY <1>6 DEF LatestIsNewest
  <2>3. editsMarked' <= edits'
    BY <1>1, <1>2 DEF SearchTypeOK
  <2> QED BY <1>6, <2>1, <2>2, <2>3 DEF FreshReadsAreLate
<1> QED BY <1>7, <1>8, <1>9, <1>10 DEF SearchesInvariant

\* An answer that is taken goes, and the request that waited for it, if it did, no
\* longer waits; pages are the old ones, none, or the page of the answer.
LEMMA AnswerInv ==
  ASSUME SearchesInvariant, NEW q \in searches, TakeSearch(q), q.stage = "answered" \/ pages' = pages,
         NEW S \in Scopes, S = ScopeOf[q.request],
         pages' \in [Scopes -> Pages \cup {NoPage}],
         \A s \in Scopes : \/ pages'[s] = pages[s]
                           \/ pages'[s] = NoPage
                           \/ s = S /\ pages'[s] = PageOf(q),
         order' \in Seq(Scopes),
         \A s \in Scopes : pages'[s] # NoPage <=> \E i \in DOMAIN order' : order'[i] = s,
         OrderIsInjective', CacheIsBounded'
  PROVE  SearchesInvariant'
<1>1. SearchTypeOK /\ SearchesAreKnown /\ FreshReadsAreLate /\ ServedIsFresh /\ LatestIsNewest
  BY DEF SearchesInvariant
<1>2. /\ UNCHANGED <<latest, staleMarks, lastSearch, edits, editsMarked>>
      /\ searches' = searches \ {q} /\ loading' = Released(q)
  BY DEF TakeSearch
<1>3. q \in Searches /\ q.request \in Requests /\ q.id \in 1 .. MaxSearches /\ q.id \in Nat
  BY <1>1 DEF SearchTypeOK, Searches
<1>4. Fresh(q) => loading[q.request] = q.id
  BY <1>1 DEF ServedIsFresh
<1>5. \A r \in Requests : loading'[r] = IF Fresh(q) /\ r = q.request THEN 0 ELSE loading[r]
  BY <1>1, <1>2, <1>3 DEF Released, SearchTypeOK
<1>6. /\ PageOf(q).sentAs = q.id /\ PageOf(q).read = q.read
      /\ PageOf(q).requestKey = IF Fresh(q) THEN q.request ELSE NoRequest
  BY DEF PageOf
<1>7. SearchTypeOK'
  <2>1. loading' \in [Requests -> 0 .. MaxSearches]
    <3>1. 0 \in 0 .. MaxSearches
      BY BoundAssumption
    <3> QED BY <1>1, <1>2, <1>3, <3>1 DEF Released, SearchTypeOK
  <2> QED BY <1>1, <1>2, <2>1 DEF SearchTypeOK
<1>8. SearchesAreKnown'
  <2>1. \A s \in Scopes : PageCached(s)' => pages'[s].sentAs <= lastSearch'
    BY <1>1, <1>2, <1>6 DEF SearchesAreKnown, PageCached
  <2>2. \A t \in Requests : loading'[t] <= lastSearch'
    BY <1>1, <1>2, <1>5 DEF SearchesAreKnown, SearchTypeOK
  <2> QED BY <1>1, <1>2, <2>1, <2>2 DEF SearchesAreKnown
<1>9. FreshReadsAreLate'
  BY <1>1, <1>2 DEF FreshReadsAreLate, Fresh
<1>10. ServedIsFresh'
  <2>1. \A s \in Scopes : Trusted(s)' => pages'[s].read >= editsMarked'
    <3> SUFFICES ASSUME NEW s \in Scopes, Trusted(s)'
                 PROVE  pages'[s].read >= editsMarked'
      OBVIOUS
    <3>1. CASE pages'[s] = pages[s]
      BY <1>1, <1>2, <3>1 DEF ServedIsFresh, Trusted, PageCached
    <3>2. CASE pages'[s] # pages[s]
      <4>1. pages'[s] = PageOf(q) /\ q.stage = "answered"
        BY <3>2 DEF Trusted, PageCached
      <4>2. Fresh(q)
        BY <4>1, <1>6 DEF Trusted
      <4> QED BY <1>1, <1>2, <1>6, <4>1, <4>2 DEF FreshReadsAreLate
    <3> QED BY <3>1, <3>2
  <2>2. \A t \in Requests : loading'[t] # 0 =>
          \E p \in searches' : p.id = loading'[t] /\ p.request = t /\ Fresh(p)'
    <3> SUFFICES ASSUME NEW t \in Requests, loading'[t] # 0
                 PROVE  \E p \in searches' : p.id = loading'[t] /\ p.request = t /\ Fresh(p)'
      OBVIOUS
    <3>1. loading'[t] = loading[t] /\ ~(Fresh(q) /\ t = q.request)
      BY <1>5
    <3>2. PICK p \in searches : p.id = loading[t] /\ p.request = t /\ Fresh(p)
      BY <1>1, <3>1 DEF ServedIsFresh
    <3>3. p # q
      BY <3>1, <3>2
    <3> QED BY <1>2, <3>1, <3>2, <3>3 DEF Fresh
  <2>3. \A p \in searches' : Fresh(p)' => loading'[p.request] = p.id
    <3> SUFFICES ASSUME NEW p \in searches', Fresh(p)'
                 PROVE  loading'[p.request] = p.id
      OBVIOUS
    <3>1. p \in searches /\ p # q /\ Fresh(p) /\ p.request \in Requests
      BY <1>1, <1>2 DEF Fresh, SearchTypeOK, Searches
    <3>2. loading[p.request] = p.id
      BY <1>1, <3>1 DEF ServedIsFresh
    <3>3. ~(Fresh(q) /\ p.request = q.request)
      BY <1>1, <1>4, <3>1, <3>2 DEF SearchesAreKnown
    <3> QED BY <1>5, <3>1, <3>2, <3>3
  <2> QED BY <2>1, <2>2, <2>3 DEF ServedIsFresh
<1>11. LatestIsNewest'
  <2> SUFFICES ASSUME NEW p \in searches', Fresh(p)',
                      latest'[ScopeOf[p.request]] = p.request
               PROVE  /\ \A o \in searches' :
                           Fresh(o)' /\ ScopeOf[o.request] = ScopeOf[p.request] => o.id <= p.id
                      /\ Trusted(ScopeOf[p.request])' =>
                           pages'[ScopeOf[p.request]].sentAs <= p.id
    BY DEF LatestIsNewest
  <2>1. p \in searches /\ Fresh(p) /\ latest[ScopeOf[p.request]] = p.request
    BY <1>2 DEF Fresh
  <2>2. ScopeOf[p.request] \in Scopes
    BY <1>1, <2>1, ScopeAssumption DEF SearchTypeOK, Searches
  <2>3. /\ \A o \in searches : Fresh(o) /\ ScopeOf[o.request] = ScopeOf[p.request] => o.id <= p.id
        /\ Trusted(ScopeOf[p.request]) => pages[ScopeOf[p.request]].sentAs <= p.id
    BY <1>1, <2>1 DEF LatestIsNewest
  <2>4. \A o \in searches' :
          Fresh(o)' /\ ScopeOf[o.request] = ScopeOf[p.request] => o.id <= p.id
    BY <1>2, <2>3 DEF Fresh
  <2>5. Trusted(ScopeOf[p.request])' => pages'[ScopeOf[p.request]].sentAs <= p.id
    <3> SUFFICES ASSUME Trusted(ScopeOf[p.request])'
                 PROVE  pages'[ScopeOf[p.request]].sentAs <= p.id
      OBVIOUS
    <3>1. CASE pages'[ScopeOf[p.request]] = pages[ScopeOf[p.request]]
      BY <2>3, <3>1 DEF Trusted, PageCached
    <3>2. CASE pages'[ScopeOf[p.request]] # pages[ScopeOf[p.request]]
      <4>1. pages'[S] = PageOf(q) /\ ScopeOf[p.request] = S
        BY <2>2, <3>2 DEF Trusted, PageCached
      <4>2. Fresh(q)
        BY <4>1, <1>6 DEF Trusted
      <4> QED BY <1>6, <2>3, <4>1, <4>2
    <3> QED BY <3>1, <3>2
  <2> QED BY <2>4, <2>5
<1> QED BY <1>7, <1>8, <1>9, <1>10, <1>11 DEF SearchesInvariant

LEMMA LandsInv == ASSUME SearchesInvariant, NEW q \in searches, SearchLands(q) PROVE SearchesInvariant'
<1> DEFINE S == ScopeOf[q.request]
           stored == OrderWith(S)
           n == Excess(stored)
           kept == SubSeq(stored, n + 1, Len(stored))
<1>1. SearchTypeOK /\ OrderIsInjective /\ CacheIsBounded
  BY DEF SearchesInvariant
<1>2. q \in Searches /\ S \in Scopes /\ TakeSearch(q) /\ q.stage = "answered"
  BY <1>1, ScopeAssumption DEF SearchLands, SearchTypeOK, Searches
<1>3. CASE ~Replaces(q)
  <2>1. pages' = pages /\ order' = order
    BY <1>3 DEF SearchLands
  <2>2. OrderIsInjective' /\ CacheIsBounded'
    BY <1>1, <2>1 DEF OrderIsInjective, CacheIsBounded
  <2> QED BY <1>1, <1>2, <2>1, <2>2, AnswerInv DEF SearchTypeOK
<1>4. CASE Replaces(q)
  <2>1. /\ order' = kept
        /\ pages' = [t \in Scopes |-> IF t \in {stored[i] : i \in 1 .. n} THEN NoPage
                                      ELSE IF t = S THEN PageOf(q) ELSE pages[t]]
    BY <1>4 DEF SearchLands, StorePage
  <2>2. /\ kept \in Seq(Scopes) /\ Len(kept) <= MaxCachedSearches
        /\ \A i, j \in DOMAIN kept : kept[i] = kept[j] => i = j
        /\ \A t \in Scopes :
             (\E i \in DOMAIN kept : kept[i] = t) <=>
                /\ \E i \in DOMAIN stored : stored[i] = t
                /\ ~ \E i \in 1 .. n : stored[i] = t
        /\ \A t \in Scopes : (\E i \in DOMAIN stored : stored[i] = t) <=> PageCached(t) \/ t = S
    <3>1. stored = OrderWith(S) /\ n = Excess(stored) /\ kept = SubSeq(stored, n + 1, Len(stored))
      OBVIOUS
    <3> HIDE DEF S, stored, n, kept
    <3>2. StoredWell(S, stored, n, kept)
      BY <1>1, <1>2, <3>1, Stored
    <3> QED BY <3>2 DEF StoredWell
  <2>3. PageOf(q) \in Pages /\ PageOf(q) # NoPage
    <3>1. PageOf(q) \in Pages
      BY <1>2 DEF PageOf, Pages, Searches
    <3> QED BY <3>1, MarkAssumption
  <2> DEFINE gone(t) == \E i \in 1 .. n : stored[i] = t
  <2>4. \A t \in Scopes : pages'[t] = IF gone(t) THEN NoPage
                                      ELSE IF t = S THEN PageOf(q) ELSE pages[t]
    BY <2>1
  <2>5. pages' \in [Scopes -> Pages \cup {NoPage}]
    <3>1. \A t \in Scopes : pages'[t] \in Pages \cup {NoPage}
      BY <1>1, <2>3, <2>4 DEF SearchTypeOK
    <3>2. pages' = [t \in Scopes |-> pages'[t]]
      BY <2>1
    <3> QED BY <3>1, <3>2
  <2>6. \A t \in Scopes : pages'[t] # NoPage <=> \E i \in DOMAIN kept : kept[i] = t
    <3> HIDE DEF stored, n, kept
    <3> QED BY <2>2, <2>3, <2>4 DEF PageCached
  <2>7. OrderIsInjective' /\ CacheIsBounded'
    BY <2>1, <2>2 DEF OrderIsInjective, CacheIsBounded
  <2>8. \A t \in Scopes : \/ pages'[t] = pages[t]
                          \/ pages'[t] = NoPage
                          \/ t = S /\ pages'[t] = PageOf(q)
    BY <2>4
  <2> HIDE DEF kept, S
  <2> QED BY <1>2, <2>1, <2>2, <2>5, <2>6, <2>7, <2>8, AnswerInv DEF S
<1> QED BY <1>3, <1>4

LEMMA FailsInv == ASSUME SearchesInvariant, NEW q \in searches, SearchFails(q) PROVE SearchesInvariant'
<1>1. SearchTypeOK /\ OrderIsInjective /\ CacheIsBounded
  BY DEF SearchesInvariant
<1>2. TakeSearch(q) /\ pages' = pages /\ order' = order
  BY DEF SearchFails
<1>3. ScopeOf[q.request] \in Scopes
  BY <1>1, ScopeAssumption DEF SearchTypeOK, Searches
<1>4. OrderIsInjective' /\ CacheIsBounded'
  BY <1>1, <1>2 DEF OrderIsInjective, CacheIsBounded
<1> QED BY <1>1, <1>2, <1>3, <1>4, AnswerInv DEF SearchTypeOK

\* The server answers: the search keeps its number, its request and its mark.
LEMMA ReadsInv == ASSUME SearchesInvariant, NEW q \in searches, ServerSearches(q) PROVE SearchesInvariant'
<1>1. SearchTypeOK /\ SearchesAreKnown /\ FreshReadsAreLate /\ ServedIsFresh /\ LatestIsNewest
  BY DEF SearchesInvariant
<1>2. PICK a \in {[q EXCEPT !.stage = "answered", !.read = edits],
                  [q EXCEPT !.stage = "failed"]} :
        searches' = (searches \ {q}) \cup {a}
  BY DEF ServerSearches
<1>3. UNCHANGED <<pages, order, loading, latest, staleMarks, lastSearch, edits, editsMarked>>
  BY DEF ServerSearches, cacheVars
<1>4. q \in Searches
  BY <1>1 DEF SearchTypeOK
<1>5. /\ a \in Searches /\ a.id = q.id /\ a.request = q.request /\ a.marks = q.marks
      /\ a.stage = "answered" => a.read = edits
  BY <1>1, <1>2, <1>4 DEF SearchTypeOK, Searches
<1>6. SearchTypeOK'
  BY <1>1, <1>2, <1>3, <1>5 DEF SearchTypeOK
<1>7. SearchesAreKnown'
  BY <1>1, <1>2, <1>3, <1>5 DEF SearchesAreKnown, PageCached
<1>8. FreshReadsAreLate'
  <2>1. edits >= editsMarked
    BY <1>1 DEF FreshReadsAreLate, SearchTypeOK
  <2> QED BY <1>1, <1>2, <1>3, <1>5, <2>1 DEF FreshReadsAreLate, Fresh
<1>9. ServedIsFresh'
  <2>1. \A s \in Scopes : Trusted(s)' => pages'[s].read >= editsMarked'
    BY <1>1, <1>3 DEF ServedIsFresh, Trusted, PageCached
  <2>2. \A t \in Requests : loading'[t] # 0 =>
          \E p \in searches' : p.id = loading'[t] /\ p.request = t /\ Fresh(p)'
    <3> SUFFICES ASSUME NEW t \in Requests, loading[t] # 0
                 PROVE  \E p \in searches' : p.id = loading[t] /\ p.request = t /\ Fresh(p)'
      BY <1>3
    <3>1. PICK p \in searches : p.id = loading[t] /\ p.request = t /\ Fresh(p)
      BY <1>1 DEF ServedIsFresh
    <3>2. CASE p = q
      BY <1>2, <1>3, <1>5, <3>1, <3>2 DEF Fresh
    <3>3. CASE p # q
      BY <1>2, <1>3, <3>1, <3>3 DEF Fresh
    <3> QED BY <3>2, <3>3
  <2>3. \A p \in searches' : Fresh(p)' => loading'[p.request] = p.id
    BY <1>1, <1>2, <1>3, <1>5 DEF ServedIsFresh, Fresh
  <2> QED BY <2>1, <2>2, <2>3 DEF ServedIsFresh
<1>10. LatestIsNewest'
  BY <1>1, <1>2, <1>3, <1>5 DEF LatestIsNewest, Fresh, Trusted, PageCached
<1>11. OrderIsInjective' /\ CacheIsBounded'
  BY <1>3 DEF SearchesInvariant, OrderIsInjective, CacheIsBounded
<1> QED BY <1>6, <1>7, <1>8, <1>9, <1>10, <1>11 DEF SearchesInvariant

LEMMA EditedInv == ASSUME SearchesInvariant, RowsEdited PROVE SearchesInvariant'
<1>1. /\ UNCHANGED <<pages, order, loading, latest, staleMarks, searches, lastSearch, editsMarked>>
      /\ edits' = edits + 1
  BY DEF RowsEdited, cacheVars
<1>2. SearchTypeOK' /\ FreshReadsAreLate'
  BY <1>1 DEF SearchesInvariant, SearchTypeOK, FreshReadsAreLate, Fresh
<1> QED BY <1>1, <1>2
        DEF SearchesInvariant, OrderIsInjective, CacheIsBounded, SearchesAreKnown, ServedIsFresh,
            LatestIsNewest, Fresh, Trusted, PageCached

LEMMA StutterInv == ASSUME SearchesInvariant, UNCHANGED searchVars PROVE SearchesInvariant'
  BY DEF searchVars, cacheVars, SearchesInvariant, SearchTypeOK, OrderIsInjective, CacheIsBounded,
         SearchesAreKnown, FreshReadsAreLate, ServedIsFresh, LatestIsNewest, Fresh, Trusted,
         PageCached

LEMMA StepInv == ASSUME SearchesInvariant, [SearchNext]_searchVars PROVE SearchesInvariant'
  BY LoadInv, MarkInv, LandsInv, FailsInv, ReadsInv, EditedInv, StutterInv DEF SearchNext

(***************************************************************************)
(* The theorems.                                                           *)
(***************************************************************************)

LEMMA SearchesInOrder == SearchSpec => []SearchesInvariant
<1> QED BY InitInv, StepInv, PTL DEF SearchSpec

\* Every reachable state of the cache is well typed.
THEOREM SearchesTyped == SearchSpec => []SearchTypeOK
<1>1. SearchesInvariant => SearchTypeOK
  BY DEF SearchesInvariant
<1> QED BY <1>1, SearchesInOrder, PTL

\* What the cache hands out, and every search a request shares, is as new as the
\* latest stale mark (search-lookup.ts).
THEOREM ServedPagesAreFresh == SearchSpec => []ServedIsFresh
<1>1. SearchesInvariant => ServedIsFresh
  BY DEF SearchesInvariant
<1> QED BY <1>1, SearchesInOrder, PTL

\* The cache holds no more searches than its limit (search-lookup.ts).
THEOREM CacheStaysBounded == SearchSpec => []CacheIsBounded
<1>1. SearchesInvariant => CacheIsBounded
  BY DEF SearchesInvariant
<1> QED BY <1>1, SearchesInOrder, PTL

\* A trusted page gives way only to the answer of a later search (search-lookup.ts).
THEOREM TrustedPagesOnlyGoForward == SearchSpec => TrustedPagesGoForward
<1>1. ASSUME SearchesInvariant, [SearchNext]_searchVars
      PROVE  TrustedGivesWayToNewer \/ UNCHANGED searchVars
  <2>1. SearchTypeOK /\ LatestIsNewest
    BY <1>1 DEF SearchesInvariant
  <2>2. \A s \in Scopes : PageCached(s) => pages[s].sentAs \in Nat
    BY <2>1 DEF SearchTypeOK, Pages, PageCached
  <2>3. CASE pages' = pages
    BY <2>2, <2>3 DEF TrustedGivesWayToNewer, Trusted
  <2>4. CASE MarkSearchesStale
    <3> SUFFICES ASSUME NEW s \in Scopes, Trusted(s), pages'[s] # NoPage
                 PROVE  pages'[s].sentAs >= pages[s].sentAs
      BY DEF TrustedGivesWayToNewer
    <3>1. pages[s] \in Pages /\ pages[s].sentAs \in Nat
      BY <2>1, <2>2 DEF Trusted, PageCached, SearchTypeOK
    <3>2. pages'[s] = [pages[s] EXCEPT !.requestKey = NoRequest]
      BY <2>4 DEF Trusted, MarkSearchesStale, Distrusted
    <3>3. pages'[s].sentAs = pages[s].sentAs
      BY <3>1, <3>2 DEF Pages
    <3> QED BY <3>1, <3>3
  <2>5. ASSUME NEW q \in searches, SearchLands(q), pages' # pages
        PROVE  TrustedGivesWayToNewer
    <3>1. StorePage(q) /\ Replaces(q)
      BY <2>5 DEF SearchLands
    <3>2. \A s \in Scopes : pages'[s] \in {NoPage, PageOf(q), pages[s]}
      BY <3>1 DEF StorePage
    <3>3. \A s \in Scopes : s # ScopeOf[q.request] => pages'[s] \in {NoPage, pages[s]}
      BY <3>1 DEF StorePage
    <3> SUFFICES ASSUME NEW s \in Scopes, Trusted(s), pages'[s] # NoPage
                 PROVE  pages'[s].sentAs >= pages[s].sentAs
      BY DEF TrustedGivesWayToNewer
    <3>4. CASE pages'[s] = pages[s]
      BY <2>2, <3>4 DEF Trusted
    <3>5. CASE pages'[s] # pages[s]
      <4>1. s = ScopeOf[q.request] /\ pages'[s] = PageOf(q)
        BY <3>2, <3>3, <3>5
      <4>2. Fresh(q) /\ latest[ScopeOf[q.request]] = q.request
        BY <3>1, <4>1 DEF Replaces
      <4>3. pages[s].sentAs <= q.id
        BY <2>1, <4>1, <4>2 DEF LatestIsNewest
      <4>4. q.id \in Nat /\ pages'[s].sentAs = q.id
        BY <2>1, <4>1 DEF SearchTypeOK, Searches, PageOf
      <4> QED BY <2>2, <4>3, <4>4 DEF Trusted
    <3> QED BY <3>4, <3>5
  <2>6. [SearchNext]_searchVars
    BY <1>1
  <2>7. pages' = pages \/ MarkSearchesStale \/ \E q \in searches : SearchLands(q)
    BY <2>6 DEF SearchNext, LoadSearchResults, SearchFails, ServerSearches, RowsEdited, cacheVars,
                searchVars
  <2> QED BY <2>3, <2>4, <2>5, <2>7
<1> QED BY <1>1, SearchesInOrder, PTL DEF SearchSpec, TrustedPagesGoForward

================================================================================
