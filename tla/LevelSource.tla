------------------------------ MODULE LevelSource ------------------------------
(***************************************************************************)
(* What the rows of a level promise to whoever shows them (LevelDataSource *)
(* in packages/grid/src/core/data-sources/types.ts): at most one load is   *)
(* under way, a new one takes the place of the old, what is shown is the   *)
(* page of a load that nothing newer overtook, and the status tells which  *)
(* of the two moved last.                                                  *)
(***************************************************************************)
CONSTANTS
  Loads,      \* what a load asks for, or the load itself
  NoLoad

VARIABLES
  status,     \* initialLoading and refreshing are one here, as are the errors
  load,       \* the load under way
  shown,      \* the load whose page is shown
  stopped     \* nobody asks any more

vars == <<status, load, shown, stopped>>

\* A source starts with its first load under way, or with rows of its own.
Init ==
  /\ stopped = FALSE
  /\ \/ status = "loading" /\ load \in Loads /\ shown = NoLoad
     \/ status = "ready" /\ load = NoLoad /\ shown \in Loads

\* A load that is under way is superseded.
Ask(l) ==
  /\ ~stopped
  /\ load' = l /\ status' = "loading"
  /\ UNCHANGED <<shown, stopped>>

Land ==
  /\ load # NoLoad
  /\ shown' = load /\ load' = NoLoad /\ status' = "ready"
  /\ UNCHANGED stopped

Fail ==
  /\ load # NoLoad
  /\ load' = NoLoad /\ status' = "error"
  /\ UNCHANGED <<shown, stopped>>

\* A row that is added before any page has landed makes the rows ready.
RowComesFirst ==
  /\ ~stopped /\ shown = NoLoad
  /\ status' = "ready"
  /\ UNCHANGED <<load, shown, stopped>>

\* A load that somebody waits for may still be let to its end.
Stop ==
  /\ ~stopped /\ stopped' = TRUE
  /\ load' \in {load, NoLoad}
  /\ UNCHANGED <<status, shown>>

Next == (\E l \in Loads : Ask(l)) \/ Land \/ Fail \/ RowComesFirst \/ Stop

Spec == Init /\ [][Next]_vars

================================================================================
