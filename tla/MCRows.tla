--------------------------------- MODULE MCRows ---------------------------------
(***************************************************************************)
(* The rows of one REST source, and the removal of rows by the runtime.    *)
(* The models share no state: the runtime knows of a source only what it   *)
(* publishes and whether a removal was accepted.  One run explores both: a *)
(* behaviour moves one of them, chosen at the start, and leaves the other  *)
(* as it began.  The properties are those of the modules.                  *)
(***************************************************************************)
EXTENDS MCRestLevelSource, GridRuntime

CONSTANTS a, b, c   \* row keys of the grid

VARIABLE part

\* Two rows of the root level and a row of the level below one of them.
mcPaths       == {<<>>, <<a>>}
mcGridRows    == {<< <<>>, a>>, << <<>>, b>>, << <<a>>, c>>}
mcInitialRows == {<< <<>>, a>>, << <<>>, b>>}

PartsInit ==
  /\ part \in {"source", "removals"}
  /\ TrackedInit /\ RuntimeInit

PartsNext ==
  /\ UNCHANGED part
  /\ \/ part = "source" /\ TrackedNext /\ UNCHANGED runtimeVars
     \/ part = "removals" /\ RuntimeNext /\ UNCHANGED trackedVars

PartsSpec == PartsInit /\ [][PartsNext]_<<part, trackedVars, runtimeVars>>

\* The row removals alone.
RemovalsInit == PartsInit /\ part = "removals"
RemovalsSpec == RemovalsInit /\ [][PartsNext]_<<part, trackedVars, runtimeVars>>
================================================================================
