--------------------------------- MODULE MCGrid ---------------------------------
(***************************************************************************)
(* The parts of the grid package that share no state in the models: the    *)
(* draft rows of a level, the two caches behind lookup cells and pickers,  *)
(* and navigation over the edge of a page.  No interleaving of them can be *)
(* told from each on its own, so one run explores them all: a behaviour    *)
(* moves one part, chosen at the start, and leaves the others as they      *)
(* began.  The properties are those of the modules.                        *)
(***************************************************************************)
EXTENDS ValueLookup, DraftCommit, SearchLookup, LoadedBoundary

CONSTANTS s1, s2, first, second, other    \* searches and requests

\* Two pages of one search, one of another.
mcScopeOf == [r \in Requests |-> IF r = other THEN s2 ELSE s1]

VARIABLE part

PartsInit ==
  /\ part \in {"drafts", "values", "searches", "pager"}
  /\ DraftInit /\ Init /\ SearchInit /\ BoundaryInit

PartsNext ==
  /\ UNCHANGED part
  /\ \/ part = "drafts" /\ DraftNext /\ UNCHANGED <<vars, searchVars, boundaryVars>>
     \/ part = "values" /\ Next /\ UNCHANGED <<draftVars, searchVars, boundaryVars>>
     \/ part = "searches" /\ SearchNext /\ UNCHANGED <<draftVars, vars, boundaryVars>>
     \/ part = "pager" /\ BoundaryNext /\ UNCHANGED <<draftVars, vars, searchVars>>

PartsSpec ==
  PartsInit /\ [][PartsNext]_<<part, draftVars, vars, searchVars, boundaryVars>>

================================================================================
