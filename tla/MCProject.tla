------------------------------- MODULE MCProject -------------------------------
(***************************************************************************)
(* Parts that share no state in the models: `sapporta init`, the session   *)
(* of a table page and what a page knows about the rows it shows.  No      *)
(* interleaving of them can be told from each on its own, so one run       *)
(* explores them all: a behaviour moves one part, chosen at the start, and *)
(* leaves the others as they began.  The properties are those of the       *)
(* modules.                                                                *)
(***************************************************************************)
EXTENDS InitProject, TableSession, RowData, TLC

VARIABLE part

\* Nothing tells the ids of two rows apart.
Symmetry == Permutations(Ids)

PartsInit ==
  /\ part \in {"init", "table", "rows"}
  /\ Init /\ TableInit /\ RowInit
  /\ part # "init" => target = Absent
  /\ part # "table" => url = [filter |-> Silent, page |-> FirstPage]

PartsNext ==
  /\ UNCHANGED part
  /\ \/ part = "init" /\ Next /\ UNCHANGED <<tableVars, rowVars>>
     \/ part = "table" /\ TableNext /\ UNCHANGED <<vars, rowVars>>
     \/ part = "rows" /\ RowNext /\ UNCHANGED <<vars, tableVars>>

PartsSpec == PartsInit /\ [][PartsNext]_<<part, vars, tableVars, rowVars>>

\* The table page alone.
PageInit == PartsInit /\ part = "table"
PageSpec == PageInit /\ [][PartsNext]_<<part, vars, tableVars, rowVars>>

================================================================================
