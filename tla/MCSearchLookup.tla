----------------------------- MODULE MCSearchLookup -----------------------------
(* A small instance of SearchLookup: two pages of one search, one of another. *)
EXTENDS SearchLookup

CONSTANTS s1, s2, first, second, other

mcScopeOf == [r \in Requests |-> IF r = other THEN s2 ELSE s1]
================================================================================
