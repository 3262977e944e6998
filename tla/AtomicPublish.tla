----------------------------- MODULE AtomicPublish -----------------------------
(***************************************************************************)
(* What `sapporta init` promises about the path it is asked to create:     *)
(* a run puts a complete project there in one step, where nothing was or   *)
(* an empty directory, or leaves the path untouched.  Others may change    *)
(* the path at any time.                                                   *)
(***************************************************************************)
CONSTANTS
  Runs,       \* runs of the command with this target
  Absent,     \* nothing is at the path
  EmptyDir,   \* somebody made the directory
  Other       \* a file, or a directory with something else in it

VARIABLES
  target,     \* what is at the path; a run stands for its complete project
  outcome     \* [run -> what it did to the path]

vars == <<target, outcome>>

Free == {Absent, EmptyDir}

Init ==
  /\ target \in {Absent, EmptyDir, Other}
  /\ outcome = [i \in Runs |-> "open"]

Create(i) ==
  /\ outcome[i] = "open"
  /\ target \in Free
  /\ target' = i
  /\ outcome' = [outcome EXCEPT ![i] = "created"]

GiveUp(i) ==
  /\ outcome[i] = "open"
  /\ outcome' = [outcome EXCEPT ![i] = "untouched"]
  /\ UNCHANGED target

SomebodyElse ==
  /\ target' \in {Absent, EmptyDir, Other}
  /\ UNCHANGED outcome

Next == (\E i \in Runs : Create(i) \/ GiveUp(i)) \/ SomebodyElse

Spec == Init /\ [][Next]_vars

================================================================================
