------------------------------- MODULE InitProject -------------------------------
(***************************************************************************)
(* `sapporta init` (packages/core/src/cli/init.ts and init-project/): the  *)
(* project is built in a staging directory beside the target, by steps     *)
(* that run commands and may fail or be killed, and published by renaming  *)
(* the staging directory.  Several runs may aim at one target, and others  *)
(* may create or remove it meanwhile.                                      *)
(*                                                                         *)
(* What a step does is the step itself; files, versions and ports are left *)
(* out.  Staging directories have a name of their own (process id, nonce). *)
(***************************************************************************)
CONSTANTS Runs, Absent, EmptyDir, Other

ASSUME RunsAssumption ==
  /\ Absent # EmptyDir /\ Absent # Other /\ EmptyDir # Other
  /\ Runs \cap {Absent, EmptyDir, Other} = {}

VARIABLES
  target,      \* what is at the target: nothing, something else, or the project of a run
  at,          \* [run -> the step it is at]
  staged,      \* the runs whose staging directory exists
  has,         \* [run -> the steps that its project directory has gone through]
  loads,       \* [run -> better-sqlite3 loads its native binding there]
  published    \* history: runs that have renamed their directory to the target

vars == <<target, at, staged, has, loads, published>>

SetupSteps == {"write", "install", "generate", "apply", "gitInit", "gitAdd", "gitCommit"}
Checks     == {"target", "pnpm", "registry", "render"}
Bindings   == {"smoke", "approve", "rebuild", "smokeAgain", "build", "smokeLast"}
Ends       == {"done", "failed", "killed"}
Steps      == SetupSteps \cup Checks \cup Bindings \cup {"publish", "rename", "skill"} \cup Ends

TypeOK ==
  /\ target \in {Absent, EmptyDir, Other} \cup Runs
  /\ at \in [Runs -> Steps]
  /\ staged \subseteq Runs
  /\ has \in [Runs -> SUBSET SetupSteps]
  /\ loads \in [Runs -> BOOLEAN]
  /\ published \subseteq Runs

\* Mutant of Following: the project is published before its first commit.
FollowingEarly ==
  [target |-> "pnpm", pnpm |-> "registry", registry |-> "render", render |-> "write",
   write |-> "install", install |-> "smoke", generate |-> "apply", apply |-> "gitInit",
   gitInit |-> "gitAdd", gitAdd |-> "publish", gitCommit |-> "publish"]

\* What a step that succeeds is followed by, outside the check of the binding.
Following ==
  [target |-> "pnpm", pnpm |-> "registry", registry |-> "render", render |-> "write",
   write |-> "install", install |-> "smoke", generate |-> "apply", apply |-> "gitInit",
   gitInit |-> "gitAdd", gitAdd |-> "gitCommit", gitCommit |-> "publish"]

Goes(i, step) == at' = [at EXCEPT ![i] = step]

(***************************************************************************)
(* Failure.  Before the staging directory is begun there is nothing to     *)
(* remove; afterwards every failure removes it.                            *)
(***************************************************************************)
\* Mutant of Cleaned: a failed rename leaves the staging directory.
CleanedBeforeRename(i) == IF at[i] = "rename" THEN staged ELSE staged \ {i}

Cleaned(i) == staged \ {i}

Fails(i) ==
  /\ Goes(i, "failed")
  /\ staged' = Cleaned(i)
  /\ UNCHANGED <<target, has, loads, published>>

(***************************************************************************)
(* The steps of createProject.                                             *)
(***************************************************************************)
\* The path is looked at first: its parent must be there, and nothing at it.
ChecksTarget(i) ==
  /\ at[i] = "target"
  /\ target = Absent
  /\ Goes(i, Following["target"])
  /\ UNCHANGED <<target, staged, has, loads, published>>

\* pnpm is recent enough, the registry answers, the files can be rendered.
Prepares(i) ==
  /\ at[i] \in Checks \ {"target"}
  /\ Goes(i, Following[at[i]])
  /\ UNCHANGED <<target, staged, has, loads, published>>

BeginsStaging(i) ==
  /\ at[i] = "write" /\ i \notin staged
  /\ staged' = staged \cup {i}
  /\ UNCHANGED <<target, at, has, loads, published>>

\* Whether the installed binding loads is the matter of the next steps.
Sets(i) ==
  /\ at[i] \in SetupSteps
  /\ at[i] = "write" => i \in staged
  /\ has' = [has EXCEPT ![i] = @ \cup {at[i]}]
  /\ \E works \in BOOLEAN :
       loads' = IF at[i] = "install" THEN [loads EXCEPT ![i] = works] ELSE loads
  /\ Goes(i, Following[at[i]])
  /\ UNCHANGED <<target, staged, published>>

(***************************************************************************)
(* The check of the SQLite binding (sqlite-native-repair.ts).              *)
(***************************************************************************)
SmokeTestPasses(i) ==
  /\ at[i] \in {"smoke", "smokeAgain", "smokeLast"}
  /\ loads[i]
  /\ Goes(i, "generate")
  /\ UNCHANGED <<target, staged, has, loads, published>>

\* A missing binding is repaired: pnpm first, then node-gyp.
BindingIsMissing(i) ==
  /\ at[i] \in {"smoke", "smokeAgain"}
  /\ ~loads[i]
  /\ Goes(i, IF at[i] = "smoke" THEN "approve" ELSE "build")
  /\ UNCHANGED <<target, staged, has, loads, published>>

ApprovesBuild(i) ==
  /\ at[i] = "approve"
  /\ Goes(i, "rebuild")
  /\ UNCHANGED <<target, staged, has, loads, published>>

\* A build that succeeds may still leave no binding that loads.
Builds(i) ==
  /\ at[i] \in {"rebuild", "build"}
  /\ Goes(i, IF at[i] = "rebuild" THEN "smokeAgain" ELSE "smokeLast")
  /\ \E works \in BOOLEAN : loads' = [loads EXCEPT ![i] = works]
  /\ UNCHANGED <<target, staged, has, published>>

(***************************************************************************)
(* Publication.                                                            *)
(***************************************************************************)
LooksAgain(i) ==
  /\ at[i] = "publish"
  /\ target = Absent
  /\ Goes(i, "rename")
  /\ UNCHANGED <<target, staged, has, loads, published>>

\* rename(2) takes the place of an empty directory, of nothing else.
Renames(i) ==
  /\ at[i] = "rename"
  /\ target \in {Absent, EmptyDir}
  /\ target' = i
  /\ staged' = staged \ {i}
  /\ published' = published \cup {i}
  /\ Goes(i, "skill")
  /\ UNCHANGED <<has, loads>>

\* The assistant skill is there, or is installed on request.
SkillIsInstalled(i) ==
  /\ at[i] = "skill"
  /\ Goes(i, "done")
  /\ UNCHANGED <<target, staged, has, loads, published>>

\* Declined or failed: the command fails, the project stays.
SkillIsMissing(i) ==
  /\ at[i] = "skill"
  /\ Goes(i, "failed")
  /\ UNCHANGED <<target, staged, has, loads, published>>

\* Every step before the publication may throw; the two that look at the target
\* and the rename also do when they find something there.
StepFails(i) == at[i] \notin Ends \cup {"skill"} /\ Fails(i)

Killed(i) ==
  /\ at[i] \notin Ends
  /\ Goes(i, "killed")
  /\ UNCHANGED <<target, staged, has, loads, published>>

\* Others, the user among them, change what is at the path.
SomebodyElse ==
  /\ target' \in {Absent, EmptyDir, Other} \ {target}
  /\ UNCHANGED <<at, staged, has, loads, published>>

Init ==
  /\ target \in {Absent, EmptyDir, Other}
  /\ at = [i \in Runs |-> "target"]
  /\ staged = {}
  /\ has = [i \in Runs |-> {}]
  /\ loads = [i \in Runs |-> FALSE]
  /\ published = {}

Step(i) ==
  \/ ChecksTarget(i) \/ Prepares(i) \/ BeginsStaging(i) \/ Sets(i)
  \/ SmokeTestPasses(i) \/ BindingIsMissing(i) \/ ApprovesBuild(i) \/ Builds(i)
  \/ LooksAgain(i) \/ Renames(i) \/ SkillIsInstalled(i) \/ SkillIsMissing(i)
  \/ StepFails(i) \/ Killed(i)

Next == (\E i \in Runs : Step(i)) \/ SomebodyElse

Spec == Init /\ [][Next]_vars

(***************************************************************************)
(* Properties                                                              *)
(***************************************************************************)

\* Every setup step has been done and the database driver loads.
Complete(i) == has[i] = SetupSteps /\ loads[i]

Half == "half"

Outcome(i) ==
  IF i \in published THEN "created"
  ELSE IF at[i] \in {"failed", "killed"} THEN "untouched" ELSE "open"

Publish == INSTANCE AtomicPublish WITH
  target  <- IF target \in Runs /\ ~Complete(target) THEN Half ELSE target,
  outcome <- [i \in Runs |-> Outcome(i)]

\* Init publishes a complete project in one step or leaves the target untouched
\* ("Requested target was left untouched", create-project.ts:247), whatever
\* step fails, whoever kills it and whatever others do at the path.
PublishesAtomically == Publish!Spec

\* A run that has ended by itself leaves no staging directory behind, and one
\* that has published holds none.
NoStagingLeft ==
  \A i \in staged : at[i] \notin {"done", "failed", "skill"} /\ i \notin published

================================================================================
