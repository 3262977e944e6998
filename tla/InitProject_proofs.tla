--------------------------- MODULE InitProject_proofs ---------------------------
(***************************************************************************)
(* `sapporta init` implements AtomicPublish, and leaves no staging         *)
(* directory, for any set of runs.                                         *)
(*                                                                         *)
(* What is at the target says nothing of how it got there, so the          *)
(* invariant follows a run: the steps behind it are done in its directory, *)
(* the driver loads there from the check of the binding on, and a run that *)
(* has published has done all of that and does none of it again.           *)
(***************************************************************************)
EXTENDS InitProject, TLAPS

AfterBinding == {"generate", "apply", "gitInit", "gitAdd", "gitCommit", "publish", "rename"}

\* The setup steps behind a run that is at the step.
Behind ==
  [target |-> {}, pnpm |-> {}, registry |-> {}, render |-> {}, write |-> {},
   install |-> {"write"}, smoke |-> {"write", "install"},
   approve |-> {"write", "install"}, rebuild |-> {"write", "install"},
   smokeAgain |-> {"write", "install"}, build |-> {"write", "install"},
   smokeLast |-> {"write", "install"}, generate |-> {"write", "install"},
   apply |-> {"write", "install", "generate"},
   gitInit |-> {"write", "install", "generate", "apply"},
   gitAdd |-> {"write", "install", "generate", "apply", "gitInit"},
   gitCommit |-> {"write", "install", "generate", "apply", "gitInit", "gitAdd"},
   publish |-> SetupSteps, rename |-> SetupSteps,
   skill |-> {}, done |-> {}, failed |-> {}, killed |-> {}]

StepsAreBehind == \A i \in Runs : Behind[at[i]] \subseteq has[i]

DriverLoads == \A i \in Runs : at[i] \in AfterBinding => loads[i]

PublishedAreComplete ==
  \A i \in published : Complete(i) /\ at[i] \in Ends \cup {"skill"}

TargetIsPublished == target \in Runs => target \in published

StagingIsOpen ==
  /\ \A i \in staged : at[i] # "failed" /\ i \notin published
  /\ \A i \in Runs : at[i] \in {"skill", "done"} => i \in published

Inv ==
  /\ TypeOK
  /\ StepsAreBehind
  /\ DriverLoads
  /\ PublishedAreComplete
  /\ TargetIsPublished
  /\ StagingIsOpen

LEMMA InvInit == Init => Inv
BY RunsAssumption
DEF Init, Inv, TypeOK, StepsAreBehind, DriverLoads, PublishedAreComplete, TargetIsPublished,
    StagingIsOpen, AfterBinding, Behind, Steps, SetupSteps, Checks, Bindings, Ends

LEMMA FollowingSteps ==
  /\ Following["target"] = "pnpm" /\ Following["pnpm"] = "registry"
  /\ Following["registry"] = "render" /\ Following["render"] = "write"
  /\ Following["write"] = "install" /\ Following["install"] = "smoke"
  /\ Following["generate"] = "apply" /\ Following["apply"] = "gitInit"
  /\ Following["gitInit"] = "gitAdd" /\ Following["gitAdd"] = "gitCommit"
  /\ Following["gitCommit"] = "publish"
BY DEF Following

--------------------------------------------------------------------------------
(* The invariant.                                                            *)

LEMMA StepInv == ASSUME Inv, NEW i \in Runs, Step(i) PROVE Inv'
  <1> USE RunsAssumption, FollowingSteps
      DEF Inv, TypeOK, StepsAreBehind, DriverLoads, PublishedAreComplete, TargetIsPublished,
          StagingIsOpen, Complete, AfterBinding, Behind, Steps, SetupSteps, Checks, Bindings,
          Ends, Goes, Cleaned, Fails
  <1>1. CASE ChecksTarget(i) BY <1>1 DEF ChecksTarget
  <1>2. CASE Prepares(i) BY <1>2 DEF Prepares
  <1>3. CASE BeginsStaging(i) BY <1>3 DEF BeginsStaging
  <1>4. CASE Sets(i) BY <1>4 DEF Sets
  <1>5. CASE SmokeTestPasses(i) BY <1>5 DEF SmokeTestPasses
  <1>6. CASE BindingIsMissing(i) BY <1>6 DEF BindingIsMissing
  <1>7. CASE ApprovesBuild(i) BY <1>7 DEF ApprovesBuild
  <1>8. CASE Builds(i) BY <1>8 DEF Builds
  <1>9. CASE LooksAgain(i) BY <1>9 DEF LooksAgain
  <1>10. CASE Renames(i) BY <1>10 DEF Renames
  <1>11. CASE SkillIsInstalled(i) BY <1>11 DEF SkillIsInstalled
  <1>12. CASE SkillIsMissing(i) BY <1>12 DEF SkillIsMissing
  <1>13. CASE StepFails(i) BY <1>13 DEF StepFails
  <1>14. CASE Killed(i) BY <1>14 DEF Killed
  <1> QED
    BY <1>1, <1>2, <1>3, <1>4, <1>5, <1>6, <1>7, <1>8, <1>9, <1>10, <1>11, <1>12, <1>13, <1>14 DEF Step

LEMMA NextInv == Inv /\ [Next]_vars => Inv'
  <1> SUFFICES ASSUME Inv, [Next]_vars PROVE Inv' OBVIOUS
  <1>1. CASE \E i \in Runs : Step(i) BY <1>1, StepInv
  <1>2. CASE SomebodyElse
    BY <1>2, RunsAssumption
       DEF SomebodyElse, Inv, TypeOK, StepsAreBehind, DriverLoads, PublishedAreComplete,
           TargetIsPublished, StagingIsOpen, Complete
  <1>3. CASE UNCHANGED vars
    BY <1>3
       DEF vars, Inv, TypeOK, StepsAreBehind, DriverLoads, PublishedAreComplete,
           TargetIsPublished, StagingIsOpen, Complete
  <1> QED BY <1>1, <1>2, <1>3 DEF Next

LEMMA InvHolds == Spec => []Inv
  BY InvInit, NextInv, PTL DEF Spec

\* No run that failed, finished or published keeps a staging directory.
THEOREM StagingIsRemoved == Spec => []NoStagingLeft
  <1>1. Inv => NoStagingLeft BY DEF Inv, TypeOK, StagingIsOpen, NoStagingLeft
  <1> QED BY <1>1, InvHolds, PTL

--------------------------------------------------------------------------------
(* The refinement.  Only Renames, the steps that end a run before it has     *)
(* published, and SomebodyElse show in AtomicPublish.                        *)

Outcomes == [i \in Runs |-> Outcome(i)]
Seen     == IF target \in Runs /\ ~Complete(target) THEN Half ELSE target

LEMMA InitImplements == Init => Publish!Init
  BY RunsAssumption
     DEF Init, Publish!Init, Outcome, Complete

LEMMA RenameCreates ==
  ASSUME Inv, Inv', NEW i \in Runs, Renames(i)
  PROVE  Publish!Create(i)
  <1>1. Seen = target /\ Seen' = target'
    BY DEF Inv, PublishedAreComplete, TargetIsPublished, Seen
  <1>2. Outcomes[i] = "open" /\ Outcomes' = [Outcomes EXCEPT ![i] = "created"]
    BY DEF Renames, Goes, Outcomes, Outcome, Inv, TypeOK, PublishedAreComplete, Ends
  <1>3. target \in {Absent, EmptyDir} /\ target' = i BY DEF Renames
  <1> QED BY <1>1, <1>2, <1>3 DEF Publish!Create, Publish!Free, Seen, Outcomes

LEMMA EndingGivesUp ==
  ASSUME Inv, Inv', NEW i \in Runs, StepFails(i) \/ (Killed(i) /\ i \notin published)
  PROVE  Publish!GiveUp(i)
  <1>1. Seen = target /\ Seen' = target'
    BY DEF Inv, PublishedAreComplete, TargetIsPublished, Seen
  <1>2. Outcomes[i] = "open" /\ Outcomes' = [Outcomes EXCEPT ![i] = "untouched"]
    <2>1. i \notin published /\ at[i] \notin {"failed", "killed"} /\ published' = published
      BY DEF StepFails, Fails, Killed, Inv, TypeOK, PublishedAreComplete, Ends
    <2>2. PICK end \in {"failed", "killed"} : at' = [at EXCEPT ![i] = end]
      BY DEF StepFails, Fails, Killed, Goes
    <2>3. at'[i] \in {"failed", "killed"} /\ \A j \in Runs \ {i} : at'[j] = at[j]
      BY <2>2 DEF Inv, TypeOK
    <2> QED BY <2>1, <2>3 DEF Outcomes, Outcome
  <1>3. UNCHANGED target BY DEF StepFails, Fails, Killed
  <1> QED BY <1>1, <1>2, <1>3 DEF Publish!GiveUp, Seen, Outcomes

LEMMA OtherStepsStutter ==
  ASSUME Inv, Inv', NEW i \in Runs, Step(i), ~Renames(i), ~StepFails(i),
         ~(Killed(i) /\ i \notin published)
  PROVE  UNCHANGED Publish!vars
  <1>1. Seen = target /\ Seen' = target'
    BY DEF Inv, PublishedAreComplete, TargetIsPublished, Seen
  <1>2. UNCHANGED <<target, published>>
    BY DEF Step, ChecksTarget, Prepares, BeginsStaging, Sets, SmokeTestPasses,
           BindingIsMissing, ApprovesBuild, Builds, LooksAgain, SkillIsInstalled, SkillIsMissing,
           Killed
  <1>3. \A j \in Runs \ published :
           (at'[j] \in {"failed", "killed"}) <=> (at[j] \in {"failed", "killed"})
    BY FollowingSteps
       DEF Inv, TypeOK, StagingIsOpen, Step, ChecksTarget, Prepares, BeginsStaging, Sets,
           SmokeTestPasses, BindingIsMissing, ApprovesBuild, Builds, LooksAgain,
           SkillIsInstalled, SkillIsMissing, Killed, Goes, SetupSteps, Checks
  <1>4. UNCHANGED Outcomes BY <1>2, <1>3 DEF Outcomes, Outcome
  <1> QED BY <1>1, <1>2, <1>4 DEF Publish!vars, Seen, Outcomes

LEMMA NextImplements ==
  Inv /\ Inv' /\ [Next]_vars => [Publish!Next]_(Publish!vars)
  <1> SUFFICES ASSUME Inv, Inv', [Next]_vars PROVE [Publish!Next]_(Publish!vars) OBVIOUS
  <1>1. CASE \E i \in Runs : Step(i)
    BY <1>1, RenameCreates, EndingGivesUp, OtherStepsStutter DEF Publish!Next
  <1>2. CASE SomebodyElse
    <2>1. Seen = target /\ Seen' = target'
      BY DEF Inv, PublishedAreComplete, TargetIsPublished, Seen
    <2>2. UNCHANGED Outcomes BY <1>2 DEF SomebodyElse, Outcomes, Outcome
    <2> QED
      BY <1>2, <2>1, <2>2
         DEF SomebodyElse, Publish!Next, Publish!SomebodyElse, Seen, Outcomes
  <1>3. CASE UNCHANGED vars
    <2>1. UNCHANGED Seen /\ UNCHANGED Outcomes
      BY <1>3 DEF vars, Seen, Complete, Outcomes, Outcome
    <2> QED BY <2>1 DEF Publish!vars, Seen, Outcomes
  <1> QED BY <1>1, <1>2, <1>3 DEF Next

\* Init publishes a complete project in one step or leaves the target untouched,
\* whatever step fails, whoever kills it, and whatever others do at the path.
THEOREM InitIsAtomic == Spec => PublishesAtomically
  BY InvHolds, InitImplements, NextImplements, PTL DEF Spec, PublishesAtomically, Publish!Spec

================================================================================
