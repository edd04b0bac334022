---------------------------- MODULE DaemonProofs -----------------------------
(***************************************************************************)
(* Theorems about Daemon, for every set of runs, plans and deployments and   *)
(* any number of crashes: the types, what an execution may collect and how   *)
(* often it calls an agent, what the table of runs says of the queue, the    *)
(* locks, and that the queue implements RunLedger.                          *)
(***************************************************************************)
EXTENDS Daemon, FiniteSetTheorems, SequenceTheorems, TLAPS

-----------------------------------------------------------------------------
(* Types of an execution *)

PlanTyped ==
    /\ plan.mode \in Modes
    /\ plan.lint \in Nat \cup {-1}
    /\ plan.steps \in 0..MaxSteps
    /\ plan.retries \in Nat
    /\ plan.rounds \in 0..2
    /\ plan.onFailure \in {"abandon", "output-wip", "pause"}
    /\ plan.prints \subseteq Outputs
    /\ plan.touches \subseteq Files

LEMMA PlansAreTyped == ASSUME plan \in Plans PROVE PlanTyped
BY ValidationAssumption DEF PlanTyped

(* The variables of the loop by themselves.                                 *)
LoopTyped ==
    /\ round \in Nat /\ step \in Nat \ {0}
    /\ failing \in [Steps -> Outputs \cup {NoOutput}]
    /\ seen \in [Steps -> [Keys -> Nat]]
    /\ errors \in [last : Errors \cup {NoOutput}, row : Nat]
    /\ feedback \in [last : [Steps -> Outputs \cup {NoOutput}], changed : BOOLEAN, row : Nat]
    /\ writes \in Nat /\ written \subseteq Files
    /\ strategyChanged \in BOOLEAN /\ loop \in BOOLEAN

(* The others.                                                              *)
FlowTyped ==
    /\ plan \in Plans
    /\ pc \in Phases
    /\ ok \in BOOLEAN /\ verified \in BOOLEAN /\ calls \in Nat
    /\ caller \in {"main", "review"}
    /\ agentFailed \in BOOLEAN /\ passed \in BOOLEAN /\ approved \in BOOLEAN
    /\ success \in BOOLEAN /\ exceeded \in BOOLEAN /\ collected \in BOOLEAN
    /\ reviewerChanged \in BOOLEAN

LEMMA TypedInParts == ExecutionTypeOK <=> LoopTyped /\ FlowTyped /\ reviewRound \in 0..2
BY DEF ExecutionTypeOK, ValidationTypeOK, LoopTyped, FlowTyped

LEMMA FreshIsTyped == ASSUME FreshLoop, round' \in Nat, loop' \in BOOLEAN PROVE LoopTyped'
<1>1. NothingFailed \in [Steps -> Outputs \cup {NoOutput}]
  BY DEF NothingFailed
<1>2. NothingSeen \in [Steps -> [Keys -> Nat]]
  BY DEF NothingSeen
<1>3. errors' \in [last : Errors \cup {NoOutput}, row : Nat]
  BY DEF FreshLoop
<1>4. feedback' \in [last : [Steps -> Outputs \cup {NoOutput}], changed : BOOLEAN, row : Nat]
  BY <1>1 DEF FreshLoop
<1>5. step' \in Nat \ {0} /\ writes' \in Nat
  BY DEF FreshLoop
<1>6. written' \subseteq Files
  BY DEF FreshLoop
<1>7. strategyChanged' \in BOOLEAN
  BY Zenon DEF FreshLoop
<1> QED
  BY <1>1, <1>2, <1>3, <1>4, <1>5, <1>6, <1>7 DEF FreshLoop, LoopTyped

LEMMA SameLoopIsTyped ==
    ASSUME LoopTyped, UNCHANGED << loopVars, loop >>, round' \in Nat PROVE LoopTyped'
BY DEF LoopTyped, loopVars

LEMMA StepFailsIsTyped ==
    ASSUME LoopTyped, PlanTyped, NEW o \in plan.prints, StepFails(o) PROVE LoopTyped'
<1>0. step \in Steps /\ o \in Outputs
  BY ValidationAssumption DEF LoopTyped, PlanTyped, StepFails, Steps
<1>1. step \in Steps /\ o \in Outputs /\ KeyOf[o] \in Keys /\ ErrorOf[o] \in Errors
  BY <1>0 DEF Keys, Errors
<1>2. failing' \in [Steps -> Outputs \cup {NoOutput}]
  BY <1>1 DEF LoopTyped, StepFails
<1>3. seen' \in [Steps -> [Keys -> Nat]]
  <2>1. seen[step] \in [Keys -> Nat]
    BY <1>1 DEF LoopTyped
  <2>2. Counted(o) \in [Keys -> Nat]
    BY <2>1, <1>1 DEF Counted
  <2> QED
    BY <2>2, <1>1 DEF LoopTyped, StepFails
<1>4. errors' \in [last : Errors \cup {NoOutput}, row : Nat]
  BY <1>1 DEF LoopTyped, StepFails
<1>5. strategyChanged' \in BOOLEAN
  BY Zenon DEF StepFails
<1>6. loop' \in BOOLEAN
  BY Zenon DEF StepFails
<1>7. step' \in Nat \ {0} /\ round' \in Nat
  BY <1>1 DEF LoopTyped, StepFails
<1> QED
  BY <1>2, <1>3, <1>4, <1>5, <1>6, <1>7 DEF LoopTyped, StepFails

LEMMA FixIsTyped ==
    ASSUME LoopTyped, PlanTyped, NEW fs \in SUBSET plan.touches, Fix(fs) PROVE LoopTyped'
<1> DEFINE row == IF feedback.last = failing /\ feedback.changed = strategyChanged
                  THEN feedback.row + 1 ELSE 1
<1>0. row \in Nat
  BY DEF LoopTyped
<1>1. CASE Rewrites(fs) \/ row >= 3
  <2>1. FreshLoop /\ loop' = TRUE /\ round' = round
    BY <1>1 DEF Fix, Return
  <2> QED
    BY <2>1, FreshIsTyped DEF LoopTyped
<1>2. CASE ~(Rewrites(fs) \/ row >= 3)
  <2>0. fs \subseteq Files
    BY DEF PlanTyped
  <2>1. Cardinality(fs) \in Nat
    BY <2>0, ValidationAssumption, FS_Subset, FS_CardinalityType
  <2>2. round' \in Nat /\ step' \in Nat \ {0} /\ writes' \in Nat
    BY <1>2, <2>1 DEF Fix, LoopTyped
  <2>3. written' \subseteq Files
    BY <1>2, <2>0 DEF Fix, LoopTyped
  <2>4. failing' \in [Steps -> Outputs \cup {NoOutput}]
    BY <1>2 DEF Fix, NothingFailed
  <2>5. feedback' = [last |-> failing, changed |-> strategyChanged, row |-> row]
    BY <1>2 DEF Fix
  <2>6. feedback' \in [last : [Steps -> Outputs \cup {NoOutput}], changed : BOOLEAN, row : Nat]
    BY <2>5, <1>0 DEF LoopTyped
  <2>7. UNCHANGED << seen, errors, strategyChanged, loop >>
    BY <1>2 DEF Fix
  <2> QED
    BY <2>2, <2>3, <2>4, <2>6, <2>7 DEF LoopTyped
<1> QED
  BY <1>1, <1>2

LEMMA ReturnIsTyped ==
    ASSUME LoopTyped, NEW a \in BOOLEAN, NEW b \in BOOLEAN, Return(a, b) PROVE LoopTyped' /\ ok' \in BOOLEAN
BY FreshIsTyped DEF Return, LoopTyped

LEMMA StartValidationIsTyped == ASSUME StartValidation PROVE LoopTyped'
<1>1. FreshLoop /\ round' \in Nat /\ loop' \in BOOLEAN
  BY DEF StartValidation
<1> QED
  BY <1>1, FreshIsTyped

LEMMA InvokeIsTyped == ASSUME calls \in Nat, Invoke PROVE calls' \in Nat /\ verified' \in BOOLEAN
<1>1. calls' \in Nat
  BY DEF Invoke
<1>2. verified' \in BOOLEAN
  BY Zenon DEF Invoke
<1> QED
  BY <1>1, <1>2

LEMMA ValidationStepIsTyped ==
    ASSUME LoopTyped, FlowTyped, ValidationStep, UNCHANGED << caller, resultVars >>
    PROVE  LoopTyped' /\ FlowTyped'
<1> USE DEF resultVars
<1>0. PlanTyped
  BY PlansAreTyped DEF FlowTyped
<1>1. CASE LintRound
  <2>1. round' \in Nat /\ UNCHANGED << loopVars, loop >>
    BY <1>1 DEF LintRound, LoopTyped
  <2>2. pc' \in Phases /\ ok' \in BOOLEAN
    BY <1>1 DEF LintRound, FlowTyped, Phases
  <2> QED
    BY <1>1, <2>1, <2>2, SameLoopIsTyped DEF LintRound, FlowTyped
<1>2. CASE LintFix
  <2>1. round' \in Nat /\ UNCHANGED << loopVars, loop >>
    BY <1>2 DEF LintFix, LoopTyped
  <2>2. pc' \in Phases /\ ok' \in BOOLEAN
    BY <1>2 DEF LintFix, FlowTyped, Phases
  <2>3. calls' \in Nat /\ verified' \in BOOLEAN
    BY <1>2, InvokeIsTyped DEF LintFix, FlowTyped
  <2> QED
    BY <1>2, <2>1, <2>2, <2>3, SameLoopIsTyped DEF LintFix, FlowTyped
<1>3. CASE StepPasses
  BY <1>3 DEF StepPasses, FlowTyped, LoopTyped
<1>4. ASSUME NEW o \in plan.prints, RepeatedFailure(o) PROVE LoopTyped' /\ FlowTyped'
  <2>1. Return(FALSE, FALSE) /\ UNCHANGED << plan, verified, calls >>
    BY <1>4 DEF RepeatedFailure
  <2>2. pc' \in Phases
    BY <2>1 DEF Return, Phases
  <2> QED
    BY <2>1, <2>2, ReturnIsTyped DEF FlowTyped
<1>5. ASSUME NEW o \in plan.prints, StepFails(o) PROVE LoopTyped' /\ FlowTyped'
  BY <1>0, <1>5, StepFailsIsTyped DEF StepFails, FlowTyped
<1>6. CASE EndRound
  <2>1. verified' \in BOOLEAN
    BY <1>6 DEF EndRound, FlowTyped
  <2>2. CASE \E a, b \in BOOLEAN : Return(a, b)
    <3>1. pc' \in Phases
      BY <2>2 DEF Return, Phases
    <3>2. LoopTyped' /\ ok' \in BOOLEAN
      BY <2>2, ReturnIsTyped
    <3> QED
      BY <3>1, <3>2, <2>1, <1>6 DEF EndRound, FlowTyped
  <2>3. CASE pc' = "fix" /\ UNCHANGED << round, loopVars, loop, ok, verified >>
    <3>1. LoopTyped'
      BY <2>3, SameLoopIsTyped DEF LoopTyped
    <3> QED
      BY <3>1, <2>3, <1>6 DEF EndRound, FlowTyped, Phases
  <2> QED
    BY <1>6, <2>2, <2>3 DEF EndRound
<1>7. ASSUME NEW fs \in SUBSET plan.touches, Fix(fs) PROVE LoopTyped' /\ FlowTyped'
  <2>1. pc' \in Phases
    BY <1>7 DEF Fix, Return, Phases
  <2>2. ok' \in BOOLEAN
    BY <1>7 DEF Fix, Return, FlowTyped
  <2>3. calls' \in Nat /\ verified' \in BOOLEAN /\ plan' = plan
    BY <1>7, InvokeIsTyped DEF Fix, FlowTyped
  <2> QED
    BY <1>0, <1>7, <2>1, <2>2, <2>3, FixIsTyped DEF FlowTyped
<1> QED
  BY <1>1, <1>2, <1>3, <1>4, <1>5, <1>6, <1>7 DEF ValidationStep

(* The steps of the flow leave the variables of the loop alone, or start it. *)
LEMMA FlowStepKeepsLoop ==
    ASSUME FlowStep PROVE \/ UNCHANGED << loopVars, loop, round >>
                          \/ UNCHANGED << loopVars, loop >> /\ StartLint
                          \/ StartValidation
<1> USE DEF Prepare, CeilingExceeded, SingleValidated, SingleRevalidated, ReviewValidated, WorkerValidated, Gate,
            ReviewPasses, MustFix, Approves, Rejects, Collect, Throws
<1>1. CASE AgentEnds
  BY <1>1 DEF AgentEnds
<1>2. CASE LintEnds
  BY <1>2 DEF LintEnds
<1>3. CASE AddressReview
  BY <1>3 DEF AddressReview
<1> QED
  BY <1>1, <1>2, <1>3 DEF FlowStep

LEMMA FlowStepIsTyped ==
    ASSUME LoopTyped, FlowTyped, reviewRound \in 0..2, FlowStep
    PROVE  LoopTyped' /\ FlowTyped'
<1> USE DEF resultVars
<1>0. LoopTyped'
  <2>1. CASE UNCHANGED << loopVars, loop, round >>
    BY <2>1, SameLoopIsTyped DEF LoopTyped
  <2>2. CASE UNCHANGED << loopVars, loop >> /\ StartLint
    <3>1. round' \in Nat
      BY <2>2 DEF StartLint
    <3> QED
      BY <2>2, <3>1, SameLoopIsTyped
  <2>3. CASE StartValidation
    BY <2>3, StartValidationIsTyped
  <2> QED
    BY <2>1, <2>2, <2>3, FlowStepKeepsLoop
<1> SUFFICES FlowTyped'
  BY <1>0
<1>1. plan' \in Plans
  BY DEF FlowTyped, FlowStep, Prepare, AgentEnds, CeilingExceeded, LintEnds, SingleValidated, SingleRevalidated,
         ReviewValidated, WorkerValidated, Gate, ReviewPasses, MustFix, Approves, Rejects, AddressReview, Collect, Throws
<1>2. CASE Prepare
  BY <1>1, <1>2 DEF Prepare, FlowTyped, Phases
<1>3. CASE AgentEnds
  <2>1. calls' \in Nat /\ verified' \in BOOLEAN
    BY <1>3, InvokeIsTyped DEF AgentEnds, FlowTyped
  <2>2. agentFailed' \in BOOLEAN
    BY <1>3 DEF AgentEnds
  <2> QED
    BY <1>1, <1>3, <2>1, <2>2 DEF AgentEnds, StartLint, FlowTyped, Phases
<1>4. CASE CeilingExceeded
  <2>1. calls' \in Nat /\ verified' \in BOOLEAN
    BY <1>4, InvokeIsTyped DEF CeilingExceeded, FlowTyped
  <2> QED
    BY <1>1, <1>4, <2>1 DEF CeilingExceeded, Finish, FlowTyped, Phases
<1>5. CASE LintEnds
  BY <1>1, <1>5 DEF LintEnds, StartValidation, Finish, FlowTyped, Phases
<1>6. CASE SingleValidated \/ SingleRevalidated
  BY <1>1, <1>6 DEF SingleValidated, SingleRevalidated, NextReview, Finish, FlowTyped, Phases
<1>7. CASE ReviewValidated
  BY <1>1, <1>7 DEF ReviewValidated, NextReview, CollectOrGiveUp, Finish, FlowTyped, Phases
<1>8. CASE WorkerValidated
  BY <1>1, <1>8 DEF WorkerValidated, NextReview, Finish, FlowTyped, Phases
<1>9. CASE Gate
  BY <1>1, <1>9 DEF Gate, NextReview, Finish, FlowTyped, Phases
<1>10. CASE ReviewPasses \/ MustFix \/ Approves \/ Rejects
  <2>0. calls' = calls + 1
    BY <1>10 DEF ReviewPasses, MustFix, runReviewAgent, Approves, Rejects
  <2>1. calls' \in Nat
    BY <2>0 DEF FlowTyped
  <2>2. pc' \in Phases
    BY <1>10 DEF ReviewPasses, MustFix, Approves, Rejects, CollectOrGiveUp, Finish, Phases
  <2>3. approved' \in BOOLEAN /\ success' \in BOOLEAN
    BY <1>10 DEF ReviewPasses, MustFix, runReviewAgent, Approves, Rejects, CollectOrGiveUp, Finish, FlowTyped
  <2>4. CASE runReviewAgent
    <3>1. verified' \in BOOLEAN
      BY <2>4 DEF runReviewAgent, FlowTyped
    <3>2. reviewerChanged' \in BOOLEAN
      BY <2>4, Zenon DEF runReviewAgent
    <3>3. (ReviewPasses \/ MustFix) => UNCHANGED << plan, ok, caller >>
      BY DEF ReviewPasses, MustFix
    <3> QED
      BY <1>1, <1>10, <2>1, <2>2, <2>3, <2>4, <3>1, <3>2, <3>3
      DEF runReviewAgent, Approves, Rejects, FlowTyped
  <2> QED
    BY <1>1, <1>10, <2>1, <2>2, <2>3, <2>4 DEF ReviewPasses, MustFix, Approves, Rejects, FlowTyped
<1>11. CASE AddressReview
  <2>1. calls' \in Nat /\ verified' \in BOOLEAN
    BY <1>11, InvokeIsTyped DEF AddressReview, FlowTyped
  <2> QED
    BY <1>1, <1>11, <2>1 DEF AddressReview, StartLint, StartValidation, FlowTyped, Phases
<1>12. CASE Collect
  <2>1. success' \in BOOLEAN
    BY <1>12, PlansAreTyped DEF Collect, Finish, Succeeded, FlowTyped, PlanTyped, Modes
  <2> QED
    BY <1>1, <1>12, <2>1 DEF Collect, Finish, FlowTyped, Phases
<1>13. CASE Throws
  BY <1>1, <1>13 DEF Throws, Finish, FlowTyped, Phases
<1> QED
  BY <1>2, <1>3, <1>4, <1>5, <1>6, <1>7, <1>8, <1>9, <1>10, <1>11, <1>12, <1>13 DEF FlowStep

-----------------------------------------------------------------------------
(* Where the rounds of the review stand, and the types of an execution *)

InGate == pc \in {"lint", "lintFix", "linted"}
InLoop == InGate \/ pc \in {"step", "fix", "validated"}

(* The first review follows the main flow, the second one its repairs.      *)
RoundsInv ==
    /\ reviewRound \in 0..2
    /\ plan.mode = "worker" => caller = "main"
    /\ pc \in {"none", "prepare", "agent", "gate"} => caller = "main"
    /\ pc \in {"none", "prepare", "agent", "gate"} => reviewRound = 0
    /\ InLoop /\ caller = "main" => reviewRound = 0
    /\ InLoop /\ caller = "review" => reviewRound = 1
    /\ pc = "review" => reviewRound \in 1..2
    /\ pc = "review" /\ caller = "main" => reviewRound = 1
    /\ pc = "review" /\ caller = "review" => reviewRound = 2
    /\ pc = "reviewFix" => reviewRound = 1 /\ plan.mode # "worker"

(* A step of the gate or of the loop stays there.                           *)
Stays == InLoop /\ InLoop' /\ plan' = plan /\ (InGate' => InGate)

LEMMA ValidationStaysInLoop ==
    ASSUME ValidationStep PROVE Stays
<1>1. CASE LintRound \/ LintFix
  BY <1>1 DEF LintRound, LintFix, Stays, InLoop, InGate
<1>2. CASE StepPasses \/ EndRound
  BY <1>2 DEF StepPasses, EndRound, Return, Stays, InLoop, InGate
<1>3. ASSUME NEW o \in plan.prints, RepeatedFailure(o) \/ StepFails(o) PROVE Stays
  BY <1>3 DEF RepeatedFailure, StepFails, Return, Stays, InLoop, InGate
<1>4. ASSUME NEW fs \in SUBSET plan.touches, Fix(fs) PROVE Stays
  BY <1>4 DEF Fix, Return, Stays, InLoop, InGate
<1> QED
  BY <1>1, <1>2, <1>3, <1>4 DEF ValidationStep

LEMMA RoundsKept ==
    ASSUME FlowTyped, RoundsInv, ExecutionStep PROVE RoundsInv'
<1>0. PlanTyped
  BY PlansAreTyped DEF FlowTyped
<1> USE DEF RoundsInv, InLoop, InGate
<1>1. CASE ValidationStep /\ UNCHANGED << caller, reviewRound, resultVars >>
  BY <1>1, ValidationStaysInLoop DEF Stays
<1>2. CASE Prepare \/ CeilingExceeded \/ Collect \/ Throws
  BY <1>2 DEF Prepare, CeilingExceeded, Collect, Throws, Finish
<1>3. CASE AgentEnds
  BY <1>3 DEF AgentEnds, StartLint
<1>4. CASE LintEnds
  BY <1>4 DEF LintEnds, StartValidation, Finish
<1>5. CASE SingleValidated \/ SingleRevalidated
  BY <1>5 DEF SingleValidated, SingleRevalidated, NextReview, Finish
<1>6. CASE ReviewValidated
  BY <1>0, <1>6 DEF ReviewValidated, NextReview, CollectOrGiveUp, Finish, PlanTyped
<1>7. CASE WorkerValidated
  BY <1>7 DEF WorkerValidated, NextReview, Finish
<1>8. CASE Gate
  BY <1>8 DEF Gate, NextReview, Finish
<1>9. CASE ReviewPasses \/ MustFix \/ Approves
  BY <1>9 DEF ReviewPasses, MustFix, Approves
<1>10. CASE Rejects
  BY <1>0, <1>10 DEF Rejects, CollectOrGiveUp, Finish, PlanTyped
<1>11. CASE AddressReview
  BY <1>11 DEF AddressReview, StartLint, StartValidation
<1> QED
  BY <1>1, <1>2, <1>3, <1>4, <1>5, <1>6, <1>7, <1>8, <1>9, <1>10, <1>11 DEF ExecutionStep, FlowStep

LEMMA ExecutionIsTyped ==
    ASSUME ExecutionTypeOK, RoundsInv, ExecutionStep PROVE ExecutionTypeOK'
<1>1. LoopTyped /\ FlowTyped /\ reviewRound \in 0..2
  BY TypedInParts
<1>2. LoopTyped' /\ FlowTyped'
  BY <1>1, ValidationStepIsTyped, FlowStepIsTyped DEF ExecutionStep
<1>3. reviewRound' \in 0..2
  BY <1>1, RoundsKept DEF RoundsInv
<1> QED
  BY <1>2, <1>3 DEF ExecutionTypeOK, ValidationTypeOK, LoopTyped, FlowTyped

-----------------------------------------------------------------------------
(* Types of the whole daemon *)

TypeInv == TypeOK /\ RoundsInv

LEMMA BeginIsTyped ==
    ASSUME NEW p \in Plans, NEW phase \in {"none", "prepare", "cleanup"}, Begin(p, phase)
    PROVE  ExecutionTypeOK' /\ RoundsInv'
<1>1. LoopTyped'
  <2>1. FreshLoop /\ round' = 0 /\ loop' = FALSE
    BY DEF Begin
  <2> QED
    BY <2>1, FreshIsTyped
<1>2. FlowTyped'
  BY DEF Begin, FlowTyped, Phases
<1>3. reviewRound' \in 0..2
  BY DEF Begin
<1>4. RoundsInv'
  BY DEF Begin, RoundsInv, InLoop, InGate
<1> QED
  BY <1>1, <1>2, <1>3, <1>4 DEF ExecutionTypeOK, ValidationTypeOK, LoopTyped, FlowTyped

LEMMA AnyPlanIsOne == ASSUME load \in Loads PROVE AnyPlan \in load.plans /\ load.plans \subseteq Plans
BY LoadsAssumption DEF AnyPlan

LEMMA IdleIsTyped == ASSUME load \in Loads, Idle PROVE ExecutionTypeOK' /\ RoundsInv'
BY AnyPlanIsOne, BeginIsTyped DEF Idle

LEMMA TakeUpIsTyped ==
    ASSUME TypeOK, current' \in Runs \cup {NoRun}, TakeUp
    PROVE  /\ ExecutionTypeOK' /\ RoundsInv'
           /\ locks' \subseteq [key : {WorkspaceOf[r] : r \in Runs}, owner : Runs, pid : Nat]
<1>1. CASE current' = NoRun
  BY <1>1, IdleIsTyped DEF TakeUp, TypeOK, TableTypeOK
<1>2. CASE current' # NoRun
  <2>1. PICK p \in load.plans :
          IF p.mode = "single" /\ Locked(current')
          THEN Begin(p, "cleanup") /\ UNCHANGED locks
          ELSE /\ Begin(p, "prepare")
               /\ locks' = IF p.mode = "single" THEN locks \cup {LockOf(current')} ELSE locks
    BY <1>2 DEF TakeUp
  <2>2. ExecutionTypeOK' /\ RoundsInv'
    <3>1. p \in Plans /\ (Begin(p, "cleanup") \/ Begin(p, "prepare"))
      BY <2>1, AnyPlanIsOne DEF TypeOK
    <3> QED
      BY <3>1, BeginIsTyped
  <2>3. LockOf(current') \in [key : {WorkspaceOf[r] : r \in Runs}, owner : Runs, pid : Nat]
    BY <1>2 DEF LockOf, TypeOK, TableTypeOK
  <2> QED
    BY <2>1, <2>2, <2>3 DEF TypeOK, TableTypeOK
<1> QED
  BY <1>1, <1>2

LEMMA ProcessNextIsTyped ==
    ASSUME NEW rows \in [Runs -> Statuses], NEW line \in Seq(Runs), NEW busy \in Runs \cup {NoRun},
           processNext(rows, line, busy)
    PROVE  status' \in [Runs -> Statuses] /\ queued' \in Seq(Runs) /\ current' \in Runs \cup {NoRun}
<1>1. CASE busy # NoRun \/ line = << >>
  BY <1>1 DEF processNext
<1>2. CASE ~(busy # NoRun \/ line = << >>)
  <2>1. Head(line) \in Runs /\ Tail(line) \in Seq(Runs)
    BY <1>2
  <2>2. "running" \in Statuses
    BY DEF Statuses
  <2> QED
    BY <1>2, <2>1, <2>2 DEF processNext
<1> QED
  BY <1>1, <1>2

LEMMA InitTyped == Init => TypeInv
<1> SUFFICES ASSUME Init PROVE TypeInv
  OBVIOUS
<1>1. TableTypeOK
  <2>1. locks \subseteq [key : {WorkspaceOf[r] : r \in Runs}, owner : Runs, pid : Nat] /\ leftover \subseteq Runs
    BY DEF Init, TableInit
  <2>2. up \in BOOLEAN /\ reused \in BOOLEAN
    BY Zenon DEF Init, TableInit
  <2>3. status \in [Runs -> Statuses] /\ queued \in Seq(Runs)
    BY DEF Init, TableInit, Statuses
  <2> QED
    BY <2>1, <2>2, <2>3 DEF Init, TableInit, TableTypeOK
<1>2. load \in Loads /\ plan \in Plans
  BY AnyPlanIsOne DEF Init
<1>3. LoopTyped
  <2>1. NothingFailed \in [Steps -> Outputs \cup {NoOutput}] /\ NothingSeen \in [Steps -> [Keys -> Nat]]
    BY DEF NothingFailed, NothingSeen
  <2>2. errors \in [last : Errors \cup {NoOutput}, row : Nat]
    BY DEF Init
  <2>3. feedback \in [last : [Steps -> Outputs \cup {NoOutput}], changed : BOOLEAN, row : Nat]
    BY <2>1 DEF Init
  <2>4. written \subseteq Files
    BY DEF Init
  <2>5. strategyChanged \in BOOLEAN /\ loop \in BOOLEAN
    BY Zenon DEF Init
  <2>6. failing \in [Steps -> Outputs \cup {NoOutput}] /\ seen \in [Steps -> [Keys -> Nat]]
    BY <2>1 DEF Init
  <2>7. round \in Nat /\ step \in Nat \ {0} /\ writes \in Nat
    BY DEF Init
  <2> QED
    BY <2>2, <2>3, <2>4, <2>5, <2>6, <2>7 DEF LoopTyped
<1>4. FlowTyped /\ reviewRound \in 0..2
  <2>1. pc \in Phases /\ calls \in Nat /\ caller \in {"main", "review"} /\ reviewRound \in 0..2
    BY DEF Init, Phases
  <2>2. /\ ok \in BOOLEAN /\ verified \in BOOLEAN
        /\ agentFailed \in BOOLEAN /\ passed \in BOOLEAN /\ approved \in BOOLEAN
        /\ success \in BOOLEAN /\ exceeded \in BOOLEAN /\ collected \in BOOLEAN
        /\ reviewerChanged \in BOOLEAN
    BY Zenon DEF Init
  <2> QED
    BY <1>2, <2>1, <2>2 DEF FlowTyped
<1>5. RoundsInv
  BY DEF Init, RoundsInv, InLoop, InGate
<1> QED
  BY <1>1, <1>2, <1>3, <1>4, <1>5, TypedInParts DEF TypeInv, TypeOK

LEMMA NextTyped == ASSUME TypeInv, [Next]_vars PROVE TypeInv'
<1> USE DEF TypeInv
<1>1. ASSUME NEW r \in Runs, Submit(r) PROVE TypeInv'
  <2>1. status' \in [Runs -> Statuses] /\ queued' \in Seq(Runs) /\ current' \in Runs \cup {NoRun}
    <3>1. [status EXCEPT ![r] = "queued"] \in [Runs -> Statuses] /\ Append(queued, r) \in Seq(Runs)
      BY DEF TypeOK, TableTypeOK, Statuses
    <3>2. current \in Runs \cup {NoRun}
      BY DEF TypeOK, TableTypeOK
    <3> QED
      BY <1>1, <3>1, <3>2, ProcessNextIsTyped DEF Submit, submit
  <2>2. CASE current = NoRun
    <3>1. TakeUp
      BY <1>1, <2>2 DEF Submit
    <3> QED
      BY <1>1, <2>1, <3>1, TakeUpIsTyped DEF Submit, TypeOK, TableTypeOK
  <2>3. CASE current # NoRun
    <3>1. UNCHANGED << executionVars, locks >>
      BY <1>1, <2>3 DEF Submit
    <3>2. ExecutionTypeOK' /\ RoundsInv'
      BY <3>1 DEF executionVars, validationVars, loopVars, resultVars, TypeOK, ExecutionTypeOK, ValidationTypeOK,
                  RoundsInv, InLoop, InGate
    <3> QED
      BY <1>1, <2>1, <3>1, <3>2 DEF Submit, TypeOK, TableTypeOK
  <2> QED
    BY <2>2, <2>3
<1>2. ASSUME NEW r \in Runs, Dispatch(r) PROVE TypeInv'
  <2>1. status' \in [Runs -> Statuses]
    BY <1>2 DEF Dispatch, TypeOK, TableTypeOK, Statuses
  <2>2. current' \in Runs \cup {NoRun} /\ TakeUp
    BY <1>2 DEF Dispatch
  <2> QED
    BY <1>2, <2>1, <2>2, TakeUpIsTyped DEF Dispatch, TypeOK, TableTypeOK
<1>3. CASE Execute
  <2>1. ExecutionTypeOK' /\ RoundsInv'
    <3>1. ExecutionTypeOK /\ ExecutionStep
      BY <1>3 DEF Execute, TypeOK
    <3>2. FlowTyped
      BY <3>1, TypedInParts
    <3> QED
      BY <3>1, <3>2, ExecutionIsTyped, RoundsKept
  <2>2. locks' \subseteq [key : {WorkspaceOf[r] : r \in Runs}, owner : Runs, pid : Nat]
    BY <1>3 DEF Execute, Released, TypeOK, TableTypeOK
  <2>3. status' \in [Runs -> Statuses]
    BY <1>3 DEF Execute, TypeOK, TableTypeOK, Statuses
  <2> QED
    BY <1>3, <2>1, <2>2, <2>3 DEF Execute, TypeOK, TableTypeOK
<1>4. CASE EndRun
  <2>1. status' \in [Runs -> Statuses] /\ queued' \in Seq(Runs) /\ current' \in Runs \cup {NoRun}
    <3>1. [status EXCEPT ![current] = IF success THEN "completed" ELSE "failed"] \in [Runs -> Statuses]
      BY DEF TypeOK, TableTypeOK, Statuses
    <3>2. queued \in Seq(Runs)
      BY DEF TypeOK, TableTypeOK
    <3> QED
      BY <1>4, <3>1, <3>2, ProcessNextIsTyped DEF EndRun, settle
  <2>2. TakeUp
    BY <1>4 DEF EndRun
  <2> QED
    BY <1>4, <2>1, <2>2, TakeUpIsTyped DEF EndRun, TypeOK, TableTypeOK
<1>5. CASE EndWorker
  BY <1>5, IdleIsTyped DEF EndWorker, TypeOK, TableTypeOK
<1>6. ASSUME NEW r \in Runs, Stop(r) PROVE TypeInv'
  <2>1. status' \in [Runs -> Statuses]
    BY <1>6 DEF Stop, stop, TypeOK, TableTypeOK, Statuses
  <2>2. ExecutionTypeOK' /\ RoundsInv'
    BY <1>6 DEF Stop, executionVars, validationVars, loopVars, resultVars, TypeOK, ExecutionTypeOK, ValidationTypeOK,
                RoundsInv, InLoop, InGate
  <2> QED
    BY <1>6, <2>1, <2>2 DEF Stop, stop, TypeOK, TableTypeOK
<1>7. CASE Crash
  <2>1. up' \in BOOLEAN
    BY <1>7, Zenon DEF Crash, TableCrash
  <2> QED
    BY <1>7, <2>1, IdleIsTyped DEF Crash, TableCrash, TypeOK, TableTypeOK
<1>8. CASE Restart
  <2>0. PICK p \in {pid, pid + 1} : TableRestart(p)
    BY <1>8 DEF Restart
  <2>1. status' \in [Runs -> Statuses]
    BY <2>0 DEF TableRestart, recoverInterruptedRuns, TypeOK, TableTypeOK, Statuses
  <2>2. up' \in BOOLEAN /\ reused' \in BOOLEAN
    BY <2>0, Zenon DEF TableRestart
  <2>3. locks' \subseteq [key : {WorkspaceOf[r] : r \in Runs}, owner : Runs, pid : Nat]
    BY <2>0 DEF TableRestart, releaseAllStaleLocks, TypeOK, TableTypeOK
  <2>4. leftover' \subseteq Runs
    BY <2>0 DEF TableRestart, TypeOK, TableTypeOK
  <2>5. pid' \in Nat /\ restarts' \in Nat
    BY <2>0 DEF TableRestart, TypeOK, TableTypeOK
  <2>6. ExecutionTypeOK' /\ RoundsInv'
    BY <1>8 DEF Restart, executionVars, validationVars, loopVars, resultVars, TypeOK, ExecutionTypeOK, ValidationTypeOK,
                RoundsInv, InLoop, InGate
  <2> QED
    BY <1>8, <2>0, <2>1, <2>2, <2>3, <2>4, <2>5, <2>6 DEF Restart, TableRestart, TypeOK, TableTypeOK
<1>9. CASE UNCHANGED vars
  BY <1>9 DEF vars, tableVars, executionVars, validationVars, loopVars, resultVars, TypeOK, TableTypeOK,
              ExecutionTypeOK, ValidationTypeOK, RoundsInv, InLoop, InGate
<1> QED
  BY <1>1, <1>2, <1>3, <1>4, <1>5, <1>6, <1>7, <1>8, <1>9 DEF Next

(* The state of the daemon is well typed, and a review is at its first round *)
(* until it has had its repairs.                                            *)
THEOREM TypeCorrect == Spec => []TypeOK
<1>1. Spec => []TypeInv
  BY InitTyped, NextTyped, PTL DEF Spec
<1>2. TypeInv => TypeOK
  BY DEF TypeInv
<1> QED
  BY <1>1, <1>2, PTL

-----------------------------------------------------------------------------
(* What an execution collects *)

Excuse ==
    \/ plan.mode = "worker" /\ ~passed /\ ~loop
    \/ plan.mode = "single" /\ caller = "review" /\ reviewRound = 1 /\ ~ok
    \/ plan.mode = "review" /\ plan.onFailure = "pause" /\ approved /\ ~passed
    \/ reviewerChanged

(* How far what has been shown of the work is known, phase by phase.        *)
FlowInv ==
    /\ collected => pc = "cleanup"
    /\ pc = "gate" => plan.mode = "worker"
    /\ InGate /\ caller = "review" => plan.mode = "single"
    /\ plan.steps > 0 =>
         /\ pc = "validated" /\ ok => verified
         /\ pc = "review" /\ plan.mode # "review" => verified
         /\ pc = "review" /\ plan.mode = "review" /\ passed => verified
         /\ pc = "review" /\ plan.mode = "review" /\ plan.onFailure = "abandon" => passed
         /\ (pc = "output" \/ collected) /\ plan.onFailure # "output-wip" => verified \/ Excuse

LEMMA ValidationShowsWhatItSays ==
    ASSUME ValidationStep PROVE pc' = "validated" /\ ok' /\ plan.steps > 0 => verified'
<1>1. CASE LintRound \/ LintFix \/ StepPasses
  BY <1>1 DEF LintRound, LintFix, StepPasses
<1>2. ASSUME NEW o \in plan.prints, RepeatedFailure(o) \/ StepFails(o)
      PROVE pc' = "validated" /\ ok' /\ plan.steps > 0 => verified'
  BY <1>2 DEF RepeatedFailure, StepFails, Return
<1>3. CASE EndRound
  BY <1>3 DEF EndRound, Return
<1>4. ASSUME NEW fs \in SUBSET plan.touches, Fix(fs) PROVE pc' = "validated" /\ ok' /\ plan.steps > 0 => verified'
  BY <1>4 DEF Fix, Return
<1> QED
  BY <1>1, <1>2, <1>3, <1>4 DEF ValidationStep

LEMMA FlowKept ==
    ASSUME FlowTyped, RoundsInv, FlowInv, ExecutionStep PROVE FlowInv'
<1>0. PlanTyped
  BY PlansAreTyped DEF FlowTyped
<1> USE DEF FlowInv, resultVars, InGate
<1>1. CASE ValidationStep /\ UNCHANGED << caller, reviewRound, resultVars >>
  <2>1. ~collected /\ UNCHANGED collected
    BY <1>1, ValidationStaysInLoop DEF Stays, InLoop, InGate
  <2> QED
    BY <1>1, <2>1, ValidationStaysInLoop, ValidationShowsWhatItSays DEF Stays, InLoop, InGate
<1>2a. CASE Prepare \/ CeilingExceeded \/ Throws
  <2>1. ~collected /\ UNCHANGED collected /\ pc' \in {"agent", "cleanup"} /\ plan' = plan
    BY <1>2a DEF Prepare, CeilingExceeded, Throws, Finish
  <2> QED
    BY <2>1 DEF InGate
<1>2b. CASE AgentEnds
  <2>1. ~collected /\ UNCHANGED << collected, caller >> /\ pc' \in {"lint", "linted"} /\ caller = "main"
    BY <1>2b DEF AgentEnds, StartLint, RoundsInv
  <2> QED
    BY <2>1
<1>3. CASE LintEnds
  BY <1>3 DEF LintEnds, StartValidation, Finish, Excuse, RoundsInv, InLoop, InGate
<1>4. CASE SingleValidated
  BY <1>4 DEF SingleValidated, NextReview, Finish
<1>5. CASE SingleRevalidated
  BY <1>5 DEF SingleRevalidated, NextReview, Excuse, RoundsInv, InLoop, InGate
<1>6. CASE ReviewValidated
  BY <1>0, <1>6 DEF ReviewValidated, NextReview, CollectOrGiveUp, Finish, Excuse, PlanTyped
<1>7. CASE WorkerValidated
  BY <1>7 DEF WorkerValidated, NextReview, Finish, Excuse
<1>8. CASE Gate
  BY <1>8 DEF Gate, NextReview, Finish
<1>9. CASE ReviewPasses \/ MustFix
  <2>1. plan.steps > 0 => verified' \/ reviewerChanged'
    BY <1>9, Zenon DEF ReviewPasses, MustFix, runReviewAgent
  <2>2. ~collected /\ UNCHANGED << plan, collected >> /\ pc' \in {"output", "reviewFix"}
    BY <1>9 DEF ReviewPasses, MustFix, runReviewAgent
  <2> QED
    BY <2>1, <2>2 DEF Excuse
<1>10. CASE Approves
  BY <1>0, <1>10 DEF Approves, Excuse, PlanTyped
<1>11. CASE Rejects
  BY <1>0, <1>11 DEF Rejects, CollectOrGiveUp, Finish, Excuse
<1>12. CASE AddressReview
  BY <1>12 DEF AddressReview, StartLint, StartValidation
<1>13. CASE Collect
  BY <1>13 DEF Collect, Finish, Excuse
<1> QED
  BY <1>1, <1>2a, <1>2b, <1>3, <1>4, <1>5, <1>6, <1>7, <1>8, <1>9, <1>10, <1>11, <1>12, <1>13 DEF ExecutionStep, FlowStep

LEMMA FlowImplies == FlowInv => UnverifiedWorkStaysIn
BY DEF FlowInv, UnverifiedWorkStaysIn, Excuse

-----------------------------------------------------------------------------
(* How often an execution calls an agent *)

LintRepairs == IF plan.lint = -1 THEN 0 ELSE plan.lint
LoopRepairs == IF plan.steps = 0 THEN 0 ELSE plan.retries
Base == IF caller = "main" THEN 1 ELSE 3 + Repairs

CallsInv ==
    /\ pc \in {"none", "prepare", "agent"} => calls = 0
    /\ pc = "lint" => plan.lint # -1 /\ round \in 1..plan.lint + 1 /\ calls <= Base + round - 1
    /\ pc = "lintFix" => plan.lint # -1 /\ round \in 1..plan.lint /\ calls <= Base + round - 1
    /\ pc = "linted" => calls <= Base + LintRepairs
    /\ pc = "step" => plan.steps # 0 /\ round \in 1..plan.retries + 1 /\ calls <= Base + LintRepairs + round - 1
    /\ pc = "fix" => plan.steps # 0 /\ round \in 1..plan.retries /\ calls <= Base + LintRepairs + round - 1
    /\ pc = "validated" => calls <= Base + Repairs
    /\ pc = "gate" => calls <= 1 + Repairs
    /\ pc = "review" => calls <= Base + Repairs
    /\ pc = "reviewFix" => calls <= 2 + Repairs
    /\ AgentCallsBounded

LEMMA RepairsAdd ==
    ASSUME PlanTyped PROVE LintRepairs \in Nat /\ LoopRepairs \in Nat /\ Repairs = LintRepairs + LoopRepairs
BY DEF PlanTyped, LintRepairs, LoopRepairs, Repairs

LEMMA PlanKept == ASSUME ExecutionStep PROVE plan' = plan
<1>1. CASE ValidationStep
  BY <1>1, ValidationStaysInLoop DEF Stays
<1>2. CASE FlowStep
  BY <1>2 DEF FlowStep, Prepare, AgentEnds, CeilingExceeded, LintEnds, SingleValidated, SingleRevalidated,
              ReviewValidated, WorkerValidated, Gate, ReviewPasses, MustFix, Approves, Rejects, AddressReview, Collect, Throws
<1> QED
  BY <1>1, <1>2 DEF ExecutionStep

LEMMA ValidationCalls ==
    ASSUME FlowTyped, LoopTyped, RoundsInv, CallsInv, calls' \in Nat,
           ValidationStep, UNCHANGED << caller, reviewRound >>
    PROVE  CallsInv'
<1>0. PlanTyped /\ calls \in Nat /\ round \in Nat /\ caller \in {"main", "review"}
  BY PlansAreTyped DEF FlowTyped, LoopTyped
<1>1. LintRepairs \in Nat /\ LoopRepairs \in Nat /\ Repairs = LintRepairs + LoopRepairs
  BY <1>0, RepairsAdd
<1>2. /\ plan' = plan /\ LintRepairs' = LintRepairs /\ LoopRepairs' = LoopRepairs /\ Repairs' = Repairs
      /\ Base' = Base /\ InLoop /\ InLoop'
  BY ValidationStaysInLoop DEF Stays, LintRepairs, LoopRepairs, Repairs, Base
<1>3. Base \in Nat
  BY <1>1 DEF Base
<1>4. calls' <= Base + Repairs => AgentCallsBounded'
  BY <1>0, <1>1, <1>2 DEF AgentCallsBounded, Base, RoundsInv
<1>5. ASSUME pc' = "validated", calls' <= Base + Repairs PROVE CallsInv'
  BY <1>2, <1>4, <1>5 DEF CallsInv
<1>6. CASE LintRound
  <2>1. pc = "lint" /\ calls' = calls /\ round' = round
    BY <1>6 DEF LintRound
  <2>2. calls <= Base + LintRepairs
    BY <2>1, <1>0, <1>3 DEF CallsInv, LintRepairs, PlanTyped
  <2>3. CASE pc' = "linted"
    BY <2>1, <2>2, <2>3, <1>0, <1>1, <1>2, <1>3, <1>4 DEF CallsInv
  <2>4. CASE pc' = "lintFix" /\ round <= plan.lint
    BY <2>1, <2>4, <1>0, <1>2 DEF CallsInv, PlanTyped, AgentCallsBounded
  <2> QED
    BY <1>6, <2>3, <2>4 DEF LintRound
<1>7. CASE LintFix
  <2>1. pc = "lintFix" /\ pc' = "lint" /\ calls' = calls + 1 /\ round' = round + 1
    BY <1>7 DEF LintFix, Invoke
  <2>2. plan.lint # -1 /\ round \in 1..plan.lint /\ calls' <= Base + round' - 1 /\ round' <= LintRepairs + 1
    BY <2>1, <1>0, <1>3 DEF CallsInv, PlanTyped, LintRepairs
  <2>3. calls' <= Base + Repairs
    BY <2>1, <2>2, <1>0, <1>1, <1>3
  <2> QED
    BY <2>1, <2>2, <2>3, <1>0, <1>2, <1>4 DEF CallsInv, PlanTyped
<1>8. CASE StepPasses
  BY <1>8, <1>2 DEF StepPasses, CallsInv, AgentCallsBounded
<1>9. pc \in {"step", "fix"} => /\ plan.steps # 0 /\ round \in 1..plan.retries + 1
                                /\ calls <= Base + LintRepairs + round - 1
                                /\ calls <= Base + Repairs
  BY <1>0, <1>1, <1>3 DEF CallsInv, PlanTyped, LoopRepairs
<1>10. ASSUME NEW o \in plan.prints, RepeatedFailure(o) PROVE CallsInv'
  BY <1>5, <1>9, <1>10 DEF RepeatedFailure, Return
<1>11. ASSUME NEW o \in plan.prints, StepFails(o) PROVE CallsInv'
  BY <1>11, <1>2 DEF StepFails, CallsInv, AgentCallsBounded
<1>12. CASE EndRound
  <2>1. pc = "step" /\ calls' = calls /\ round' = round
    BY <1>12 DEF EndRound, Return
  <2>2. CASE pc' = "validated"
    BY <2>1, <2>2, <1>5, <1>9
  <2>3. CASE pc' = "fix" /\ round <= plan.retries
    BY <2>1, <2>3, <1>0, <1>2, <1>9 DEF CallsInv, AgentCallsBounded, PlanTyped
  <2> QED
    BY <1>12, <2>2, <2>3 DEF EndRound, Return
<1>13. ASSUME NEW fs \in SUBSET plan.touches, Fix(fs) PROVE CallsInv'
  <2>1. pc = "fix" /\ calls' = calls + 1
    BY <1>13 DEF Fix, Invoke
  <2>2. round \in 1..plan.retries /\ plan.steps # 0 /\ calls <= Base + LintRepairs + round - 1 /\ LoopRepairs = plan.retries
    BY <2>1 DEF CallsInv, LoopRepairs
  <2>3. calls' <= Base + LintRepairs + round /\ calls' <= Base + Repairs
    BY <2>1, <2>2, <1>0, <1>1, <1>3 DEF PlanTyped
  <2>4. CASE pc' = "validated"
    BY <2>3, <2>4, <1>5
  <2>5. CASE pc' = "step" /\ round' = round + 1
    BY <2>2, <2>3, <2>5, <1>0, <1>2, <1>4 DEF CallsInv, PlanTyped
  <2> QED
    BY <1>13, <2>4, <2>5 DEF Fix, Return
<1> QED
  BY <1>6, <1>7, <1>8, <1>10, <1>11, <1>12, <1>13 DEF ValidationStep

LEMMA FlowCalls ==
    ASSUME FlowTyped, LoopTyped, RoundsInv, FlowInv, CallsInv, calls' \in Nat, FlowStep
    PROVE  CallsInv'
<1>0. PlanTyped /\ calls \in Nat /\ round \in Nat /\ caller \in {"main", "review"}
  BY PlansAreTyped DEF FlowTyped, LoopTyped
<1>1. LintRepairs \in Nat /\ LoopRepairs \in Nat /\ Repairs = LintRepairs + LoopRepairs
  BY <1>0, RepairsAdd
<1>2. plan' = plan /\ LintRepairs' = LintRepairs /\ LoopRepairs' = LoopRepairs /\ Repairs' = Repairs
  BY PlanKept DEF ExecutionStep, LintRepairs, LoopRepairs, Repairs
<1>3. Base \in Nat
  BY <1>1 DEF Base
<1>4. ASSUME pc' \in {"output", "cleanup"}, calls' <= calls PROVE CallsInv'
  BY <1>0, <1>1, <1>2, <1>4 DEF CallsInv, AgentCallsBounded
<1>5. CASE Prepare
  BY <1>5, <1>2 DEF Prepare, CallsInv, AgentCallsBounded
<1>6. CASE AgentEnds
  BY <1>0, <1>1, <1>2, <1>6 DEF AgentEnds, Invoke, StartLint, CallsInv, AgentCallsBounded, RoundsInv, Base, PlanTyped
<1>7. CASE CeilingExceeded
  BY <1>0, <1>1, <1>2, <1>7 DEF CeilingExceeded, Invoke, Finish, CallsInv, AgentCallsBounded
<1>8. CASE LintEnds
  <2>1. pc = "linted" /\ calls' = calls /\ caller' = caller /\ Base' = Base
    BY <1>8, <1>2 DEF LintEnds, Base
  <2>2. CASE StartValidation
    BY <2>1, <2>2, <1>0, <1>1, <1>2, <1>3 DEF StartValidation, CallsInv, AgentCallsBounded, PlanTyped
  <2>3. CASE pc' \in {"output", "cleanup"}
    BY <2>1, <2>3, <1>4, <1>0
  <2> QED
    BY <1>8, <2>2, <2>3 DEF LintEnds, Finish
<1>9. CASE SingleValidated \/ SingleRevalidated \/ ReviewValidated \/ WorkerValidated
  <2>1. pc = "validated" /\ calls' = calls /\ caller' = caller /\ Base' = Base
    BY <1>9, <1>2 DEF SingleValidated, SingleRevalidated, ReviewValidated, WorkerValidated, Base
  <2>2. CASE pc' \in {"output", "cleanup"}
    BY <2>1, <2>2, <1>4, <1>0
  <2>3. CASE pc' = "review"
    BY <2>1, <2>3, <1>2 DEF CallsInv, AgentCallsBounded
  <2>4. CASE pc' = "gate" /\ plan.mode = "worker"
    BY <2>1, <2>4, <1>2 DEF CallsInv, AgentCallsBounded, RoundsInv, Base
  <2> QED
    BY <1>9, <2>2, <2>3, <2>4 DEF SingleValidated, SingleRevalidated, ReviewValidated, WorkerValidated,
                                  NextReview, CollectOrGiveUp, Finish
<1>10. CASE Gate
  <2>1. pc = "gate" /\ calls' = calls /\ caller' = caller /\ caller = "main"
    BY <1>10 DEF Gate, RoundsInv
  <2>2. CASE pc' = "review"
    BY <2>1, <2>2, <1>2 DEF CallsInv, AgentCallsBounded, Base
  <2>3. CASE pc' = "cleanup"
    BY <2>1, <2>3, <1>4, <1>0
  <2> QED
    BY <1>10, <2>2, <2>3 DEF Gate, NextReview, Finish
<1>11. CASE ReviewPasses \/ MustFix \/ Approves \/ Rejects
  <2>1. pc = "review" /\ calls' = calls + 1
    BY <1>11 DEF ReviewPasses, MustFix, runReviewAgent, Approves, Rejects
  <2>2. calls' <= Base + Repairs + 1
    BY <2>1, <1>0, <1>1, <1>3 DEF CallsInv
  <2>3. AgentCallsBounded'
    BY <2>2, <1>0, <1>1, <1>2 DEF AgentCallsBounded, Base, RoundsInv
  <2>4. CASE pc' \in {"output", "cleanup"}
    BY <2>3, <2>4 DEF CallsInv
  <2>5. CASE pc' = "reviewFix" /\ reviewRound < 2
    <3>1. caller = "main"
      BY <2>1, <2>5, <1>0 DEF RoundsInv
    <3>2. calls' <= 2 + Repairs'
      BY <3>1, <2>2, <1>0, <1>1, <1>2 DEF Base
    <3> QED
      BY <3>2, <2>3, <2>5 DEF CallsInv
  <2> QED
    BY <1>11, <1>0, <2>4, <2>5 DEF ReviewPasses, MustFix, Approves, Rejects, CollectOrGiveUp, Finish, PlanTyped, RoundsInv
<1>12. CASE AddressReview
  <2>1. pc = "reviewFix" /\ calls' = calls + 1 /\ caller' = "review" /\ plan.mode # "worker"
    BY <1>12 DEF AddressReview, Invoke, RoundsInv
  <2>2. Base' = 3 + Repairs /\ calls' <= Base'
    BY <2>1, <1>0, <1>1, <1>2 DEF Base, CallsInv
  <2>3. AgentCallsBounded'
    BY <2>1, <2>2, <1>0, <1>1, <1>2 DEF AgentCallsBounded
  <2>4. CASE StartLint
    BY <2>2, <2>3, <2>4, <1>0, <1>1, <1>2 DEF StartLint, CallsInv, PlanTyped
  <2>5. CASE StartValidation
    BY <2>2, <2>3, <2>5, <1>0, <1>1, <1>2 DEF StartValidation, CallsInv, PlanTyped
  <2> QED
    BY <1>12, <2>4, <2>5 DEF AddressReview
<1>13. CASE Collect \/ Throws
  BY <1>0, <1>4, <1>13 DEF Collect, Throws, Finish
<1> QED
  BY <1>5, <1>6, <1>7, <1>8, <1>9, <1>10, <1>11, <1>12, <1>13 DEF FlowStep

-----------------------------------------------------------------------------
(* Both for the whole daemon: a step of it begins an execution, ends it, is  *)
(* one of its steps or none of its business.                               *)

ExecutionInv == TypeInv /\ FlowInv /\ CallsInv

Begins == \E p \in load.plans, phase \in {"none", "prepare", "cleanup"} :
            Begin(p, phase) /\ (phase = "none" <=> current' = NoRun)

LEMMA TakeUpBegins == ASSUME load \in Loads, TakeUp PROVE Begins
BY AnyPlanIsOne DEF TakeUp, Idle, Begins

LEMMA StepsOfTheExecution ==
    ASSUME TypeOK, [Next]_vars
    PROVE  \/ Begins
           \/ up /\ ExecutionStep /\ UNCHANGED current
           \/ UNCHANGED executionVars
<1>0. load \in Loads
  BY DEF TypeOK
<1>1. ASSUME NEW r \in Runs, Submit(r) PROVE Begins \/ UNCHANGED executionVars
  BY <1>0, <1>1, TakeUpBegins DEF Submit
<1>2. ASSUME NEW r \in Runs, Dispatch(r) PROVE Begins
  BY <1>0, <1>2, TakeUpBegins DEF Dispatch
<1>3. CASE EndRun
  BY <1>0, <1>3, TakeUpBegins DEF EndRun
<1>4. CASE EndWorker \/ Crash
  BY <1>0, <1>4, AnyPlanIsOne DEF EndWorker, Crash, TableCrash, Idle, Begins
<1>5. CASE Execute
  BY <1>5 DEF Execute
<1>6. ASSUME NEW r \in Runs, Stop(r) PROVE UNCHANGED executionVars
  BY <1>6 DEF Stop
<1>7. CASE Restart
  BY <1>7 DEF Restart
<1>8. CASE UNCHANGED vars
  BY <1>8 DEF vars
<1> QED
  BY <1>1, <1>2, <1>3, <1>4, <1>5, <1>6, <1>7, <1>8 DEF Next

LEMMA InitExecution == Init => ExecutionInv
<1> SUFFICES ASSUME Init PROVE ExecutionInv
  OBVIOUS
<1>1. TypeInv
  BY InitTyped
<1>2. FlowInv
  BY DEF Init, FlowInv, InGate
<1>3. CallsInv
  <2>1. PlanTyped
    BY <1>1, TypedInParts, PlansAreTyped DEF TypeInv, TypeOK, FlowTyped
  <2> QED
    BY <2>1, RepairsAdd DEF Init, CallsInv, AgentCallsBounded
<1> QED
  BY <1>1, <1>2, <1>3 DEF ExecutionInv

LEMMA BeginExecution ==
    ASSUME NEW p \in Plans, NEW phase \in {"none", "prepare", "cleanup"}, Begin(p, phase)
    PROVE  FlowInv' /\ CallsInv'
<1>1. FlowInv'
  BY DEF Begin, FlowInv, InGate
<1>2. plan' \in Plans /\ calls' = 0 /\ pc' = phase
  BY DEF Begin
<1>3. PICK n \in Nat : Repairs' = n
  BY <1>2, ValidationAssumption DEF Repairs
<1>4. AgentCallsBounded'
  BY <1>2, <1>3 DEF AgentCallsBounded
<1>5. CallsInv'
  BY <1>2, <1>4 DEF CallsInv
<1> QED
  BY <1>1, <1>5

LEMMA NextExecution == ASSUME ExecutionInv, [Next]_vars PROVE ExecutionInv'
<1>1. TypeInv'
  BY NextTyped DEF ExecutionInv
<1>2. CASE Begins
  BY <1>1, <1>2, AnyPlanIsOne, BeginExecution DEF Begins, ExecutionInv, TypeInv, TypeOK
<1>3. CASE ExecutionStep
  <2>1. LoopTyped /\ FlowTyped /\ RoundsInv
    BY TypedInParts DEF ExecutionInv, TypeInv, TypeOK
  <2>2. calls' \in Nat
    BY <1>1 DEF TypeInv, TypeOK, ExecutionTypeOK, ValidationTypeOK
  <2>3. FlowInv'
    BY <1>3, <2>1, FlowKept DEF ExecutionInv
  <2>4. CallsInv'
    BY <1>3, <2>1, <2>2, ValidationCalls, FlowCalls DEF ExecutionInv, ExecutionStep
  <2> QED
    BY <1>1, <2>3, <2>4 DEF ExecutionInv
<1>4. CASE UNCHANGED executionVars
  <2>1. FlowInv'
    BY <1>4 DEF ExecutionInv, executionVars, validationVars, loopVars, resultVars, FlowInv, InGate, Excuse
  <2>2. CallsInv'
    BY <1>4 DEF ExecutionInv, executionVars, validationVars, loopVars, resultVars, CallsInv, AgentCallsBounded, Repairs,
                LintRepairs, Base
  <2> QED
    BY <1>1, <2>1, <2>2 DEF ExecutionInv
<1> QED
  BY <1>2, <1>3, <1>4, StepsOfTheExecution DEF ExecutionInv, TypeInv

LEMMA ExecutionInvariant == Spec => []ExecutionInv
BY InitExecution, NextExecution, PTL DEF Spec

(* For every plan, what leaves an execution unverified leaves by one of the  *)
(* four ways UnverifiedWorkStaysIn names.                                   *)
THEOREM WorkIsVerified == Spec => []UnverifiedWorkStaysIn
<1>1. ExecutionInv => UnverifiedWorkStaysIn
  BY FlowImplies DEF ExecutionInv
<1> QED
  BY <1>1, ExecutionInvariant, PTL

(* For every number of retries of the lint gate and of the loop, an          *)
(* execution calls agents a bounded number of times.                       *)
THEOREM CallsAreBounded == Spec => []AgentCallsBounded
<1>1. ExecutionInv => AgentCallsBounded
  BY DEF ExecutionInv, CallsInv
<1> QED
  BY <1>1, ExecutionInvariant, PTL

-----------------------------------------------------------------------------
(* The table and the queue *)

InLine(r) == \E k \in 1..Len(queued) : queued[k] = r

QueueInv ==
    /\ \A r \in Runs : status[r] = "queued" <=> InLine(r)
    /\ \A j, k \in 1..Len(queued) : queued[j] = queued[k] => j = k
    /\ \A r \in Runs : InLine(r) => r \in load.submitted

RowsInv ==
    /\ current # NoRun => current \in load.submitted \cup load.dispatched
    /\ ~up => current = NoRun
    /\ current \in load.submitted => status[current] \in {"running", "cancelled"}
    /\ up => \A r \in load.submitted : status[r] = "running" => r = current
    /\ up /\ current = NoRun => \A r \in load.submitted : status[r] = "queued" => r \in leftover
    /\ plan \in load.plans
    /\ pc = "none" <=> current = NoRun

(* Only an execution in single mode that has not ended holds a lock.        *)
LocksInv ==
    /\ \A l \in locks : l.pid <= pid
    /\ up /\ ~reused => \A l \in locks : l.owner = current /\ pc # "cleanup" /\ plan.mode = "single"

TableInv == QueueInv /\ RowsInv /\ LocksInv

LEMMA LoadsAreOneKind ==
    ASSUME load \in Loads
    PROVE  /\ load.submitted \subseteq Runs /\ load.dispatched \subseteq Runs
           /\ load.submitted = {} \/ load.dispatched = {}
           /\ \A p \in load.plans : p.mode = "worker" <=> load.submitted = {}
BY LoadsAssumption

(* What processNext does to a table in which line holds the queued rows.     *)
LEMMA ProcessNextKeeps ==
    ASSUME NEW rows \in [Runs -> Statuses], NEW line \in Seq(Runs), NEW busy \in Runs \cup {NoRun},
           \A r \in Runs : rows[r] = "queued" <=> \E k \in 1..Len(line) : line[k] = r,
           \A j, k \in 1..Len(line) : line[j] = line[k] => j = k,
           \A k \in 1..Len(line) : line[k] \in load.submitted,
           load' = load,
           processNext(rows, line, busy)
    PROVE  /\ QueueInv'
           /\ \/ busy # NoRun /\ current' = busy /\ status' = rows
              \/ busy = NoRun /\ line = << >> /\ current' = NoRun /\ status' = rows
              \/ /\ busy = NoRun /\ current' \in load.submitted /\ rows[current'] = "queued"
                 /\ status' = [rows EXCEPT ![current'] = "running"]
<1>1. CASE busy # NoRun \/ line = << >>
  <2>1. current' = busy /\ queued' = line /\ status' = rows
    BY <1>1 DEF processNext
  <2> QED
    BY <1>1, <2>1 DEF QueueInv, InLine
<1>2. CASE busy = NoRun /\ line # << >>
  <2>1. current' = Head(line) /\ queued' = Tail(line) /\ status' = [rows EXCEPT ![Head(line)] = "running"]
    BY <1>2 DEF processNext
  <2>2. /\ Len(line) \in Nat \ {0} /\ Head(line) = line[1] /\ 1 \in 1..Len(line)
        /\ Len(Tail(line)) = Len(line) - 1
        /\ \A k \in 1..Len(Tail(line)) : k + 1 \in 1..Len(line) /\ Tail(line)[k] = line[k + 1]
    BY <1>2
  <2>3. \A r \in Runs : InLine(r)' <=> (r # Head(line) /\ \E k \in 1..Len(line) : line[k] = r)
    <3> SUFFICES ASSUME NEW r \in Runs
                 PROVE  InLine(r)' <=> (r # Head(line) /\ \E k \in 1..Len(line) : line[k] = r)
      OBVIOUS
    <3>1. ASSUME NEW k \in 1..Len(line), line[k] = r, r # Head(line) PROVE InLine(r)'
      <4>1. k # 1 /\ k - 1 \in 1..Len(Tail(line)) /\ Tail(line)[k - 1] = line[k]
        BY <2>2, <3>1
      <4> QED
        BY <2>1, <3>1, <4>1 DEF InLine
    <3>2. ASSUME NEW k \in 1..Len(Tail(line)), Tail(line)[k] = r
          PROVE  r # Head(line) /\ \E j \in 1..Len(line) : line[j] = r
      BY <2>2, <3>2
    <3> QED
      BY <2>1, <3>1, <3>2 DEF InLine
  <2>4. \A j, k \in 1..Len(queued') : queued'[j] = queued'[k] => j = k
    BY <2>1, <2>2
  <2>5. Head(line) \in load.submitted /\ Head(line) \in Runs /\ rows[Head(line)] = "queued"
    BY <2>2
  <2>6. QueueInv'
    BY <2>1, <2>3, <2>4, <2>5 DEF QueueInv
  <2> QED
    BY <1>2, <2>1, <2>5, <2>6
<1> QED
  BY <1>1, <1>2

LEMMA BeginsRows == ASSUME Begins, load' = load PROVE plan' \in load'.plans /\ (pc' = "none" <=> current' = NoRun)
BY DEF Begins, Begin

LEMMA ExecutionIsNotIdle == ASSUME ExecutionStep PROVE pc \notin {"none", "cleanup"} /\ pc' # "none"
<1>1. CASE ValidationStep
  BY <1>1, ValidationStaysInLoop DEF Stays, InLoop, InGate
<1>2. CASE Prepare \/ AgentEnds \/ CeilingExceeded \/ LintEnds
  BY <1>2 DEF Prepare, AgentEnds, CeilingExceeded, LintEnds, StartLint, StartValidation, Finish
<1>3. CASE SingleValidated \/ SingleRevalidated \/ ReviewValidated \/ WorkerValidated \/ Gate
  BY <1>3 DEF SingleValidated, SingleRevalidated, ReviewValidated, WorkerValidated, Gate, NextReview, CollectOrGiveUp, Finish
<1>4. CASE ReviewPasses \/ MustFix \/ Approves \/ Rejects \/ AddressReview \/ Collect \/ Throws
  BY <1>4 DEF ReviewPasses, MustFix, Approves, Rejects, AddressReview, Collect, Throws, CollectOrGiveUp, StartLint,
              StartValidation, Finish
<1> QED
  BY <1>1, <1>2, <1>3, <1>4 DEF ExecutionStep, FlowStep

LEMMA TakeUpLocks ==
    ASSUME TypeOK, TakeUp, UNCHANGED << up, pid, reused >>, current' \in Runs \cup {NoRun},
           \A l \in locks : l.pid <= pid, up /\ ~reused => locks = {}
    PROVE  LocksInv'
<1>1. CASE current' = NoRun
  BY <1>1 DEF TakeUp, LocksInv
<1>2. CASE current' # NoRun
  <2>1. PICK p \in load.plans :
          IF p.mode = "single" /\ Locked(current')
          THEN Begin(p, "cleanup") /\ UNCHANGED locks
          ELSE /\ Begin(p, "prepare")
               /\ locks' = IF p.mode = "single" THEN locks \cup {LockOf(current')} ELSE locks
    BY <1>2 DEF TakeUp
  <2>2. pid \in Nat
    BY DEF TypeOK, TableTypeOK
  <2>3. \A l \in locks' : l.pid <= pid'
    BY <2>1, <2>2 DEF LockOf
  <2>4. ASSUME up, ~reused, NEW l \in locks' PROVE l.owner = current' /\ pc' # "cleanup" /\ plan'.mode = "single"
    <3>1. l \in {LockOf(current')} /\ p.mode = "single" /\ Begin(p, "prepare")
      BY <2>1, <2>4
    <3> QED
      BY <3>1 DEF LockOf, Begin
  <2> QED
    BY <2>3, <2>4 DEF LocksInv
<1> QED
  BY <1>1, <1>2

LEMMA InitTable == Init => TableInv
<1> SUFFICES ASSUME Init PROVE TableInv
  OBVIOUS
<1>1. QueueInv
  BY DEF Init, TableInit, QueueInv, InLine
<1>2. RowsInv
  BY AnyPlanIsOne, LoadsAreOneKind, RunTableAssumption DEF Init, TableInit, RowsInv
<1>3. LocksInv
  BY DEF Init, TableInit, LocksInv
<1> QED
  BY <1>1, <1>2, <1>3 DEF TableInv

LEMMA SubmitTable == ASSUME TypeOK, TableInv, NEW r \in Runs, Submit(r) PROVE TableInv'
<1> DEFINE rows == [status EXCEPT ![r] = "queued"]
           line == Append(queued, r)
<1>1. /\ rows \in [Runs -> Statuses] /\ queued \in Seq(Runs) /\ line \in Seq(Runs)
      /\ current \in Runs \cup {NoRun} /\ load' = load /\ load \in Loads
  BY DEF TypeOK, TableTypeOK, Statuses, Submit
<1>2. r \in load.submitted /\ up /\ up' = up /\ status[r] = "absent" /\ status \in [Runs -> Statuses]
  BY DEF Submit, submit, TypeOK, TableTypeOK
<1>3. ~InLine(r)
  BY <1>2 DEF TableInv, QueueInv
<1>4. /\ Len(line) = Len(queued) + 1 /\ Len(queued) \in Nat /\ line[Len(queued) + 1] = r
      /\ \A k \in 1..Len(queued) : line[k] = queued[k]
  BY <1>1
<1>5. /\ \A q \in Runs : rows[q] = "queued" <=> \E k \in 1..Len(line) : line[k] = q
      /\ \A j, k \in 1..Len(line) : line[j] = line[k] => j = k
      /\ \A k \in 1..Len(line) : line[k] \in load.submitted
  BY <1>1, <1>2, <1>3, <1>4 DEF TableInv, QueueInv, InLine
<1>6. processNext(rows, line, current)
  BY DEF Submit, submit
<1> HIDE DEF rows, line
<1>7. /\ QueueInv'
      /\ \/ current # NoRun /\ current' = current /\ status' = rows
         \/ current = NoRun /\ line = << >> /\ current' = NoRun /\ status' = rows
         \/ current = NoRun /\ current' \in load.submitted /\ rows[current'] = "queued"
            /\ status' = [rows EXCEPT ![current'] = "running"]
  BY <1>1, <1>5, <1>6, ProcessNextKeeps
<1>8. load.submitted \subseteq Runs /\ NoRun \notin Runs
  BY <1>1, LoadsAreOneKind, RunTableAssumption
<1>9. CASE current # NoRun
  <2>1. UNCHANGED << executionVars, locks, up, pid, reused, leftover, current, load >> /\ status' = rows
    BY <1>7, <1>9 DEF Submit
  <2>2. RowsInv'
    BY <1>2, <1>8, <1>9, <2>1 DEF TableInv, RowsInv, rows, executionVars, validationVars
  <2>3. LocksInv'
    BY <2>1 DEF TableInv, LocksInv, executionVars, validationVars
  <2> QED
    BY <1>7, <2>2, <2>3 DEF TableInv
<1>10. CASE current = NoRun
  <2>1. TakeUp /\ UNCHANGED << up, pid, reused, leftover, load >> /\ load.dispatched = {}
    BY <1>1, <1>2, <1>10, LoadsAreOneKind DEF Submit
  <2>2. current' \in load.submitted /\ status' = [rows EXCEPT ![current'] = "running"]
    BY <1>4, <1>7, <1>10
  <2>3. \A q \in load.submitted : rows[q] # "running"
    BY <1>2, <1>8, <1>10 DEF rows, TableInv, RowsInv
  <2>4. RowsInv'
    BY <1>1, <1>2, <1>8, <2>1, <2>2, <2>3, TakeUpBegins, BeginsRows DEF RowsInv
  <2>5. LocksInv'
    <3>1. up /\ ~reused => locks = {}
      BY <1>10, <1>8 DEF TableInv, LocksInv, TypeOK, TableTypeOK
    <3> QED
      BY <1>8, <2>1, <2>2, <3>1, TakeUpLocks DEF TableInv, LocksInv
  <2> QED
    BY <1>7, <2>4, <2>5 DEF TableInv
<1> QED
  BY <1>9, <1>10

LEMMA DispatchTable == ASSUME TypeOK, TableInv, NEW r \in Runs, Dispatch(r) PROVE TableInv'
<1>1. /\ load \in Loads /\ load' = load /\ load.submitted = {} /\ r \in load.dispatched
      /\ UNCHANGED << queued, up, pid, reused, leftover >> /\ up /\ current = NoRun /\ current' = r /\ TakeUp
  BY LoadsAreOneKind DEF TypeOK, Dispatch
<1>2. r \in Runs /\ r # NoRun
  BY RunTableAssumption
<1>3. QueueInv'
  BY <1>1 DEF Dispatch, TableInv, QueueInv, InLine, TypeOK, TableTypeOK
<1>4. RowsInv'
  BY <1>1, <1>2, TakeUpBegins, BeginsRows DEF RowsInv
<1>5. up /\ ~reused => locks = {}
  BY <1>1, RunTableAssumption DEF TableInv, LocksInv, TypeOK, TableTypeOK
<1>6. LocksInv'
  BY <1>1, <1>5, TakeUpLocks DEF TableInv, LocksInv
<1> QED
  BY <1>3, <1>4, <1>6 DEF TableInv

LEMMA ExecuteTable == ASSUME TypeOK, TableInv, Execute PROVE TableInv'
<1>1. /\ UNCHANGED << queued, current, up, pid, reused, leftover, load >> /\ up
      /\ plan' = plan /\ pc \notin {"none", "cleanup"} /\ pc' # "none"
  BY PlanKept, ExecutionIsNotIdle DEF Execute
<1>2. load \in Loads /\ plan \in load.plans /\ current # NoRun /\ current \in load.submitted \cup load.dispatched
  BY <1>1 DEF TypeOK, TableInv, RowsInv
<1>3. load.submitted \subseteq Runs /\ load.dispatched \subseteq Runs
  BY <1>2, LoadsAreOneKind
<1>4. CASE status' = status
  <2>1. QueueInv' /\ RowsInv'
    BY <1>1, <1>2, <1>4 DEF TableInv, QueueInv, InLine, RowsInv
  <2>2. LocksInv'
    BY <1>1 DEF Execute, TableInv, LocksInv, Released
  <2> QED
    BY <2>1, <2>2 DEF TableInv
<1>5. CASE plan.mode = "worker" /\ status' = [status EXCEPT ![current] = "cost_ceiling_exceeded"]
  <2>1. load.submitted = {}
    BY <1>2, <1>5, LoadsAreOneKind
  <2>2. \A r \in Runs : ~InLine(r)
    BY <2>1 DEF TableInv, QueueInv
  <2>3. QueueInv'
    BY <1>1, <1>5, <2>1, <2>2 DEF TableInv, QueueInv, InLine, TypeOK, TableTypeOK
  <2>4. RowsInv'
    BY <1>1, <1>2, <2>1 DEF TableInv, RowsInv
  <2>5. LocksInv'
    BY <1>1 DEF Execute, TableInv, LocksInv, Released
  <2> QED
    BY <2>3, <2>4, <2>5 DEF TableInv
<1> QED
  BY <1>4, <1>5 DEF Execute

LEMMA EndRunTable == ASSUME TypeOK, TableInv, EndRun PROVE TableInv'
<1> DEFINE rows == [status EXCEPT ![current] = IF success THEN "completed" ELSE "failed"]
<1>1. /\ rows \in [Runs -> Statuses] /\ queued \in Seq(Runs) /\ status \in [Runs -> Statuses]
      /\ load' = load /\ load \in Loads /\ load.submitted \subseteq Runs /\ load.dispatched = {} /\ NoRun \notin Runs
  BY LoadsAreOneKind, RunTableAssumption DEF TypeOK, TableTypeOK, Statuses, EndRun
<1>2. current \in load.submitted /\ current \in Runs /\ up /\ pc = "cleanup" /\ status[current] # "queued"
  BY <1>1 DEF EndRun, TableInv, RowsInv
<1>3. rows[current] \notin {"queued", "running"} /\ \A r \in Runs : r # current => rows[r] = status[r]
  BY <1>1, <1>2
<1>4. /\ \A r \in Runs : rows[r] = "queued" <=> \E k \in 1..Len(queued) : queued[k] = r
      /\ \A j, k \in 1..Len(queued) : queued[j] = queued[k] => j = k
      /\ \A k \in 1..Len(queued) : queued[k] \in load.submitted
  BY <1>1, <1>2, <1>3 DEF TableInv, QueueInv, InLine
<1>5. processNext(rows, queued, NoRun)
  BY DEF EndRun, settle
<1> HIDE DEF rows
<1>6. /\ QueueInv'
      /\ \/ queued = << >> /\ current' = NoRun /\ status' = rows
         \/ current' \in load.submitted /\ rows[current'] = "queued" /\ status' = [rows EXCEPT ![current'] = "running"]
  BY <1>1, <1>4, <1>5, ProcessNextKeeps
<1>7. TakeUp /\ UNCHANGED << up, pid, reused, leftover, load >>
  BY DEF EndRun
<1>8. \A q \in load.submitted : rows[q] # "running"
  BY <1>1, <1>2, <1>3 DEF TableInv, RowsInv
<1>9. queued = << >> => \A q \in load.submitted : rows[q] # "queued"
  BY <1>1, <1>4
<1>10. RowsInv'
  BY <1>1, <1>2, <1>6, <1>7, <1>8, <1>9, TakeUpBegins, BeginsRows DEF RowsInv
<1>11. up /\ ~reused => locks = {}
  BY <1>2 DEF TableInv, LocksInv
<1>12. LocksInv'
  BY <1>1, <1>6, <1>7, <1>11, TakeUpLocks DEF TableInv, LocksInv
<1> QED
  BY <1>6, <1>10, <1>12 DEF TableInv

LEMMA IdleRows == ASSUME load \in Loads, Idle, load' = load PROVE plan' \in load'.plans /\ pc' = "none"
BY AnyPlanIsOne DEF Idle, Begin

LEMMA OtherTable ==
    ASSUME TypeOK, TableInv,
           \/ EndWorker
           \/ \E r \in Runs : Stop(r)
           \/ Crash
           \/ Restart
           \/ UNCHANGED vars
    PROVE  TableInv'
<1>0. load \in Loads /\ load.submitted \subseteq Runs /\ load.dispatched \subseteq Runs /\ NoRun \notin Runs
  BY LoadsAreOneKind, RunTableAssumption DEF TypeOK
<1>1. CASE EndWorker
  <2>1. /\ UNCHANGED << status, queued, locks, up, pid, reused, leftover, load >>
        /\ current' = NoRun /\ up /\ Idle /\ pc = "cleanup" /\ load.submitted = {}
    BY <1>0, <1>1, LoadsAreOneKind DEF EndWorker
  <2>2. QueueInv'
    BY <2>1 DEF TableInv, QueueInv, InLine
  <2>3. RowsInv'
    BY <1>0, <2>1, IdleRows DEF RowsInv
  <2>4. LocksInv'
    BY <2>1 DEF TableInv, LocksInv
  <2> QED
    BY <2>2, <2>3, <2>4 DEF TableInv
<1>2. ASSUME NEW r \in Runs, Stop(r) PROVE TableInv'
  <2>1. /\ UNCHANGED << queued, current, locks, up, pid, reused, leftover, load, plan, pc >>
        /\ status[r] = "running" /\ status' = [status EXCEPT ![r] = "cancelled"] /\ status \in [Runs -> Statuses]
    BY <1>2 DEF Stop, stop, executionVars, validationVars, TypeOK, TableTypeOK
  <2>2. QueueInv'
    BY <2>1 DEF TableInv, QueueInv, InLine
  <2>3. RowsInv'
    BY <1>0, <2>1 DEF TableInv, RowsInv
  <2>4. LocksInv'
    BY <2>1 DEF TableInv, LocksInv
  <2> QED
    BY <2>2, <2>3, <2>4 DEF TableInv
<1>3. CASE Crash
  <2>1. UNCHANGED << status, queued, locks, pid, reused, leftover, load >> /\ ~up' /\ current' = NoRun /\ Idle
    BY <1>3 DEF Crash, TableCrash
  <2>2. QueueInv'
    BY <2>1 DEF TableInv, QueueInv, InLine
  <2>3. RowsInv'
    BY <1>0, <2>1, IdleRows DEF RowsInv
  <2>4. LocksInv'
    BY <2>1 DEF TableInv, LocksInv
  <2> QED
    BY <2>2, <2>3, <2>4 DEF TableInv
<1>4. CASE Restart
  <2>1. PICK p \in {pid, pid + 1} : TableRestart(p)
    BY <1>4 DEF Restart
  <2>2. /\ UNCHANGED << queued, current, load, plan, pc >> /\ current = NoRun /\ up'
        /\ status \in [Runs -> Statuses] /\ queued \in Seq(Runs)
        /\ status' = [r \in Runs |-> IF status[r] = "running" THEN "interrupted" ELSE status[r]]
        /\ leftover' = {queued[k] : k \in 1..Len(queued)}
        /\ locks' = {l \in locks : l.pid = p} /\ pid' = p /\ reused' = (reused \/ p = pid)
    BY <1>4, <2>1 DEF Restart, TableRestart, recoverInterruptedRuns, releaseAllStaleLocks, TableInv, RowsInv,
                      executionVars, validationVars, TypeOK, TableTypeOK
  <2>3. QueueInv'
    BY <2>2 DEF TableInv, QueueInv, InLine
  <2>4. \A r \in Runs : status'[r] # "running" /\ (status'[r] = "queued" => r \in leftover')
    BY <2>2 DEF TableInv, QueueInv, InLine
  <2>5. RowsInv'
    BY <1>0, <2>2, <2>4 DEF TableInv, RowsInv
  <2>6. LocksInv'
    <3>1. pid \in Nat /\ \A l \in locks : l.pid \in Nat
      BY DEF TypeOK, TableTypeOK
    <3>2. p = pid + 1 => locks' = {}
      BY <2>2, <3>1 DEF TableInv, LocksInv
    <3>3. \A l \in locks' : l.pid <= pid'
      BY <2>2, <3>1
    <3>4. ~reused' => locks' = {}
      BY <2>1, <2>2, <3>2
    <3> QED
      BY <3>3, <3>4 DEF LocksInv
  <2> QED
    BY <2>3, <2>5, <2>6 DEF TableInv
<1>5. CASE UNCHANGED vars
  BY <1>5 DEF vars, tableVars, executionVars, validationVars, TableInv, QueueInv, InLine, RowsInv, LocksInv
<1> QED
  BY <1>1, <1>2, <1>3, <1>4, <1>5

LEMMA NextTable == ASSUME TypeOK, TableInv, [Next]_vars PROVE TableInv'
BY SubmitTable, DispatchTable, ExecuteTable, EndRunTable, OtherTable DEF Next

DaemonInv == TypeOK /\ TableInv

LEMMA DaemonInvariant == Spec => []DaemonInv
<1>1. Spec => []TypeOK
  BY TypeCorrect
<1>2. Init => TableInv
  BY InitTable
<1>3. TypeOK /\ TableInv /\ [Next]_vars => TableInv'
  BY NextTable
<1>4. Spec => []TableInv
  BY <1>1, <1>2, <1>3, PTL DEF Spec
<1> QED
  BY <1>1, <1>4, PTL DEF DaemonInv

(* For every set of runs and any number of crashes, the table tells what the *)
(* queue is doing, and a lock that is held is that of the run being          *)
(* executed, unless a process id came back.                                 *)
THEOREM TablesAreTrue == Spec => []TablesTellTheTruth
<1>1. DaemonInv => RowsTellTheTruth
  BY DEF DaemonInv, TableInv, RowsInv, RowsTellTheTruth
<1>2. DaemonInv => NoStaleLock
  BY DEF DaemonInv, TableInv, LocksInv, NoStaleLock
<1> QED
  BY <1>1, <1>2, DaemonInvariant, PTL DEF TablesTellTheTruth

-----------------------------------------------------------------------------
(* The queue implements the ledger *)

LEMMA LedgerInit == ASSUME Init PROVE Ledger!Init
<1>1. load.submitted \subseteq Runs /\ NoRun \notin Runs
  BY LoadsAreOneKind, RunTableAssumption DEF Init
<1> QED
  BY <1>1 DEF Init, TableInit, Ledger!Init, LedgerExecuting, LedgerEnded

LEMMA SubmitAccepts ==
    ASSUME TypeOK, TableInv, TableInv', NEW r \in Runs, Submit(r) PROVE Ledger!Accept(r)
<1> DEFINE rows == [status EXCEPT ![r] = "queued"]
           line == Append(queued, r)
<1>1. /\ status \in [Runs -> Statuses] /\ queued \in Seq(Runs)
      /\ load' = load /\ load.submitted \subseteq Runs /\ load.dispatched = {} /\ NoRun \notin Runs
      /\ r \in load.submitted /\ up /\ status[r] = "absent"
  BY LoadsAreOneKind, RunTableAssumption DEF TypeOK, TableTypeOK, Submit, submit
<1>2. processNext(rows, line, current)
  BY DEF Submit, submit
<1>3. LedgerExecuting = current /\ LedgerExecuting' = current'
  BY <1>1 DEF TableInv, RowsInv, LedgerExecuting
<1>4. r # current /\ r \notin LedgerEnded /\ \A k \in 1..Len(queued) : queued[k] # r
  BY <1>1 DEF TableInv, RowsInv, QueueInv, InLine, LedgerEnded
<1>5. line # << >> /\ Head(line) \in Runs
  <2>1. line \in Seq(Runs) /\ Len(line) = Len(queued) + 1 /\ Len(queued) \in Nat
    BY <1>1
  <2>2. line # << >>
    BY <2>1
  <2> QED
    BY <2>1, <2>2
<1>6. Head(line) = r \/ InLine(Head(line))
  BY <1>1 DEF InLine
<1>7. rows[Head(line)] = "queued" /\ status[Head(line)] \in {"absent", "queued"}
  BY <1>1, <1>5, <1>6 DEF TableInv, QueueInv
<1>8. IF current = NoRun THEN Ledger!TakeUp(line) ELSE queued' = line /\ current' = current
  BY <1>2, <1>3, <1>5 DEF processNext, Ledger!TakeUp
<1>9. LedgerEnded' = LedgerEnded
  <2>1. CASE current # NoRun
    <3>1. current' = current /\ status' = rows
      BY <1>2, <2>1 DEF processNext
    <3> QED
      BY <1>1, <3>1 DEF LedgerEnded
  <2>2. CASE current = NoRun
    <3>1. current' = Head(line) /\ status' = [rows EXCEPT ![Head(line)] = "running"]
      BY <1>2, <1>5, <2>2 DEF processNext
    <3>2. \A q \in Runs : q # r /\ q # Head(line) => status'[q] = status[q]
      BY <1>1, <1>5, <3>1
    <3>3. r = Head(line) \/ status'[r] = "queued"
      BY <1>1, <1>5, <3>1
    <3> HIDE DEF line, rows
    <3>4. ASSUME NEW q \in load.submitted PROVE q \in LedgerEnded' <=> q \in LedgerEnded
      BY <1>1, <1>7, <2>2, <3>1, <3>2, <3>3 DEF LedgerEnded
    <3> QED
      BY <1>1, <3>4 DEF LedgerEnded
  <2> QED
    BY <2>1, <2>2
<1> QED
  BY <1>3, <1>4, <1>8, <1>9 DEF Ledger!Accept

LEMMA EndRunEnds ==
    ASSUME TypeOK, TableInv, TableInv', EndRun PROVE Ledger!End
<1> DEFINE rows == [status EXCEPT ![current] = IF success THEN "completed" ELSE "failed"]
<1>1. /\ status \in [Runs -> Statuses] /\ queued \in Seq(Runs)
      /\ load' = load /\ load.submitted \subseteq Runs /\ load.dispatched = {} /\ NoRun \notin Runs
      /\ current \in load.submitted /\ current \in Runs
  BY LoadsAreOneKind, RunTableAssumption DEF TypeOK, TableTypeOK, EndRun
<1>2. processNext(rows, queued, NoRun)
  BY DEF EndRun, settle
<1>3. LedgerExecuting = current /\ LedgerExecuting' = current' /\ current # NoRun
  BY <1>1 DEF TableInv, RowsInv, LedgerExecuting
<1>4. Ledger!TakeUp(queued)
  BY <1>2, <1>3 DEF processNext, Ledger!TakeUp
<1>5. rows[current] \in {"completed", "failed"} /\ \A q \in Runs : q # current => rows[q] = status[q]
  BY <1>1
<1>6. LedgerEnded' = LedgerEnded \cup {current}
  <2>1. CASE queued = << >>
    <3>1. current' = NoRun /\ status' = rows
      BY <1>2, <2>1 DEF processNext
    <3> HIDE DEF rows
    <3> QED
      BY <1>1, <1>5, <3>1 DEF LedgerEnded
  <2>2. CASE queued # << >>
    <3>1. current' = Head(queued) /\ status' = [rows EXCEPT ![Head(queued)] = "running"] /\ Head(queued) \in Runs
      BY <1>1, <1>2, <2>2 DEF processNext
    <3>2. InLine(Head(queued))
      BY <1>1, <2>2 DEF InLine
    <3>3. status[Head(queued)] = "queued" /\ Head(queued) # current
      BY <1>1, <3>1, <3>2 DEF TableInv, QueueInv, RowsInv
    <3>4. \A q \in Runs : q # Head(queued) => status'[q] = rows[q]
      BY <1>1, <3>1
    <3> HIDE DEF rows
    <3>5. ASSUME NEW q \in load.submitted PROVE q \in LedgerEnded' <=> q \in LedgerEnded \cup {current}
      BY <1>1, <1>5, <3>1, <3>3, <3>4 DEF LedgerEnded
    <3> QED
      BY <1>1, <3>5 DEF LedgerEnded
  <2> QED
    BY <2>1, <2>2
<1> QED
  BY <1>3, <1>4, <1>6 DEF Ledger!End

(* What only the daemon sees.                                               *)
Unseen == UNCHANGED << queued, LedgerExecuting, LedgerEnded >>

LEMMA CrashEnds ==
    ASSUME TypeOK, TableInv, Crash PROVE Ledger!Crash \/ Unseen
<1>1. /\ UNCHANGED << status, queued, load >> /\ current' = NoRun /\ load.submitted \subseteq Runs /\ NoRun \notin Runs
  BY LoadsAreOneKind, RunTableAssumption DEF TypeOK, Crash, TableCrash
<1>2. LedgerExecuting' = NoRun
  BY <1>1 DEF LedgerExecuting
<1>3. CASE current \in load.submitted
  <2>1. LedgerExecuting = current /\ current # NoRun /\ status[current] \notin {"absent", "queued"}
    BY <1>1, <1>3 DEF LedgerExecuting, TableInv, RowsInv
  <2>2. LedgerEnded' = LedgerEnded \cup {current}
    BY <1>1, <1>3, <2>1 DEF LedgerEnded
  <2> QED
    BY <1>1, <1>2, <2>1, <2>2 DEF Ledger!Crash
<1>4. CASE current \notin load.submitted
  <2>1. LedgerExecuting = NoRun /\ LedgerEnded' = LedgerEnded
    BY <1>1, <1>4 DEF LedgerExecuting, LedgerEnded
  <2> QED
    BY <1>1, <1>2, <2>1 DEF Unseen
<1> QED
  BY <1>3, <1>4

LEMMA WithoutSubmissions ==
    ASSUME load.submitted = {}, load' = load, queued' = queued PROVE Unseen
BY DEF Unseen, LedgerExecuting, LedgerEnded

LEMMA OthersUnseen ==
    ASSUME TypeOK, TableInv,
           \/ \E r \in Runs : Dispatch(r) \/ Stop(r)
           \/ Execute
           \/ EndWorker
           \/ Restart
           \/ UNCHANGED vars
    PROVE  Unseen
<1>0. load \in Loads /\ load.submitted \subseteq Runs /\ status \in [Runs -> Statuses]
  BY LoadsAreOneKind DEF TypeOK, TableTypeOK
<1>1. ASSUME NEW r \in Runs, Dispatch(r) PROVE Unseen
  BY <1>0, <1>1, LoadsAreOneKind, WithoutSubmissions DEF Dispatch
<1>2. ASSUME NEW r \in Runs, Stop(r) PROVE Unseen
  <2>1. /\ UNCHANGED << queued, current, load >> /\ status[r] = "running"
        /\ status' = [status EXCEPT ![r] = "cancelled"]
    BY <1>2 DEF Stop, stop
  <2> QED
    BY <1>0, <2>1 DEF Unseen, LedgerExecuting, LedgerEnded
<1>3. CASE Execute
  <2>1. CASE status' = status
    BY <1>3, <2>1 DEF Execute, Unseen, LedgerExecuting, LedgerEnded
  <2>2. CASE plan.mode = "worker"
    <3>1. load.submitted = {}
      BY <1>0, <2>2, LoadsAreOneKind DEF TableInv, RowsInv
    <3> QED
      BY <1>3, <3>1, WithoutSubmissions DEF Execute
  <2> QED
    BY <1>3, <2>1, <2>2 DEF Execute
<1>4. CASE EndWorker
  BY <1>0, <1>4, LoadsAreOneKind, WithoutSubmissions DEF EndWorker
<1>5. CASE Restart
  <2>1. /\ UNCHANGED << queued, current, load >>
        /\ status' = [r \in Runs |-> IF status[r] = "running" THEN "interrupted" ELSE status[r]]
    BY <1>5 DEF Restart, TableRestart, recoverInterruptedRuns
  <2> QED
    BY <1>0, <2>1 DEF Unseen, LedgerExecuting, LedgerEnded
<1>6. CASE UNCHANGED vars
  BY <1>6 DEF vars, tableVars, Unseen, LedgerExecuting, LedgerEnded
<1> QED
  BY <1>1, <1>2, <1>3, <1>4, <1>5, <1>6

(* Whatever the executions do, the queue of the daemon is the ledger: runs   *)
(* are taken up in their turn, one at a time, once, and end at most once.   *)
THEOREM QueueImplementsLedger == Spec => ImplementsLedger
<1>1. Init => Ledger!Init
  BY LedgerInit
<1>2. DaemonInv /\ DaemonInv' /\ [Next]_vars => [Ledger!Next]_<< queued, LedgerExecuting, LedgerEnded >>
  <2> SUFFICES ASSUME DaemonInv, DaemonInv', [Next]_vars PROVE Ledger!Next \/ Unseen
    BY DEF Unseen
  <2>1. ASSUME NEW r \in Runs, Submit(r) PROVE Ledger!Next
    BY <2>1, SubmitAccepts DEF DaemonInv, Ledger!Next
  <2>2. CASE EndRun
    BY <2>2, EndRunEnds DEF DaemonInv, Ledger!Next
  <2>3. CASE Crash
    BY <2>3, CrashEnds DEF DaemonInv, Ledger!Next
  <2> QED
    BY <2>1, <2>2, <2>3, OthersUnseen DEF DaemonInv, Next
<1> QED
  BY <1>1, <1>2, DaemonInvariant, PTL DEF Spec, ImplementsLedger, Ledger!Spec
=============================================================================
