----------------------------- MODULE Validation -----------------------------
(***************************************************************************)
(* Lint gate and validation loop of one execution (validation/runner.ts):   *)
(* run the steps in the container, feed what failed back to the agent, run  *)
(* all of them again; stop early when the agent goes round in circles.     *)
(* A command run in the container, and a call of the agent, is a step.     *)
(***************************************************************************)
EXTENDS Integers, FiniteSets, Sequences

CONSTANTS
    Outputs,   \* what a failing step may print
    ErrorOf,   \* ErrorOf[o]: what normalizeError leaves of it
    KeyOf,     \* KeyOf[o]: the key extractFailureSignature finds in it
    NoOutput,  \* of a step that passed
    Files,     \* files the agent changes: numbers, in the order git lists them
    MaxSteps,  \* bound: validation steps of a plan
    Plans      \* the plans a run may be resolved to

Steps == 1..MaxSteps
Keys == {KeyOf[o] : o \in Outputs}
Errors == {ErrorOf[o] : o \in Outputs}
Modes == {"single", "review", "worker"}

ASSUME ValidationAssumption ==
    /\ NoOutput \notin Outputs
    /\ Files \subseteq Nat /\ IsFiniteSet(Files)
    /\ MaxSteps \in Nat
    /\ Plans \subseteq
         [mode : Modes, lint : Nat \cup {-1}, steps : 0..MaxSteps, retries : Nat,
          maxSame : Nat \ {0}, onRepeated : {"abort", "change_strategy", "escalate"},
          onFailure : {"abandon", "output-wip", "pause"}, rounds : 0..2, ceiling : BOOLEAN,
          prints : SUBSET Outputs, touches : SUBSET Files]

VARIABLES
    plan,       \* the RunPlan: lint is the largest retries of its lint steps or
                \* -1, retries that of its validation steps, rounds is maxRounds;
                \* prints what its steps can print, touches the files of its task
    pc,         \* where the execution stands
    round,      \* iteration of the lint gate, attempt of the validation loop
    step,       \* the validation step that is next
    failing,    \* failing[s]: what step s printed this round, or NoOutput
    seen,       \* failureSignatures: how often step s has failed with key k
    errors,     \* validationErrors: the last one, and how often it came in a row
    feedback,   \* toolCalls: the last feedback, and how often it came in a row
    writes,     \* fileWriteCounts: their sum,
    written,    \* and the files counted
    strategyChanged,
    loop,       \* a loop has been detected
    ok,         \* how the last gate or loop ended
    verified,   \* history: every step has passed since the agent last ran
    calls       \* history: invocations of an agent so far

loopVars == << step, failing, seen, errors, feedback, writes, written, strategyChanged >>
validationVars == << plan, pc, round, loopVars, loop, ok, verified, calls >>

Phases == {"none", "prepare", "agent", "lint", "lintFix", "linted", "step", "fix", "validated",
           "gate", "review", "reviewFix", "output", "cleanup"}
NothingFailed == [s \in Steps |-> NoOutput]
NothingSeen == [s \in Steps |-> [k \in Keys |-> 0]]

ValidationTypeOK ==
    /\ plan \in Plans
    /\ pc \in Phases
    /\ round \in Nat /\ step \in Nat \ {0}
    /\ failing \in [Steps -> Outputs \cup {NoOutput}]
    /\ seen \in [Steps -> [Keys -> Nat]]
    /\ errors \in [last : Errors \cup {NoOutput}, row : Nat]
    /\ feedback \in [last : [Steps -> Outputs \cup {NoOutput}], changed : BOOLEAN, row : Nat]
    /\ writes \in Nat /\ written \subseteq Files
    /\ strategyChanged \in BOOLEAN /\ loop \in BOOLEAN /\ ok \in BOOLEAN
    /\ verified \in BOOLEAN /\ calls \in Nat

FreshLoop ==
    /\ step' = 1
    /\ failing' = NothingFailed
    /\ seen' = NothingSeen
    /\ errors' = [last |-> NoOutput, row |-> 0]
    /\ feedback' = [last |-> NothingFailed, changed |-> FALSE, row |-> 0]
    /\ writes' = 0 /\ written' = {}
    /\ strategyChanged' = FALSE

(* Whatever an agent does may undo what the steps have shown.               *)
Invoke ==
    /\ calls' = calls + 1
    /\ verified' = FALSE

-----------------------------------------------------------------------------
(* The lint gate *)

(* runLintGate: without lint steps it has passed.                           *)
StartLint ==
    /\ round' = 1
    /\ IF plan.lint = -1
       THEN pc' = "linted" /\ ok' = TRUE
       ELSE pc' = "lint" /\ UNCHANGED ok

(* All lint steps of one iteration.                                        *)
LintRound ==
    /\ pc = "lint"
    /\ \/ pc' = "linted" /\ ok' = TRUE
       \/ round > plan.lint /\ pc' = "linted" /\ ok' = FALSE
       \/ round <= plan.lint /\ pc' = "lintFix" /\ UNCHANGED ok
    /\ UNCHANGED << plan, round, loopVars, loop, verified, calls >>

LintFix ==
    /\ pc = "lintFix"
    /\ Invoke
    /\ pc' = "lint"
    /\ round' = round + 1
    /\ UNCHANGED << plan, loopVars, loop, ok >>

-----------------------------------------------------------------------------
(* The validation loop *)

(* runValidationLoop: without steps it has passed.                          *)
StartValidation ==
    /\ FreshLoop
    /\ round' = 1
    /\ loop' = FALSE
    /\ IF plan.steps = 0
       THEN pc' = "validated" /\ ok' = TRUE
       ELSE pc' = "step" /\ UNCHANGED ok

(* Of the loop only its result is left.                                     *)
Return(passed, looped) ==
    /\ pc' = "validated"
    /\ ok' = passed
    /\ loop' = looped
    /\ FreshLoop
    /\ UNCHANGED round

StepPasses ==
    /\ pc = "step" /\ step <= plan.steps
    /\ step' = step + 1
    /\ UNCHANGED << plan, pc, round, failing, seen, errors, feedback, writes, written,
                    strategyChanged, loop, ok, verified, calls >>

Repeated(o) == seen[step][KeyOf[o]] + 1 >= plan.maxSame
NewStrategy == plan.onRepeated = "change_strategy" /\ ~strategyChanged

(* The same failure once too often ends the loop, the rest of the round     *)
(* included; asking for another strategy is tried first, once.             *)
RepeatedFailure(o) ==
    /\ pc = "step" /\ step <= plan.steps
    /\ Repeated(o) /\ ~NewStrategy
    /\ Return(FALSE, FALSE)
    /\ UNCHANGED << plan, verified, calls >>

(* The failures of the step counted so far; a new strategy starts afresh.    *)
Counted(o) ==
    IF Repeated(o) THEN [k \in Keys |-> IF k = KeyOf[o] THEN 1 ELSE 0]
                   ELSE [seen[step] EXCEPT ![KeyOf[o]] = @ + 1]

(* recordValidationError: the same error for the third time in a row, of    *)
(* whichever steps, is a loop.                                             *)
StepFails(o) ==
    /\ pc = "step" /\ step <= plan.steps
    /\ Repeated(o) => NewStrategy
    /\ strategyChanged' = (strategyChanged \/ Repeated(o))
    /\ seen' = [seen EXCEPT ![step] = Counted(o)]
    /\ errors' = [last |-> ErrorOf[o],
                  row  |-> IF errors.last = ErrorOf[o] THEN errors.row + 1 ELSE 1]
    /\ loop' = (loop \/ errors'.row >= 3)
    /\ failing' = [failing EXCEPT ![step] = o]
    /\ step' = step + 1
    /\ UNCHANGED << plan, pc, round, feedback, writes, written, ok, verified, calls >>

(* Fault: one attempt more than the retries allow.                         *)
EndRoundLate ==
    /\ pc = "step" /\ step > plan.steps
    /\ \/ loop /\ Return(FALSE, TRUE) /\ UNCHANGED verified
       \/ ~loop /\ failing = NothingFailed /\ Return(TRUE, FALSE) /\ verified' = TRUE
       \/ ~loop /\ failing # NothingFailed /\ round > plan.retries + 1 /\ Return(FALSE, FALSE) /\ UNCHANGED verified
       \/ ~loop /\ failing # NothingFailed /\ round <= plan.retries + 1
          /\ pc' = "fix" /\ UNCHANGED << round, loopVars, loop, ok, verified >>
    /\ UNCHANGED << plan, calls >>

(* After the last step: a loop, success, the last attempt, or a repair.     *)
EndRound ==
    /\ pc = "step" /\ step > plan.steps
    /\ \/ loop /\ Return(FALSE, TRUE) /\ UNCHANGED verified
       \/ ~loop /\ failing = NothingFailed /\ Return(TRUE, FALSE) /\ verified' = TRUE
       \/ ~loop /\ failing # NothingFailed /\ round > plan.retries /\ Return(FALSE, FALSE) /\ UNCHANGED verified
       \/ ~loop /\ failing # NothingFailed /\ round <= plan.retries
          /\ pc' = "fix" /\ UNCHANGED << round, loopVars, loop, ok, verified >>
    /\ UNCHANGED << plan, calls >>

(* recordFileWrite on the files of git diff in turn: four writes to at most *)
(* two files are a loop, even if a third file follows.                     *)
Rewrites(fs) ==
    \E f \in fs : LET upTo == {g \in fs : g <= f}
                  IN  writes + Cardinality(upTo) >= 4 /\ Cardinality(written \cup upTo) <= 2

(* The agent works on the failures and leaves the files fs changed; the     *)
(* same feedback for the third time in a row is a loop.                    *)
Fix(fs) ==
    LET row == IF feedback.last = failing /\ feedback.changed = strategyChanged
               THEN feedback.row + 1 ELSE 1
    IN  /\ pc = "fix"
        /\ Invoke
        /\ IF Rewrites(fs) \/ row >= 3
           THEN Return(FALSE, TRUE)
           ELSE /\ pc' = "step"
                /\ round' = round + 1
                /\ step' = 1
                /\ failing' = NothingFailed
                /\ writes' = writes + Cardinality(fs)
                /\ written' = written \cup fs
                /\ feedback' = [last |-> failing, changed |-> strategyChanged, row |-> row]
                /\ UNCHANGED << seen, errors, strategyChanged, loop, ok >>
        /\ UNCHANGED plan

ValidationStep ==
    \/ LintRound
    \/ LintFix
    \/ StepPasses
    \/ \E o \in plan.prints : RepeatedFailure(o) \/ StepFails(o)
    \/ EndRound
    \/ \E fs \in SUBSET plan.touches : Fix(fs)
=============================================================================
