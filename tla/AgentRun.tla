------------------------------ MODULE AgentRun ------------------------------
(***************************************************************************)
(* One execution of a plan: by the run queue in single or in review mode    *)
(* (orchestration/single.ts, review.ts), by the orchestrator as a worker    *)
(* (orchestrator/worker.ts). All three prepare a container, call the agent, *)
(* lint, validate, review and collect the output, in this order, and differ *)
(* in what they do when one of these fails.                                *)
(***************************************************************************)
EXTENDS Validation

VARIABLES
    caller,      \* who waits for the lint gate or the loop: "main" or "review"
    agentFailed, \* a worker's agent has ended with status "failed"
    passed,      \* validationResult.passed of the main flow
    approved,    \* review mode: the reviewer has approved
    reviewRound, \* round of the review loop
    success,     \* result.success; of a worker: its status is "completed"
    exceeded,    \* the cost ceiling has been exceeded
    collected,   \* the output has been collected: a branch, or files
    reviewerChanged \* history: a reviewer has changed verified work, and no agent has worked on it since

resultVars == << agentFailed, passed, approved, success, exceeded, collected, reviewerChanged >>
executionVars == << validationVars, caller, reviewRound, resultVars >>

ExecutionTypeOK ==
    /\ ValidationTypeOK
    /\ caller \in {"main", "review"}
    /\ agentFailed \in BOOLEAN /\ passed \in BOOLEAN /\ approved \in BOOLEAN
    /\ reviewRound \in 0..2
    /\ success \in BOOLEAN /\ exceeded \in BOOLEAN /\ collected \in BOOLEAN
    /\ reviewerChanged \in BOOLEAN

Begin(p, phase) ==
    /\ plan' = p
    /\ pc' = phase
    /\ round' = 0 /\ FreshLoop /\ loop' = FALSE /\ ok' = FALSE
    /\ caller' = "main" /\ reviewRound' = 0
    /\ agentFailed' = FALSE /\ passed' = FALSE /\ approved' = FALSE
    /\ success' = FALSE /\ exceeded' = FALSE /\ collected' = FALSE
    /\ verified' = FALSE /\ calls' = 0 /\ reviewerChanged' = FALSE

(* The finally clause, or the end of executeWorker: the container goes.     *)
Finish(succeeded) ==
    /\ pc' = "cleanup"
    /\ success' = succeeded

-----------------------------------------------------------------------------
(* Prepare and execute *)

Prepare ==
    /\ pc = "prepare"
    /\ pc' = "agent"
    /\ UNCHANGED << plan, round, loopVars, loop, ok, verified, calls, caller, reviewRound, resultVars >>

(* The exit code is ignored in single and in review mode; a worker with a   *)
(* failed agent goes through the lint gate all the same.                   *)
AgentEnds ==
    /\ pc = "agent"
    /\ Invoke
    /\ agentFailed' \in {FALSE, plan.mode = "worker"}
    /\ StartLint
    /\ UNCHANGED << plan, loopVars, loop, caller, reviewRound, passed, approved, success, exceeded, collected,
                    reviewerChanged >>

(* The agent may have used more than the plan's ceiling of cost or tokens.   *)
checkCostCeiling == plan.ceiling

(* Review mode has no ceiling.                                             *)
CeilingExceeded ==
    /\ pc = "agent"
    /\ plan.mode # "review" /\ checkCostCeiling
    /\ Invoke
    /\ exceeded' = TRUE
    /\ Finish(FALSE)
    /\ UNCHANGED << plan, round, loopVars, loop, ok, caller, reviewRound, agentFailed, passed, approved,
                    collected, reviewerChanged >>

-----------------------------------------------------------------------------
(* After the lint gate and after the validation loop *)

(* A worker does not validate what failed; only "abandon" ends the others,  *)
(* and a review fix that does not lint ends the review.                    *)
LintEnds ==
    /\ pc = "linted"
    /\ LET stop == IF plan.mode = "worker" THEN ~ok \/ agentFailed ELSE ~ok /\ plan.onFailure = "abandon"
       IN  \/ caller = "main" /\ stop /\ Finish(FALSE) /\ UNCHANGED << round, loopVars, loop, ok >>
           \/ caller = "main" /\ ~stop /\ StartValidation /\ UNCHANGED success
           \/ caller = "review" /\ ~ok /\ pc' = "output" /\ UNCHANGED << round, loopVars, loop, ok, success >>
           \/ caller = "review" /\ ok /\ StartValidation /\ UNCHANGED success
    /\ UNCHANGED << plan, verified, calls, caller, reviewRound, agentFailed, passed, approved, exceeded,
                    collected, reviewerChanged >>

(* To the reviewer, or past the review loop when it has no rounds left.     *)
NextReview ==
    /\ pc' = "review"
    /\ reviewRound' = reviewRound + 1

(* Single: the reviewer sees validated work only; what failed is collected  *)
(* as work in progress or abandoned, "pause" being treated as "abandon".   *)
SingleValidated ==
    /\ pc = "validated" /\ plan.mode = "single" /\ caller = "main"
    /\ passed' = ok
    /\ \/ ok /\ NextReview /\ UNCHANGED success
       \/ ~ok /\ plan.onFailure = "output-wip" /\ pc' = "output" /\ UNCHANGED << reviewRound, success >>
       \/ ~ok /\ plan.onFailure # "output-wip" /\ Finish(FALSE) /\ UNCHANGED reviewRound
    /\ UNCHANGED << plan, round, loopVars, loop, ok, verified, calls, caller, agentFailed, approved, exceeded,
                    collected, reviewerChanged >>

(* Single: a failed validation after a review fix ends the review, and is   *)
(* not made the result of the validation.                                  *)
SingleRevalidated ==
    /\ pc = "validated" /\ plan.mode = "single" /\ caller = "review"
    /\ \/ ok /\ NextReview
       \/ ~ok /\ pc' = "output" /\ UNCHANGED reviewRound
    /\ UNCHANGED << plan, round, loopVars, loop, ok, verified, calls, caller, resultVars >>

(* Review mode collects what passed, was approved, or may go out as it is.  *)
CollectOrGiveUp(isApproved, hasPassed) ==
    IF isApproved \/ hasPassed \/ plan.onFailure = "output-wip"
    THEN pc' = "output" /\ UNCHANGED success
    ELSE Finish(FALSE)

(* Fault: the first success of the validation is kept.                      *)
ReviewValidatedOnce ==
    /\ pc = "validated" /\ plan.mode = "review"
    /\ passed' = (passed \/ ok)
    /\ \/ ~ok /\ plan.onFailure = "abandon" /\ Finish(FALSE) /\ UNCHANGED reviewRound
       \/ /\ ok \/ plan.onFailure # "abandon"
          /\ IF reviewRound < plan.rounds
             THEN NextReview /\ UNCHANGED success
             ELSE CollectOrGiveUp(approved, passed') /\ UNCHANGED reviewRound
    /\ UNCHANGED << plan, round, loopVars, loop, ok, verified, calls, caller, agentFailed, approved, exceeded,
                    collected, reviewerChanged >>

(* "abandon" ends the run when validation fails, after a fix as well.        *)
ReviewValidated ==
    /\ pc = "validated" /\ plan.mode = "review"
    /\ passed' = ok
    /\ \/ ~ok /\ plan.onFailure = "abandon" /\ Finish(FALSE) /\ UNCHANGED reviewRound
       \/ /\ ok \/ plan.onFailure # "abandon"
          /\ IF reviewRound < plan.rounds
             THEN NextReview /\ UNCHANGED success
             ELSE CollectOrGiveUp(approved, ok) /\ UNCHANGED reviewRound
    /\ UNCHANGED << plan, round, loopVars, loop, ok, verified, calls, caller, agentFailed, approved, exceeded,
                    collected, reviewerChanged >>

(* Worker: a loop is a failure, and what passed goes through the gate; any   *)
(* other failed validation skips the review and leaves the status alone.   *)
WorkerValidated ==
    /\ pc = "validated" /\ plan.mode = "worker"
    /\ passed' = ok
    /\ \/ loop /\ Finish(FALSE) /\ UNCHANGED reviewRound
       \/ ok /\ plan.steps > 0 /\ pc' = "gate" /\ UNCHANGED << reviewRound, success >>
       \/ ok /\ plan.steps = 0 /\ NextReview /\ UNCHANGED success
       \/ ~ok /\ ~loop /\ pc' = "output" /\ UNCHANGED << reviewRound, success >>
    /\ UNCHANGED << plan, round, loopVars, loop, ok, verified, calls, caller, agentFailed, approved, exceeded,
                    collected, reviewerChanged >>

(* runValidationGate: every step once more, without retries.                *)
Gate ==
    /\ pc = "gate"
    /\ \/ NextReview /\ verified' = TRUE /\ UNCHANGED << passed, success >>
       \/ Finish(FALSE) /\ verified' = FALSE /\ passed' = FALSE /\ UNCHANGED reviewRound
    /\ UNCHANGED << plan, round, loopVars, loop, ok, calls, caller, agentFailed, approved, exceeded, collected,
                    reviewerChanged >>

-----------------------------------------------------------------------------
(* Review and output *)

(* The reviewer of single mode and of a worker is an agent in the container  *)
(* of the work: it can change what it is shown, and no step runs after it.   *)
runReviewAgent ==
    /\ calls' = calls + 1
    /\ verified' \in {verified, FALSE}
    /\ reviewerChanged' = (verified /\ ~verified')
    /\ UNCHANGED << agentFailed, passed, approved, success, exceeded, collected >>

(* It found nothing that must be fixed, failed, threw, or could not be       *)
(* understood; a worker does not look at what it found.                    *)
ReviewPasses ==
    /\ pc = "review" /\ plan.mode # "review"
    /\ pc' = "output"
    /\ runReviewAgent
    /\ UNCHANGED << plan, round, loopVars, loop, ok, caller, reviewRound >>

(* What must be fixed goes back to the agent after the first of two rounds.  *)
MustFix ==
    /\ pc = "review" /\ plan.mode = "single"
    /\ pc' = IF reviewRound < 2 THEN "reviewFix" ELSE "output"
    /\ runReviewAgent
    /\ UNCHANGED << plan, round, loopVars, loop, ok, caller, reviewRound >>

(* Review mode, on a copy in a container of its own. Comments cannot come three times  *)
(* in two rounds: the loop detection decides nothing the last round does not. *)
Approves ==
    /\ pc = "review" /\ plan.mode = "review"
    /\ pc' = "output"
    /\ approved' = TRUE
    /\ calls' = calls + 1
    /\ UNCHANGED << plan, round, loopVars, loop, ok, verified, caller, reviewRound, agentFailed, passed, success,
                    exceeded, collected, reviewerChanged >>

Rejects ==
    /\ pc = "review" /\ plan.mode = "review"
    /\ IF reviewRound < plan.rounds
       THEN pc' = "reviewFix" /\ UNCHANGED success
       ELSE CollectOrGiveUp(FALSE, passed)
    /\ calls' = calls + 1
    /\ UNCHANGED << plan, round, loopVars, loop, ok, verified, caller, reviewRound, agentFailed, passed, approved,
                    exceeded, collected, reviewerChanged >>

(* The agent works on the comments; only single mode lints again.           *)
AddressReview ==
    /\ pc = "reviewFix"
    /\ Invoke
    /\ caller' = "review"
    /\ reviewerChanged' = FALSE
    /\ IF plan.mode = "single" THEN StartLint /\ UNCHANGED << loopVars, loop >> ELSE StartValidation
    /\ UNCHANGED << plan, reviewRound, agentFailed, passed, approved, success, exceeded, collected >>

Succeeded ==
    CASE plan.mode = "single" -> passed
      [] plan.mode = "review" -> approved
      [] plan.mode = "worker" -> TRUE

(* collectOutput, collectGitOutput; a failure there loses the work.         *)
Collect ==
    /\ pc = "output"
    /\ \/ collected' = TRUE /\ Finish(Succeeded)
       \/ UNCHANGED collected /\ Finish(FALSE)
    /\ UNCHANGED << plan, round, loopVars, loop, ok, verified, calls, caller, reviewRound, agentFailed, passed,
                    approved, exceeded, reviewerChanged >>

(* Docker, credentials, a hook, a command that cannot be run: everything is  *)
(* caught, save what a reviewer throws in single mode and in a worker, which *)
(* only ends the review.                                                   *)
Throws ==
    /\ \/ pc \in {"prepare", "agent", "lint", "lintFix", "step", "fix", "gate", "reviewFix"}
       \/ pc = "review" /\ plan.mode = "review"
    /\ Finish(FALSE)
    /\ UNCHANGED << plan, round, loopVars, loop, ok, verified, calls, caller, reviewRound, agentFailed, passed,
                    approved, exceeded, collected, reviewerChanged >>

FlowStep ==
    \/ Prepare
    \/ AgentEnds
    \/ CeilingExceeded
    \/ LintEnds
    \/ SingleValidated
    \/ SingleRevalidated
    \/ ReviewValidated
    \/ WorkerValidated
    \/ Gate
    \/ ReviewPasses
    \/ MustFix
    \/ Approves
    \/ Rejects
    \/ AddressReview
    \/ Collect
    \/ Throws

ExecutionStep ==
    \/ ValidationStep /\ UNCHANGED << caller, reviewRound, resultVars >>
    \/ FlowStep

-----------------------------------------------------------------------------

(* With on_failure "abandon" or "pause", what goes out has passed every      *)
(* validation step since an agent last touched it, but for four ways out: a  *)
(* worker collects what failed validation without a detected loop; single   *)
(* mode keeps the first verdict when the fix of a review breaks the work;   *)
(* with "pause" review mode lets the reviewer overrule the steps; and what   *)
(* the reviewer of single mode or of a worker changes is collected as it is. *)
UnverifiedWorkStaysIn ==
    collected /\ ~verified /\ plan.steps > 0 /\ plan.onFailure # "output-wip" =>
        \/ plan.mode = "worker" /\ ~passed /\ ~loop
        \/ plan.mode = "single" /\ caller = "review" /\ reviewRound = 1 /\ ~ok
        \/ plan.mode = "review" /\ plan.onFailure = "pause" /\ approved /\ ~passed
        \/ reviewerChanged

(* However the retries of the lint gate, of the validation loop and of the   *)
(* review nest, the agents are called a bounded number of times.            *)
Repairs == (IF plan.lint = -1 THEN 0 ELSE plan.lint) + (IF plan.steps = 0 THEN 0 ELSE plan.retries)
AgentCallsBounded == calls <= IF plan.mode = "worker" THEN 2 + Repairs ELSE 4 + 2 * Repairs
=============================================================================
