--------------------------- MODULE ReviewRecords ---------------------------
(***************************************************************************)
(* What the review daemon writes down about its reviews: a row for each     *)
(* review round of a pull request and its outcome, and the findings that    *)
(* recur and become conventions for agents (merge-daemon/pr-processor.ts,   *)
(* storage/repositories/review-metrics.ts and review-findings.ts).          *)
(*                                                                          *)
(* The rows are in the database, the count of rounds is in memory: a restart *)
(* and a terminal outcome start it again, and the rounds of the new life are *)
(* written over those of the old one. Counts of comments are left out of the *)
(* rows; the comments count in the findings, by the key of one.             *)
(***************************************************************************)
EXTENDS Naturals, FiniteSets, FiniteSetsExt

CONSTANTS
    ReviewedPRs,
    FindingKeys,         \* category and module of a comment
    PromotionThreshold,
    MaxReviews,          \* bound: reviews of a pull request
    MaxRestarts,         \* bound: restarts of the daemon
    NoPR

ASSUME ReviewRecordsAssumption ==
    /\ IsFiniteSet(ReviewedPRs)
    /\ PromotionThreshold \in Nat \ {0} /\ {MaxReviews, MaxRestarts} \subseteq Nat
    /\ NoPR \notin ReviewedPRs

VARIABLES
    metrics,        \* metrics[p]: a row for each round in its domain
    findings,       \* findings[k]: occurrences and whether it is a convention
    promotedFindings, \* the conventions in the prompts of agents, read at the start
    reviewRounds,   \* reviewRounds[p], in memory
    lastVerdict,    \* lastVerdict[p], in memory
    processing,     \* the pull request at work and where
    mergedByWhom,   \* "nobody", "human", "daemon"; "unanswered": the daemon does not know
    commented,      \* comments made, by key
    reviewed,       \* reviews that were posted, in all lives
    longest,        \* the most reviews a pull request had in one life
    approvedAtOnce, \* pull requests whose first review of all approved
    interrupted     \* pull requests at work when the daemon died, not processed since

recordVars == << metrics, findings, promotedFindings, reviewRounds, lastVerdict, processing,
                 mergedByWhom, commented, reviewed, longest, approvedAtOnce, interrupted >>

NotProcessing == [pr |-> NoPR, at |-> "idle", tries |-> 0, again |-> FALSE]
Promoted == {k \in FindingKeys : findings[k].convention}

RecordsInit ==
    /\ metrics = [p \in ReviewedPRs |-> << >>]
    /\ findings = [k \in FindingKeys |-> [count |-> 0, convention |-> FALSE]]
    /\ promotedFindings = {}
    /\ reviewRounds = [p \in ReviewedPRs |-> 0]
    /\ lastVerdict = [p \in ReviewedPRs |-> "none"]
    /\ processing = NotProcessing
    /\ mergedByWhom = [p \in ReviewedPRs |-> "nobody"]
    /\ commented = [k \in FindingKeys |-> 0]
    /\ reviewed = [p \in ReviewedPRs |-> 0]
    /\ longest = [p \in ReviewedPRs |-> 0]
    /\ approvedAtOnce = {}
    /\ interrupted = [restarts |-> 0, prs |-> {}]

At(p, step) == processing.pr = p /\ processing.at = step

-----------------------------------------------------------------------------

(* The row of a round: a new one, or the old one, which keeps its approval  *)
(* and its outcome.                                                         *)
upsert(rows, round, approved) ==
    [r \in DOMAIN rows \cup {round} |->
        IF r # round THEN rows[r]
        ELSE IF r \in DOMAIN rows THEN [rows[r] EXCEPT !.approved = @ \/ approved]
        ELSE [approved |-> approved, outcome |-> "none"]]

(* Fault: only the row of the last round gets the outcome.                  *)
updateOutcomeLast(rows, outcome) ==
    [r \in DOMAIN rows |->
        IF r = Max(DOMAIN rows) THEN [rows[r] EXCEPT !.outcome = outcome] ELSE rows[r]]

updateOutcome(rows, outcome) == [r \in DOMAIN rows |-> [rows[r] EXCEPT !.outcome = outcome]]

promoteEligible(count) == count >= PromotionThreshold

(* The comments of a review count for their key.                            *)
upsertFinding(finding, comments) ==
    [count      |-> finding.count + comments,
     convention |-> finding.convention \/ promoteEligible(finding.count + comments)]

(* A terminal outcome starts the count of rounds again.                     *)
recordResult(p, outcome) ==
    /\ metrics' = [metrics EXCEPT ![p] = updateOutcome(@, outcome)]
    /\ processing' = NotProcessing
    /\ interrupted' = [interrupted EXCEPT !.prs = @ \ {p}]
    /\ IF outcome \in {"merged", "failed"}
       THEN /\ reviewRounds' = [reviewRounds EXCEPT ![p] = 0]
            /\ lastVerdict' = [lastVerdict EXCEPT ![p] = "none"]
       ELSE UNCHANGED << reviewRounds, lastVerdict >>

-----------------------------------------------------------------------------

(* An open pull request is processed. Its head may be the one that was asked *)
(* to be changed: then it is reviewed once more to address the comments.    *)
BeginPR(p) ==
    /\ processing = NotProcessing /\ mergedByWhom[p] = "nobody"
    /\ \E again \in {FALSE, lastVerdict[p] = "request_changes"} :
          processing' = [pr |-> p, at |-> "review", tries |-> 0, again |-> again]
    /\ UNCHANGED << metrics, findings, promotedFindings, reviewRounds, lastVerdict, mergedByWhom,
                    commented, reviewed, longest, approvedAtOnce, interrupted >>

(* The clone, the validation or a call fails, or a label asks for a human.  *)
EndsBeforeReview(p) ==
    /\ At(p, "review") /\ processing.tries = 0
    /\ \E outcome \in {"failed", "skipped"} : recordResult(p, outcome)
    /\ UNCHANGED << findings, promotedFindings, mergedByWhom, commented, reviewed, longest, approvedAtOnce >>

recordReviewMetrics(p, approved, comments) ==
    LET round == reviewRounds[p] + 1
    IN  /\ reviewRounds' = [reviewRounds EXCEPT ![p] = round]
        /\ metrics' = [metrics EXCEPT ![p] = upsert(@, round, approved)]
        /\ findings' = [k \in FindingKeys |-> upsertFinding(findings[k], comments[k])]
        /\ commented' = [k \in FindingKeys |-> commented[k] + comments[k]]
        /\ longest' = [longest EXCEPT ![p] = Max({@, round})]

(* The review is parsed and posted. When the head is the one reviewed before, *)
(* its new verdict is not remembered and an approval leads to no merge.     *)
ReviewIsPosted(p) ==
    \E approved \in BOOLEAN, comments \in [FindingKeys -> 0 .. 2] :
       /\ At(p, "review") /\ reviewed[p] < MaxReviews
       /\ recordReviewMetrics(p, approved, comments)
       /\ reviewed' = [reviewed EXCEPT ![p] = @ + 1]
       /\ approvedAtOnce' = approvedAtOnce \cup (IF approved /\ reviewed[p] = 0 THEN {p} ELSE {})
       /\ processing' = [processing EXCEPT !.at =
             IF approved /\ ~processing.again THEN "merge" ELSE "address"]
       /\ lastVerdict' = IF processing.again THEN lastVerdict
                         ELSE [lastVerdict EXCEPT ![p] = IF approved THEN "approve" ELSE "request_changes"]
       /\ UNCHANGED << promotedFindings, mergedByWhom, interrupted >>

(* No review: it is tried twice, then the pull request waits for a poll.    *)
ReviewIsLost(p) ==
    /\ At(p, "review")
    /\ IF ~processing.again /\ processing.tries = 0
       THEN /\ processing' = [processing EXCEPT !.tries = 1]
            /\ UNCHANGED << metrics, reviewRounds, lastVerdict, interrupted >>
       ELSE recordResult(p, IF processing.again THEN "escalated" ELSE "skipped")
    /\ UNCHANGED << findings, promotedFindings, mergedByWhom, commented, reviewed, longest, approvedAtOnce >>

(* The comments were addressed, or not, or the rounds are used up: it is all *)
(* "escalated" in the rows.                                                 *)
ChangesAreRequested(p) ==
    /\ At(p, "address")
    /\ recordResult(p, "escalated")
    /\ UNCHANGED << findings, promotedFindings, mergedByWhom, commented, reviewed, longest, approvedAtOnce >>

(* GitHub merges; the analysis of coverage comes before the outcome is noted. *)
MergeIsAccepted(p) ==
    /\ At(p, "merge") /\ mergedByWhom[p] = "nobody"
    /\ mergedByWhom' = [mergedByWhom EXCEPT ![p] = "daemon"]
    /\ processing' = [processing EXCEPT !.at = "analysis"]
    /\ UNCHANGED << metrics, findings, promotedFindings, reviewRounds, lastVerdict,
                    commented, reviewed, longest, approvedAtOnce, interrupted >>

(* GitHub merges, but its answer is lost or is an error.                    *)
MergeAnswerIsLost(p) ==
    /\ At(p, "merge") /\ mergedByWhom[p] = "nobody"
    /\ mergedByWhom' = [mergedByWhom EXCEPT ![p] = "unanswered"]
    /\ UNCHANGED << metrics, findings, promotedFindings, reviewRounds, lastVerdict, processing,
                    commented, reviewed, longest, approvedAtOnce, interrupted >>

postMergeAnalysis(p) ==
    /\ At(p, "analysis")
    /\ recordResult(p, "merged")
    /\ UNCHANGED << findings, promotedFindings, mergedByWhom, commented, reviewed, longest, approvedAtOnce >>

(* Checks, rebases or the merge fail, or no answer comes, whoever merged it   *)
(* meanwhile.                                                              *)
MergeIsGivenUp(p) ==
    /\ At(p, "merge")
    /\ recordResult(p, "failed")
    /\ UNCHANGED << findings, promotedFindings, mergedByWhom, commented, reviewed, longest, approvedAtOnce >>

HumanMerges(p) ==
    /\ mergedByWhom[p] = "nobody"
    /\ mergedByWhom' = [mergedByWhom EXCEPT ![p] = "human"]
    /\ UNCHANGED << metrics, findings, promotedFindings, reviewRounds, lastVerdict, processing,
                    commented, reviewed, longest, approvedAtOnce, interrupted >>

(* The daemon dies and starts again: it reads the conventions.              *)
DaemonRestarts ==
    /\ interrupted.restarts < MaxRestarts
    /\ interrupted' = [restarts |-> interrupted.restarts + 1,
                       prs |-> interrupted.prs \cup ({processing.pr} \ {NoPR})]
    /\ processing' = NotProcessing
    /\ reviewRounds' = [p \in ReviewedPRs |-> 0]
    /\ lastVerdict' = [p \in ReviewedPRs |-> "none"]
    /\ promotedFindings' = Promoted
    /\ UNCHANGED << metrics, findings, mergedByWhom, commented, reviewed, longest, approvedAtOnce >>

RecordsNext ==
    \/ DaemonRestarts
    \/ \E p \in ReviewedPRs :
          \/ BeginPR(p) \/ EndsBeforeReview(p) \/ ReviewIsPosted(p) \/ ReviewIsLost(p)
          \/ ChangesAreRequested(p) \/ MergeIsAccepted(p) \/ MergeAnswerIsLost(p)
          \/ postMergeAnalysis(p) \/ MergeIsGivenUp(p) \/ HumanMerges(p)

RecordsSpec == RecordsInit /\ [][RecordsNext]_recordVars

-----------------------------------------------------------------------------

(* A round of a pull request, so that a sum of rounds is a number of these. *)
RoundsTo(last, prs) == UNION {{p} \X (1 .. last[p]) : p \in prs}

(* What the reports say: pull requests, rounds in all, first approvals.     *)
computeStats ==
    LET tracked == {p \in ReviewedPRs : DOMAIN metrics[p] # {}}
    IN  [totalPRs    |-> Cardinality(tracked),
         totalRounds |-> Cardinality(RoundsTo([p \in tracked |-> Max(DOMAIN metrics[p])], tracked)),
         firstPass   |-> Cardinality({p \in tracked : metrics[p][1].approved})]

(* The rounds of a pull request have no gaps, and the reports count those of *)
(* its longest life and every approval by a first review. They may count more *)
(* of these than there were: a later life writes over the rounds of an      *)
(* earlier one.                                                             *)
RoundsAreCounted ==
    /\ \A p \in ReviewedPRs : DOMAIN metrics[p] = 1 .. longest[p] /\ reviewRounds[p] <= longest[p]
    /\ computeStats.totalRounds = Cardinality(RoundsTo(longest, ReviewedPRs))
    /\ computeStats.firstPass >= Cardinality(approvedAtOnce)

(* All rows of a pull request that is not at work have one outcome. It is   *)
(* "merged" if and only if the daemon merged it and GitHub answered so, unless *)
(* the daemon died on it.                                                  *)
OutcomesAreTrue ==
    \A p \in ReviewedPRs \ ({processing.pr} \cup interrupted.prs) :
       \A r \in DOMAIN metrics[p] :
          /\ metrics[p][r].outcome = metrics[p][1].outcome
          /\ metrics[p][r].outcome # "none"
          /\ metrics[p][r].outcome = "merged" <=> mergedByWhom[p] = "daemon"

(* Findings count every comment of every review, those of one pull request  *)
(* that is reviewed again and again too; what recurs is a convention, and   *)
(* agents are told only conventions.                                        *)
ConventionsRecur ==
    /\ \A k \in FindingKeys :
          findings[k] = [count |-> commented[k], convention |-> commented[k] >= PromotionThreshold]
    /\ promotedFindings \subseteq Promoted

(* What the reports on the quality of reviews rest on.                      *)
RecordsAreTrue == RoundsAreCounted /\ OutcomesAreTrue /\ ConventionsRecur
=============================================================================
