---------------------------- MODULE PRProcessor -----------------------------
(***************************************************************************)
(* The review and merge daemon: a poll loop that takes the open pull        *)
(* requests one after another through clone, conflict resolution,           *)
(* validation, review, checks and merge (merge-daemon/pr-processor.ts,      *)
(* git-operations.ts; the loops of merge-daemon/server.ts and               *)
(* daemon/server.ts). Beside the pull requests of the repository it keeps   *)
(* what it remembers of earlier polls in maps that a restart loses.         *)
(***************************************************************************)
EXTENDS PullRequests, Integers

CONSTANTS
    MaxRounds,         \* review rounds before escalation, 3 in the code
    MaxReviewFailures, \* unparsable reviews before escalation, 3 in the code
    MaxMergeAttempts,  \* 5 in the code
    MaxBuildFixes,     \* 3 in the code
    NoPR               \* no pull request is being processed

ASSUME ProcessorAssumption ==
    /\ MaxRounds \in Nat \ {0}
    /\ MaxReviewFailures \in Nat \ {0}
    /\ MaxMergeAttempts \in Nat \ {0}
    /\ MaxBuildFixes \in Nat
    /\ NoPR \notin PRs

VARIABLES
    phase,       \* where processPR stands
    current,     \* the pull request it processes
    todo,        \* those of the poll that are still to be processed
    listed,      \* listed[p]: pr.sha, the head of p when the poll listed it
    attempt,     \* mergeAttempt
    fixes,       \* buildFixCount
    waitSha,     \* currentSha, the commit whose checks it waits for
    rounds,      \* reviewRounds, not counted beyond MaxRounds
    failures,    \* reviewFailures, not counted beyond MaxReviewFailures
    reviewedSha, \* lastReviewedSha, -1 before
    verdict      \* lastReviewVerdict, "none" before

memoryVars == << rounds, failures, reviewedSha, verdict >>
stepVars == << phase, current, todo, listed, attempt, fixes, waitSha >>
processorVars == << stepVars, memoryVars >>

Verdicts == {"approve", "request_changes"}
Phases == {"idle", "next", "clone", "resolve", "validate", "label", "review",
           "address", "head", "ci", "fix", "merge", "rebase"}

ProcessorTypeOK ==
    /\ phase \in Phases
    /\ current \in PRs \cup {NoPR}
    /\ todo \subseteq PRs
    /\ listed \in [PRs -> Nat]
    /\ attempt \in 0..(MaxMergeAttempts - 1)
    /\ fixes \in 0..MaxBuildFixes
    /\ waitSha \in Nat
    /\ rounds \in [PRs -> 0..MaxRounds]
    /\ failures \in [PRs -> 0..MaxReviewFailures]
    /\ reviewedSha \in [PRs -> Nat \cup {-1}]
    /\ verdict \in [PRs -> Verdicts \cup {"none"}]
    /\ phase \in {"idle", "next"} <=> current = NoPR
    /\ phase = "fix" => fixes < MaxBuildFixes

Remembered ==
    [rounds |-> [p \in PRs |-> 0], failures |-> [p \in PRs |-> 0],
     reviewedSha |-> [p \in PRs |-> -1], verdict |-> [p \in PRs |-> "none"]]

ProcessorInit ==
    /\ phase = "idle" /\ current = NoPR /\ todo = {}
    /\ listed = [p \in PRs |-> 0]
    /\ attempt = 0 /\ fixes = 0 /\ waitSha = 0
    /\ rounds = Remembered.rounds
    /\ failures = Remembered.failures
    /\ reviewedSha = Remembered.reviewedSha
    /\ verdict = Remembered.verdict

GoTo(next) == phase' = next /\ UNCHANGED << current, todo, listed >>
KeepAttempts == UNCHANGED << attempt, fixes, waitSha >>
Forget(p) ==
    /\ reviewedSha' = [reviewedSha EXCEPT ![p] = -1]
    /\ verdict' = [verdict EXCEPT ![p] = "none"]
    /\ rounds' = [rounds EXCEPT ![p] = 0]

(* recordResult: the cycle of the current one is over. "merged" and         *)
(* "failed" forget its review; how often reviews failed is remembered.      *)
Over ==
    /\ phase' = "next" /\ current' = NoPR
    /\ attempt' = 0 /\ fixes' = 0 /\ waitSha' = 0
    /\ UNCHANGED << todo, listed >>
recordTerminal == Over /\ Forget(current) /\ UNCHANGED failures
recordOther == Over /\ UNCHANGED memoryVars

-----------------------------------------------------------------------------
(* One poll: the open pull requests, oldest first *)

fetchOpenForgePRs ==
    /\ phase = "idle"
    /\ config.poll
    /\ phase' = "next"
    /\ todo' = {p \in PRs : Open(p)}
    /\ listed' = [p \in PRs |-> IF Open(p) THEN head[p] ELSE 0]
    /\ UNCHANGED << current, githubVars, attempt, fixes, waitSha, memoryVars >>

NextPR ==
    /\ phase = "next"
    /\ IF todo = {}
       THEN phase' = "idle" /\ UNCHANGED << current, todo >> /\ listed' = [p \in PRs |-> 0]
       ELSE \E p \in todo :
              /\ \A q \in todo : p <= q
              /\ current' = p /\ todo' = todo \ {p} /\ phase' = "clone"
              /\ UNCHANGED listed
    /\ UNCHANGED << githubVars, attempt, fixes, waitSha, memoryVars >>

-----------------------------------------------------------------------------
(* Up to the review *)

(* Clone the branch and merge main; only a conflict leads to a push.        *)
Clone ==
    /\ phase = "clone"
    /\ \/ GoTo(IF base[current] = "conflict" THEN "resolve" ELSE "validate")
          /\ KeepAttempts /\ UNCHANGED memoryVars
       \/ recordTerminal
    /\ UNCHANGED githubVars

PushResolved ==
    /\ phase = "resolve"
    /\ \/ /\ pushWithMain(current)
          /\ UNCHANGED << config, checks, prState, labelled, mergedBy >>
          /\ GoTo("validate") /\ KeepAttempts /\ UNCHANGED memoryVars
       \/ recordTerminal /\ UNCHANGED githubVars

(* Validation passes, or is mended by Claude and pushed, or ends the cycle.  *)
runValidation ==
    /\ phase = "validate"
    /\ \/ GoTo("label") /\ KeepAttempts /\ UNCHANGED << memoryVars, githubVars >>
       \/ /\ config.validation /\ config.buildFix
          /\ pushWithMain(current)
          /\ UNCHANGED << config, checks, prState, labelled, mergedBy >>
          /\ GoTo("label") /\ KeepAttempts /\ UNCHANGED memoryVars
       \/ config.validation /\ recordTerminal /\ UNCHANGED githubVars

(* hasLabel answers FALSE when the request fails.                           *)
CheckLabel ==
    /\ phase = "label"
    /\ \/ ~config.review /\ GoTo("head") /\ KeepAttempts /\ UNCHANGED memoryVars
       \/ config.review /\ GoTo("review") /\ KeepAttempts /\ UNCHANGED memoryVars
       \/ config.review /\ current \in labelled /\ recordOther
    /\ UNCHANGED githubVars

-----------------------------------------------------------------------------
(* Review *)

(* reviewDiff: a review that could be parsed is posted, and its round is    *)
(* counted; one that could not be posted counts as failed.                  *)
reviewDiff ==
    rounds' = [rounds EXCEPT ![current] = IF @ = MaxRounds THEN @ ELSE @ + 1]

SameAsReviewed ==
    reviewedSha[current] = listed[current] /\ verdict[current] = "request_changes"

(* Changes are addressed until the rounds are used up.                      *)
AddressOrEscalate ==
    IF rounds'[current] = MaxRounds
    THEN Over
    ELSE GoTo("address") /\ KeepAttempts

(* The commit was reviewed and refused before: it is reviewed once more,    *)
(* and whatever comes out the cycle ends without a merge.                   *)
ReviewAgain ==
    /\ phase = "review" /\ SameAsReviewed
    /\ \/ recordOther
       \/ /\ reviewDiff
          /\ Over \/ AddressOrEscalate
          /\ UNCHANGED << failures, reviewedSha, verdict >>
    /\ UNCHANGED githubVars

(* parseStructuredReview reads JSON, YAML, single fields or keywords, and    *)
(* whatever it finds that does not say request_changes is an approval, the  *)
(* severity of the comments notwithstanding.                               *)
buildReview(said) == IF said = "request_changes" THEN "request_changes" ELSE "approve"

ReviewSucceeds(said) ==
    /\ phase = "review" /\ ~SameAsReviewed
    /\ reviewDiff
    /\ reviewedSha' = [reviewedSha EXCEPT ![current] = listed[current]]
    /\ verdict' = [verdict EXCEPT ![current] = buildReview(said)]
    /\ failures' = [failures EXCEPT ![current] = 0]
    /\ IF buildReview(said) = "approve" THEN GoTo("head") /\ KeepAttempts ELSE AddressOrEscalate
    /\ UNCHANGED githubVars

(* Fault: a review that failed twice lets the pull request through.         *)
ReviewFailureLetsPass ==
    /\ phase = "review" /\ ~SameAsReviewed
    /\ reviewedSha' = [reviewedSha EXCEPT ![current] = listed[current]]
    /\ failures' = [failures EXCEPT ![current] = 0]
    /\ GoTo("head") /\ KeepAttempts
    /\ UNCHANGED << githubVars, rounds, verdict >>

(* Two attempts failed. The third such poll labels the pull request, if the *)
(* request to label it gets through.                                       *)
ReviewFails ==
    /\ phase = "review" /\ ~SameAsReviewed
    /\ reviewedSha' = [reviewedSha EXCEPT ![current] = listed[current]]
    /\ failures' = [failures EXCEPT ![current] = IF @ = MaxReviewFailures THEN @ ELSE @ + 1]
    /\ \/ /\ failures'[current] = MaxReviewFailures
          /\ labelled' = labelled \cup {current}
       \/ UNCHANGED labelled
    /\ Over
    /\ UNCHANGED << config, head, checks, base, prState, mergedBy,
                    rounds, verdict >>

(* Claude addresses the comments and pushes, or does nothing.               *)
addressReviewComments ==
    /\ phase = "address"
    /\ \/ /\ pushWithMain(current)
          /\ UNCHANGED << config, checks, prState, labelled, mergedBy >>
       \/ UNCHANGED githubVars
    /\ recordOther

-----------------------------------------------------------------------------
(* Checks and merge, in a loop of at most MaxMergeAttempts *)

(* Fault: the attempts are not counted.                                    *)
againUncounted(n) ==
    /\ GoTo("head")
    /\ attempt' = 0
    /\ fixes' = n
    /\ waitSha' = 0

(* continue: the next attempt, with n build fixes made.                     *)
again(n) ==
    /\ attempt + 1 < MaxMergeAttempts
    /\ GoTo("head")
    /\ attempt' = attempt + 1
    /\ fixes' = n
    /\ waitSha' = 0

Exhausted == attempt + 1 = MaxMergeAttempts /\ recordTerminal

(* The head may have moved since the poll; when it cannot be read, pr.sha    *)
(* is taken.                                                               *)
FetchHead ==
    /\ phase = "head"
    /\ waitSha' \in {head[current], listed[current]}
    /\ GoTo("ci")
    /\ UNCHANGED << githubVars, attempt, fixes, memoryVars >>

(* No check run within a minute passes for a repository without CI; checks   *)
(* still running, or unreadable, at the timeout are a failure.             *)
waitForCI ==
    /\ phase = "ci"
    /\ \/ /\ Green(current, waitSha)
          /\ GoTo("merge") /\ KeepAttempts /\ UNCHANGED memoryVars
       \/ /\ IF config.buildFix /\ fixes < MaxBuildFixes
             THEN GoTo("fix") /\ UNCHANGED << attempt, fixes, waitSha, memoryVars >>
             ELSE recordTerminal
    /\ UNCHANGED githubVars

(* A fresh clone, without main merged in, is mended by Claude and pushed.    *)
fixCIFailure ==
    /\ phase = "fix"
    /\ \/ /\ push(current)
          /\ UNCHANGED << config, checks, base, prState, labelled, mergedBy >>
          /\ again(fixes + 1) /\ UNCHANGED memoryVars
       \/ /\ push(current)
          /\ UNCHANGED << config, checks, base, prState, labelled, mergedBy >>
          /\ Exhausted
       \/ recordTerminal /\ UNCHANGED githubVars

Merge ==
    /\ phase = "merge"
    /\ mergeHead(current, "processor")
    /\ recordTerminal
    /\ UNCHANGED << config, head, checks, base, labelled >>

(* Status 405 and a branch that is not up to date is a reason to rebase, as  *)
(* long as there are attempts; without such a reason the code waits.        *)
MergeRefused ==
    /\ phase = "merge"
    /\ \/ /\ attempt + 1 < MaxMergeAttempts /\ Open(current) /\ base[current] # "current"
          /\ GoTo("rebase") /\ KeepAttempts /\ UNCHANGED memoryVars
       \/ again(fixes) /\ UNCHANGED memoryVars
       \/ recordTerminal
    /\ UNCHANGED githubVars

Rebase ==
    /\ phase = "rebase"
    /\ \/ /\ pushWithMain(current)
          /\ UNCHANGED << config, checks, prState, labelled, mergedBy >>
          /\ again(fixes) /\ UNCHANGED memoryVars
       \/ /\ base[current] = "current" /\ UNCHANGED githubVars
          /\ again(fixes) /\ UNCHANGED memoryVars
       \/ recordTerminal /\ UNCHANGED githubVars

ProcessorStep ==
    \/ fetchOpenForgePRs \/ NextPR \/ Clone \/ PushResolved \/ runValidation \/ CheckLabel
    \/ ReviewAgain \/ (\E said \in Verdicts \cup {"other"} : ReviewSucceeds(said)) \/ ReviewFails
    \/ addressReviewComments \/ FetchHead \/ waitForCI \/ fixCIFailure
    \/ Merge \/ MergeRefused \/ Rebase

(* The process dies: what it remembered and what it was doing is gone.      *)
ProcessorRestart ==
    /\ phase' = "idle" /\ current' = NoPR /\ todo' = {}
    /\ listed' = [p \in PRs |-> 0]
    /\ attempt' = 0 /\ fixes' = 0 /\ waitSha' = 0
    /\ rounds' = Remembered.rounds
    /\ failures' = Remembered.failures
    /\ reviewedSha' = Remembered.reviewedSha
    /\ verdict' = Remembered.verdict
=============================================================================
