---------------------------- MODULE MergeDaemon -----------------------------
(***************************************************************************)
(* Both mergers of one daemon over the same pull requests: the poll loop of *)
(* the review and merge daemon, and the merge queue that the GitHub tracker *)
(* starts for each pull request the dispatcher creates (daemon/server.ts).  *)
(***************************************************************************)
EXTENDS PRProcessor, MergeQueue

CONSTANT MaxRestarts  \* bound: restarts of the daemon

ASSUME RestartsAssumption == MaxRestarts \in Nat

VARIABLE restarts

vars == << githubVars, queueVars, processorVars, restarts >>

TypeOK == GithubTypeOK /\ QueueTypeOK /\ ProcessorTypeOK /\ restarts \in 0..MaxRestarts

Init == GithubInit /\ QueueInit /\ ProcessorInit /\ restarts = 0

(* The queue lives in memory as well: what waits in it is forgotten, and    *)
(* those pull requests are left to the poll loop.                          *)
Restart ==
    /\ restarts < MaxRestarts
    /\ restarts' = restarts + 1
    /\ ProcessorRestart
    /\ queue' = << >>
    /\ processing' = FALSE
    /\ mq' = [p \in PRs |-> "none"]
    /\ mqSha' = [p \in PRs |-> 0]
    /\ UNCHANGED githubVars

Processor == ProcessorStep /\ UNCHANGED << queueVars, restarts >>
Merging(p) == QueueStep(p) /\ UNCHANGED << processorVars, restarts >>

Next ==
    \/ Processor
    \/ \E p \in PRs : Merging(p)
    \/ (\E p \in PRs : CreatePullRequest(p)) /\ UNCHANGED << processorVars, restarts >>
    \/ Outside /\ UNCHANGED << queueVars, processorVars, restarts >>
    \/ Restart

(* Requests answer or fail, waits are bounded, commands have timeouts: the  *)
(* poll loop and every merge that was begun take their next step.           *)
Spec == Init /\ [][Next]_vars
FairSpec == Spec /\ WF_vars(Processor) /\ \A p \in PRs : WF_vars(Merging(p))

-----------------------------------------------------------------------------

(* The review daemon merges a pull request only when its own last review    *)
(* approved it and was of the commit this cycle took up: no path through    *)
(* rounds, failures, retries of the merge and restarts goes round it.       *)
ApprovalBeforeMerge ==
    [][\A p \in PRs :
         mergedBy[p] # "processor" /\ mergedBy'[p] = "processor" /\ config.review
           => verdict[p] = "approve" /\ reviewedSha[p] = listed[p]]_vars

(* Whatever GitHub and the agents do, a poll ends and the next one begins:  *)
(* no pull request can hold up the others for good.                        *)
PollsReturn == []<>(phase = "idle")
=============================================================================
