--------------------------- MODULE MCMergeDaemon ----------------------------
(* Constants of the TLC runs of MergeDaemon. *)
EXTENDS MergeDaemon, TLC

(* The first pull request can be pushed to once, the others not at all.     *)
Pushes == [p \in PRs |-> IF p = 1 THEN 1 ELSE 0]

Deploy(prs, queues, polls, reviews, mends) ==
    [prs |-> prs, queue |-> queues, poll |-> polls,
     review |-> reviews, buildFix |-> mends, validation |-> mends]

(* Each merger alone on two pull requests, the poll loop with everything it *)
(* does on one, and both mergers on one.                                   *)
Deployments ==
    { Deploy({1, 2}, TRUE, FALSE, FALSE, FALSE),
      Deploy({1, 2}, FALSE, TRUE, FALSE, FALSE),
      Deploy({1}, FALSE, TRUE, TRUE, TRUE),
      Deploy({1}, TRUE, TRUE, FALSE, FALSE) }
=============================================================================
