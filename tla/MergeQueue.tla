----------------------------- MODULE MergeQueue -----------------------------
(***************************************************************************)
(* The merge queue of the GitHub tracker: createPullRequest enqueues every  *)
(* pull request it creates, and the queue merges them one at a time, each   *)
(* once its checks have passed (merge-queue.ts, tracker/github.ts). Each    *)
(* await is a step; execFileSync blocks the process, so a clone, the merge  *)
(* of main and the push that follow it are one.                            *)
(***************************************************************************)
EXTENDS PullRequests

VARIABLES
    queue,      \* MergeQueue.queue
    processing, \* MergeQueue.processing
    mq,         \* mq[p]: where the merge of p stands
    mqSha       \* mqSha[p]: the commit autoMergeWithCI asks the checks of

queueVars == << queue, processing, mq, mqSha >>

Waiting == {"none", "queued", "settled"}
MqPhases == Waiting \cup {"look", "resolve", "retry", "wait", "merge", "again",
                          "againMerge", "refetch", "rewait", "final"}
InProgress(p) == mq[p] \notin Waiting

QueueTypeOK ==
    /\ queue \in Seq(PRs)
    /\ processing \in BOOLEAN
    /\ mq \in [PRs -> MqPhases]
    /\ mqSha \in [PRs -> Nat] /\ \A p \in PRs : mqSha[p] \in Heads(p)

QueueInit ==
    /\ queue = << >>
    /\ processing = FALSE
    /\ mq = [p \in PRs |-> "none"]
    /\ mqSha = [p \in PRs |-> 0]

(* Fault: the flag is not looked at.                                       *)
processNextAlways(requests, phases, busy) ==
    IF requests = << >>
    THEN /\ processing' = FALSE
         /\ queue' = requests
         /\ mq' = phases
    ELSE /\ processing' = TRUE
         /\ queue' = Tail(requests)
         /\ mq' = [phases EXCEPT ![Head(requests)] = "look"]

(* Take the next request unless a merge is under way.                      *)
processNext(requests, phases, busy) ==
    IF busy \/ requests = << >>
    THEN /\ processing' = busy
         /\ queue' = requests
         /\ mq' = phases
    ELSE /\ processing' = TRUE
         /\ queue' = Tail(requests)
         /\ mq' = [phases EXCEPT ![Head(requests)] = "look"]

enqueue(p) ==
    processNext(Append(queue, p), [mq EXCEPT ![p] = "queued"], processing)

(* createPullRequest: the pull request exists, and is enqueued; with another *)
(* tracker the dispatcher creates it through the GitHub App instead.        *)
CreatePullRequest(p) ==
    /\ p \in config.prs
    /\ prState[p] = "absent"
    /\ \A o \in config.prs : prState[o] = "absent" => p <= o
    /\ prState' = [prState EXCEPT ![p] = "open"]
    /\ IF config.queue THEN enqueue(p) ELSE UNCHANGED << queue, processing, mq >>
    /\ UNCHANGED << config, head, checks, base, labelled, mergedBy, mqSha >>

(* Fault: the flag stays up, so the next request is never taken.            *)
settleKeepsFlag(p) == processNext(queue, [mq EXCEPT ![p] = "settled"], TRUE)

(* The merge function returned or threw: the promise is resolved and the    *)
(* next request is taken in the same turn.                                 *)
settle(p) == processNext(queue, [mq EXCEPT ![p] = "settled"], FALSE)

GoOn(p, phase) == mq' = [mq EXCEPT ![p] = phase] /\ UNCHANGED << queue, processing >>

(* GET the pull request. An error answer has no head and no mergeable: the  *)
(* code goes on to merge without waiting for any check.                    *)
LookAtPR(p) ==
    /\ mq[p] = "look"
    /\ \/ /\ GoOn(p, IF base[p] = "conflict" THEN "resolve" ELSE "wait")
          /\ mqSha' = [mqSha EXCEPT ![p] = head[p]]
       \/ GoOn(p, "merge") /\ UNCHANGED mqSha
       \/ settle(p) /\ UNCHANGED mqSha
    /\ UNCHANGED githubVars

(* resolveAndMerge: main is merged in, conflicts are resolved by Claude, the *)
(* branch is pushed; a push of what is there already changes nothing.       *)
PushResolution(p) ==
    IF base[p] = "current"
    THEN UNCHANGED githubVars
    ELSE /\ push(p)
         /\ base' = [base EXCEPT ![p] = "current"]
         /\ UNCHANGED << config, checks, prState, labelled, mergedBy >>

ResolveFirst(p) ==
    /\ mq[p] = "resolve"
    /\ \/ GoOn(p, "retry") /\ PushResolution(p)
       \/ settle(p) /\ UNCHANGED githubVars
    /\ UNCHANGED mqSha

(* ... and the merge is asked for at once, whatever the answer.             *)
PutMerge(p) ==
    \/ mergeHead(p, "queue") /\ UNCHANGED << config, head, checks, base, labelled >>
    \/ UNCHANGED githubVars

MergeAfterResolve(p) ==
    /\ mq[p] = "retry"
    /\ PutMerge(p)
    /\ GoOn(p, "wait") \/ settle(p)
    /\ UNCHANGED mqSha

(* Poll the checks of the commit read first, for a quarter of an hour. When  *)
(* one failed, at the timeout and when a request throws, the merge is over   *)
(* and the pull request stays open.                                        *)
WaitForChecks(p) ==
    /\ mq[p] = "wait"
    /\ \/ Green(p, mqSha[p]) /\ GoOn(p, "merge")
       \/ settle(p)
    /\ UNCHANGED << githubVars, mqSha >>

MergeGreen(p) ==
    /\ mq[p] = "merge"
    /\ \/ /\ mergeHead(p, "queue")
          /\ UNCHANGED << config, head, checks, base, labelled >>
          /\ settle(p)
       \/ GoOn(p, "again") /\ UNCHANGED githubVars
       \/ settle(p) /\ UNCHANGED githubVars
    /\ UNCHANGED mqSha

(* The merge was refused: resolve, and whatever throws from here on is      *)
(* caught and commented on the pull request.                               *)
ResolveAgain(p) ==
    /\ mq[p] = "again"
    /\ \/ GoOn(p, "againMerge") /\ PushResolution(p)
       \/ settle(p) /\ UNCHANGED githubVars
    /\ UNCHANGED mqSha

MergeAgain(p) ==
    /\ mq[p] = "againMerge"
    /\ PutMerge(p)
    /\ GoOn(p, "refetch") \/ settle(p)
    /\ UNCHANGED mqSha

(* Only a new head is waited for.                                          *)
Refetch(p) ==
    /\ mq[p] = "refetch"
    /\ \/ /\ head[p] # mqSha[p]
          /\ mqSha' = [mqSha EXCEPT ![p] = head[p]]
          /\ GoOn(p, "rewait")
       \/ settle(p) /\ UNCHANGED mqSha
    /\ UNCHANGED githubVars

Rewait(p) ==
    /\ mq[p] = "rewait"
    /\ \/ Green(p, mqSha[p]) /\ GoOn(p, "final")
       \/ settle(p)
    /\ UNCHANGED << githubVars, mqSha >>

FinalMerge(p) ==
    /\ mq[p] = "final"
    /\ PutMerge(p)
    /\ settle(p)
    /\ UNCHANGED mqSha

QueueStep(p) ==
    \/ LookAtPR(p) \/ ResolveFirst(p) \/ MergeAfterResolve(p) \/ WaitForChecks(p)
    \/ MergeGreen(p) \/ ResolveAgain(p) \/ MergeAgain(p) \/ Refetch(p)
    \/ Rewait(p) \/ FinalMerge(p)

-----------------------------------------------------------------------------

(* The merges of the queue are those of a serial queue: one at a time, in   *)
(* the order of enqueue, although enqueue and the end of a merge both start *)
(* the next one.                                                           *)
Serial == INSTANCE SerialQueue
    WITH Customers <- PRs, line <- queue, serving <- {p \in PRs : InProgress(p)}
ImplementsSerialQueue == Serial!Spec

(* No wakeup is lost: while requests wait, a merge is under way whose end   *)
(* will take the next, and the queue holds exactly those that wait.         *)
WaitersAreServed ==
    /\ queue # << >> => \E p \in PRs : InProgress(p)
    /\ {queue[k] : k \in 1..Len(queue)} = {p \in PRs : mq[p] = "queued"}

(* Every pull request that is enqueued is settled in the end, whatever      *)
(* throws: one that is not would hold up all others.                       *)
EveryRequestSettles == \A p \in PRs : mq[p] = "queued" ~> mq[p] \in {"settled", "none"}
=============================================================================
