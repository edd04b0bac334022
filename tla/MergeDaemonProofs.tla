-------------------------- MODULE MergeDaemonProofs --------------------------
(***************************************************************************)
(* Theorems about MergeDaemon, for every deployment, every number of pull   *)
(* requests and every bound: its type, the discipline of the merge queue,   *)
(* that the merge queue implements SerialQueue, and that the review daemon  *)
(* merges nothing its last review did not approve.                         *)
(***************************************************************************)
EXTENDS MergeDaemon, SequenceTheorems, TLAPS

(* What a step leaves alone, for the parts that cannot be disturbed.        *)
ConfigKept == config' = config

-----------------------------------------------------------------------------
(* Types of the pull requests on GitHub *)

LEMMA PushTyped ==
    ASSUME GithubTypeOK, NEW p \in PRs, push(p)
    PROVE  head' \in [PRs -> Nat] /\ \A q \in PRs : head'[q] \in Heads(q)
<1>1. MaxHead[p] \in Nat /\ head[p] \in Nat /\ head[p] < MaxHead[p]
  BY PullRequestsAssumption DEF GithubTypeOK, push, CanPush
<1>2. head' = [head EXCEPT ![p] = head[p] + 1]
  BY DEF push
<1>3. head' \in [PRs -> Nat]
  BY <1>1, <1>2 DEF GithubTypeOK
<1>4. \A q \in PRs : head'[q] = IF q = p THEN head[p] + 1 ELSE head[q]
  BY <1>2 DEF GithubTypeOK
<1>5. \A q \in PRs : head'[q] \in Heads(q)
  BY <1>1, <1>4 DEF GithubTypeOK, Heads
<1> QED
  BY <1>3, <1>5

LEMMA PushKeepsType ==
    ASSUME GithubTypeOK, NEW p \in PRs, push(p),
           UNCHANGED << config, checks, base, prState, labelled, mergedBy >>
    PROVE  GithubTypeOK'
BY PushTyped DEF GithubTypeOK, Heads

LEMMA PushWithMainKeepsType ==
    ASSUME GithubTypeOK, NEW p \in PRs, pushWithMain(p),
           UNCHANGED << config, checks, prState, labelled, mergedBy >>
    PROVE  GithubTypeOK'
<1>1. base' \in [PRs -> {"current", "behind", "conflict"}]
  BY DEF GithubTypeOK, pushWithMain
<1> QED
  BY <1>1, PushTyped DEF GithubTypeOK, Heads, pushWithMain

LEMMA MergeKeepsType ==
    ASSUME GithubTypeOK, NEW p \in PRs, NEW who \in {"processor", "queue"},
           mergeHead(p, who), UNCHANGED << config, head, checks, base, labelled >>
    PROVE  GithubTypeOK'
BY DEF GithubTypeOK, mergeHead, Heads

LEMMA NothingKeepsType == ASSUME GithubTypeOK, UNCHANGED githubVars PROVE GithubTypeOK'
BY DEF GithubTypeOK, githubVars, Heads

LEMMA OutsideKeepsType == ASSUME GithubTypeOK, Outside PROVE GithubTypeOK'
<1> PICK p \in PRs : AuthorPush(p) \/ MainMoves(p) \/ \E h \in Heads(p) : ChecksEnd(p, h)
  BY DEF Outside
<1>1. CASE AuthorPush(p)
  BY <1>1, PushKeepsType DEF AuthorPush
<1>2. CASE MainMoves(p)
  BY <1>2 DEF MainMoves, GithubTypeOK, Heads
<1>3. ASSUME NEW h \in Heads(p), ChecksEnd(p, h) PROVE GithubTypeOK'
  <2>1. \A q \in PRs : checks'[q] \in [Heads(q) -> {"pending", "passed", "failed"}]
    BY <1>3 DEF ChecksEnd, GithubTypeOK
  <2> QED
    BY <1>3, <2>1 DEF ChecksEnd, GithubTypeOK, Heads
<1> QED
  BY <1>1, <1>2, <1>3

-----------------------------------------------------------------------------
(* The discipline of the queue *)

Served == {p \in PRs : InProgress(p)}

(* One merge at a time, under way whenever a request waits; the queue holds  *)
(* each waiting request once; what is not created yet was never enqueued.   *)
QueueInv ==
    /\ \A p, q \in PRs : InProgress(p) /\ InProgress(q) => p = q
    /\ processing <=> \E p \in PRs : InProgress(p)
    /\ queue # << >> => processing
    /\ \A p \in PRs : mq[p] = "queued" <=> \E k \in 1..Len(queue) : queue[k] = p
    /\ \A j, k \in 1..Len(queue) : queue[j] = queue[k] => j = k
    /\ \A p \in PRs : prState[p] = "absent" => mq[p] = "none"

(* The part of QueueInv that does not speak of prState.                     *)
QueueOnly ==
    /\ \A p, q \in PRs : InProgress(p) /\ InProgress(q) => p = q
    /\ processing <=> \E p \in PRs : InProgress(p)
    /\ queue # << >> => processing
    /\ \A p \in PRs : mq[p] = "queued" <=> \E k \in 1..Len(queue) : queue[k] = p
    /\ \A j, k \in 1..Len(queue) : queue[j] = queue[k] => j = k

(* A merge moves on: nothing about the queue changes.                       *)
LEMMA GoOnKeepsQueue ==
    ASSUME QueueTypeOK, QueueOnly, NEW p \in PRs, InProgress(p),
           NEW ph \in MqPhases \ Waiting, GoOn(p, ph)
    PROVE  /\ QueueOnly'
           /\ mq' \in [PRs -> MqPhases] /\ queue' \in Seq(PRs) /\ processing' \in BOOLEAN
           /\ \A q \in PRs : mq[q] = "none" <=> mq'[q] = "none"
           /\ UNCHANGED << queue, Served >>
<1>1. /\ mq' \in [PRs -> MqPhases] /\ queue' = queue /\ processing' = processing
      /\ mq'[p] = ph /\ \A q \in PRs \ {p} : mq'[q] = mq[q]
  BY DEF GoOn, QueueTypeOK
<1>2. \A q \in PRs : (InProgress(q))' <=> InProgress(q)
  BY <1>1 DEF InProgress, Waiting
<1>3. \A q \in PRs : mq'[q] = "queued" <=> mq[q] = "queued"
  BY <1>1 DEF InProgress, Waiting
<1>4. \A q \in PRs : mq'[q] = "none" <=> mq[q] = "none"
  BY <1>1 DEF InProgress, Waiting
<1>5. Served' = Served
  BY <1>2 DEF Served
<1> QED
  BY <1>1, <1>2, <1>3, <1>4, <1>5 DEF QueueOnly, QueueTypeOK

(* A request arrives: it is taken at once, or put at the end of the queue.   *)
LEMMA EnqueueKeepsQueue ==
    ASSUME QueueTypeOK, QueueOnly, NEW p \in PRs, mq[p] = "none", enqueue(p)
    PROVE  /\ QueueOnly'
           /\ mq' \in [PRs -> MqPhases] /\ queue' \in Seq(PRs) /\ processing' \in BOOLEAN
           /\ \A q \in PRs \ {p} : mq'[q] = mq[q]
           /\ Serial!Arrive(p)
<1>1. ~InProgress(p)
  BY DEF InProgress, Waiting
<1>2. p \notin {queue[k] : k \in 1..Len(queue)}
  BY DEF QueueOnly
<1>3. CASE processing
  <2>1. /\ processing' = TRUE /\ queue' = Append(queue, p)
        /\ mq' = [mq EXCEPT ![p] = "queued"]
    BY <1>3 DEF enqueue, processNext, QueueTypeOK
  <2>2. /\ queue' \in Seq(PRs) /\ Len(queue') = Len(queue) + 1
        /\ \A k \in 1..Len(queue) : queue'[k] = queue[k]
        /\ queue'[Len(queue) + 1] = p
        /\ Len(queue) \in Nat
    BY <2>1 DEF QueueTypeOK
  <2>3. /\ mq' \in [PRs -> MqPhases] /\ mq'[p] = "queued"
        /\ \A q \in PRs \ {p} : mq'[q] = mq[q]
    BY <2>1 DEF QueueTypeOK, MqPhases, Waiting
  <2>4. \A q \in PRs : (InProgress(q))' <=> InProgress(q)
    BY <1>1, <2>3 DEF InProgress, Waiting
  <2>5. Served' = Served /\ Served # {}
    BY <2>4, <1>3 DEF Served, QueueOnly
  <2>6. Serial!Arrive(p)
    BY <1>1, <2>1, <2>5 DEF Serial!Arrive, Served
  <2>7. \A q \in PRs : mq'[q] = "queued" <=> \E k \in 1..Len(queue') : queue'[k] = q
    <3> TAKE q \in PRs
    <3>1. CASE q = p
      <4>1. Len(queue) + 1 \in 1..Len(queue')
        BY <2>2
      <4> QED
        BY <3>1, <4>1, <2>2, <2>3
    <3>2. CASE q # p
      <4>1. \A k \in 1..Len(queue') : queue'[k] = q => k \in 1..Len(queue)
        BY <3>2, <2>2
      <4>2. \A k \in 1..Len(queue) : k \in 1..Len(queue')
        BY <2>2
      <4> QED
        BY <3>2, <4>1, <4>2, <2>2, <2>3 DEF QueueOnly
    <3> QED
      BY <3>1, <3>2
  <2>8. \A j, k \in 1..Len(queue') : queue'[j] = queue'[k] => j = k
    BY <1>2, <2>2 DEF QueueOnly
  <2> QED
    BY <1>3, <2>1, <2>2, <2>3, <2>4, <2>6, <2>7, <2>8 DEF QueueOnly
<1>4. CASE ~processing
  <2>1. queue = << >> /\ \A q \in PRs : ~InProgress(q)
    BY <1>4 DEF QueueOnly
  <2>2. Append(queue, p) # << >> /\ Head(Append(queue, p)) = p /\ Tail(Append(queue, p)) = << >>
    BY <2>1
  <2>3. /\ processing' = TRUE /\ queue' = << >>
        /\ mq' = [[mq EXCEPT ![p] = "queued"] EXCEPT ![p] = "look"]
    BY <1>4, <2>2 DEF enqueue, processNext
  <2>4. /\ mq' \in [PRs -> MqPhases] /\ mq'[p] = "look"
        /\ \A q \in PRs \ {p} : mq'[q] = mq[q]
    BY <2>3 DEF QueueTypeOK, MqPhases, Waiting
  <2>5. \A q \in PRs : (InProgress(q))' <=> q = p
    BY <2>1, <2>4 DEF InProgress, Waiting
  <2>6. Served = {} /\ Served' = {p}
    BY <2>1, <2>5 DEF Served
  <2>7. Serial!Arrive(p)
    BY <1>1, <2>1, <2>3, <2>6 DEF Serial!Arrive, Served
  <2>8. \A q \in PRs : mq[q] # "queued"
    BY <2>1 DEF QueueOnly
  <2>9. \A q \in PRs : mq'[q] # "queued"
    BY <2>4, <2>8
  <2> QED
    BY <2>3, <2>4, <2>5, <2>7, <2>9 DEF QueueOnly
<1> QED
  BY <1>3, <1>4 DEF QueueTypeOK

(* A merge ends: the head of the queue is next.                             *)
LEMMA SettleKeepsQueue ==
    ASSUME QueueTypeOK, QueueOnly, NEW p \in PRs, InProgress(p), settle(p)
    PROVE  /\ QueueOnly'
           /\ mq' \in [PRs -> MqPhases] /\ queue' \in Seq(PRs) /\ processing' \in BOOLEAN
           /\ \A q \in PRs : mq[q] = "none" <=> mq'[q] = "none"
           /\ Serial!Leave
<1> DEFINE after == [mq EXCEPT ![p] = "settled"]
<1>1. /\ after \in [PRs -> MqPhases] /\ after[p] = "settled"
      /\ \A q \in PRs \ {p} : after[q] = mq[q]
  BY DEF QueueTypeOK, MqPhases, Waiting
<1>2. \A q \in PRs : InProgress(q) <=> q = p
  BY DEF QueueOnly
<1>3. \A q \in PRs : after[q] \in Waiting
  BY <1>1, <1>2 DEF InProgress, Waiting
<1>4. Served = {p}
  BY <1>2 DEF Served
<1>5. mq[p] \notin {"none", "queued"}
  BY DEF InProgress, Waiting
<1>6. CASE queue = << >>
  <2>1. processing' = FALSE /\ queue' = << >> /\ mq' = after
    BY <1>6 DEF settle, processNext
  <2>2. \A q \in PRs : ~(InProgress(q))'
    BY <1>3, <2>1 DEF InProgress
  <2>3. Served' = {}
    BY <2>2 DEF Served
  <2>4. Serial!Leave
    BY <1>4, <1>6, <2>1, <2>3 DEF Serial!Leave, Served
  <2>5. \A q \in PRs : mq[q] # "queued"
    BY <1>6 DEF QueueOnly
  <2>6. \A q \in PRs : mq'[q] # "queued"
    BY <1>1, <2>1, <2>5
  <2>7. \A q \in PRs : mq[q] = "none" <=> mq'[q] = "none"
    BY <1>1, <1>5, <2>1
  <2>8. queue' \in Seq(PRs) /\ Len(queue') = 0
    BY <2>1
  <2>9. QueueOnly'
    BY <2>1, <2>2, <2>6, <2>8 DEF QueueOnly
  <2> QED
    BY <1>1, <2>1, <2>4, <2>7, <2>8, <2>9
<1>7. CASE queue # << >>
  <2> DEFINE h == Head(queue)
  <2>1. /\ queue \in Seq(PRs) /\ Len(queue) \in Nat /\ Len(queue) >= 1 /\ h = queue[1] /\ h \in PRs
        /\ Tail(queue) \in Seq(PRs) /\ Len(Tail(queue)) = Len(queue) - 1
        /\ \A k \in 1..(Len(queue) - 1) : Tail(queue)[k] = queue[k + 1]
    BY <1>7 DEF QueueTypeOK
  <2>2. processing' = TRUE /\ queue' = Tail(queue) /\ mq' = [after EXCEPT ![h] = "look"]
    BY <1>7 DEF settle, processNext
  <2>3. mq[h] = "queued"
    BY <2>1 DEF QueueOnly
  <2>4. h # p
    BY <1>5, <2>3
  <2>5. /\ mq' \in [PRs -> MqPhases] /\ mq'[h] = "look"
        /\ \A q \in PRs \ {h} : mq'[q] = after[q]
    BY <1>1, <2>1, <2>2 DEF MqPhases, Waiting
  <2>6. \A q \in PRs : (InProgress(q))' <=> q = h
    BY <1>3, <2>5 DEF InProgress, Waiting
  <2>7. Served' = {h}
    BY <2>1, <2>6 DEF Served
  <2>8. Serial!Leave
    BY <1>4, <1>7, <2>2, <2>7 DEF Serial!Leave, Served
  <2>9. \A j, k \in 1..Len(queue') : queue'[j] = queue'[k] => j = k
    <3> TAKE j, k \in 1..Len(queue')
    <3> HAVE queue'[j] = queue'[k]
    <3>1. /\ j \in Nat /\ k \in Nat /\ j + 1 \in 1..Len(queue) /\ k + 1 \in 1..Len(queue)
          /\ queue[j + 1] = queue[k + 1]
      BY <2>1, <2>2
    <3>2. j + 1 = k + 1
      BY <3>1 DEF QueueOnly
    <3> QED
      BY <3>1, <3>2
  <2>10. \A q \in PRs : mq'[q] = "queued" <=> \E k \in 1..Len(queue') : queue'[k] = q
    <3> TAKE q \in PRs
    <3>1. ASSUME NEW k \in 1..Len(queue'), queue'[k] = q PROVE mq'[q] = "queued"
      <4>1. k + 1 \in 1..Len(queue) /\ queue[k + 1] = q /\ k + 1 # 1
        BY <2>1, <2>2, <3>1
      <4>2. q # h
        BY <2>1, <4>1 DEF QueueOnly
      <4>3. mq[q] = "queued"
        BY <4>1 DEF QueueOnly
      <4> QED
        BY <1>1, <1>5, <2>5, <4>2, <4>3
    <3>2. ASSUME mq'[q] = "queued" PROVE \E k \in 1..Len(queue') : queue'[k] = q
      <4>1. q # h /\ q # p /\ mq[q] = "queued"
        BY <1>1, <2>5, <3>2
      <4>2. PICK j \in 1..Len(queue) : queue[j] = q
        BY <4>1 DEF QueueOnly
      <4>3. j # 1
        BY <2>1, <4>1, <4>2
      <4>4. j - 1 \in 1..Len(queue') /\ queue'[j - 1] = q
        BY <2>1, <2>2, <4>2, <4>3
      <4> QED
        BY <4>4
    <3> QED
      BY <3>1, <3>2
  <2>11. \A q \in PRs : mq[q] = "none" <=> mq'[q] = "none"
    BY <1>1, <1>5, <2>3, <2>5
  <2> QED
    BY <2>1, <2>2, <2>5, <2>6, <2>8, <2>9, <2>10, <2>11 DEF QueueOnly
<1> QED
  BY <1>6, <1>7

-----------------------------------------------------------------------------
(* Every step of a merge moves on or settles, and creates no pull request.  *)

(* No step takes a pull request back to absent.                             *)
StaysCreated == \A q \in PRs : prState'[q] = "absent" => prState[q] = "absent"

LEMMA PutMergeKeeps ==
    ASSUME GithubTypeOK, NEW p \in PRs, PutMerge(p)
    PROVE  GithubTypeOK' /\ StaysCreated /\ ConfigKept
<1>1. CASE UNCHANGED githubVars
  BY <1>1, NothingKeepsType DEF StaysCreated, ConfigKept, githubVars
<1>2. CASE mergeHead(p, "queue") /\ UNCHANGED << config, head, checks, base, labelled >>
  <2>1. GithubTypeOK'
    BY <1>2, MergeKeepsType
  <2> QED
    BY <1>2, <2>1 DEF StaysCreated, ConfigKept, mergeHead, GithubTypeOK
<1> QED
  BY <1>1, <1>2 DEF PutMerge

LEMMA PushResolutionKeeps ==
    ASSUME GithubTypeOK, NEW p \in PRs, PushResolution(p)
    PROVE  GithubTypeOK' /\ StaysCreated /\ ConfigKept
<1>1. CASE UNCHANGED githubVars
  BY <1>1, NothingKeepsType DEF StaysCreated, ConfigKept, githubVars
<1>2. CASE /\ push(p) /\ base' = [base EXCEPT ![p] = "current"]
           /\ UNCHANGED << config, checks, prState, labelled, mergedBy >>
  <2>1. GithubTypeOK'
    BY <1>2, PushTyped DEF GithubTypeOK, Heads
  <2> QED
    BY <1>2, <2>1 DEF StaysCreated, ConfigKept
<1> QED
  BY <1>1, <1>2 DEF PushResolution

(* What a step of the queue does, whichever it is.                          *)
LEMMA QueueStepShape ==
    ASSUME GithubTypeOK, QueueTypeOK, NEW p \in PRs, QueueStep(p)
    PROVE  /\ InProgress(p)
           /\ settle(p) \/ \E ph \in MqPhases \ Waiting : GoOn(p, ph)
           /\ mqSha' = mqSha \/ mqSha' = [mqSha EXCEPT ![p] = head[p]]
           /\ GithubTypeOK' /\ StaysCreated /\ ConfigKept
<1> USE DEF InProgress, MqPhases, Waiting
<1>u. ASSUME UNCHANGED githubVars PROVE GithubTypeOK' /\ StaysCreated /\ ConfigKept
  BY <1>u, NothingKeepsType DEF StaysCreated, ConfigKept, githubVars
<1>1. CASE LookAtPR(p)
  BY <1>1, <1>u DEF LookAtPR
<1>2. CASE ResolveFirst(p)
  BY <1>2, <1>u, PushResolutionKeeps DEF ResolveFirst
<1>3. CASE MergeAfterResolve(p)
  BY <1>3, PutMergeKeeps DEF MergeAfterResolve
<1>4. CASE WaitForChecks(p)
  BY <1>4, <1>u DEF WaitForChecks
<1>5. CASE MergeGreen(p)
  <2>1. /\ mq[p] = "merge" /\ UNCHANGED mqSha
        /\ settle(p) \/ GoOn(p, "again")
        /\ PutMerge(p)
    BY <1>5 DEF MergeGreen, PutMerge
  <2> QED
    BY <2>1, PutMergeKeeps
<1>6. CASE ResolveAgain(p)
  BY <1>6, <1>u, PushResolutionKeeps DEF ResolveAgain
<1>7. CASE MergeAgain(p)
  BY <1>7, PutMergeKeeps DEF MergeAgain
<1>8. CASE Refetch(p)
  BY <1>8, <1>u DEF Refetch
<1>9. CASE Rewait(p)
  BY <1>9, <1>u DEF Rewait
<1>10. CASE FinalMerge(p)
  BY <1>10, PutMergeKeeps DEF FinalMerge
<1> QED
  BY <1>1, <1>2, <1>3, <1>4, <1>5, <1>6, <1>7, <1>8, <1>9, <1>10 DEF QueueStep

-----------------------------------------------------------------------------
(* The poll loop *)

(* The commits remembered are commits, and past the review of the daemon a   *)
(* pull request has been approved by it, at the commit this cycle took up.  *)
Approved ==
    config.review /\ phase \in {"head", "ci", "fix", "merge", "rebase"}
        => verdict[current] = "approve" /\ reviewedSha[current] = listed[current]

(* The parts of a step of the poll loop that concern the outside.           *)
LEMMA PushWithMainKeeps ==
    ASSUME GithubTypeOK, current \in PRs, pushWithMain(current),
           UNCHANGED << config, checks, prState, labelled, mergedBy >>
    PROVE  GithubTypeOK' /\ StaysCreated /\ ConfigKept
BY PushWithMainKeepsType DEF StaysCreated, ConfigKept

LEMMA PushKeeps ==
    ASSUME GithubTypeOK, current \in PRs, push(current),
           UNCHANGED << config, checks, base, prState, labelled, mergedBy >>
    PROVE  GithubTypeOK' /\ StaysCreated /\ ConfigKept
BY PushKeepsType DEF StaysCreated, ConfigKept

LEMMA NothingKeeps ==
    ASSUME GithubTypeOK, UNCHANGED githubVars
    PROVE  GithubTypeOK' /\ StaysCreated /\ ConfigKept
BY NothingKeepsType DEF StaysCreated, ConfigKept, githubVars

LEMMA ProcessorKeepsGithub ==
    ASSUME GithubTypeOK, ProcessorTypeOK, ProcessorStep
    PROVE  GithubTypeOK' /\ StaysCreated /\ ConfigKept
<1>1. phase \notin {"idle", "next"} => current \in PRs
  BY DEF ProcessorTypeOK
<1>2. CASE fetchOpenForgePRs \/ NextPR \/ Clone \/ CheckLabel \/ ReviewAgain
           \/ (\E said \in Verdicts \cup {"other"} : ReviewSucceeds(said)) \/ FetchHead \/ waitForCI \/ MergeRefused
  <2>1. UNCHANGED githubVars
    BY <1>2 DEF fetchOpenForgePRs, NextPR, Clone, CheckLabel, ReviewAgain, ReviewSucceeds,
                FetchHead, waitForCI, MergeRefused
  <2> QED
    BY <2>1, NothingKeeps
<1>3. CASE PushResolved
  BY <1>1, <1>3, NothingKeeps, PushWithMainKeeps DEF PushResolved
<1>4. CASE runValidation
  BY <1>1, <1>4, NothingKeeps, PushWithMainKeeps DEF runValidation
<1>5. CASE ReviewFails
  <2>1. labelled' \subseteq PRs
    BY <1>1, <1>5 DEF ReviewFails, GithubTypeOK
  <2> QED
    BY <1>5, <2>1 DEF ReviewFails, GithubTypeOK, Heads, StaysCreated, ConfigKept
<1>6. CASE addressReviewComments
  BY <1>1, <1>6, NothingKeeps, PushWithMainKeeps DEF addressReviewComments
<1>7. CASE fixCIFailure
  BY <1>1, <1>7, NothingKeeps, PushKeeps DEF fixCIFailure
<1>8. CASE Merge
  <2>1. current \in PRs /\ mergeHead(current, "processor")
        /\ UNCHANGED << config, head, checks, base, labelled >>
    BY <1>1, <1>8 DEF Merge
  <2>2. GithubTypeOK'
    BY <2>1, MergeKeepsType
  <2> QED
    BY <2>1, <2>2 DEF StaysCreated, ConfigKept, mergeHead, GithubTypeOK
<1>9. CASE Rebase
  BY <1>1, <1>9, NothingKeeps, PushWithMainKeeps DEF Rebase
<1> QED
  BY <1>2, <1>3, <1>4, <1>5, <1>6, <1>7, <1>8, <1>9 DEF ProcessorStep

LEMMA ConstantsOfProcessor ==
    /\ MaxRounds \in Nat /\ MaxRounds >= 1
    /\ MaxReviewFailures \in Nat /\ MaxReviewFailures >= 1
    /\ MaxMergeAttempts \in Nat /\ MaxMergeAttempts >= 1
    /\ MaxBuildFixes \in Nat /\ NoPR \notin PRs /\ PRs \subseteq Nat
BY ProcessorAssumption, PullRequestsAssumption

(* The end of a cycle, whether or not its review is forgotten.              *)
LEMMA OverKeeps ==
    ASSUME ProcessorTypeOK, Over,
           rounds' \in [PRs -> 0..MaxRounds],
           failures' \in [PRs -> 0..MaxReviewFailures],
           reviewedSha' \in [PRs -> Nat \cup {-1}],
           verdict' \in [PRs -> Verdicts \cup {"none"}]
    PROVE  ProcessorTypeOK' /\ Approved'
BY ConstantsOfProcessor DEF ProcessorTypeOK, Over, Approved, Phases

LEMMA OverOtherKeeps ==
    ASSUME ProcessorTypeOK, recordOther PROVE ProcessorTypeOK' /\ Approved'
<1>1. Over /\ UNCHANGED << rounds, failures, reviewedSha, verdict >>
  BY DEF recordOther, memoryVars
<1> QED
  BY <1>1, OverKeeps DEF ProcessorTypeOK

LEMMA OverTerminalKeeps ==
    ASSUME ProcessorTypeOK, current \in PRs, recordTerminal PROVE ProcessorTypeOK' /\ Approved'
<1>1. /\ Over /\ failures' = failures
      /\ reviewedSha' = [reviewedSha EXCEPT ![current] = -1]
      /\ verdict' = [verdict EXCEPT ![current] = "none"]
      /\ rounds' = [rounds EXCEPT ![current] = 0]
  BY DEF recordTerminal, Forget
<1>2. /\ reviewedSha' \in [PRs -> Nat \cup {-1}] /\ verdict' \in [PRs -> Verdicts \cup {"none"}]
      /\ rounds' \in [PRs -> 0..MaxRounds]
  BY <1>1, ConstantsOfProcessor DEF ProcessorTypeOK
<1> QED
  BY <1>1, <1>2, OverKeeps DEF ProcessorTypeOK

(* A step within the cycle that keeps the memory.                           *)
LEMMA MemoryKept ==
    ASSUME ProcessorTypeOK, Approved, ConfigKept, current \in PRs, UNCHANGED memoryVars,
           NEW ph \in Phases \ {"idle", "next"}, GoTo(ph),
           attempt' \in 0..(MaxMergeAttempts - 1), fixes' \in 0..MaxBuildFixes, waitSha' \in Nat,
           ph = "fix" => fixes' < MaxBuildFixes,
           \/ ph \notin {"head", "ci", "fix", "merge", "rebase"}
           \/ phase \in {"head", "ci", "fix", "merge", "rebase"}
           \/ ~config.review
    PROVE  ProcessorTypeOK' /\ Approved'
BY ConstantsOfProcessor DEF ProcessorTypeOK, Approved, ConfigKept, memoryVars, GoTo

LEMMA AgainTyped ==
    ASSUME ProcessorTypeOK, NEW n \in 0..MaxBuildFixes, again(n)
    PROVE  /\ attempt' \in 0..(MaxMergeAttempts - 1) /\ fixes' \in 0..MaxBuildFixes
           /\ waitSha' \in Nat /\ GoTo("head")
BY ConstantsOfProcessor DEF ProcessorTypeOK, again

(* A review that could be parsed counts a round.                            *)
LEMMA RoundsTyped ==
    ASSUME ProcessorTypeOK, current \in PRs, reviewDiff
    PROVE  rounds' \in [PRs -> 0..MaxRounds]
BY ConstantsOfProcessor DEF ProcessorTypeOK, reviewDiff

(* What follows a review that is not an approval.                           *)
LEMMA NotApprovedKeeps ==
    ASSUME ProcessorTypeOK, current \in PRs, AddressOrEscalate \/ Over,
           rounds' \in [PRs -> 0..MaxRounds],
           failures' \in [PRs -> 0..MaxReviewFailures],
           reviewedSha' \in [PRs -> Nat \cup {-1}],
           verdict' \in [PRs -> Verdicts \cup {"none"}]
    PROVE  ProcessorTypeOK' /\ Approved'
<1>1. CASE Over
  BY <1>1, OverKeeps
<1>2. CASE GoTo("address") /\ KeepAttempts
  BY <1>2, ConstantsOfProcessor DEF ProcessorTypeOK, Approved, GoTo, KeepAttempts, Phases
<1> QED
  BY <1>1, <1>2 DEF AddressOrEscalate

LEMMA PollKeeps ==
    ASSUME GithubTypeOK, ProcessorTypeOK, Approved, fetchOpenForgePRs \/ NextPR
    PROVE  ProcessorTypeOK' /\ Approved'
<1>1. CASE fetchOpenForgePRs
  <2>1. listed' \in [PRs -> Nat] /\ todo' \subseteq PRs
    BY <1>1 DEF fetchOpenForgePRs, GithubTypeOK
  <2> QED
    BY <1>1, <2>1, ConstantsOfProcessor
       DEF fetchOpenForgePRs, ProcessorTypeOK, Approved, memoryVars, Phases
<1>2. CASE NextPR
  <2>1. listed' \in [PRs -> Nat]
    BY <1>2 DEF NextPR, ProcessorTypeOK
  <2>2. CASE todo = {}
    BY <1>2, <2>1, <2>2 DEF NextPR, ProcessorTypeOK, Approved, memoryVars, Phases
  <2>3. CASE todo # {}
    BY <1>2, <2>1, <2>3, ConstantsOfProcessor
       DEF NextPR, ProcessorTypeOK, Approved, memoryVars, Phases
  <2> QED
    BY <2>2, <2>3
<1> QED
  BY <1>1, <1>2

LEMMA BeforeReviewKeeps ==
    ASSUME GithubTypeOK, ProcessorTypeOK, Approved, ConfigKept, current \in PRs,
           Clone \/ PushResolved \/ runValidation \/ CheckLabel
    PROVE  ProcessorTypeOK' /\ Approved'
<1>0. /\ attempt \in 0..(MaxMergeAttempts - 1) /\ fixes \in 0..MaxBuildFixes /\ waitSha \in Nat
  BY DEF ProcessorTypeOK
<1>k. ASSUME KeepAttempts
      PROVE  attempt' \in 0..(MaxMergeAttempts - 1) /\ fixes' \in 0..MaxBuildFixes /\ waitSha' \in Nat
  BY <1>0, <1>k DEF KeepAttempts
<1>p. {"resolve", "validate", "label", "review", "head"} \subseteq Phases \ {"idle", "next"}
  BY DEF Phases
<1>1. CASE Clone
  <2>1. CASE recordTerminal
    BY <2>1, OverTerminalKeeps
  <2>2. ASSUME NEW ph \in {"resolve", "validate"}, GoTo(ph), KeepAttempts, UNCHANGED memoryVars
        PROVE  ProcessorTypeOK' /\ Approved'
    BY <2>2, <1>k, <1>p, MemoryKept
  <2> QED
    BY <1>1, <2>1, <2>2 DEF Clone
<1>2. CASE PushResolved
  <2>1. CASE recordTerminal
    BY <2>1, OverTerminalKeeps
  <2>2. CASE GoTo("validate") /\ KeepAttempts /\ UNCHANGED memoryVars
    BY <2>2, <1>k, <1>p, MemoryKept
  <2> QED
    BY <1>2, <2>1, <2>2 DEF PushResolved
<1>3. CASE runValidation
  <2>1. CASE recordTerminal
    BY <2>1, OverTerminalKeeps
  <2>2. CASE GoTo("label") /\ KeepAttempts /\ UNCHANGED memoryVars
    BY <2>2, <1>k, <1>p, MemoryKept
  <2> QED
    BY <1>3, <2>1, <2>2 DEF runValidation
<1>4. CASE CheckLabel
  <2>1. CASE recordOther
    BY <2>1, OverOtherKeeps
  <2>2. CASE ~config.review /\ GoTo("head") /\ KeepAttempts /\ UNCHANGED memoryVars
    BY <2>2, <1>k, <1>p, MemoryKept
  <2>3. CASE GoTo("review") /\ KeepAttempts /\ UNCHANGED memoryVars
    BY <2>3, <1>k, <1>p, MemoryKept
  <2> QED
    BY <1>4, <2>1, <2>2, <2>3 DEF CheckLabel
<1> QED
  BY <1>1, <1>2, <1>3, <1>4

LEMMA ReviewKeeps ==
    ASSUME GithubTypeOK, ProcessorTypeOK, Approved, ConfigKept, current \in PRs,
           ReviewAgain \/ (\E said \in Verdicts \cup {"other"} : ReviewSucceeds(said)) \/ ReviewFails
    PROVE  ProcessorTypeOK' /\ Approved'
<1>l. listed \in [PRs -> Nat] /\ listed[current] \in Nat \cup {-1}
  BY DEF ProcessorTypeOK
<1>1. CASE ReviewAgain
  <2>1. CASE recordOther
    BY <2>1, OverOtherKeeps
  <2>2. CASE /\ reviewDiff
             /\ Over \/ AddressOrEscalate
             /\ UNCHANGED << failures, reviewedSha, verdict >>
    <3>1. rounds' \in [PRs -> 0..MaxRounds]
      BY <2>2, RoundsTyped
    <3>2. /\ failures' \in [PRs -> 0..MaxReviewFailures]
          /\ reviewedSha' \in [PRs -> Nat \cup {-1}]
          /\ verdict' \in [PRs -> Verdicts \cup {"none"}]
      BY <2>2 DEF ProcessorTypeOK
    <3> QED
      BY <2>2, <3>1, <3>2, NotApprovedKeeps
  <2> QED
    BY <1>1, <2>1, <2>2 DEF ReviewAgain
<1>2. ASSUME NEW said \in Verdicts \cup {"other"}, ReviewSucceeds(said) PROVE ProcessorTypeOK' /\ Approved'
  <2> DEFINE v == buildReview(said)
  <2>0. v \in Verdicts
    BY DEF buildReview, Verdicts
  <2> HIDE DEF v
  <2>1. /\ reviewDiff
        /\ reviewedSha' = [reviewedSha EXCEPT ![current] = listed[current]]
        /\ verdict' = [verdict EXCEPT ![current] = v]
        /\ failures' = [failures EXCEPT ![current] = 0]
        /\ IF v = "approve" THEN GoTo("head") /\ KeepAttempts ELSE AddressOrEscalate
    BY <1>2 DEF ReviewSucceeds, v
  <2>2. /\ rounds' \in [PRs -> 0..MaxRounds]
        /\ reviewedSha' \in [PRs -> Nat \cup {-1}] /\ reviewedSha'[current] = listed[current]
    BY <2>1, <1>l, RoundsTyped DEF ProcessorTypeOK
  <2>3. verdict' \in [PRs -> Verdicts \cup {"none"}] /\ verdict'[current] = v
    BY <2>0, <2>1 DEF ProcessorTypeOK
  <2>4. failures' \in [PRs -> 0..MaxReviewFailures]
    BY <2>1, ConstantsOfProcessor DEF ProcessorTypeOK
  <2>5. CASE v = "approve"
    <3>1. GoTo("head") /\ KeepAttempts
      BY <2>1, <2>5
    <3>2. listed'[current'] = listed[current] /\ current' = current
      BY <3>1 DEF GoTo
    <3>3. Approved'
      BY <2>2, <2>3, <2>5, <3>2 DEF Approved
    <3>4. ProcessorTypeOK'
      BY <2>2, <2>3, <2>4, <3>1, ConstantsOfProcessor DEF ProcessorTypeOK, GoTo, KeepAttempts, Phases
    <3> QED
      BY <3>3, <3>4
  <2>6. CASE v # "approve"
    BY <2>1, <2>2, <2>3, <2>4, <2>6, NotApprovedKeeps
  <2> QED
    BY <2>5, <2>6
<1>3. CASE ReviewFails
  <2>1. /\ Over /\ UNCHANGED << rounds, verdict >>
        /\ reviewedSha' = [reviewedSha EXCEPT ![current] = listed[current]]
        /\ failures' = [failures EXCEPT ![current] =
                          IF failures[current] = MaxReviewFailures THEN failures[current]
                          ELSE failures[current] + 1]
    BY <1>3 DEF ReviewFails
  <2>2. reviewedSha' \in [PRs -> Nat \cup {-1}]
    BY <2>1, <1>l DEF ProcessorTypeOK
  <2>3. failures' \in [PRs -> 0..MaxReviewFailures]
    BY <2>1, ConstantsOfProcessor DEF ProcessorTypeOK
  <2> QED
    BY <2>1, <2>2, <2>3, OverKeeps DEF ProcessorTypeOK
<1> QED
  BY <1>1, <1>2, <1>3

LEMMA AfterReviewKeeps ==
    ASSUME GithubTypeOK, ProcessorTypeOK, Approved, ConfigKept, current \in PRs,
           \/ addressReviewComments \/ FetchHead \/ waitForCI \/ fixCIFailure
           \/ Merge \/ MergeRefused \/ Rebase
    PROVE  ProcessorTypeOK' /\ Approved'
<1>0. /\ attempt \in 0..(MaxMergeAttempts - 1) /\ fixes \in 0..MaxBuildFixes /\ waitSha \in Nat
  BY DEF ProcessorTypeOK
<1>k. ASSUME KeepAttempts
      PROVE  attempt' \in 0..(MaxMergeAttempts - 1) /\ fixes' \in 0..MaxBuildFixes /\ waitSha' \in Nat
  BY <1>0, <1>k DEF KeepAttempts
<1>p. {"head", "ci", "fix", "merge", "rebase"} \subseteq Phases \ {"idle", "next"}
  BY DEF Phases
<1>r. ASSUME recordTerminal PROVE ProcessorTypeOK' /\ Approved'
  BY <1>r, OverTerminalKeeps
<1>a. ASSUME NEW n \in 0..MaxBuildFixes, again(n), UNCHANGED memoryVars,
             phase \in {"fix", "merge", "rebase"}
      PROVE  ProcessorTypeOK' /\ Approved'
  BY <1>a, <1>p, AgainTyped, MemoryKept
<1>1. CASE addressReviewComments
  BY <1>1, OverOtherKeeps DEF addressReviewComments
<1>2. CASE FetchHead
  <2>1. waitSha' \in Nat /\ phase = "head" /\ GoTo("ci") /\ UNCHANGED << attempt, fixes, memoryVars >>
    BY <1>2 DEF FetchHead, GithubTypeOK, ProcessorTypeOK
  <2> QED
    BY <2>1, <1>0, <1>p, MemoryKept
<1>3. CASE waitForCI
  <2>1. CASE GoTo("merge") /\ KeepAttempts /\ UNCHANGED memoryVars /\ phase = "ci"
    BY <2>1, <1>k, <1>p, MemoryKept
  <2>2. CASE /\ GoTo("fix") /\ UNCHANGED << attempt, fixes, waitSha, memoryVars >> /\ phase = "ci"
             /\ fixes < MaxBuildFixes
    BY <2>2, <1>0, <1>p, MemoryKept
  <2> QED
    BY <1>3, <1>r, <2>1, <2>2 DEF waitForCI
<1>4. CASE fixCIFailure
  <2>1. CASE again(fixes + 1) /\ UNCHANGED memoryVars
    <3>1. /\ attempt' \in 0..(MaxMergeAttempts - 1) /\ GoTo("head") /\ waitSha' \in Nat
          /\ fixes' = fixes + 1 /\ phase = "fix"
      BY <1>4, <2>1, ConstantsOfProcessor DEF again, ProcessorTypeOK, fixCIFailure
    <3>2. fixes + 1 \in 0..MaxBuildFixes
      BY <1>0, <3>1, ConstantsOfProcessor DEF ProcessorTypeOK
    <3> QED
      BY <3>1, <3>2, <2>1, <1>p, MemoryKept
  <2> QED
    BY <1>4, <1>r, <2>1 DEF fixCIFailure, Exhausted
<1>5. CASE Merge
  BY <1>5, <1>r DEF Merge
<1>6. CASE MergeRefused
  <2>1. CASE GoTo("rebase") /\ KeepAttempts /\ UNCHANGED memoryVars /\ phase = "merge"
    BY <2>1, <1>k, <1>p, MemoryKept
  <2>2. CASE again(fixes) /\ UNCHANGED memoryVars /\ phase = "merge"
    BY <2>2, <1>a, <1>0
  <2> QED
    BY <1>6, <1>r, <2>1, <2>2 DEF MergeRefused
<1>7. CASE Rebase
  <2>1. CASE again(fixes) /\ UNCHANGED memoryVars /\ phase = "rebase"
    BY <2>1, <1>a, <1>0
  <2> QED
    BY <1>7, <1>r, <2>1 DEF Rebase
<1> QED
  BY <1>1, <1>2, <1>3, <1>4, <1>5, <1>6, <1>7

-----------------------------------------------------------------------------
(* The inductive invariant *)

MergeInv == TypeOK /\ QueueInv /\ Approved

LEMMA QueueInvParts ==
    QueueInv <=> QueueOnly /\ \A p \in PRs : prState[p] = "absent" => mq[p] = "none"
BY DEF QueueInv, QueueOnly

(* What does not touch the queue and creates no pull request keeps it.      *)
LEMMA QueueUntouched ==
    ASSUME QueueInv, QueueTypeOK, StaysCreated, UNCHANGED queueVars
    PROVE  QueueInv' /\ QueueTypeOK' /\ UNCHANGED << queue, Served >>
BY DEF QueueInv, QueueTypeOK, StaysCreated, queueVars, Served, InProgress, Heads

LEMMA ProcessorUntouched ==
    ASSUME ProcessorTypeOK, Approved, ConfigKept, UNCHANGED processorVars
    PROVE  ProcessorTypeOK' /\ Approved'
BY DEF ProcessorTypeOK, Approved, ConfigKept, processorVars, stepVars, memoryVars

LEMMA FirstHead == \A p \in PRs : 0 \in Heads(p)
BY PullRequestsAssumption DEF Heads

LEMMA EmptyQueueTyped == << >> \in Seq(PRs) /\ [p \in PRs |-> "none"] \in [PRs -> MqPhases]
<1>1. "none" \in MqPhases
  BY DEF MqPhases, Waiting
<1>2. << >> \in Seq(PRs)
  OBVIOUS
<1> QED
  BY <1>1, <1>2

LEMMA InitMergeInv == Init => MergeInv /\ Serial!Init
<1> SUFFICES ASSUME Init PROVE MergeInv /\ Serial!Init
  OBVIOUS
<1> USE DEF Init
<1>1. GithubTypeOK
  BY PullRequestsAssumption DEF GithubInit, GithubTypeOK, Heads
<1>2. QueueTypeOK
  BY FirstHead, EmptyQueueTyped DEF QueueInit, QueueTypeOK
<1>3. ProcessorTypeOK /\ Approved
  BY ConstantsOfProcessor DEF ProcessorInit, ProcessorTypeOK, Approved, Remembered, Phases
<1>4. \A p \in PRs : mq[p] = "none" /\ ~InProgress(p)
  BY DEF QueueInit, InProgress, Waiting
<1>5. QueueInv
  BY <1>4 DEF QueueInv, QueueInit
<1>6. Serial!Init
  BY <1>4 DEF Serial!Init, QueueInit
<1> QED
  BY <1>1, <1>2, <1>3, <1>5, <1>6, RestartsAssumption DEF MergeInv, TypeOK

(* One step: the invariant is kept, and the queue takes a step of SerialQueue. *)
LEMMA NextMergeInv ==
    ASSUME MergeInv, [Next]_vars
    PROVE  MergeInv' /\ [Serial!Next]_<<queue, Served>>
<1>0. GithubTypeOK /\ QueueTypeOK /\ ProcessorTypeOK /\ QueueInv /\ QueueOnly /\ Approved
      /\ restarts \in 0..MaxRestarts
  BY QueueInvParts DEF MergeInv, TypeOK
<1>1. CASE Processor
  <2>1. GithubTypeOK' /\ StaysCreated /\ ConfigKept
    BY <1>0, <1>1, ProcessorKeepsGithub DEF Processor
  <2>2. phase \notin {"idle", "next"} => current \in PRs
    BY <1>0 DEF ProcessorTypeOK
  <2>3. ProcessorTypeOK' /\ Approved'
    <3>1. CASE fetchOpenForgePRs \/ NextPR
      BY <3>1, <1>0, PollKeeps
    <3>2. CASE Clone \/ PushResolved \/ runValidation \/ CheckLabel
      <4>1. current \in PRs
        BY <2>2, <3>2 DEF Clone, PushResolved, runValidation, CheckLabel
      <4> QED
        BY <3>2, <4>1, <2>1, <1>0, BeforeReviewKeeps
    <3>3. CASE ReviewAgain \/ (\E said \in Verdicts \cup {"other"} : ReviewSucceeds(said)) \/ ReviewFails
      <4>1. current \in PRs
        BY <2>2, <3>3 DEF ReviewAgain, ReviewSucceeds, ReviewFails
      <4> QED
        BY <3>3, <4>1, <2>1, <1>0, ReviewKeeps
    <3>4. CASE \/ addressReviewComments \/ FetchHead \/ waitForCI \/ fixCIFailure
               \/ Merge \/ MergeRefused \/ Rebase
      <4>1. current \in PRs
        BY <2>2, <3>4 DEF addressReviewComments, FetchHead, waitForCI, fixCIFailure,
                          Merge, MergeRefused, Rebase
      <4> QED
        BY <3>4, <4>1, <2>1, <1>0, AfterReviewKeeps
    <3> QED
      BY <1>1, <3>1, <3>2, <3>3, <3>4 DEF Processor, ProcessorStep
  <2>4. QueueInv' /\ QueueTypeOK' /\ UNCHANGED << queue, Served >>
    BY <1>0, <1>1, <2>1, QueueUntouched DEF Processor
  <2> QED
    BY <1>0, <1>1, <2>1, <2>3, <2>4 DEF MergeInv, TypeOK, Processor
<1>2. ASSUME NEW p \in PRs, Merging(p) PROVE MergeInv' /\ [Serial!Next]_<<queue, Served>>
  <2>1. /\ InProgress(p)
        /\ settle(p) \/ \E ph \in MqPhases \ Waiting : GoOn(p, ph)
        /\ mqSha' = mqSha \/ mqSha' = [mqSha EXCEPT ![p] = head[p]]
        /\ GithubTypeOK' /\ StaysCreated /\ ConfigKept
    BY <1>0, <1>2, QueueStepShape DEF Merging
  <2>2. /\ QueueOnly'
        /\ mq' \in [PRs -> MqPhases] /\ queue' \in Seq(PRs) /\ processing' \in BOOLEAN
        /\ \A q \in PRs : mq[q] = "none" <=> mq'[q] = "none"
        /\ Serial!Leave \/ UNCHANGED << queue, Served >>
    <3>1. CASE settle(p)
      BY <1>0, <2>1, <3>1, SettleKeepsQueue
    <3>2. ASSUME NEW ph \in MqPhases \ Waiting, GoOn(p, ph)
          PROVE  /\ QueueOnly'
                 /\ mq' \in [PRs -> MqPhases] /\ queue' \in Seq(PRs) /\ processing' \in BOOLEAN
                 /\ \A q \in PRs : mq[q] = "none" <=> mq'[q] = "none"
                 /\ UNCHANGED << queue, Served >>
      BY <1>0, <2>1, <3>2, GoOnKeepsQueue
    <3> QED
      BY <2>1, <3>1, <3>2
  <2>3. QueueTypeOK'
    <3>1. mqSha' \in [PRs -> Nat] /\ \A q \in PRs : mqSha'[q] \in Heads(q)
      <4>1. head[p] \in Nat /\ head[p] \in Heads(p)
        BY <1>0 DEF GithubTypeOK
      <4>2. mqSha \in [PRs -> Nat] /\ \A q \in PRs : mqSha[q] \in Heads(q)
        BY <1>0 DEF QueueTypeOK
      <4> QED
        BY <2>1, <4>1, <4>2
    <3> QED
      BY <2>2, <3>1 DEF QueueTypeOK, Heads
  <2>4. \A q \in PRs : prState'[q] = "absent" => mq'[q] = "none"
    BY <1>0, <2>1, <2>2 DEF QueueInv, StaysCreated
  <2>5. QueueInv'
    BY <2>2, <2>4 DEF QueueInv, QueueOnly
  <2>6. ProcessorTypeOK' /\ Approved' /\ restarts' = restarts
    BY <1>0, <1>2, <2>1, ProcessorUntouched DEF Merging
  <2> QED
    BY <1>0, <2>1, <2>2, <2>3, <2>5, <2>6 DEF MergeInv, TypeOK, Serial!Next
<1>3. ASSUME NEW p \in PRs, CreatePullRequest(p), UNCHANGED << processorVars, restarts >>
      PROVE  MergeInv' /\ [Serial!Next]_<<queue, Served>>
  <2>1. /\ prState[p] = "absent" /\ prState' = [prState EXCEPT ![p] = "open"]
        /\ UNCHANGED << config, head, checks, base, labelled, mergedBy, mqSha >>
        /\ IF config.queue THEN enqueue(p) ELSE UNCHANGED << queue, processing, mq >>
    BY <1>3 DEF CreatePullRequest
  <2>2. mq[p] = "none"
    BY <1>0, <2>1 DEF QueueInv
  <2>3. GithubTypeOK'
    BY <1>0, <2>1 DEF GithubTypeOK, Heads
  <2>4. \A q \in PRs : prState'[q] = "absent" => q # p /\ prState[q] = "absent"
    BY <1>0, <2>1 DEF GithubTypeOK
  <2>5. /\ QueueOnly'
        /\ mq' \in [PRs -> MqPhases] /\ queue' \in Seq(PRs) /\ processing' \in BOOLEAN
        /\ \A q \in PRs \ {p} : mq'[q] = mq[q]
        /\ Serial!Arrive(p) \/ UNCHANGED << queue, Served >>
    <3>1. CASE config.queue
      BY <1>0, <2>1, <2>2, <3>1, EnqueueKeepsQueue
    <3>2. CASE ~config.queue
      BY <1>0, <2>1, <3>2 DEF QueueOnly, QueueTypeOK, Served, InProgress
    <3> QED
      BY <3>1, <3>2
  <2>6. QueueTypeOK'
    BY <1>0, <2>1, <2>5 DEF QueueTypeOK, Heads
  <2>7. QueueInv'
    BY <1>0, <2>4, <2>5 DEF QueueInv, QueueOnly
  <2>8. ProcessorTypeOK' /\ Approved'
    BY <1>0, <1>3, <2>1, ProcessorUntouched DEF ConfigKept
  <2> QED
    BY <1>0, <1>3, <2>3, <2>5, <2>6, <2>7, <2>8 DEF MergeInv, TypeOK, Serial!Next
<1>4. CASE Outside /\ UNCHANGED << queueVars, processorVars, restarts >>
  <2>1. GithubTypeOK'
    BY <1>0, <1>4, OutsideKeepsType
  <2>2. prState' = prState /\ config' = config
    BY <1>4 DEF Outside, AuthorPush, MainMoves, ChecksEnd
  <2>3. StaysCreated /\ ConfigKept
    BY <2>2 DEF StaysCreated, ConfigKept
  <2>4. QueueInv' /\ QueueTypeOK' /\ UNCHANGED << queue, Served >>
    BY <1>0, <1>4, <2>3, QueueUntouched
  <2>5. ProcessorTypeOK' /\ Approved'
    BY <1>0, <1>4, <2>3, ProcessorUntouched
  <2> QED
    BY <1>0, <1>4, <2>1, <2>4, <2>5 DEF MergeInv, TypeOK
<1>5. CASE Restart
  <2>1. GithubTypeOK' /\ StaysCreated /\ ConfigKept
    BY <1>0, <1>5, NothingKeeps DEF Restart
  <2>2. /\ queue' = << >> /\ processing' = FALSE /\ mq' = [p \in PRs |-> "none"]
        /\ mqSha' = [p \in PRs |-> 0]
    BY <1>5 DEF Restart
  <2>3. QueueTypeOK'
    <3>1. /\ mq' \in [PRs -> MqPhases] /\ queue' \in Seq(PRs) /\ processing' \in BOOLEAN
      BY <2>2, EmptyQueueTyped
    <3>2. mqSha' \in [PRs -> Nat] /\ \A p \in PRs : mqSha'[p] \in Heads(p)
      BY <2>2, FirstHead
    <3> QED
      BY <3>1, <3>2 DEF QueueTypeOK, Heads
  <2>4. \A p \in PRs : mq'[p] = "none" /\ ~(InProgress(p))'
    BY <2>2 DEF InProgress, Waiting
  <2>5. QueueInv'
    BY <2>2, <2>4 DEF QueueInv
  <2>6. Served' = {}
    BY <2>4 DEF Served
  <2>7. ProcessorTypeOK' /\ Approved'
    BY <1>5, ConstantsOfProcessor
       DEF Restart, ProcessorRestart, ProcessorTypeOK, Approved, Remembered, Phases
  <2>8. restarts' \in 0..MaxRestarts
    BY <1>0, <1>5, RestartsAssumption DEF Restart
  <2>9. Serial!Crash
    BY <2>2, <2>6 DEF Serial!Crash, Served
  <2> QED
    BY <2>1, <2>3, <2>5, <2>7, <2>8, <2>9 DEF MergeInv, TypeOK, Serial!Next
<1>6. CASE UNCHANGED vars
  <2>1. /\ UNCHANGED githubVars /\ UNCHANGED queueVars /\ UNCHANGED processorVars
        /\ restarts' = restarts
    BY <1>6 DEF vars
  <2>2. GithubTypeOK' /\ StaysCreated /\ ConfigKept
    BY <1>0, <2>1, NothingKeeps
  <2>3. QueueInv' /\ QueueTypeOK' /\ UNCHANGED << queue, Served >>
    BY <1>0, <2>1, <2>2, QueueUntouched
  <2>4. ProcessorTypeOK' /\ Approved'
    BY <1>0, <2>1, <2>2, ProcessorUntouched
  <2> QED
    BY <1>0, <2>1, <2>2, <2>3, <2>4 DEF MergeInv, TypeOK
<1> QED
  BY <1>1, <1>2, <1>3, <1>4, <1>5, <1>6 DEF Next

(* MergeInv holds in every reachable state of the daemon.                   *)
THEOREM MergeInvariant == Spec => []MergeInv
<1>1. Init => MergeInv
  BY InitMergeInv
<1>2. MergeInv /\ [Next]_vars => MergeInv'
  BY NextMergeInv
<1> QED
  BY <1>1, <1>2, PTL DEF Spec

(* Every variable keeps its type, in particular the attempts to merge and    *)
(* the fixes of a failed build stay below their limits.                     *)
THEOREM MergeTypeCorrect == Spec => []TypeOK
<1>1. MergeInv => TypeOK
  BY DEF MergeInv
<1> QED
  BY <1>1, MergeInvariant, PTL

(* No wakeup of the merge queue is lost: merge-queue.ts, processNext.       *)
THEOREM QueueNeverStalls == Spec => []WaitersAreServed
<1>1. ASSUME MergeInv PROVE WaitersAreServed
  <2>1. QueueInv /\ queue \in Seq(PRs)
    BY <1>1 DEF MergeInv, TypeOK, QueueTypeOK
  <2>2. queue # << >> => \E p \in PRs : InProgress(p)
    BY <2>1 DEF QueueInv
  <2>3. \A k \in 1..Len(queue) : queue[k] \in PRs
    BY <2>1
  <2>4. \A x : x \in {queue[k] : k \in 1..Len(queue)} <=> x \in {p \in PRs : mq[p] = "queued"}
    BY <2>1, <2>3 DEF QueueInv
  <2> QED
    BY <2>2, <2>4 DEF WaitersAreServed
<1> QED
  BY <1>1, MergeInvariant, PTL

(* The merge queue of the tracker is a serial queue, whatever its merges do  *)
(* and throw, with the other merger beside it and restarts between.         *)
THEOREM QueueIsSerial == Spec => ImplementsSerialQueue
<1>1. Init => Serial!Init
  BY InitMergeInv
<1>2. MergeInv /\ [Next]_vars => [Serial!Next]_<<queue, Served>>
  BY NextMergeInv
<1>3. MergeInv /\ [Next]_vars => [Serial!Next]_(Serial!lvars)
  BY <1>2 DEF Served, Serial!lvars
<1> QED
  BY <1>1, <1>3, MergeInvariant, PTL DEF Spec, ImplementsSerialQueue, Serial!Spec

(* The review daemon merges nothing its last review did not approve.        *)
THEOREM MergedOnlyIfApproved == Spec => ApprovalBeforeMerge
<1> DEFINE A == \A p \in PRs :
                  mergedBy[p] # "processor" /\ mergedBy'[p] = "processor" /\ config.review
                    => verdict[p] = "approve" /\ reviewedSha[p] = listed[p]
<1>1. ASSUME MergeInv, [Next]_vars PROVE [A]_vars
  <2>1. SUFFICES ASSUME NEW p \in PRs, mergedBy[p] # "processor", mergedBy'[p] = "processor",
                        config.review
                 PROVE  verdict[p] = "approve" /\ reviewedSha[p] = listed[p]
    BY DEF vars
  <2>2. GithubTypeOK /\ Approved
    BY <1>1 DEF MergeInv, TypeOK
  <2>3. Merge /\ p = current
    <3>1. Next
      BY <1>1, <2>1 DEF vars, githubVars
    <3>2. CASE Processor
      <4>1. ProcessorStep
        BY <3>2 DEF Processor
      <4>2. CASE Merge
        BY <4>2, <2>1, <2>2 DEF Merge, mergeHead, GithubTypeOK
      <4>3. CASE ~Merge
        <5>1. mergedBy' = mergedBy
          BY <4>1, <4>3 DEF ProcessorStep, githubVars, fetchOpenForgePRs, NextPR, Clone,
             PushResolved, runValidation, CheckLabel, ReviewAgain, ReviewSucceeds, ReviewFails,
             addressReviewComments, FetchHead, waitForCI, fixCIFailure, MergeRefused, Rebase
        <5> QED
          BY <2>1, <5>1
      <4> QED
        BY <4>2, <4>3
    <3>3. ASSUME NEW q \in PRs, QueueStep(q) PROVE FALSE
      <4>1. mergedBy' = mergedBy \/ mergeHead(q, "queue")
        BY <3>3 DEF QueueStep, githubVars, LookAtPR, ResolveFirst, PushResolution, MergeAfterResolve,
           PutMerge, WaitForChecks, MergeGreen, ResolveAgain, MergeAgain, Refetch, Rewait, FinalMerge
      <4> QED
        BY <2>1, <2>2, <4>1 DEF mergeHead, GithubTypeOK
    <3>4. (\E q \in PRs : CreatePullRequest(q)) \/ Outside \/ Restart => mergedBy' = mergedBy
      BY DEF CreatePullRequest, Outside, AuthorPush, MainMoves, ChecksEnd, Restart, githubVars
    <3> QED
      BY <2>1, <3>1, <3>2, <3>3, <3>4 DEF Next, Merging
  <2> QED
    BY <2>1, <2>2, <2>3 DEF Merge, Approved
<1>2. Init /\ [][Next]_vars => [][A]_vars
  BY <1>1, MergeInvariant, PTL DEF Spec
<1> QED
  BY <1>2 DEF Spec, ApprovalBeforeMerge
=============================================================================
