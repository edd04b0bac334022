--------------------------- MODULE Decomposition ---------------------------
(***************************************************************************)
(* A request that becomes several issues, and the order in which they run:  *)
(* decomposition by a model into sub-issues and blocking relations          *)
(* (planner/decompose-to-issues.ts) and decomposition of a list by          *)
(* POST /api/v1/dispatch (daemon/routes.ts). A tick starts the issue for    *)
(* which most others wait; IssueGraph is how a poll finds out.              *)
(*                                                                          *)
(* A child is its index, counted from 1. Ticks go on while issues are being *)
(* created. Orchestrator models failures and retries of agents; here every  *)
(* agent closes its issue. The analysis of a poll is the third flow: it may *)
(* be given any graph, and a tick takes its result in one step.             *)
(***************************************************************************)
EXTENDS IssueGraph

CONSTANTS
    MaxSubIssues,  \* planner.max_sub_issues: the answer holds as many children
    Elsewhere      \* an index out of range

ASSUME DecompositionAssumption ==
    MaxSubIssues \in Nat \ {0} /\ Elsewhere \notin 1 .. MaxSubIssues

Kept == 1 .. MaxSubIssues

(* A request by its numbered lines, one of which may be the title, and its  *)
(* bullets.                                                                 *)
Requests == [titled : 0 .. 1, numbered : 0 .. 2, bullets : {0, 3}]

VARIABLES
    flow,       \* "planner", "endpoint", or "poll": an analysis of IssueGraph
    stage,      \* "asked", "children", "relations", "ended", "failed"
    blockedBy,  \* blockedBy[i]: children that block child i, after parsing
    made,       \* children created so far, in order
    relations,  \* blocking relations created so far: << blocker, blocked >>
    started,    \* children an agent was started for
    finished,   \* children whose issue is closed
    early       \* children started before the relations were complete

planVars == << stage, blockedBy, made, relations, started, finished, early >>
decVars == << flow, planVars, graphVars >>

DecInit ==
    /\ \/ flow \in {"planner", "endpoint"} /\ analysis = "cycles" /\ AnalysisInit(<< >>)
       \/ flow = "poll" /\ GraphInit
    /\ stage = "asked"
    /\ blockedBy = [i \in Kept |-> {}]
    /\ made = 0 /\ relations = {} /\ started = {} /\ finished = {} /\ early = {}

-----------------------------------------------------------------------------

(* Indices out of range and the child itself are dropped; cycles are kept.  *)
ParsedBlockers(i, named) == (named \cap Kept) \ {i}

(* The model answers; an answer that cannot be parsed ends the flow.        *)
parseDecompositionResponse ==
    /\ flow = "planner" /\ stage = "asked"
    /\ \/ /\ \E named \in [Kept -> SUBSET (Kept \cup {Elsewhere})] :
                 blockedBy' = [i \in Kept |-> ParsedBlockers(i, named[i])]
          /\ stage' = "children"
       \/ stage' = "failed" /\ UNCHANGED blockedBy
    /\ UNCHANGED << flow, made, relations, started, finished, early >>

createSubIssue ==
    /\ stage = "children"
    /\ \/ /\ made' = made + 1
          /\ stage' = IF made + 1 = MaxSubIssues THEN "relations" ELSE "children"
       \/ stage' = "failed" /\ UNCHANGED made
    /\ UNCHANGED << flow, blockedBy, relations, started, finished, early >>

Wanted == UNION {blockedBy[i] \X {i} : i \in Kept}

RelationOf(blocker, blocked) == << blocker, blocked >>

(* One relation after the other; a failure leaves the ones that were made.  *)
createBlockingRelation ==
    /\ stage = "relations"
    /\ \/ \E w \in Wanted :
             /\ RelationOf(w[1], w[2]) \notin relations
             /\ relations' = relations \cup {RelationOf(w[1], w[2])}
             /\ UNCHANGED stage
       \/ Cardinality(relations) = Cardinality(Wanted) /\ stage' = "ended" /\ UNCHANGED relations
       \/ relations # Wanted /\ stage' = "failed" /\ UNCHANGED relations
    /\ UNCHANGED << flow, blockedBy, made, started, finished, early >>

(* What blocks what among the issues of a poll.                             *)
GraphOf(issues) == [i \in issues |-> {b \in issues : << b, i >> \in relations}]

(* How many of the issues of a poll wait for i: as IssueGraph counts them.  *)
Score(edges, i) == Cardinality(WaitFor(edges, i) \ {i})

AreClosed(blockers) == blockers \subseteq finished

(* A tick with one slot: of the open issues whose blockers are all closed,  *)
(* one on which most others wait.                                           *)
DispatchBest(i) ==
    LET open == (1 .. made) \ finished
        blockers == GraphOf(1 .. made)
        eligible == {j \in open \ started : AreClosed(blockers[j])}
        score == [j \in open |-> Score(GraphOf(open), j)]
    IN  /\ flow = "planner" /\ started = finished
        /\ i \in eligible /\ \A j \in eligible : score[j] <= score[i]
        /\ started' = started \cup {i}
        /\ early' = IF stage = "ended" THEN early ELSE early \cup {i}
        /\ UNCHANGED << flow, stage, blockedBy, made, relations, finished >>

AgentCloses(i) ==
    /\ i \in started \ finished
    /\ finished' = finished \cup {i}
    /\ UNCHANGED << flow, stage, blockedBy, made, relations, started, early >>

(* Two numbered lines of title and description, or three bullets.           *)
shouldDecompose(request) == request.titled + request.numbered >= 2 \/ request.bullets >= 3

(* decomposeDispatch: a child for each numbered line of the description.    *)
ChildrenOf(request) == IF shouldDecompose(request) THEN 1 .. request.numbered ELSE {1}

(* The children are chained by blocked_by, and all dispatched at once.      *)
DispatchRequest(request) ==
    /\ flow = "endpoint" /\ stage = "asked"
    /\ started' = ChildrenOf(request)
    /\ made' = Cardinality(ChildrenOf(request))
    /\ relations' = {<< i, i + 1 >> : i \in {j \in ChildrenOf(request) : j + 1 \in ChildrenOf(request)}}
    /\ stage' = IF request.numbered = 0 /\ shouldDecompose(request) THEN "failed" ELSE "ended"
    /\ UNCHANGED << flow, blockedBy, finished, early >>

PlanNext ==
    \/ parseDecompositionResponse \/ createSubIssue \/ createBlockingRelation
    \/ \E i \in Kept : DispatchBest(i) \/ AgentCloses(i)
    \/ \E request \in Requests : DispatchRequest(request)

Analyse == flow = "poll" /\ GraphNext /\ UNCHANGED << flow, planVars >>

DecNext == (PlanNext /\ UNCHANGED graphVars) \/ Analyse

DecSpec == DecInit /\ [][DecNext]_decVars

(* Ticks go on, agents end, and an analysis runs.                           *)
DecGoesOn ==
    \/ (\E i \in Kept : DispatchBest(i) \/ AgentCloses(i)) /\ UNCHANGED graphVars
    \/ Analyse

-----------------------------------------------------------------------------

(* A child starts after the children that block it, unless a tick found it  *)
(* before its relations were created.                                       *)
ChildrenWaitTheirTurn ==
    flow = "planner" => \A i \in started \ early : blockedBy[i] \subseteq finished

(* A request that is accepted starts an agent, unless it is a list of bullets *)
(* only: that one is "decomposed" into no issues.                           *)
AcceptedRequestsAreStarted == flow = "endpoint" /\ stage = "ended" => started # {}

DecompositionIsOrderly == GraphAnalysisIsRight /\ ChildrenWaitTheirTurn /\ AcceptedRequestsAreStarted

(* When the flow ends, all children are closed in the end, unless the model *)
(* made some of them wait for each other: nothing breaks such a cycle. An   *)
(* analysis comes to its end.                                               *)
WaitForEachOther == \E i \in Kept : i \in WaitFor(blockedBy, i)

AllAreClosed ==
    /\ flow = "planner" /\ stage = "ended" /\ ~ WaitForEachOther => Kept \subseteq finished
    /\ flow = "poll" => IsAnalysed
=============================================================================
