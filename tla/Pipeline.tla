------------------------------ MODULE Pipeline ------------------------------
(***************************************************************************)
(* One run of the pipeline executor (pipeline/executor.ts): the ready queue *)
(* and its drain loop, conditions with else nodes and cascading skips,      *)
(* nodes that loop, and the selection of a rerun from a node.               *)
(*                                                                         *)
(* execute() is single-threaded: a pass over the ready queue is not         *)
(* interrupted, the ends of nodes are handled between passes. What a node   *)
(* does in its container is external: only how it ends is chosen here.      *)
(***************************************************************************)
EXTENDS Naturals, FiniteSets

CONSTANTS
    Nodes,
    NoNode,       \* null
    NoCondition,  \* null
    Pipelines,    \* the pipeline definitions that may be run
    MaxParallel,
    GlobalMaxIterations  \* GLOBAL_MAX_ITERATIONS

(* A condition compares the status of one node with a wanted status; the    *)
(* shorthands if_passed and if_failed expand to exactly that.               *)
Conditions == [target : Nodes, wanted : {"completed", "failed"}]

Definitions ==
    [depends_on : [Nodes -> SUBSET Nodes],
     condition  : [Nodes -> Conditions \cup {NoCondition}],
     else_node  : [Nodes -> Nodes \cup {NoNode}],
     max_iterations : [Nodes -> Nat]]  \* 0: the node does not loop

ASSUME PipelineAssumption ==
    /\ IsFiniteSet(Nodes)
    /\ NoNode \notin Nodes
    /\ NoCondition \notin Conditions
    /\ Pipelines \subseteq Definitions
    /\ MaxParallel \in Nat \ {0}
    /\ GlobalMaxIterations \in Nat \ {0}

VARIABLES
    pipeline,      \* the definition, never changed
    executeNodes,  \* RerunSelection: the nodes this run executes,
    hydratedNodes, \* and those taken from the checkpoints of an earlier run
    resumes,       \* whether checkpointSourceRunId is set
    status,        \* nodeStates: the status of each node
    iteration,     \* loopState.currentIteration of each node
    readyQueue,
    batch,         \* what the current pass of the drain loop has left to look at
    inFlight,
    thrown,        \* in flight, but their processNode has thrown
    pc,            \* where execute() stands
    outcome        \* pipeline_state.status

definitionVars == << pipeline, executeNodes, hydratedNodes, resumes >>
vars == << pipeline, executeNodes, hydratedNodes, resumes, status, iteration,
           readyQueue, batch, inFlight, thrown, pc, outcome >>

Terminal == {"completed", "failed", "skipped"}
Busy == {"running", "loop-iterating"}

-----------------------------------------------------------------------------
(* The graph, and what a rerun selects.                                     *)

buildDependentsMap(p) == [n \in Nodes |-> {m \in Nodes : n \in p.depends_on[m]}]

(* What can be reached from n: the least set with the neighbours of n and   *)
(* of all its members.                                                      *)
Reachable(edges, n) ==
    LET closed == {S \in SUBSET Nodes : edges[n] \subseteq S /\ \A m \in S : edges[m] \subseteq S}
    IN  {m \in Nodes : \A S \in closed : m \in S}

collectAncestors(p, n) == Reachable(p.depends_on, n)
collectDescendants(p, n) == Reachable(buildDependentsMap(p), n)

(* validateDAG: no cycle, else_node edges included.                         *)
validateDAG(p) ==
    \A S \in SUBSET Nodes :
        S # {} => \E n \in S : (p.depends_on[n] \cup {p.else_node[n]}) \cap S = {}

SelectAll == executeNodes = Nodes /\ hydratedNodes = {} /\ resumes = FALSE

SelectFrom(fromNode, hydrate) ==
    LET frontier == {fromNode} \cup collectDescendants(pipeline, fromNode)
        before == IF hydrate THEN collectAncestors(pipeline, fromNode) ELSE {}
    IN  /\ executeNodes = (frontier \cup UNION {collectAncestors(pipeline, n) : n \in frontier})
                             \ before
        /\ hydratedNodes = before
        /\ resumes = hydrate

-----------------------------------------------------------------------------
(* Readiness, dependencies and conditions.                                  *)

deps(n) == pipeline.depends_on[n]
IsTerminal(n) == status[n] \in Terminal
DepsTerminal(n) == \A d \in deps(n) : IsTerminal(d)
elseOf(n) == pipeline.else_node[n]

isNodeReady(n) ==
    /\ n \in executeNodes
    /\ ~IsTerminal(n)
    /\ n \notin inFlight
    /\ DepsTerminal(n)

(* A dependency that is hydrated counts as successful although "skipped".   *)
Blocks(d) == status[d] = "failed" \/ (status[d] = "skipped" /\ d \notin hydratedNodes)
Blocked(n) == \E d \in deps(n) : Blocks(d)

HasCondition(n) == pipeline.condition[n] # NoCondition
Unevaluable(n) == HasCondition(n) /\ pipeline.condition[n].target \notin deps(n)
Holds(n) == HasCondition(n) =>
                status[pipeline.condition[n].target] = pipeline.condition[n].wanted

(* propagateCascadeSkip: everything unfinished downstream of n, except that *)
(* nobody takes its own else node along.                                    *)
Follows(n, m) ==
    /\ n \in deps(m)
    /\ m \in executeNodes
    /\ ~IsTerminal(m)
    /\ elseOf(n) # m

CascadeFrom(n, S) == \A c \in S \cup {n} : \A m \in Nodes \ {n} : Follows(c, m) => m \in S
(* Fault: only the direct dependents are skipped.                           *)
CascadeOneLevel(n) == {m \in Nodes \ {n} : Follows(n, m)}

Cascade(n) == {m \in Nodes : \A S \in SUBSET Nodes : CascadeFrom(n, S) => m \in S}

Skip(S) == status' = [n \in Nodes |-> IF n \in S THEN "skipped" ELSE status[n]]

maxIterations(n) ==
    IF pipeline.max_iterations[n] > GlobalMaxIterations
    THEN GlobalMaxIterations
    ELSE pipeline.max_iterations[n]
Loops(n) == pipeline.max_iterations[n] > 0

-----------------------------------------------------------------------------
(* execute() up to the seeded queue. Rerun from a node whose ancestors have *)
(* no checkpoint throws before any of this.                                 *)
Init ==
    /\ pipeline \in {p \in Pipelines : validateDAG(p)}
    /\ SelectAll \/ \E n \in Nodes, hydrate \in BOOLEAN : SelectFrom(n, hydrate)
    /\ status = [n \in Nodes |-> IF n \in executeNodes THEN "pending" ELSE "skipped"]
    /\ iteration = [n \in Nodes |-> 0]
    /\ inFlight = {}
    /\ thrown = {}
    /\ readyQueue = {n \in Nodes : isNodeReady(n)}
    /\ batch = readyQueue
    /\ pc = "pass"
    /\ outcome = "running"

(* Fault: --max-parallel is ignored.                                        *)
TakeUnbounded(n) ==
    /\ pc = "pass"
    /\ n \in batch
    /\ batch' = batch \ {n}
    /\ inFlight' = inFlight \cup {n}
    /\ UNCHANGED << definitionVars, thrown, pc >>

(* The drain loop takes a node from the queue. The order among ready nodes  *)
(* is left open.                                                            *)
Take(n) ==
    /\ pc = "pass"
    /\ n \in batch
    /\ Cardinality(inFlight) < MaxParallel
    /\ batch' = batch \ {n}
    /\ inFlight' = inFlight \cup {n}
    /\ UNCHANGED << definitionVars, thrown, pc >>

(* processNode: a dependency failed, or was skipped.                        *)
SkipBlocked(n) ==
    /\ Take(n)
    /\ Blocked(n)
    /\ Skip({n} \cup Cascade(n))
    /\ readyQueue' = readyQueue \ {n}
    /\ UNCHANGED << iteration, outcome >>

(* processNode: the condition names a node that is not a dependency.        *)
FailCondition(n) ==
    /\ Take(n)
    /\ ~Blocked(n)
    /\ Unevaluable(n)
    /\ status' = [status EXCEPT ![n] = "failed"]
    /\ readyQueue' = readyQueue \ {n}
    /\ outcome' = "failed"
    /\ UNCHANGED iteration

(* The else node is queued if it could run at once.                         *)
ElseReady(n) ==
    LET e == elseOf(n)
    IN  {m \in {e} \cap executeNodes :
            /\ ~IsTerminal(m)
            /\ m \notin inFlight
            /\ \A d \in deps(m) : IsTerminal(d) \/ d = n}

(* processNode: the condition is false.                                     *)
SkipByCondition(n) ==
    /\ Take(n)
    /\ ~Blocked(n)
    /\ ~Unevaluable(n)
    /\ ~Holds(n)
    /\ IF elseOf(n) # NoNode
       THEN Skip({n}) /\ readyQueue' = (readyQueue \ {n}) \cup ElseReady(n)
       ELSE Skip({n} \cup Cascade(n)) /\ readyQueue' = readyQueue \ {n}
    /\ UNCHANGED << iteration, outcome >>

(* processNode up to the first await: executeNode, or executeLoopNode, which *)
(* goes on after the last iteration the earlier run has a checkpoint of and *)
(* may find that none is left.                                              *)
StartNode(n) ==
    /\ Take(n)
    /\ ~Blocked(n)
    /\ ~Unevaluable(n)
    /\ Holds(n)
    /\ \E last \in IF Loops(n) /\ resumes THEN 0 .. maxIterations(n) ELSE {0} :
          LET i == IF Loops(n) THEN last + 1 ELSE 0
          IN  /\ iteration' = [iteration EXCEPT ![n] = i]
              /\ status' = [status EXCEPT
                    ![n] = IF i > maxIterations(n) THEN "loop-iterating" ELSE "running"]
    /\ readyQueue' = readyQueue \ {n}
    /\ UNCHANGED outcome

-----------------------------------------------------------------------------
(* Between the passes.                                                      *)

(* Nodes that ended within the pass, without an await.                      *)
Returned == {n \in inFlight : IsTerminal(n)}

(* Fault: a node that ended within the pass is never taken out of flight.   *)
EndPassKeepsReturned ==
    /\ pc = "pass"
    /\ batch = {} \/ Cardinality(inFlight) >= MaxParallel
    /\ pc' = IF outcome = "failed" THEN "settle"
             ELSE IF Returned = {} /\ inFlight # {} THEN "race" ELSE "woken"
    /\ batch' = {}
    /\ UNCHANGED << definitionVars, status, iteration, readyQueue, inFlight, thrown, outcome >>

(* The pass is over: Promise.race, and the test for a fatal condition error. *)
(* If a promise has rejected, the race does, and execute() with it.         *)
EndPass ==
    /\ pc = "pass"
    /\ batch = {} \/ Cardinality(inFlight) >= MaxParallel
    /\ inFlight' = inFlight \ (Returned \ thrown)
    /\ pc' = CASE thrown # {} -> "rejected"
               [] thrown = {} /\ outcome = "failed" -> "settle"
               [] thrown = {} /\ outcome # "failed" ->
                    IF Returned = {} /\ inFlight # {} THEN "race" ELSE "woken"
    /\ batch' = {}
    /\ UNCHANGED << definitionVars, status, iteration, readyQueue, thrown, outcome >>

StartPass ==
    /\ pc = "woken"
    /\ readyQueue # {} \/ inFlight # {}
    /\ pc' = "pass"
    /\ batch' = readyQueue
    /\ UNCHANGED << definitionVars, status, iteration, readyQueue, inFlight, thrown, outcome >>

(* The loop is left: everything has ended, or, after a fatal error, what was *)
(* still in flight has settled. The verdict is read off the nodes.          *)
Finish ==
    /\ \/ pc = "woken" /\ readyQueue = {} /\ inFlight = {}
       \/ pc = "settle" /\ inFlight = thrown
    /\ pc' = "done"
    /\ outcome' = IF \E n \in Nodes : status[n] = "failed" THEN "failed"
                  ELSE IF \A n \in Nodes : status[n] \in {"completed", "skipped"}
                  THEN "completed" ELSE outcome
    /\ UNCHANGED << definitionVars, status, iteration, readyQueue, batch, inFlight, thrown >>

InProcess(n) ==
    /\ n \in inFlight \ thrown
    /\ status[n] \in Busy
    /\ pc \in {"race", "woken", "settle", "rejected"}

(* Fault: a failed node wakes nobody.                                       *)
EndNodeFailsSilently(n, end) ==
    /\ InProcess(n)
    /\ status' = [status EXCEPT ![n] = end]
    /\ inFlight' = inFlight \ {n}
    /\ readyQueue' = readyQueue \cup
          {m \in buildDependentsMap(pipeline)[n] \cap executeNodes :
              end = "completed" /\ status[m] = "pending"
                /\ \A d \in deps(m) : IsTerminal(d) \/ d = n}
    /\ pc' = IF pc = "race" THEN "woken" ELSE pc
    /\ UNCHANGED << definitionVars, iteration, batch, thrown, outcome >>

(* processNode after the node ended: dependents that became ready are       *)
(* queued, also when nobody drains the queue any more.                      *)
EndNode(n, end) ==
    /\ InProcess(n)
    /\ status' = [status EXCEPT ![n] = end]
    /\ inFlight' = inFlight \ {n}
    /\ readyQueue' = readyQueue \cup
          {m \in buildDependentsMap(pipeline)[n] :
              /\ m \in executeNodes
              /\ ~IsTerminal(m)
              /\ m \notin inFlight
              /\ \A d \in deps(m) : IsTerminal(d) \/ d = n}
    /\ pc' = IF pc = "race" THEN "woken" ELSE pc
    /\ UNCHANGED << definitionVars, iteration, batch, thrown, outcome >>

(* executeNode returns: the run of the node succeeded, or it failed or threw. *)
NodeEnds(n) ==
    /\ ~Loops(n)
    /\ \E end \in {"completed", "failed"} : EndNode(n, end)

(* executeLoopNode returns: until became true; or an excluded file changed, *)
(* no progress, until cannot be evaluated, or no iteration is left.         *)
LoopEnds(n) ==
    /\ Loops(n)
    /\ \/ iteration[n] <= maxIterations(n) /\ EndNode(n, "completed")
       \/ EndNode(n, "failed")

(* An iteration is over, until is false, and another one begins.            *)
NextIteration(n) ==
    /\ Loops(n)
    /\ InProcess(n)
    /\ iteration[n] < maxIterations(n)
    /\ iteration' = [iteration EXCEPT ![n] = @ + 1]
    /\ UNCHANGED << definitionVars, status, readyQueue, batch, inFlight, thrown, pc, outcome >>

(* executeLoopNode throws where executeNode would catch: the configuration,  *)
(* the exclusion check or a checkpoint file. The node is left as its last   *)
(* iteration left it, or as an iterating loop.                              *)
LoopThrows(n) ==
    /\ Loops(n)
    /\ InProcess(n)
    /\ \E left \in {"loop-iterating", "completed", "failed"} :
          status' = [status EXCEPT ![n] = left]
    /\ thrown' = thrown \cup {n}
    /\ pc' = IF pc = "race" THEN "rejected" ELSE pc
    /\ UNCHANGED << definitionVars, iteration, readyQueue, batch, inFlight, outcome >>

Next ==
    \/ \E n \in Nodes :
          \/ SkipBlocked(n) \/ FailCondition(n) \/ SkipByCondition(n) \/ StartNode(n)
          \/ NodeEnds(n) \/ LoopEnds(n) \/ NextIteration(n) \/ LoopThrows(n)
    \/ EndPass
    \/ StartPass
    \/ Finish

(* The drain loop goes on by itself; containers have a time limit, so what  *)
(* is in flight ends.                                                       *)
Fairness == WF_vars(Next)

Spec == Init /\ [][Next]_vars
FairSpec == Spec /\ Fairness

-----------------------------------------------------------------------------
(* Safety.                                                                  *)

(* Every variable has its type, the queue and the flight stay within the    *)
(* nodes the run executes, and no more are in flight than --max-parallel.   *)
TypeOK ==
    /\ pipeline \in Pipelines
    /\ executeNodes \in SUBSET Nodes
    /\ hydratedNodes \in SUBSET (Nodes \ executeNodes)
    /\ resumes \in BOOLEAN
    /\ status \in [Nodes -> {"pending"} \cup Busy \cup Terminal]
    /\ iteration \in [Nodes -> Nat]
    /\ readyQueue \in SUBSET executeNodes
    /\ batch \in SUBSET readyQueue
    /\ inFlight \in SUBSET executeNodes
    /\ Cardinality(inFlight) <= MaxParallel
    /\ thrown \in SUBSET inFlight
    /\ pc \in {"pass", "race", "woken", "settle", "done", "rejected"}
    /\ outcome \in {"running", "completed", "failed"}

(* A node that was started has only dependencies that completed, in this    *)
(* run or in the one whose checkpoints it resumes, whatever its condition   *)
(* asks for and whichever way it was queued.                                *)
StartsAfterDependencies ==
    \A n \in Nodes : status[n] \in Busy \cup {"completed"} =>
        \A d \in deps(n) : IsTerminal(d) /\ ~Blocks(d)

(* The queue holds nodes that can be taken, so no node is taken twice.      *)
QueueIsReady ==
    \A n \in readyQueue : status[n] = "pending" /\ isNodeReady(n)

(* What is running is in flight: the drain loop cannot end without it.      *)
BusyIsInFlight == \A n \in Nodes : status[n] \in Busy => n \in inFlight

FatalCondition == \E n \in Nodes : status[n] = "failed" /\ Unevaluable(n)
BehindElse(n) == \E d \in deps(n) : status[d] = "skipped" /\ elseOf(d) # NoNode

(* No lost wakeup: a node whose dependencies have all ended is queued, or   *)
(* was dealt with. Enqueueing is edge-triggered, by the last dependency to  *)
(* end, which may end in any of five ways. The exceptions are the runs that *)
(* are abandoned, and what stands behind a node that was skipped although   *)
(* it has an else node: executor.ts:233 wakes the else node only.           *)
NoLostWakeup ==
    \A n \in executeNodes :
        status[n] = "pending" /\ DepsTerminal(n) =>
            n \in readyQueue \/ BehindElse(n) \/ FatalCondition \/ thrown # {}

(* When execute() returns, and no condition was fatal, every node it was to *)
(* execute has ended, in a pipeline without else nodes.                     *)
EveryNodeEnds ==
    pc = "done" /\ ~FatalCondition /\ (\A n \in Nodes : elseOf(n) = NoNode) =>
        \A n \in executeNodes : IsTerminal(n)

(* The queue is right both ways: all it holds can be taken, and nothing that  *)
(* could be taken is missing from it.                                       *)
QueueIsExact == QueueIsReady /\ NoLostWakeup

(* Fault: a condition is taken to hold whenever it can be evaluated.         *)
buildDryRunResultRunsAll ==
    [skips  |-> {},
     status |-> IF \E n \in Nodes : Unevaluable(n) THEN "failed" ELSE "completed"]

(* buildDryRunResult: the nodes whose condition is false when every dependency *)
(* completed; a condition that cannot be evaluated fails the dry run.        *)
buildDryRunResult ==
    [skips  |-> {n \in Nodes : /\ HasCondition(n) /\ ~Unevaluable(n)
                               /\ pipeline.condition[n].wanted # "completed"},
     status |-> IF \E n \in Nodes : Unevaluable(n) THEN "failed" ELSE "completed"]

(* A dry run foretells the real one, whatever the order in which nodes end:   *)
(* no condition turns out fatal after a dry run that succeeded, and when no   *)
(* node fails and no checkpoint is used, those complete that are not behind   *)
(* a node the dry run skips. (The dry run marks only that node, not what is   *)
(* behind it.)                                                              *)
DryRunForetells ==
    /\ FatalCondition => buildDryRunResult.status = "failed"
    /\ pc = "done" /\ hydratedNodes = {} /\ (\A n \in Nodes : status[n] # "failed") =>
          \A n \in executeNodes :
             status[n] = "completed" <=>
                ({n} \cup collectAncestors(pipeline, n)) \cap buildDryRunResult.skips = {}

(* Nothing is skipped without a cause inside this run: its condition did    *)
(* not hold once its turn had come, or it depends on an executed node that  *)
(* failed or was skipped. In particular the selection of a rerun contains   *)
(* or hydrates everything its nodes need.                                   *)
SkipsAreCaused ==
    \A n \in executeNodes : status[n] = "skipped" =>
        \/ DepsTerminal(n) /\ ~Blocked(n) /\ ~Unevaluable(n) /\ ~Holds(n)
        \/ \E d \in deps(n) \cap executeNodes : status[d] \in {"failed", "skipped"}

(* From the first node that starts to the last that ends: none starts before *)
(* its dependencies have completed, none is skipped without a cause, none   *)
(* is left over.                                                           *)
NodesRunInOrder == StartsAfterDependencies /\ SkipsAreCaused /\ EveryNodeEnds

(* The end of a node is final: neither a cascade nor a second taking changes *)
(* the status of a node that ended.                                         *)
TerminalIsFinal == [][\A n \in Nodes : IsTerminal(n) => status'[n] = status[n]]_vars

(* What the documentation says (.planning/milestones/v2.1-phases/           *)
(* 21-conditional-pipeline-nodes/21-CONTEXT.md:30): "If a node has multiple *)
(* dependencies and any dependency was skipped, the node is skipped".       *)
(* Stated for the end of a run, leaving aside the else node itself.         *)
SkipReachesDependents ==
    pc = "done" /\ ~FatalCondition =>
        \A n \in executeNodes, m \in executeNodes :
            status[n] = "skipped" /\ n \in deps(m) /\ elseOf(n) # m => status[m] = "skipped"

-----------------------------------------------------------------------------
(* What the run implements.                                                 *)

ProgressOf(n) ==
    IF status[n] = "pending" THEN "waiting"
    ELSE IF status[n] \in Busy THEN "working"
    ELSE IF status[n] = "completed" \/ n \in hydratedNodes THEN "passed"
    ELSE status[n]

Promise == INSTANCE DagRun WITH
    MaxWorking <- MaxParallel,
    needs <- pipeline.depends_on,
    progress <- [n \in Nodes |-> ProgressOf(n)]

(* The executor is a scheduler of DagRun: at every step each node has at    *)
(* most one fate, decided only when those of its dependencies are.          *)
ImplementsDagRun == Promise!Spec

(* Whatever the nodes do, as long as each ends, execute() returns or throws. *)
EventuallyReturns == <>(pc \in {"done", "rejected"})
=============================================================================
