--------------------------- MODULE PipelineProofs ---------------------------
(***************************************************************************)
(* The pipeline executor, for any set of pipelines over any finite set of   *)
(* nodes, any --max-parallel and any iteration limit: its safety as one     *)
(* inductive invariant, that it implements DagRun, and what a dry run       *)
(* foretells.                                                               *)
(***************************************************************************)
EXTENDS Pipeline, FiniteSetTheorems, TLAPS

-----------------------------------------------------------------------------
(* What is not selected counts as skipped from the start.                   *)
UnselectedAreSkipped == \A n \in Nodes \ executeNodes : status[n] = "skipped"

InFlightHasBegun == \A n \in inFlight : status[n] # "pending"

SelectionIsClosed == \A n \in executeNodes : deps(n) \subseteq executeNodes \cup hydratedNodes

(* execute() only gives up its queue for a fatal condition.                 *)
ReturnsWhenDrained ==
    /\ outcome = "completed" => pc = "done"
    /\ outcome = "failed" => pc = "done" \/ FatalCondition
    /\ pc = "settle" => outcome = "failed"
    /\ pc = "done" => FatalCondition \/ (readyQueue = {} /\ inFlight = {})

IInv ==
    /\ TypeOK
    /\ validateDAG(pipeline)
    /\ UnselectedAreSkipped
    /\ InFlightHasBegun
    /\ BusyIsInFlight
    /\ StartsAfterDependencies
    /\ QueueIsReady
    /\ NoLostWakeup
    /\ SelectionIsClosed
    /\ SkipsAreCaused
    /\ ReturnsWhenDrained

-----------------------------------------------------------------------------
(* The graph.                                                               *)

(* What is reachable is closed: the ancestors of a node contain their own   *)
(* dependencies, and the node's.                                            *)
LEMMA ReachableIsClosed ==
    ASSUME NEW edges \in [Nodes -> SUBSET Nodes], NEW n \in Nodes
    PROVE  /\ Reachable(edges, n) \subseteq Nodes
           /\ edges[n] \subseteq Reachable(edges, n)
           /\ \A m \in Reachable(edges, n) : edges[m] \subseteq Reachable(edges, n)
BY DEF Reachable

(* A cascade contains what follows it, not the node it starts from.         *)
LEMMA CascadeIsClosed ==
    ASSUME NEW n \in Nodes
    PROVE  /\ Cascade(n) \subseteq Nodes
           /\ n \notin Cascade(n)
           /\ \A c \in Cascade(n) \cup {n} : \A m \in Nodes \ {n} :
                 Follows(c, m) => m \in Cascade(n)
<1>1. \A c \in Cascade(n) \cup {n} : \A m \in Nodes \ {n} : Follows(c, m) => m \in Cascade(n)
  BY DEF Cascade, CascadeFrom
<1>2. CascadeFrom(n, Cascade(n) \ {n})
  BY <1>1 DEF CascadeFrom
<1> QED
  BY <1>1, <1>2 DEF Cascade

(* Every member of a cascade follows another one, or the node it starts from. *)
LEMMA CascadeIsCaused ==
    ASSUME NEW n \in Nodes, NEW m \in Cascade(n)
    PROVE  \E c \in Cascade(n) \cup {n} : Follows(c, m)
<1> SUFFICES ASSUME \A c \in Cascade(n) \cup {n} : ~Follows(c, m) PROVE FALSE
  OBVIOUS
<1>1. CascadeFrom(n, Cascade(n) \ {m})
  BY CascadeIsClosed DEF CascadeFrom
<1> QED
  BY <1>1 DEF Cascade

(* A cascade from a node that has not ended hits only pending nodes: none   *)
(* that is queued, in flight or ended.                                      *)
LEMMA CascadeHitsPending ==
    ASSUME IInv, NEW n \in readyQueue, NEW m \in Cascade(n)
    PROVE  /\ m \in executeNodes
           /\ m # n
           /\ status[m] = "pending"
           /\ m \notin readyQueue
           /\ m \notin inFlight
<1> USE DEF IInv, TypeOK
<1>1. n \in Nodes /\ ~IsTerminal(n)
  BY DEF QueueIsReady, IsTerminal, Terminal
<1>2. PICK c \in Cascade(n) \cup {n} : Follows(c, m)
  BY <1>1, CascadeIsCaused
<1>3. ~IsTerminal(c)
  <2>1. CASE c = n
    BY <2>1, <1>1
  <2>2. CASE c \in Cascade(n)
    <3>1. PICK b \in Cascade(n) \cup {n} : Follows(b, c)
      BY <1>1, <2>2, CascadeIsCaused
    <3> QED
      BY <3>1 DEF Follows
  <2> QED
    BY <2>1, <2>2
<1>4. m \in executeNodes /\ ~IsTerminal(m) /\ ~DepsTerminal(m) /\ m \in Nodes
  BY <1>2, <1>3 DEF Follows, DepsTerminal
<1>5. status[m] \notin Busy
  BY <1>4 DEF StartsAfterDependencies, DepsTerminal
<1>6. status[m] = "pending"
  BY <1>4, <1>5 DEF IsTerminal
<1>7. m \notin readyQueue
  BY <1>4 DEF QueueIsReady, isNodeReady
<1> QED
  BY <1>1, <1>4, <1>6, <1>7 DEF InFlightHasBegun

-----------------------------------------------------------------------------
(* What every step that changes statuses has to show.                       *)

EndsAreFinal == \A m \in Nodes : IsTerminal(m) => status'[m] = status[m]

LEMMA StartsPreserved ==
    ASSUME IInv, UNCHANGED definitionVars, EndsAreFinal,
           \A m \in Nodes : status'[m] \in Busy \cup {"completed"} =>
               \/ status[m] \in Busy \cup {"completed"}
               \/ DepsTerminal(m) /\ ~Blocked(m)
    PROVE  StartsAfterDependencies'
<1> SUFFICES ASSUME NEW m \in Nodes, status'[m] \in Busy \cup {"completed"},
                    NEW d \in deps(m)
             PROVE  IsTerminal(d)' /\ ~Blocks(d)'
  BY DEF StartsAfterDependencies, definitionVars, deps
<1>1. IsTerminal(d) /\ ~Blocks(d)
  BY DEF IInv, StartsAfterDependencies, DepsTerminal, Blocked
<1>2. d \in Nodes
  BY PipelineAssumption DEF IInv, TypeOK, deps, Definitions
<1> QED
  BY <1>1, <1>2 DEF EndsAreFinal, IsTerminal, Blocks, definitionVars

LEMMA SkipsPreserved ==
    ASSUME IInv, UNCHANGED definitionVars, EndsAreFinal,
           \A m \in executeNodes : status'[m] = "skipped" /\ status[m] # "skipped" =>
               \/ DepsTerminal(m) /\ ~Blocked(m) /\ ~Unevaluable(m) /\ ~Holds(m)
               \/ \E d \in deps(m) \cap executeNodes : status'[d] \in {"failed", "skipped"}
    PROVE  SkipsAreCaused'
<1> SUFFICES ASSUME NEW m \in executeNodes, status'[m] = "skipped"
             PROVE  \/ /\ DepsTerminal(m)' /\ ~Blocked(m)'
                       /\ ~Unevaluable(m)' /\ ~Holds(m)'
                    \/ \E d \in (deps(m) \cap executeNodes)' : status'[d] \in {"failed", "skipped"}
  BY DEF SkipsAreCaused, definitionVars
<1>1. deps(m)' = deps(m) /\ deps(m) \subseteq Nodes
  BY PipelineAssumption DEF IInv, TypeOK, deps, Definitions, definitionVars
<1>2. CASE DepsTerminal(m) /\ ~Blocked(m) /\ ~Unevaluable(m) /\ ~Holds(m)
  <2>1. \A d \in deps(m) : status'[d] = status[d]
    BY <1>1, <1>2 DEF EndsAreFinal, DepsTerminal
  <2>2. DepsTerminal(m)' /\ ~Blocked(m)'
    BY <1>1, <1>2, <2>1 DEF DepsTerminal, IsTerminal, Blocked, Blocks, definitionVars
  <2>3. pipeline.condition[m].target \in deps(m)
    BY <1>2 DEF Unevaluable, Holds
  <2>4. ~Unevaluable(m)' /\ ~Holds(m)'
    BY <1>1, <1>2, <2>1, <2>3 DEF Unevaluable, Holds, HasCondition, definitionVars
  <2> QED
    BY <2>2, <2>4
<1>3. CASE \E d \in deps(m) \cap executeNodes : status'[d] \in {"failed", "skipped"}
  BY <1>1, <1>3 DEF definitionVars
<1>4. CASE \E d \in deps(m) \cap executeNodes : status[d] \in {"failed", "skipped"}
  BY <1>1, <1>3, <1>4 DEF EndsAreFinal, IsTerminal, Terminal
<1> QED
  BY <1>2, <1>3, <1>4 DEF IInv, SkipsAreCaused

LEMMA FatalStays ==
    ASSUME FatalCondition, UNCHANGED definitionVars, EndsAreFinal
    PROVE  FatalCondition'
BY DEF FatalCondition, EndsAreFinal, IsTerminal, Terminal, Unevaluable, HasCondition,
       deps, definitionVars

LEMMA WakeupsPreserved ==
    ASSUME IInv, UNCHANGED definitionVars, EndsAreFinal,
           thrown \subseteq thrown',
           \A m \in executeNodes : status'[m] = "pending" => status[m] = "pending",
           \A m \in executeNodes : status'[m] = "pending" /\ DepsTerminal(m)' =>
               \/ m \in readyQueue' \/ BehindElse(m)' \/ FatalCondition' \/ thrown' # {}
               \/ DepsTerminal(m) /\ m \notin readyQueue
    PROVE  NoLostWakeup'
<1> SUFFICES ASSUME NEW m \in executeNodes, status[m] = "pending",
                    DepsTerminal(m), m \notin readyQueue
             PROVE  BehindElse(m)' \/ FatalCondition' \/ thrown' # {}
  BY DEF NoLostWakeup, definitionVars
<1>1. BehindElse(m) \/ FatalCondition \/ thrown # {}
  BY DEF IInv, NoLostWakeup
<1>2. CASE BehindElse(m)
  <2>1. \A d \in deps(m) : d \in Nodes
    BY PipelineAssumption DEF IInv, TypeOK, deps, Definitions
  <2> QED
    BY <1>2, <2>1 DEF BehindElse, EndsAreFinal, IsTerminal, Terminal, deps, elseOf,
                      definitionVars
<1> QED
  BY <1>1, <1>2, FatalStays

-----------------------------------------------------------------------------
(* The actions of a pass.                                                   *)

LEMMA TakeFacts ==
    ASSUME IInv, NEW n \in Nodes, Take(n)
    PROVE  /\ n \in readyQueue /\ n \in executeNodes
           /\ status[n] = "pending" /\ ~IsTerminal(n) /\ DepsTerminal(n)
           /\ n \notin inFlight
           /\ batch' \in SUBSET (readyQueue \ {n})
           /\ inFlight' = inFlight \cup {n}
           /\ inFlight' \in SUBSET executeNodes
           /\ Cardinality(inFlight') <= MaxParallel
           /\ UNCHANGED << definitionVars, thrown, pc >>
           /\ pc = "pass"
<1>1. IsFiniteSet(inFlight)
  <2>1. inFlight \subseteq Nodes
    BY DEF IInv, TypeOK
  <2> QED
    BY <2>1, PipelineAssumption, FS_Subset
<1>2. n \in readyQueue /\ n \in executeNodes
  BY DEF IInv, TypeOK, Take
<1>3. status[n] = "pending" /\ isNodeReady(n)
  BY <1>2 DEF IInv, QueueIsReady
<1>4. Cardinality(inFlight \cup {n}) = Cardinality(inFlight) + 1
  BY <1>1, <1>3, FS_AddElement DEF isNodeReady
<1>5. Cardinality(inFlight) \in Nat
  BY <1>1, FS_CardinalityType
<1>6. Cardinality(inFlight') <= MaxParallel
  BY <1>4, <1>5, PipelineAssumption DEF Take
<1> QED
  BY <1>2, <1>3, <1>6 DEF Take, isNodeReady, IInv, TypeOK

(* A skip that starts from a taken node hits only pending nodes.            *)
LEMMA SkipFacts ==
    ASSUME IInv, NEW n \in Nodes, Take(n), NEW S \in SUBSET ({n} \cup Cascade(n)), Skip(S)
    PROVE  /\ S \subseteq executeNodes
           /\ \A m \in S : status[m] = "pending" /\ m \notin readyQueue \ {n} /\ m \notin inFlight
           /\ status' \in [Nodes -> {"pending"} \cup Busy \cup Terminal]
           /\ \A m \in Nodes : status'[m] = IF m \in S THEN "skipped" ELSE status[m]
           /\ EndsAreFinal
<1>1. \A m \in S : m \in executeNodes /\ status[m] = "pending"
                     /\ m \notin readyQueue \ {n} /\ m \notin inFlight
  BY TakeFacts, CascadeHitsPending
<1>2. status' \in [Nodes -> {"pending"} \cup Busy \cup Terminal]
  BY DEF Skip, IInv, TypeOK, Terminal
<1> QED
  BY <1>1, <1>2 DEF Skip, EndsAreFinal, IsTerminal, Terminal

(* What a skip leaves of the invariant, given what its queue is and why it   *)
(* happens.                                                                 *)
LEMMA SkipKeeps ==
    ASSUME IInv, NEW n \in Nodes, Take(n),
           NEW S \in SUBSET ({n} \cup Cascade(n)), n \in S, Skip(S),
           \/ S = {n} \cup Cascade(n) /\ readyQueue' = readyQueue \ {n}
           \/ /\ S = {n} /\ elseOf(n) # NoNode
              /\ readyQueue' = (readyQueue \ {n}) \cup ElseReady(n),
           \/ Blocked(n)
           \/ DepsTerminal(n) /\ ~Blocked(n) /\ ~Unevaluable(n) /\ ~Holds(n),
           UNCHANGED << iteration, outcome >>
    PROVE  IInv' /\ EndsAreFinal
<1> USE TakeFacts, SkipFacts
<1> USE DEF IInv
<1>1. TypeOK'
  BY DEF TypeOK, ElseReady, definitionVars
<1>2. \A m \in Nodes : deps(m)' = deps(m) /\ deps(m) \subseteq Nodes
  BY PipelineAssumption DEF TypeOK, deps, Definitions, definitionVars
<1>3. UnselectedAreSkipped' /\ InFlightHasBegun' /\ BusyIsInFlight'
  <2>1. UnselectedAreSkipped'
    BY DEF UnselectedAreSkipped, definitionVars
  <2>2. InFlightHasBegun'
    BY DEF InFlightHasBegun, TypeOK
  <2>3. BusyIsInFlight'
    BY DEF BusyIsInFlight, Busy
  <2> QED
    BY <2>1, <2>2, <2>3
<1>4. StartsAfterDependencies'
  BY StartsPreserved DEF Busy
<1>5. QueueIsReady'
  <2> SUFFICES ASSUME NEW q \in readyQueue' PROVE status'[q] = "pending" /\ isNodeReady(q)'
    BY DEF QueueIsReady
  <2>1. q \in Nodes /\ q \in executeNodes'
    BY <1>1 DEF TypeOK
  <2>2. CASE q \in readyQueue \ {n}
    <3>1. status'[q] = "pending" /\ isNodeReady(q)
      BY <2>1, <2>2 DEF QueueIsReady
    <3> QED
      BY <1>2, <2>1, <2>2, <3>1
         DEF isNodeReady, EndsAreFinal, IsTerminal, Terminal, DepsTerminal
  <2>3. CASE S = {n} /\ q \in ElseReady(n)
    <3>1. /\ q = elseOf(n) /\ ~IsTerminal(q) /\ q \notin inFlight
          /\ \A d \in deps(q) : IsTerminal(d) \/ d = n
      BY <2>3 DEF ElseReady
    <3>2. q # n
      <4>1. {n} \in SUBSET Nodes /\ {n} # {}
        OBVIOUS
      <4>2. (pipeline.depends_on[n] \cup {pipeline.else_node[n]}) \cap {n} = {}
        BY <4>1 DEF validateDAG
      <4> QED
        BY <3>1, <4>2 DEF elseOf
    <3>3. status[q] = "pending"
      BY <2>1, <3>1 DEF BusyIsInFlight, IsTerminal, TypeOK
    <3> QED
      BY <1>2, <2>1, <2>3, <3>1, <3>2, <3>3
         DEF isNodeReady, EndsAreFinal, IsTerminal, Terminal, DepsTerminal
  <2> QED
    BY <2>2, <2>3
<1>6. NoLostWakeup'
  <2>1. ASSUME NEW m \in executeNodes, status'[m] = "pending", DepsTerminal(m)',
               ~DepsTerminal(m) \/ m \in readyQueue, m \notin readyQueue'
        PROVE  BehindElse(m)'
    <3>1. m \in Nodes /\ m \notin S /\ m # n
      BY <2>1 DEF TypeOK
    <3>2. ~DepsTerminal(m)
      BY <2>1, <3>1
    <3>3. PICK d \in deps(m) : ~IsTerminal(d) /\ IsTerminal(d)'
      BY <1>2, <2>1, <3>1, <3>2 DEF DepsTerminal
    <3>4. d \in S /\ d \in Nodes
      BY <1>2, <3>1, <3>3 DEF IsTerminal
    <3>5. elseOf(d) # NoNode
      <4>1. CASE S = {n} /\ elseOf(n) # NoNode
        BY <3>4, <4>1
      <4>2. CASE S = {n} \cup Cascade(n)
        <5>1. ~Follows(d, m)
          BY <3>1, <3>4, <4>2, CascadeIsClosed
        <5>2. elseOf(d) = m
          BY <2>1, <3>1, <3>3, <5>1 DEF Follows, EndsAreFinal, IsTerminal, Terminal
        <5> QED
          BY <3>1, <5>2, PipelineAssumption
      <4> QED
        BY <4>1, <4>2
    <3> QED
      BY <1>2, <3>1, <3>3, <3>4, <3>5 DEF BehindElse, elseOf, definitionVars
  <2>2. \A m \in executeNodes : status'[m] = "pending" => status[m] = "pending"
    BY DEF TypeOK
  <2> QED
    BY <2>1, <2>2, WakeupsPreserved
<1>7. SelectionIsClosed' /\ validateDAG(pipeline)'
  BY <1>2 DEF SelectionIsClosed, TypeOK, validateDAG, definitionVars
<1>8. SkipsAreCaused'
  <2> SUFFICES ASSUME NEW m \in executeNodes, m \in S
               PROVE  \/ DepsTerminal(m) /\ ~Blocked(m) /\ ~Unevaluable(m) /\ ~Holds(m)
                      \/ \E d \in deps(m) \cap executeNodes : status'[d] \in {"failed", "skipped"}
    BY SkipsPreserved DEF TypeOK
  <2>1. CASE m = n
    <3>1. SUFFICES ASSUME Blocked(n)
                   PROVE  \E d \in deps(m) \cap executeNodes : status'[d] \in {"failed", "skipped"}
      BY <2>1
    <3>2. PICK d \in deps(n) : Blocks(d)
      BY <3>1 DEF Blocked
    <3>3. d \in Nodes /\ d \in executeNodes \cup hydratedNodes
      BY <1>2, <2>1, <3>2 DEF SelectionIsClosed
    <3>4. d \in executeNodes
      BY <3>2, <3>3 DEF Blocks, UnselectedAreSkipped, TypeOK
    <3> QED
      BY <2>1, <3>2, <3>3, <3>4 DEF Blocks, EndsAreFinal, IsTerminal, Terminal
  <2>2. CASE m # n
    <3>1. S = {n} \cup Cascade(n) /\ m \in Cascade(n)
      BY <2>2
    <3>2. PICK c \in S : Follows(c, m)
      BY <3>1, CascadeIsCaused
    <3> QED
      BY <3>2 DEF Follows, TypeOK
  <2> QED
    BY <2>1, <2>2
<1>9. ReturnsWhenDrained'
  BY FatalStays DEF ReturnsWhenDrained
<1> QED
  BY <1>1, <1>3, <1>4, <1>5, <1>6, <1>7, <1>8, <1>9

LEMMA SkipBlockedStep ==
    ASSUME IInv, NEW n \in Nodes, SkipBlocked(n)
    PROVE  IInv' /\ EndsAreFinal
<1>1. Take(n) /\ Skip({n} \cup Cascade(n))
  BY DEF SkipBlocked
<1> QED
  BY <1>1, SkipKeeps, CascadeIsClosed DEF SkipBlocked

LEMMA SkipByConditionStep ==
    ASSUME IInv, NEW n \in Nodes, SkipByCondition(n)
    PROVE  IInv' /\ EndsAreFinal
<1>1. Take(n) /\ DepsTerminal(n)
  BY TakeFacts DEF SkipByCondition
<1>2. CASE elseOf(n) # NoNode
  <2>1. Skip({n}) /\ {n} \in SUBSET ({n} \cup Cascade(n))
    BY <1>2 DEF SkipByCondition
  <2> QED
    BY <1>1, <1>2, <2>1, SkipKeeps DEF SkipByCondition
<1>3. CASE elseOf(n) = NoNode
  <2>1. Skip({n} \cup Cascade(n))
    BY <1>3 DEF SkipByCondition
  <2> QED
    BY <1>1, <1>3, <2>1, SkipKeeps DEF SkipByCondition
<1> QED
  BY <1>2, <1>3

(* A taken node that starts, or whose condition is fatal.                   *)
LEMMA MarkKeeps ==
    ASSUME IInv, NEW n \in Nodes, Take(n), ~Blocked(n), iteration' \in [Nodes -> Nat],
           NEW s \in Busy \cup {"failed"}, status' = [status EXCEPT ![n] = s],
           readyQueue' = readyQueue \ {n},
           \/ s \in Busy /\ outcome' = outcome
           \/ s = "failed" /\ Unevaluable(n) /\ outcome' = "failed"
    PROVE  IInv' /\ EndsAreFinal
<1> USE TakeFacts
<1> USE DEF IInv
<1>1. /\ \A m \in Nodes : status'[m] = IF m = n THEN s ELSE status[m]
      /\ EndsAreFinal
  BY DEF TypeOK, EndsAreFinal, IsTerminal
<1>2. TypeOK'
  BY DEF TypeOK, definitionVars, Busy, Terminal
<1>3. \A m \in Nodes : deps(m)' = deps(m) /\ deps(m) \subseteq Nodes
  BY PipelineAssumption DEF TypeOK, deps, Definitions, definitionVars
<1>4. UnselectedAreSkipped' /\ InFlightHasBegun' /\ BusyIsInFlight'
  BY <1>1 DEF UnselectedAreSkipped, InFlightHasBegun, BusyIsInFlight, TypeOK,
              definitionVars, Busy
<1>5. StartsAfterDependencies'
  BY <1>1, StartsPreserved DEF Busy
<1>6. QueueIsReady'
  <2> SUFFICES ASSUME NEW q \in readyQueue \ {n}
               PROVE  status'[q] = "pending" /\ isNodeReady(q)'
    BY DEF QueueIsReady
  <2>1. q \in Nodes /\ status'[q] = "pending" /\ isNodeReady(q)
    BY <1>1 DEF QueueIsReady, TypeOK
  <2> QED
    BY <1>1, <1>3, <2>1
       DEF isNodeReady, EndsAreFinal, IsTerminal, Terminal, DepsTerminal, definitionVars
<1>7. s = "failed" => FatalCondition'
  BY <1>1, <1>3 DEF FatalCondition, Unevaluable, HasCondition, definitionVars, Busy
<1>8. NoLostWakeup'
  <2>1. ASSUME NEW m \in executeNodes, status'[m] = "pending", DepsTerminal(m)',
               s \in Busy
        PROVE  DepsTerminal(m) /\ m # n
    BY <1>1, <1>3, <2>1 DEF DepsTerminal, IsTerminal, Terminal, Busy, TypeOK
  <2>2. \A m \in executeNodes : status'[m] = "pending" => status[m] = "pending"
    BY <1>1 DEF TypeOK
  <2> QED
    BY <1>1, <1>7, <2>1, <2>2, WakeupsPreserved
<1>9. SkipsAreCaused'
  BY <1>1, SkipsPreserved DEF TypeOK, Busy
<1>10. SelectionIsClosed' /\ validateDAG(pipeline)'
  BY <1>3 DEF SelectionIsClosed, TypeOK, validateDAG, definitionVars
<1>11. ReturnsWhenDrained'
  BY <1>1, <1>7, FatalStays DEF ReturnsWhenDrained
<1> QED
  BY <1>1, <1>2, <1>4, <1>5, <1>6, <1>8, <1>9, <1>10, <1>11

LEMMA FailConditionStep ==
    ASSUME IInv, NEW n \in Nodes, FailCondition(n)
    PROVE  IInv' /\ EndsAreFinal
<1>1. Take(n) /\ iteration' \in [Nodes -> Nat]
  BY DEF FailCondition, IInv, TypeOK
<1>2. "failed" \in Busy \cup {"failed"} /\ status' = [status EXCEPT ![n] = "failed"]
  BY DEF FailCondition
<1> QED
  BY <1>1, <1>2, MarkKeeps DEF FailCondition

LEMMA StartNodeStep ==
    ASSUME IInv, NEW n \in Nodes, StartNode(n)
    PROVE  IInv' /\ EndsAreFinal
<1>1. Take(n)
  BY DEF StartNode
<1>2. maxIterations(n) \in Nat
  BY PipelineAssumption DEF maxIterations, IInv, TypeOK, Definitions
<1>3. iteration' \in [Nodes -> Nat]
  <2>1. PICK last \in IF Loops(n) /\ resumes THEN 0 .. maxIterations(n) ELSE {0} :
          iteration' = [iteration EXCEPT ![n] = IF Loops(n) THEN last + 1 ELSE 0]
    BY DEF StartNode
  <2>2. last \in Nat
    BY <1>2, <2>1
  <2> QED
    BY <2>1, <2>2 DEF IInv, TypeOK
<1>4. PICK s \in Busy : status' = [status EXCEPT ![n] = s]
  BY DEF StartNode, Busy
<1> QED
  BY <1>1, <1>3, <1>4, MarkKeeps DEF StartNode

-----------------------------------------------------------------------------
(* The actions between passes.                                              *)

LEMMA EndNodeStep ==
    ASSUME IInv, NEW n \in Nodes, NEW end \in {"completed", "failed"}, EndNode(n, end)
    PROVE  IInv' /\ EndsAreFinal
<1> USE DEF IInv
<1>1. /\ n \in inFlight /\ n \notin thrown /\ status[n] \in Busy /\ n \in executeNodes
      /\ pc \in {"race", "woken", "settle", "rejected"}
      /\ inFlight' = inFlight \ {n}
      /\ UNCHANGED << definitionVars, iteration, batch, thrown, outcome >>
      /\ pc' = IF pc = "race" THEN "woken" ELSE pc
  BY DEF EndNode, InProcess, TypeOK
<1>2. \A m \in Nodes : status'[m] = IF m = n THEN end ELSE status[m]
  BY DEF EndNode, TypeOK
<1>3. EndsAreFinal
  BY <1>1, <1>2 DEF EndsAreFinal, IsTerminal, Terminal, Busy
<1>4. \A m \in Nodes : deps(m)' = deps(m) /\ deps(m) \subseteq Nodes
  BY <1>1, PipelineAssumption DEF TypeOK, deps, Definitions, definitionVars
<1> DEFINE Woken == {m \in Nodes : /\ n \in deps(m)
                                   /\ m \in executeNodes
                                   /\ ~IsTerminal(m)
                                   /\ m \notin inFlight
                                   /\ \A d \in deps(m) : IsTerminal(d) \/ d = n}
<1>5. readyQueue' = readyQueue \cup Woken
  BY DEF EndNode, buildDependentsMap, deps
<1>6. TypeOK'
  <2>1. IsFiniteSet(inFlight)
    <3>1. inFlight \subseteq Nodes
      BY DEF TypeOK
    <3> QED
      BY <3>1, PipelineAssumption, FS_Subset
  <2>2. Cardinality(inFlight') <= MaxParallel
    <3>1. Cardinality(inFlight') = Cardinality(inFlight) - 1
      BY <1>1, <2>1, FS_RemoveElement
    <3>2. Cardinality(inFlight) \in Nat /\ Cardinality(inFlight) <= MaxParallel
      BY <2>1, FS_CardinalityType DEF TypeOK
    <3> QED
      BY <3>1, <3>2, PipelineAssumption
  <2>3. status' \in [Nodes -> {"pending"} \cup Busy \cup Terminal]
    BY DEF EndNode, TypeOK, Terminal
  <2> QED
    BY <1>1, <1>5, <2>2, <2>3 DEF TypeOK, definitionVars
<1>7. UnselectedAreSkipped' /\ InFlightHasBegun' /\ BusyIsInFlight'
  BY <1>1, <1>2 DEF UnselectedAreSkipped, InFlightHasBegun, BusyIsInFlight, TypeOK,
                    definitionVars, Busy
<1>8. StartsAfterDependencies'
  BY <1>1, <1>2, <1>3, StartsPreserved
<1>9. QueueIsReady'
  <2> SUFFICES ASSUME NEW q \in readyQueue' PROVE status'[q] = "pending" /\ isNodeReady(q)'
    BY DEF QueueIsReady
  <2>1. q \in Nodes /\ q \in executeNodes
    BY <1>5 DEF TypeOK
  <2>2. /\ status[q] = "pending" /\ q # n /\ q \notin inFlight
        /\ \A d \in deps(q) : IsTerminal(d) \/ d = n
    <3>1. CASE q \in readyQueue
      BY <1>1, <3>1 DEF QueueIsReady, isNodeReady, DepsTerminal
    <3>2. CASE q \in Woken
      BY <1>1, <2>1, <3>2 DEF BusyIsInFlight, IsTerminal, TypeOK
    <3> QED
      BY <1>5, <3>1, <3>2
  <2> QED
    BY <1>1, <1>2, <1>3, <1>4, <2>1, <2>2
       DEF isNodeReady, EndsAreFinal, IsTerminal, Terminal, DepsTerminal, definitionVars
<1>10. NoLostWakeup'
  <2>1. ASSUME NEW m \in executeNodes, status'[m] = "pending", DepsTerminal(m)'
        PROVE  m \in readyQueue' \/ DepsTerminal(m)
    <3>1. m \in Nodes /\ status[m] = "pending" /\ m # n
      BY <1>2, <2>1 DEF TypeOK
    <3>2. m \notin inFlight /\ ~IsTerminal(m)
      BY <3>1 DEF InFlightHasBegun, IsTerminal, Terminal
    <3>3. \A d \in deps(m) : IsTerminal(d) \/ d = n
      BY <1>2, <1>4, <2>1, <3>1 DEF DepsTerminal, IsTerminal
    <3> QED
      BY <1>5, <3>1, <3>2, <3>3 DEF DepsTerminal
  <2>2. \A m \in executeNodes : status'[m] = "pending" => status[m] = "pending"
    BY <1>2 DEF TypeOK
  <2> QED
    BY <1>1, <1>3, <1>5, <2>1, <2>2, WakeupsPreserved
<1>11. SkipsAreCaused'
  BY <1>1, <1>2, <1>3, SkipsPreserved DEF TypeOK
<1>12. SelectionIsClosed' /\ validateDAG(pipeline)'
  BY <1>1, <1>4 DEF SelectionIsClosed, TypeOK, validateDAG, definitionVars
<1>13. ReturnsWhenDrained'
  BY <1>1, <1>3, FatalStays DEF ReturnsWhenDrained
<1> QED
  BY <1>3, <1>6, <1>7, <1>8, <1>9, <1>10, <1>11, <1>12, <1>13

LEMMA LoopThrowsStep ==
    ASSUME IInv, NEW n \in Nodes, LoopThrows(n)
    PROVE  IInv' /\ EndsAreFinal
<1> USE DEF IInv
<1>1. /\ n \in inFlight /\ status[n] \in Busy /\ n \in executeNodes
      /\ pc \in {"race", "woken", "settle", "rejected"}
      /\ thrown' = thrown \cup {n}
      /\ UNCHANGED << definitionVars, iteration, readyQueue, batch, inFlight, outcome >>
      /\ pc' = IF pc = "race" THEN "rejected" ELSE pc
  BY DEF LoopThrows, InProcess, TypeOK
<1>2. PICK left \in {"loop-iterating", "completed", "failed"} :
         status' = [status EXCEPT ![n] = left]
  BY DEF LoopThrows
<1>3. \A m \in Nodes : status'[m] = IF m = n THEN left ELSE status[m]
  BY <1>2 DEF TypeOK
<1>4. EndsAreFinal
  BY <1>1, <1>3 DEF EndsAreFinal, IsTerminal, Terminal, Busy
<1>5. TypeOK'
  BY <1>1, <1>2 DEF TypeOK, definitionVars, Busy, Terminal
<1>6. UnselectedAreSkipped' /\ InFlightHasBegun' /\ BusyIsInFlight'
  BY <1>1, <1>3 DEF UnselectedAreSkipped, InFlightHasBegun, BusyIsInFlight, TypeOK,
                    definitionVars, Busy
<1>7. StartsAfterDependencies'
  BY <1>1, <1>3, <1>4, StartsPreserved
<1>8. \A m \in Nodes : deps(m)' = deps(m) /\ deps(m) \subseteq Nodes
  BY <1>1, PipelineAssumption DEF TypeOK, deps, Definitions, definitionVars
<1>9. QueueIsReady'
  <2> SUFFICES ASSUME NEW q \in readyQueue PROVE status'[q] = "pending" /\ isNodeReady(q)'
    BY <1>1 DEF QueueIsReady
  <2>1. q \in Nodes /\ q # n /\ status'[q] = "pending" /\ isNodeReady(q)
    BY <1>1, <1>3 DEF QueueIsReady, TypeOK, isNodeReady
  <2> QED
    BY <1>1, <1>4, <1>8, <2>1
       DEF isNodeReady, EndsAreFinal, IsTerminal, Terminal, DepsTerminal, definitionVars
<1>10. NoLostWakeup'
  BY <1>1 DEF NoLostWakeup
<1>11. SkipsAreCaused'
  BY <1>1, <1>3, <1>4, SkipsPreserved DEF TypeOK
<1>12. SelectionIsClosed' /\ validateDAG(pipeline)'
  BY <1>1, <1>8 DEF SelectionIsClosed, TypeOK, validateDAG, definitionVars
<1>13. ReturnsWhenDrained'
  BY <1>1, <1>4, FatalStays DEF ReturnsWhenDrained
<1> QED
  BY <1>4, <1>5, <1>6, <1>7, <1>9, <1>10, <1>11, <1>12, <1>13

(* A step that changes no status and takes nothing out of flight that is    *)
(* still at work.                                                           *)
LEMMA QuietKeeps ==
    ASSUME IInv, TypeOK', ReturnsWhenDrained',
           UNCHANGED << definitionVars, status, readyQueue, thrown >>,
           inFlight' \subseteq inFlight,
           \A m \in inFlight \ inFlight' : IsTerminal(m)
    PROVE  IInv' /\ EndsAreFinal
<1> USE DEF IInv
<1>1. EndsAreFinal
  BY DEF EndsAreFinal
<1>2. \A m \in Nodes : deps(m)' = deps(m)
  BY DEF deps, definitionVars
<1>3. UnselectedAreSkipped' /\ InFlightHasBegun' /\ BusyIsInFlight'
  BY DEF UnselectedAreSkipped, InFlightHasBegun, BusyIsInFlight, IsTerminal, Terminal, Busy,
         definitionVars
<1>4. StartsAfterDependencies' /\ SkipsAreCaused' /\ NoLostWakeup'
  <2>1. \A m \in Nodes : DepsTerminal(m)' => DepsTerminal(m)
    BY <1>2 DEF DepsTerminal, IsTerminal
  <2>2. \A m \in executeNodes : m \in Nodes
    BY DEF TypeOK
  <2> QED
    BY <1>1, <2>1, <2>2, StartsPreserved, SkipsPreserved, WakeupsPreserved
<1>5. QueueIsReady'
  BY DEF QueueIsReady, isNodeReady, DepsTerminal, IsTerminal, deps, definitionVars
<1>6. SelectionIsClosed' /\ validateDAG(pipeline)'
  BY <1>2 DEF SelectionIsClosed, TypeOK, validateDAG, definitionVars
<1> QED
  BY <1>1, <1>3, <1>4, <1>5, <1>6

LEMMA QuietSteps ==
    ASSUME IInv,
           \/ EndPass \/ StartPass \/ Finish
           \/ \E n \in Nodes : NextIteration(n)
           \/ UNCHANGED vars
    PROVE  IInv' /\ EndsAreFinal
<1> USE DEF IInv
<1>1. CASE EndPass
  <2>1. /\ inFlight' \subseteq inFlight
        /\ \A m \in inFlight \ inFlight' : IsTerminal(m)
        /\ thrown \subseteq inFlight'
    BY <1>1 DEF EndPass, Returned, TypeOK
  <2>2. /\ Cardinality(inFlight') <= MaxParallel
    <3>1. IsFiniteSet(inFlight)
      <4>1. inFlight \subseteq Nodes
        BY DEF TypeOK
      <4> QED
        BY <4>1, PipelineAssumption, FS_Subset
    <3>2. /\ Cardinality(inFlight') <= Cardinality(inFlight)
          /\ Cardinality(inFlight) \in Nat /\ Cardinality(inFlight') \in Nat
      BY <2>1, <3>1, FS_Subset, FS_CardinalityType
    <3> QED
      BY <3>2, PipelineAssumption DEF TypeOK
  <2>3. /\ UNCHANGED << definitionVars, status, iteration, readyQueue, thrown, outcome >>
        /\ batch' = {}
    BY <1>1 DEF EndPass
  <2>4. pc' \in {"rejected", "settle", "race", "woken"} /\ (pc' = "settle" => outcome = "failed")
    BY <1>1 DEF EndPass, TypeOK
  <2>5. TypeOK'
    BY <2>1, <2>2, <2>3, <2>4 DEF TypeOK, definitionVars
  <2>6. ReturnsWhenDrained'
    <3>1. pc = "pass"
      BY <1>1 DEF EndPass
    <3>2. FatalCondition' <=> FatalCondition
      BY <2>3 DEF FatalCondition, Unevaluable, HasCondition, deps, definitionVars
    <3> QED
      BY <2>3, <2>4, <3>1, <3>2 DEF ReturnsWhenDrained
  <2> QED
    BY <2>1, <2>3, <2>5, <2>6, QuietKeeps
<1>2. CASE StartPass
  <2>1. TypeOK'
    BY <1>2 DEF StartPass, TypeOK, definitionVars
  <2>2. ReturnsWhenDrained'
    BY <1>2 DEF StartPass, ReturnsWhenDrained, FatalCondition, Unevaluable, HasCondition, deps,
                definitionVars
  <2> QED
    BY <1>2, <2>1, <2>2, QuietKeeps DEF StartPass
<1>3. CASE Finish
  <2>1. TypeOK'
    BY <1>3 DEF Finish, TypeOK, definitionVars
  <2>2. ReturnsWhenDrained'
    <3>1. FatalCondition' <=> FatalCondition
      BY <1>3 DEF Finish, FatalCondition, Unevaluable, HasCondition, deps, definitionVars
    <3>2. pc' = "done" /\ UNCHANGED << readyQueue, inFlight >>
      BY <1>3 DEF Finish
    <3>3. (readyQueue = {} /\ inFlight = {}) \/ FatalCondition
      BY <1>3 DEF Finish, ReturnsWhenDrained
    <3> QED
      BY <3>1, <3>2, <3>3 DEF ReturnsWhenDrained
  <2> QED
    BY <1>3, <2>1, <2>2, QuietKeeps DEF Finish
<1>4. CASE \E n \in Nodes : NextIteration(n)
  <2>1. TypeOK'
    BY <1>4 DEF NextIteration, TypeOK, definitionVars
  <2>2. ReturnsWhenDrained'
    BY <1>4 DEF NextIteration, ReturnsWhenDrained, FatalCondition, Unevaluable, HasCondition, deps,
                definitionVars
  <2> QED
    BY <1>4, <2>1, <2>2, QuietKeeps DEF NextIteration
<1>5. CASE UNCHANGED vars
  <2>1. TypeOK'
    BY <1>5 DEF vars, TypeOK
  <2>2. ReturnsWhenDrained'
    BY <1>5 DEF vars, ReturnsWhenDrained, FatalCondition, Unevaluable, HasCondition, deps
  <2> QED
    BY <1>5, <2>1, <2>2, QuietKeeps DEF vars, definitionVars
<1> QED
  BY <1>1, <1>2, <1>3, <1>4, <1>5

LEMMA Step ==
    ASSUME IInv, [Next]_vars
    PROVE  IInv' /\ EndsAreFinal
<1>1. ASSUME NEW n \in Nodes, NodeEnds(n) \/ LoopEnds(n)
      PROVE  \E end \in {"completed", "failed"} : EndNode(n, end)
  BY <1>1 DEF NodeEnds, LoopEnds
<1> QED
  BY <1>1, SkipBlockedStep, FailConditionStep, SkipByConditionStep, StartNodeStep, EndNodeStep,
     LoopThrowsStep, QuietSteps DEF Next

-----------------------------------------------------------------------------
(* The initial states.                                                      *)

(* Whatever node a rerun starts from, what its nodes depend on is executed  *)
(* or hydrated.                                                             *)
LEMMA SelectionCloses ==
    ASSUME pipeline \in Pipelines,
           SelectAll \/ \E n \in Nodes, hydrate \in BOOLEAN : SelectFrom(n, hydrate)
    PROVE  /\ executeNodes \in SUBSET Nodes
           /\ hydratedNodes \in SUBSET (Nodes \ executeNodes)
           /\ resumes \in BOOLEAN
           /\ SelectionIsClosed
<1>1. pipeline.depends_on \in [Nodes -> SUBSET Nodes]
  BY PipelineAssumption DEF Definitions
<1>2. \A n \in Nodes : deps(n) \in SUBSET Nodes
  BY <1>1 DEF deps
<1>3. CASE SelectAll
  BY <1>2, <1>3 DEF SelectAll, SelectionIsClosed
<1>4. ASSUME NEW n \in Nodes, NEW hydrate \in BOOLEAN, SelectFrom(n, hydrate)
      PROVE  /\ executeNodes \in SUBSET Nodes
             /\ hydratedNodes \in SUBSET (Nodes \ executeNodes)
             /\ resumes \in BOOLEAN
             /\ SelectionIsClosed
  <2> DEFINE frontier == {n} \cup collectDescendants(pipeline, n)
             before == IF hydrate THEN collectAncestors(pipeline, n) ELSE {}
  <2>1. /\ executeNodes = (frontier \cup UNION {collectAncestors(pipeline, m) : m \in frontier})
                             \ before
        /\ hydratedNodes = before
        /\ resumes = hydrate
    BY <1>4 DEF SelectFrom
  <2>2. \A m \in Nodes :
           /\ collectAncestors(pipeline, m) \subseteq Nodes
           /\ deps(m) \subseteq collectAncestors(pipeline, m)
           /\ \A a \in collectAncestors(pipeline, m) :
                 deps(a) \subseteq collectAncestors(pipeline, m)
    BY <1>1, ReachableIsClosed DEF collectAncestors, deps
  <2>3. frontier \subseteq Nodes
    BY DEF collectDescendants, Reachable
  <2>4. executeNodes \in SUBSET Nodes /\ hydratedNodes \in SUBSET (Nodes \ executeNodes)
    BY <2>1, <2>2, <2>3
  <2>5. SelectionIsClosed
    <3> SUFFICES ASSUME NEW m \in executeNodes
                 PROVE  deps(m) \subseteq executeNodes \cup hydratedNodes
      BY DEF SelectionIsClosed
    <3>1. PICK k \in frontier : deps(m) \subseteq collectAncestors(pipeline, k)
      BY <2>1, <2>2, <2>3
    <3> QED
      BY <2>1, <3>1
  <2> QED
    BY <2>1, <2>4, <2>5
<1> QED
  BY <1>3, <1>4

LEMMA InitIInv ==
    ASSUME Init
    PROVE  IInv
<1>1. /\ executeNodes \in SUBSET Nodes
      /\ hydratedNodes \in SUBSET (Nodes \ executeNodes)
      /\ resumes \in BOOLEAN
      /\ SelectionIsClosed
  BY SelectionCloses DEF Init
<1>2. /\ pipeline \in Pipelines /\ validateDAG(pipeline)
      /\ status = [n \in Nodes |-> IF n \in executeNodes THEN "pending" ELSE "skipped"]
      /\ iteration = [n \in Nodes |-> 0]
      /\ inFlight = {} /\ thrown = {}
      /\ readyQueue = {n \in Nodes : isNodeReady(n)}
      /\ batch = readyQueue /\ pc = "pass" /\ outcome = "running"
  BY DEF Init
<1>3. \A n \in Nodes : IF n \in executeNodes THEN status[n] = "pending" ELSE status[n] = "skipped"
  BY <1>2
<1>4. TypeOK
  <2>1. Cardinality(inFlight) <= MaxParallel
    BY <1>2, FS_EmptySet, PipelineAssumption
  <2>2. readyQueue \in SUBSET executeNodes
    BY <1>2 DEF isNodeReady
  <2>3. status \in [Nodes -> {"pending"} \cup Busy \cup Terminal]
    BY <1>2 DEF Terminal
  <2>4. iteration \in [Nodes -> Nat]
    BY <1>2
  <2> QED
    BY <1>1, <1>2, <2>1, <2>2, <2>3, <2>4 DEF TypeOK
<1>5. UnselectedAreSkipped /\ InFlightHasBegun /\ BusyIsInFlight /\ StartsAfterDependencies
  BY <1>2, <1>3 DEF UnselectedAreSkipped, InFlightHasBegun, BusyIsInFlight,
                    StartsAfterDependencies, Busy
<1>6. QueueIsReady
  BY <1>2, <1>3 DEF QueueIsReady, isNodeReady
<1>7. NoLostWakeup
  BY <1>1, <1>2 DEF NoLostWakeup, isNodeReady, IsTerminal, Terminal
<1>8. SkipsAreCaused
  BY <1>1, <1>3 DEF SkipsAreCaused
<1>9. ReturnsWhenDrained
  BY <1>2 DEF ReturnsWhenDrained
<1> QED
  BY <1>1, <1>2, <1>4, <1>5, <1>6, <1>7, <1>8, <1>9 DEF IInv

-----------------------------------------------------------------------------
(* The theorems.                                                            *)

(* The inductive invariant holds in every state of execute().               *)
THEOREM InvariantHolds == Spec => []IInv
<1>1. Init => IInv
  BY InitIInv
<1>2. IInv /\ [Next]_vars => IInv'
  BY Step
<1> QED
  BY <1>1, <1>2, PTL DEF Spec

(* Every variable of execute() keeps its type, and no more nodes are in     *)
(* flight than --max-parallel allows (the bound of the drain loop).         *)
THEOREM TypeCorrect == Spec => []TypeOK
<1>1. IInv => TypeOK
  BY DEF IInv
<1> QED
  BY <1>1, InvariantHolds, PTL

(* The queue never holds a node that is in flight, has ended or still waits *)
(* for a dependency, however it was enqueued, so processNode takes none     *)
(* twice; and a node whose dependencies have all ended is queued or was     *)
(* dealt with, up to the exceptions NoLostWakeup names.                     *)
THEOREM QueueStaysExact == Spec => []QueueIsExact
<1>1. IInv => QueueIsExact
  BY DEF IInv, QueueIsExact
<1> QED
  BY <1>1, InvariantHolds, PTL

(* When execute() returns without a fatal condition, and the pipeline has   *)
(* no else nodes, every node it was to execute has ended: were one left, an *)
(* unfinished node all of whose dependencies have ended would not have been *)
(* queued.                                                                  *)
THEOREM AllNodesEnd == Spec => []EveryNodeEnds
<1>1. ASSUME IInv PROVE EveryNodeEnds
  <2> SUFFICES ASSUME pc = "done", ~FatalCondition, \A n \in Nodes : elseOf(n) = NoNode,
                      NEW left \in executeNodes, ~IsTerminal(left)
               PROVE  FALSE
    BY DEF EveryNodeEnds
  <2> DEFINE S == {n \in executeNodes : ~IsTerminal(n)}
  <2>1. S \in SUBSET Nodes /\ S # {}
    BY <1>1 DEF IInv, TypeOK
  <2>2. PICK n \in S : deps(n) \cap S = {}
    <3>1. \A T \in SUBSET Nodes :
             T # {} => \E n \in T : (pipeline.depends_on[n] \cup {pipeline.else_node[n]}) \cap T = {}
      BY <1>1 DEF IInv, validateDAG
    <3>2. \E n \in S : (pipeline.depends_on[n] \cup {pipeline.else_node[n]}) \cap S = {}
      BY <2>1, <3>1
    <3> QED
      BY <3>2 DEF deps
  <2>3. readyQueue = {} /\ inFlight = {} /\ thrown = {}
    BY <1>1 DEF IInv, ReturnsWhenDrained, TypeOK
  <2>4. deps(n) \subseteq Nodes
    BY <1>1, <2>1, PipelineAssumption DEF IInv, TypeOK, deps, Definitions
  <2>5. DepsTerminal(n)
    <3> SUFFICES ASSUME NEW d \in deps(n) PROVE IsTerminal(d)
      BY DEF DepsTerminal
    <3>1. CASE d \in executeNodes
      BY <2>2, <3>1
    <3>2. CASE d \notin executeNodes
      BY <1>1, <2>4, <3>2 DEF IInv, UnselectedAreSkipped, IsTerminal, Terminal
    <3> QED
      BY <3>1, <3>2
  <2>6. status[n] = "pending"
    BY <1>1, <2>1, <2>3 DEF IInv, TypeOK, BusyIsInFlight, IsTerminal
  <2>7. ~BehindElse(n)
    BY <2>4 DEF BehindElse
  <2> QED
    BY <1>1, <2>3, <2>5, <2>6, <2>7 DEF IInv, NoLostWakeup
<1> QED
  BY <1>1, InvariantHolds, PTL

(* For every graph and every selection of a rerun: a node that is started by *)
(* processNode has only successful dependencies, no node is skipped without *)
(* a cause within the run, and none is left over at the end.                *)
THEOREM NodesAreInOrder == Spec => []NodesRunInOrder
<1>1. IInv => StartsAfterDependencies /\ SkipsAreCaused
  BY DEF IInv
<1> QED
  BY <1>1, InvariantHolds, AllNodesEnd, PTL DEF NodesRunInOrder

(* The end of a node is final: no cascade reaches a node that ended or is   *)
(* at work, and no node is taken again.                                     *)
THEOREM EndsStayFinal == Spec => TerminalIsFinal
<1>1. IInv /\ [Next]_vars => [\A n \in Nodes : IsTerminal(n) => status'[n] = status[n]]_vars
  BY Step DEF EndsAreFinal
<1> QED
  BY <1>1, InvariantHolds, PTL DEF Spec, TerminalIsFinal

-----------------------------------------------------------------------------
(* The executor implements DagRun: every step of execute() gives nodes a    *)
(* fate the promise allows, or leaves their fates alone.                    *)

Progress == [n \in Nodes |-> ProgressOf(n)]

PromiseStep == Promise!Next \/ UNCHANGED << pipeline.depends_on, Progress >>

-----------------------------------------------------------------------------
(* DagRun counts as FiniteSets does.                                        *)
LEMMA SameCount == ASSUME NEW S PROVE Promise!Cardinality(S) = Cardinality(S)
BY DEF Promise!Cardinality, Cardinality

(* A node whose turn has come in the executor has its turn in the promise.  *)
LEMMA TurnHasCome ==
    ASSUME IInv, NEW n \in Nodes, status[n] = "pending", DepsTerminal(n), ~Blocked(n)
    PROVE  Promise!ItsTurn(n)
<1>1. ProgressOf(n) = "waiting"
  BY DEF ProgressOf
<1>2. ASSUME NEW d \in deps(n)
      PROVE  d \in Nodes /\ ProgressOf(d) = "passed"
  <2>1. d \in Nodes
    BY PipelineAssumption DEF IInv, TypeOK, deps, Definitions
  <2>2. status[d] = "completed" \/ (status[d] = "skipped" /\ d \in hydratedNodes)
    BY <1>2 DEF DepsTerminal, IsTerminal, Terminal, Blocked, Blocks
  <2> QED
    BY <2>1, <2>2 DEF ProgressOf, Busy
<1> QED
  BY <1>1, <1>2 DEF Promise!ItsTurn, Promise!Passed, deps

(* What holds a node back is lost in the promise, too: a hydrated node that *)
(* is recorded as skipped never does.                                       *)
LEMMA BlockerIsLost ==
    ASSUME IInv, NEW d \in Nodes, Blocks(d)
    PROVE  Promise!Lost(d)
<1>1. d \in hydratedNodes => status[d] = "skipped"
  BY DEF IInv, UnselectedAreSkipped, TypeOK
<1>2. status[d] \in {"failed", "skipped"} /\ d \notin hydratedNodes
  BY <1>1 DEF Blocks
<1> QED
  BY <1>2 DEF Promise!Lost, ProgressOf, Busy

(* One node changes its fate.                                               *)
LEMMA OneFate ==
    ASSUME IInv, NEW n \in executeNodes, UNCHANGED definitionVars,
           NEW s \in {"pending"} \cup Busy \cup Terminal, status' = [status EXCEPT ![n] = s]
    PROVE  Progress' = [Progress EXCEPT ![n] =
               IF s = "pending" THEN "waiting" ELSE IF s \in Busy THEN "working"
               ELSE IF s = "completed" THEN "passed" ELSE s]
<1>1. n \in Nodes /\ n \notin hydratedNodes
  BY DEF IInv, TypeOK
<1>2. \A m \in Nodes : status'[m] = IF m = n THEN s ELSE status[m]
  BY <1>1 DEF IInv, TypeOK
<1>3. \A m \in Nodes \ {n} : ProgressOf(m)' = ProgressOf(m)
  BY <1>2 DEF ProgressOf, definitionVars
<1>4. ProgressOf(n)' = IF s = "pending" THEN "waiting" ELSE IF s \in Busy THEN "working"
                       ELSE IF s = "completed" THEN "passed" ELSE s
  BY <1>1, <1>2 DEF ProgressOf, definitionVars
<1> QED
  BY <1>1, <1>3, <1>4 DEF Progress

-----------------------------------------------------------------------------
(* The actions.                                                             *)

LEMMA SkipGivesUp ==
    ASSUME IInv, NEW n \in Nodes, SkipBlocked(n) \/ SkipByCondition(n)
    PROVE  PromiseStep
<1>1. Take(n)
  BY DEF SkipBlocked, SkipByCondition
<1>2. PICK lost \in {{n}, {n} \cup Cascade(n)} : Skip(lost)
  BY DEF SkipBlocked, SkipByCondition
<1>3. lost \in SUBSET Nodes /\ lost \in SUBSET ({n} \cup Cascade(n))
  BY <1>2, CascadeIsClosed
<1>4. /\ lost \subseteq executeNodes
      /\ \A m \in lost : status[m] = "pending"
      /\ \A m \in Nodes : status'[m] = IF m \in lost THEN "skipped" ELSE status[m]
  BY <1>1, <1>2, <1>3, SkipFacts
<1>5. UNCHANGED definitionVars
  BY <1>1 DEF Take
<1>6. ASSUME NEW m \in lost
      PROVE  /\ Progress[m] = "waiting"
             /\ Promise!ItsTurn(m) \/ \E d \in deps(m) : d \in lost \/ Promise!Lost(d)
  <2>1. Progress[m] = "waiting"
    BY <1>3, <1>4, <1>6 DEF Progress, ProgressOf
  <2>2. CASE m = n /\ Blocked(n)
    <3>1. PICK d \in deps(n) : Blocks(d)
      BY <2>2 DEF Blocked
    <3>2. d \in Nodes
      BY PipelineAssumption DEF IInv, TypeOK, deps, Definitions
    <3> QED
      BY <2>1, <2>2, <3>1, <3>2, BlockerIsLost
  <2>3. CASE m = n /\ ~Blocked(n)
    BY <1>1, <2>1, <2>3, TakeFacts, TurnHasCome
  <2>4. CASE m # n
    <3>1. lost = {n} \cup Cascade(n) /\ m \in Cascade(n)
      BY <1>2, <1>6, <2>4
    <3>2. PICK c \in lost : Follows(c, m)
      BY <3>1, CascadeIsCaused
    <3> QED
      BY <2>1, <3>2 DEF Follows
  <2> QED
    BY <2>2, <2>3, <2>4, <2>1
<1>7. Progress' = [m \in Nodes |-> IF m \in lost THEN "skipped" ELSE Progress[m]]
  <2>1. \A m \in lost : m \notin hydratedNodes
    BY <1>4 DEF IInv, TypeOK
  <2> QED
    BY <1>4, <1>5, <2>1 DEF Progress, ProgressOf, definitionVars, Busy
<1>8. Promise!GiveUp(lost)
  BY <1>6, <1>7 DEF Promise!GiveUp, Progress, deps
<1> QED
  BY <1>3, <1>5, <1>8 DEF PromiseStep, Promise!Next, definitionVars

LEMMA FailConditionRefuses ==
    ASSUME IInv, NEW n \in Nodes, FailCondition(n)
    PROVE  PromiseStep
<1>1. Take(n) /\ ~Blocked(n) /\ status' = [status EXCEPT ![n] = "failed"]
  BY DEF FailCondition
<1>2. /\ n \in executeNodes /\ status[n] = "pending" /\ DepsTerminal(n)
      /\ UNCHANGED definitionVars
  BY <1>1, TakeFacts
<1>3. Promise!ItsTurn(n)
  BY <1>1, <1>2, TurnHasCome
<1>4. Progress' = [Progress EXCEPT ![n] = "failed"]
  BY <1>1, <1>2, OneFate DEF Terminal, Busy
<1> QED
  BY <1>2, <1>3, <1>4 DEF PromiseStep, Promise!Next, Promise!Refuse, Progress, definitionVars

LEMMA StartNodeStarts ==
    ASSUME IInv, NEW n \in Nodes, StartNode(n)
    PROVE  PromiseStep
<1>1. Take(n) /\ ~Blocked(n)
  BY DEF StartNode
<1>2. /\ n \in executeNodes /\ status[n] = "pending" /\ DepsTerminal(n)
      /\ UNCHANGED definitionVars
  BY <1>1, TakeFacts
<1>3. Promise!ItsTurn(n)
  BY <1>1, <1>2, TurnHasCome
<1>4. PICK s \in Busy : status' = [status EXCEPT ![n] = s]
  BY DEF StartNode, Busy
<1>5. Progress' = [Progress EXCEPT ![n] = "working"]
  BY <1>2, <1>4, OneFate DEF Busy
<1>6. Cardinality(Promise!Working) < MaxParallel
  <2>1. Promise!Working \subseteq inFlight
    BY DEF Promise!Working, ProgressOf, IInv, TypeOK, BusyIsInFlight, Terminal
  <2>2. IsFiniteSet(inFlight)
    <3>1. inFlight \subseteq Nodes
      BY DEF IInv, TypeOK
    <3> QED
      BY <3>1, PipelineAssumption, FS_Subset
  <2>3. /\ Cardinality(Promise!Working) <= Cardinality(inFlight)
        /\ Cardinality(Promise!Working) \in Nat /\ Cardinality(inFlight) \in Nat
    BY <2>1, <2>2, FS_Subset, FS_CardinalityType
  <2> QED
    BY <1>1, <2>3, PipelineAssumption DEF Take
<1> QED
  <2>1. Promise!Start(n)
    BY <1>3, <1>5, <1>6, SameCount DEF Promise!Start, Progress
  <2>2. UNCHANGED pipeline.depends_on
    BY <1>2 DEF definitionVars
  <2> QED
    BY <2>1, <2>2 DEF PromiseStep, Promise!Next

(* A node at work ends, or, where a loop throws, stays as if at work.       *)
LEMMA WorkEnds ==
    ASSUME IInv, NEW n \in Nodes, NEW s \in {"loop-iterating", "completed", "failed"},
           InProcess(n), UNCHANGED definitionVars, status' = [status EXCEPT ![n] = s]
    PROVE  PromiseStep
<1>1. n \in executeNodes /\ status[n] \in Busy
  BY DEF InProcess, IInv, TypeOK
<1>2. Progress[n] = "working"
  BY <1>1 DEF Progress, ProgressOf, Busy
<1>3. CASE s = "loop-iterating"
  <2>1. Progress' = [Progress EXCEPT ![n] = "working"]
    BY <1>1, <1>3, OneFate DEF Busy
  <2>2. Progress' = Progress
    BY <1>2, <2>1 DEF Progress
  <2> QED
    BY <2>2 DEF PromiseStep, definitionVars
<1>4. CASE s \in {"completed", "failed"}
  <2>1. PICK fate \in {"passed", "failed"} : Progress' = [Progress EXCEPT ![n] = fate]
    BY <1>1, <1>4, OneFate DEF Busy, Terminal
  <2>2. Promise!Finish(n)
    BY <1>2, <2>1 DEF Promise!Finish, Progress
  <2> QED
    BY <2>2 DEF PromiseStep, Promise!Next, definitionVars
<1> QED
  BY <1>3, <1>4

LEMMA QuietStutters ==
    ASSUME UNCHANGED << definitionVars, status >>
    PROVE  PromiseStep
BY DEF PromiseStep, Progress, ProgressOf, definitionVars

-----------------------------------------------------------------------------
(* The executor implements the promise: it starts a node only when all its  *)
(* dependencies have passed and a slot is free, skips one only with a       *)
(* dependency or when its turn has come, and changes no fate it has given.  *)
THEOREM ImplementsPromise == Spec => ImplementsDagRun
<1>1. ASSUME Init PROVE Promise!Init
  <2>1. pipeline.depends_on \in [Nodes -> SUBSET Nodes]
    BY <1>1, PipelineAssumption DEF Init, Definitions
  <2>2. \A n \in Nodes : ProgressOf(n) \in {"waiting", "passed", "skipped"}
    BY <1>1 DEF Init, ProgressOf, Busy
  <2> QED
    BY <2>1, <2>2 DEF Promise!Init
<1>2. ASSUME IInv, [Next]_vars PROVE PromiseStep
  <2>1. ASSUME NEW n \in Nodes, NodeEnds(n) \/ LoopEnds(n) PROVE PromiseStep
    BY <1>2, <2>1, WorkEnds DEF NodeEnds, LoopEnds, EndNode
  <2>2. ASSUME NEW n \in Nodes, LoopThrows(n) PROVE PromiseStep
    BY <1>2, <2>2, WorkEnds DEF LoopThrows
  <2>3. ASSUME NEW n \in Nodes, NextIteration(n) PROVE PromiseStep
    BY <2>3, QuietStutters DEF NextIteration
  <2>4. CASE EndPass \/ StartPass \/ Finish \/ UNCHANGED vars
    BY <2>4, QuietStutters DEF EndPass, StartPass, Finish, vars, definitionVars
  <2> QED
    BY <1>2, <2>1, <2>2, <2>3, <2>4, SkipGivesUp, FailConditionRefuses, StartNodeStarts DEF Next
<1>3. PromiseStep => [Promise!Next]_<< pipeline.depends_on, [n \in Nodes |-> ProgressOf(n)] >>
  BY DEF PromiseStep, Progress
<1> QED
  BY <1>1, <1>2, <1>3, InvariantHolds, PTL DEF Spec, ImplementsDagRun, Promise!Spec

-----------------------------------------------------------------------------
(* What a dry run foretells                                                 *)

(* A node that was started had a condition that could be evaluated and held: *)
(* its target had ended, so it still holds.                                *)
StartsWhenHolds ==
    \A n \in Nodes : status[n] \in Busy \cup {"completed"} => ~Unevaluable(n) /\ Holds(n)

(* Of a node whose dependencies have ended, the condition stays as it is.   *)
LEMMA HoldsStays ==
    ASSUME IInv, UNCHANGED definitionVars, EndsAreFinal, NEW n \in Nodes,
           ~Unevaluable(n), Holds(n), DepsTerminal(n)
    PROVE  ~Unevaluable(n)' /\ Holds(n)'
<1>1. deps(n)' = deps(n) /\ deps(n) \subseteq Nodes
  BY PipelineAssumption DEF IInv, TypeOK, deps, Definitions, definitionVars
<1>2. \A d \in deps(n) : status'[d] = status[d]
  BY <1>1 DEF EndsAreFinal, DepsTerminal
<1> QED
  BY <1>1, <1>2 DEF Unevaluable, Holds, HasCondition, definitionVars

LEMMA HoldsStep ==
    ASSUME IInv, StartsWhenHolds, [Next]_vars
    PROVE  StartsWhenHolds'
<1>1. EndsAreFinal
  BY Step
<1>2. UNCHANGED definitionVars
  BY DEF Next, Take, SkipBlocked, FailCondition, SkipByCondition, StartNode, NodeEnds, LoopEnds,
         EndNode, NextIteration, LoopThrows, EndPass, StartPass, Finish, vars, definitionVars
<1>3. \A n \in Nodes : status'[n] \in Busy \cup {"completed"} =>
          \/ status[n] \in Busy \cup {"completed"}
          \/ DepsTerminal(n) /\ ~Unevaluable(n) /\ Holds(n)
  <2>1. ASSUME NEW n \in Nodes, StartNode(n)
        PROVE  /\ DepsTerminal(n) /\ ~Unevaluable(n) /\ Holds(n)
               /\ \A m \in Nodes \ {n} : status'[m] = status[m]
    <3>1. Take(n)
      BY <2>1 DEF StartNode
    <3>2. DepsTerminal(n)
      BY <3>1, TakeFacts
    <3>3. \E s \in Busy : status' = [status EXCEPT ![n] = s]
      BY <2>1 DEF StartNode, Busy
    <3> QED
      BY <2>1, <3>2, <3>3 DEF StartNode, IInv, TypeOK
  <2>2. ASSUME NEW n \in Nodes, SkipBlocked(n) \/ FailCondition(n) \/ SkipByCondition(n)
        PROVE  \A m \in Nodes : status'[m] = status[m] \/ status'[m] \in {"skipped", "failed"}
    BY <2>2 DEF SkipBlocked, FailCondition, SkipByCondition, Skip, IInv, TypeOK
  <2>3. ASSUME NEW n \in Nodes, NodeEnds(n) \/ LoopEnds(n) \/ LoopThrows(n)
        PROVE  status[n] \in Busy /\ \A m \in Nodes \ {n} : status'[m] = status[m]
    BY <2>3 DEF NodeEnds, LoopEnds, EndNode, LoopThrows, InProcess, IInv, TypeOK
  <2>4. CASE \/ \E n \in Nodes : NextIteration(n)
             \/ EndPass \/ StartPass \/ Finish \/ UNCHANGED vars
    BY <2>4 DEF NextIteration, EndPass, StartPass, Finish, vars
  <2> QED
    BY <2>1, <2>2, <2>3, <2>4 DEF Next, Busy
<1> SUFFICES ASSUME NEW n \in Nodes, status'[n] \in Busy \cup {"completed"}
             PROVE  ~Unevaluable(n)' /\ Holds(n)'
  BY DEF StartsWhenHolds
<1>4. DepsTerminal(n) /\ ~Unevaluable(n) /\ Holds(n)
  BY <1>3 DEF StartsWhenHolds, IInv, StartsAfterDependencies, DepsTerminal
<1> QED
  BY <1>1, <1>2, <1>4, HoldsStays

(* What is reachable from a node is in every set that is closed.             *)
LEMMA ReachableIsLeast ==
    ASSUME NEW edges \in [Nodes -> SUBSET Nodes], NEW n \in Nodes, NEW S \in SUBSET Nodes,
           edges[n] \subseteq S, \A m \in S : edges[m] \subseteq S
    PROVE  Reachable(edges, n) \subseteq S
BY DEF Reachable

(* The end of a run in which nothing failed and nothing was hydrated.        *)
CleanEnd ==
    pc = "done" /\ hydratedNodes = {} /\ \A n \in Nodes : status[n] # "failed"

(* Then a node ended without completing only through a false condition, its  *)
(* own or that of an ancestor, and those wanted a failure.                  *)
LEMMA CompletedAreNotSkipped ==
    ASSUME IInv, StartsWhenHolds, CleanEnd, NEW n \in executeNodes, status[n] = "completed"
    PROVE  ({n} \cup collectAncestors(pipeline, n)) \cap buildDryRunResult.skips = {}
<1> DEFINE C == {m \in Nodes : status[m] = "completed"}
<1>0. pipeline.depends_on \in [Nodes -> SUBSET Nodes] /\ n \in Nodes
  BY PipelineAssumption DEF IInv, TypeOK, Definitions
<1>1. \A m \in C : deps(m) \subseteq C
  <2> SUFFICES ASSUME NEW m \in C, NEW d \in deps(m) PROVE status[d] = "completed" /\ d \in Nodes
    OBVIOUS
  <2>1. d \in Nodes
    BY <1>0 DEF deps
  <2>2. IsTerminal(d) /\ ~Blocks(d)
    BY DEF IInv, StartsAfterDependencies
  <2> QED
    BY <2>1, <2>2 DEF IsTerminal, Terminal, Blocks, CleanEnd
<1>2. collectAncestors(pipeline, n) \subseteq C
  BY <1>0, <1>1, ReachableIsLeast DEF collectAncestors, deps
<1>3. ASSUME NEW m \in C PROVE m \notin buildDryRunResult.skips
  <2> SUFFICES ASSUME HasCondition(m), ~Unevaluable(m), pipeline.condition[m].wanted # "completed"
               PROVE  FALSE
    BY DEF buildDryRunResult
  <2>1. pipeline.condition[m] \in Conditions
    BY PipelineAssumption DEF IInv, TypeOK, Definitions, HasCondition
  <2>2. pipeline.condition[m].wanted = "failed" /\ pipeline.condition[m].target \in Nodes
    BY <2>1 DEF Conditions
  <2>3. status[pipeline.condition[m].target] = "failed"
    BY <2>2 DEF StartsWhenHolds, Holds
  <2> QED
    BY <2>2, <2>3 DEF CleanEnd
<1> QED
  BY <1>0, <1>2, <1>3

LEMMA OthersAreBehindSkips ==
    ASSUME IInv, CleanEnd, NEW n \in executeNodes,
           ({n} \cup collectAncestors(pipeline, n)) \cap buildDryRunResult.skips = {}
    PROVE  status[n] = "completed"
<1> DEFINE B == {m \in executeNodes :
                    /\ status[m] # "completed"
                    /\ ({m} \cup collectAncestors(pipeline, m)) \cap buildDryRunResult.skips = {}}
<1> SUFFICES ASSUME B # {} PROVE FALSE
  OBVIOUS
<1>0. pipeline.depends_on \in [Nodes -> SUBSET Nodes] /\ executeNodes \subseteq Nodes
  BY PipelineAssumption DEF IInv, TypeOK, Definitions
<1>1. PICK m \in B : deps(m) \cap B = {}
  <2>1. B \in SUBSET Nodes
    BY <1>0
  <2> HIDE DEF B
  <2> QED
    BY <2>1 DEF IInv, validateDAG, deps
<1>2. m \in Nodes /\ m \in executeNodes /\ status[m] # "completed"
  BY <1>0
<1>3. \A d \in deps(m) : d \in executeNodes /\ d \in Nodes
  BY <1>0, <1>2 DEF IInv, SelectionIsClosed, CleanEnd, deps
<1>4. ASSUME NEW d \in deps(m) PROVE status[d] = "completed"
  <2>1. collectAncestors(pipeline, d) \subseteq collectAncestors(pipeline, m)
        /\ d \in collectAncestors(pipeline, m)
    BY <1>0, <1>2, <1>3, ReachableIsClosed, ReachableIsLeast DEF collectAncestors, deps
  <2>2. ({d} \cup collectAncestors(pipeline, d)) \cap buildDryRunResult.skips = {}
    BY <2>1
  <2> QED
    BY <1>1, <1>3, <2>2
<1>5. DepsTerminal(m) /\ ~Blocked(m)
  BY <1>4 DEF DepsTerminal, IsTerminal, Terminal, Blocked, Blocks
<1>6. readyQueue = {} /\ inFlight = {} /\ thrown = {} /\ ~FatalCondition
  BY DEF IInv, ReturnsWhenDrained, CleanEnd, FatalCondition, TypeOK
<1>7. CASE status[m] = "pending"
  <2>1. BehindElse(m)
    BY <1>2, <1>5, <1>6, <1>7 DEF IInv, NoLostWakeup
  <2> QED
    BY <1>4, <2>1 DEF BehindElse
<1>8. CASE status[m] \in Busy
  BY <1>2, <1>6, <1>8 DEF IInv, BusyIsInFlight
<1>9. CASE status[m] = "skipped"
  <2>1. ~Unevaluable(m) /\ ~Holds(m)
    BY <1>2, <1>4, <1>9 DEF IInv, SkipsAreCaused
  <2>2. HasCondition(m) /\ pipeline.condition[m].target \in deps(m)
    BY <2>1 DEF Holds, Unevaluable
  <2>3. pipeline.condition[m].wanted # "completed"
    BY <1>4, <2>1, <2>2 DEF Holds
  <2>4. m \in buildDryRunResult.skips
    BY <1>2, <2>1, <2>2, <2>3 DEF buildDryRunResult
  <2> QED
    BY <2>4
<1> QED
  BY <1>2, <1>7, <1>8, <1>9 DEF IInv, TypeOK, Terminal, CleanEnd

(* buildDryRunResult (executor.ts) is right about the real run, for any       *)
(* pipelines, any number of conditions and else nodes in them and any order  *)
(* in which nodes end: no condition turns out fatal that it did not report,  *)
(* and when nothing fails, exactly the nodes complete that are neither       *)
(* marked as skipped by it nor behind one that is.                          *)
THEOREM DryRunsForetell == Spec => []DryRunForetells
<1>1. Init => StartsWhenHolds
  BY DEF Init, StartsWhenHolds, Busy
<1>2. IInv /\ StartsWhenHolds /\ [Next]_vars => StartsWhenHolds'
  BY HoldsStep
<1>3. IInv /\ StartsWhenHolds => DryRunForetells
  <2> SUFFICES ASSUME IInv, StartsWhenHolds PROVE DryRunForetells
    OBVIOUS
  <2>1. FatalCondition => buildDryRunResult.status = "failed"
    BY DEF FatalCondition, buildDryRunResult
  <2> QED
    BY <2>1, CompletedAreNotSkipped, OthersAreBehindSkips DEF DryRunForetells, CleanEnd
<1> QED
  BY <1>1, <1>2, <1>3, InvariantHolds, PTL DEF Spec

=============================================================================
