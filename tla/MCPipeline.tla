----------------------------- MODULE MCPipeline -----------------------------
(* Pipelines for TLC: nodes are numbered along the levels of the graph,     *)
(* which leaves every graph up to renaming. Either one node may have a      *)
(* condition, with or without an else node, or one may loop.                *)
EXTENDS Pipeline, TLC, FiniteSetsExt

CONSTANTS Iterations

Level(d) ==
    LET level[n \in Nodes] == IF d[n] = {} THEN 0 ELSE 1 + Max({level[m] : m \in d[n]})
    IN  level

Graphs ==
    {d \in [Nodes -> SUBSET Nodes] :
        /\ \A n \in Nodes : \A m \in d[n] : m < n
        /\ \A n \in Nodes : \A m \in Nodes : m < n => Level(d)[m] <= Level(d)[n]}
Only(n, x, null) == [m \in Nodes |-> IF m = n THEN x ELSE null]

(* A condition on something else than a dependency is never evaluated, so   *)
(* one such condition stands for all.                                       *)
ConditionsOf(d, n) ==
    [target : d[n], wanted : {"completed", "failed"}] \cup [target : {n}, wanted : {"completed"}]

Conditional ==
    UNION {{[depends_on |-> d,
             condition  |-> Only(n, c, NoCondition),
             else_node  |-> Only(n, e, NoNode),
             max_iterations |-> [m \in Nodes |-> 0]] :
               c \in ConditionsOf(d, n), e \in Nodes \cup {NoNode}} : d \in Graphs, n \in Nodes}

Looping ==
    {[depends_on |-> d,
      condition  |-> [m \in Nodes |-> NoCondition],
      else_node  |-> [m \in Nodes |-> NoNode],
      max_iterations |-> Only(n, Iterations, 0)] : d \in Graphs, n \in Nodes}

MCPipelines == Conditional \cup Looping

(* Test 1; fix 2 if 1 failed, else deploy 3; 4 reports on the fix.          *)
ForkedPipeline ==
    [depends_on |-> (1 :> {} @@ 2 :> {1} @@ 3 :> {1} @@ 4 :> {2}),
     condition  |-> Only(2, [target |-> 1, wanted |-> "failed"], NoCondition),
     else_node  |-> Only(2, 3, NoNode),
     max_iterations |-> [n \in Nodes |-> 0]]
MCForkedPipelines == {ForkedPipeline}
=============================================================================
