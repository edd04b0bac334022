----------------------------- MODULE IssueGraph -----------------------------
(***************************************************************************)
(* What a poll finds out about the issues it lists, from what blocks what   *)
(* (tracker/sub-issue-dag.ts): detectIssueCycles, a depth-first search with *)
(* three colours, and computeCriticalPath, which counts the issues that     *)
(* wait for an issue. planner/validator.ts calls the search for plans, and  *)
(* pipeline/dag.ts holds a copy of it.                                      *)
(*                                                                          *)
(* Both run to their end without an await and read nothing but the graph,   *)
(* so each is a state machine of its own, chosen at the start: a step for   *)
(* each neighbour looked at, call returned from, element popped. The lists  *)
(* of the code are sets here, gone through in any order; a second copy of   *)
(* an issue in them is skipped by the code.                                 *)
(***************************************************************************)
EXTENDS Naturals, Sequences, FiniteSets, SequencesExt

CONSTANTS
    GraphIssues,   \* issues a poll may list or name
    NoIssueId

ASSUME IssueGraphAssumption == NoIssueId \notin GraphIssues

VARIABLES
    analysis,   \* "cycles", "report", "reported"; "scores", "scored"
    adj,        \* adj[i]: the listed issues that block issue i
    colour,     \* colour[i]: "white", "gray" on the path, "black" left again
    path,       \* the calls of dfs under way, the first one first
    remaining,  \* remaining[i]: the neighbours the call for i has yet to look at
    parent,     \* parent[i]: the caller of dfs(i)
    cycle,      \* the cycle found, against the direction of the search
    counting,   \* the issue whose descendants are being counted
    stack, reachable,  \* the worklist of that count, and what it has met
    scores      \* scores[i], for the issues that were counted

searchVars == << colour, path, remaining, parent, cycle >>
countVars == << counting, stack, reachable, scores >>
graphVars == << analysis, adj, searchVars, countVars >>

known == DOMAIN adj

(* Blockers that the poll does not list are ignored.                        *)
localDeps(blocked_by) == [i \in DOMAIN blocked_by |-> blocked_by[i] \cap DOMAIN blocked_by]

AnalysisInit(blocked_by) ==
    /\ adj = localDeps(blocked_by)
    /\ colour = [i \in known |-> "white"] /\ path = << >>
    /\ remaining = [i \in known |-> {}] /\ parent = [i \in known |-> NoIssueId]
    /\ cycle = << >>
    /\ counting = NoIssueId /\ stack = {} /\ reachable = {} /\ scores = << >>

GraphInit ==
    /\ analysis \in {"cycles", "scores"}
    /\ \E listed \in SUBSET GraphIssues : \E blocked_by \in [listed -> SUBSET GraphIssues] :
          AnalysisInit(blocked_by)

-----------------------------------------------------------------------------
(* detectIssueCycles                                                        *)

(* The call dfs(n) begins.                                                  *)
dfs(n, before) ==
    /\ colour' = [colour EXCEPT ![n] = "gray"]
    /\ path' = Append(path, n)
    /\ remaining' = [before EXCEPT ![n] = adj[n]]

(* The loop of detectIssueCycles: the next issue that was never visited.    *)
SearchFrom(n) ==
    /\ analysis = "cycles" /\ path = << >> /\ colour[n] = "white"
    /\ dfs(n, remaining)
    /\ UNCHANGED << analysis, adj, parent, cycle, countVars >>

(* Fault: an issue seen before is taken for one on the path.                *)
WasSeen(c) == c # "white"

IsOnPath(c) == c = "gray"

(* A neighbour on the path closes a cycle, a white one is visited.          *)
LookAt(m) ==
    /\ analysis = "cycles" /\ path # << >>
    /\ m \in remaining[Last(path)]
    /\ LET n == Last(path)
           after == [remaining EXCEPT ![n] = @ \ {m}]
       IN  IF IsOnPath(colour[m])
           THEN /\ cycle' = << m, n >> /\ analysis' = "report"
                /\ UNCHANGED << colour, path, remaining, parent >>
           ELSE /\ IF colour[m] = "white"
                   THEN parent' = [parent EXCEPT ![m] = n] /\ dfs(m, after)
                   ELSE remaining' = after /\ UNCHANGED << colour, path, parent >>
                /\ UNCHANGED << analysis, cycle >>
    /\ UNCHANGED << adj, countVars >>

(* The call returns null.                                                   *)
Leave ==
    /\ analysis = "cycles" /\ path # << >> /\ remaining[Last(path)] = {}
    /\ colour' = [colour EXCEPT ![Last(path)] = "black"]
    /\ path' = Front(path)
    /\ UNCHANGED << analysis, adj, remaining, parent, cycle, countVars >>

NoCycle ==
    /\ analysis = "cycles" /\ path = << >> /\ \A n \in known : colour[n] # "white"
    /\ analysis' = "reported"
    /\ UNCHANGED << adj, searchVars, countVars >>

(* The cycle is read off the parents, back to the issue that closed it.     *)
ReadParent ==
    /\ analysis = "report"
    /\ LET up == parent[Last(cycle)]
       IN  IF Last(cycle) = cycle[1] \/ up \in {NoIssueId, cycle[1]}
           THEN analysis' = "reported" /\ UNCHANGED cycle
           ELSE cycle' = Append(cycle, up) /\ UNCHANGED analysis
    /\ UNCHANGED << adj, colour, path, remaining, parent, countVars >>

-----------------------------------------------------------------------------
(* computeCriticalPath                                                      *)

(* The reverse adjacency: the issues that n blocks.                         *)
Dependents(edges, n) == {d \in DOMAIN edges : n \in edges[d]}

countDescendants(n) ==
    /\ analysis = "scores" /\ counting = NoIssueId /\ n \notin DOMAIN scores
    /\ counting' = n /\ stack' = Dependents(adj, n)
    /\ UNCHANGED << analysis, adj, searchVars, reachable, scores >>

IsSkipped(c) == c \in reachable \/ c = counting

Pop(c) ==
    /\ c \in stack
    /\ IF IsSkipped(c)
       THEN stack' = stack \ {c} /\ UNCHANGED reachable
       ELSE /\ reachable' = reachable \cup {c}
            /\ stack' = (stack \ {c}) \cup (Dependents(adj, c) \ reachable')
    /\ UNCHANGED << analysis, adj, searchVars, counting, scores >>

IsCounted ==
    /\ counting # NoIssueId /\ stack = {}
    /\ scores' = [n \in DOMAIN scores \cup {counting} |->
                     IF n = counting THEN Cardinality(reachable) ELSE scores[n]]
    /\ counting' = NoIssueId /\ reachable' = {}
    /\ UNCHANGED << analysis, adj, searchVars, stack >>

AllAreCounted ==
    /\ analysis = "scores" /\ counting = NoIssueId /\ DOMAIN scores = known
    /\ analysis' = "scored"
    /\ UNCHANGED << adj, searchVars, countVars >>

GraphNext ==
    \/ \E n \in known : SearchFrom(n) \/ LookAt(n) \/ countDescendants(n) \/ Pop(n)
    \/ Leave \/ NoCycle \/ ReadParent \/ IsCounted \/ AllAreCounted

GraphSpec == GraphInit /\ [][GraphNext]_graphVars

-----------------------------------------------------------------------------

(* The issues that wait for n, directly or not: the least set with those that *)
(* n blocks and those that its members block.                               *)
WaitFor(edges, n) ==
    {m \in DOMAIN edges : \A S \in SUBSET DOMAIN edges :
        Dependents(edges, n) \subseteq S /\ (\A k \in S : Dependents(edges, k) \subseteq S) => m \in S}

(* Issues of which none can be the first: each waits for another of them, or *)
(* for itself.                                                              *)
Stuck(S) == S # {} /\ \A n \in S : adj[n] \cap S # {}

(* The report is a way from issue to issue along what blocks what, read     *)
(* backwards, that comes back to where it began.                            *)
IsACycle(c) ==
    /\ \A k \in 1 .. Len(c) : c[k] \in known
    /\ \A k \in 1 .. Len(c) - 1 : c[k] \in adj[c[k + 1]]
    /\ Last(c) \in adj[c[1]]

(* The search reports a cycle exactly if some of the listed issues wait for *)
(* each other so that none of them can ever start, and what it reports is a *)
(* cycle, also when branches of the graph join, on which a search that only *)
(* knows what it has seen would report one that is none.                    *)
CyclesAreReported ==
    analysis = "reported" =>
        /\ cycle # << >> <=> \E S \in SUBSET known : Stuck(S)
        /\ cycle # << >> => IsACycle(cycle)

(* The score of an issue is the number of other issues that wait for it, also *)
(* on a cycle and where ways join.                                          *)
ScoresAreRight == \A n \in DOMAIN scores : scores[n] = Cardinality(WaitFor(adj, n) \ {n})

GraphAnalysisIsRight == CyclesAreReported /\ ScoresAreRight

(* Both analyses come to an end.                                            *)
IsAnalysed == analysis \in {"reported", "scored"}
=============================================================================
