------------------------------- MODULE DagRun -------------------------------
(***************************************************************************)
(* What a pipeline run promises, whatever schedules it: a directed graph of *)
(* tasks in which each task has at most one fate, works only once           *)
(* everything it depends on has passed, and is given up only when something *)
(* it depends on was, or by its own condition once its turn has come.       *)
(***************************************************************************)
EXTENDS Naturals, FiniteSets

CONSTANTS Nodes, MaxWorking

VARIABLES needs, progress

Passed(n) == progress[n] = "passed"
Lost(n) == progress[n] \in {"failed", "skipped"}
Working == {n \in Nodes : progress[n] = "working"}

(* A rerun begins with tasks that passed in an earlier run, and with others *)
(* it does not look at.                                                    *)
Init ==
    /\ needs \in [Nodes -> SUBSET Nodes]
    /\ progress \in [Nodes -> {"waiting", "passed", "skipped"}]

ItsTurn(n) == progress[n] = "waiting" /\ \A d \in needs[n] : Passed(d)

Start(n) ==
    /\ ItsTurn(n)
    /\ Cardinality(Working) < MaxWorking
    /\ progress' = [progress EXCEPT ![n] = "working"]

(* The condition of a task cannot be evaluated.                            *)
Refuse(n) ==
    /\ ItsTurn(n)
    /\ progress' = [progress EXCEPT ![n] = "failed"]

Finish(n) ==
    /\ progress[n] = "working"
    /\ \E fate \in {"passed", "failed"} : progress' = [progress EXCEPT ![n] = fate]

(* Giving up takes along any tasks that depend on what is given up.         *)
GiveUp(lost) ==
    /\ \A n \in lost :
          /\ progress[n] = "waiting"
          /\ ItsTurn(n) \/ \E d \in needs[n] : d \in lost \/ Lost(d)
    /\ progress' = [n \in Nodes |-> IF n \in lost THEN "skipped" ELSE progress[n]]

Next ==
    /\ UNCHANGED needs
    /\ \/ \E n \in Nodes : Start(n) \/ Refuse(n) \/ Finish(n)
       \/ \E lost \in SUBSET Nodes : GiveUp(lost)

Spec == Init /\ [][Next]_<<needs, progress>>
=============================================================================
