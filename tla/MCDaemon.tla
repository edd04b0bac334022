------------------------------ MODULE MCDaemon ------------------------------
(* Constants of the TLC runs of Daemon. *)
EXTENDS Daemon, TLC

Plan(mode, lint, steps, retries, maxSame, repeated, failure, rounds, prints, touches) ==
    [mode |-> mode, lint |-> lint, steps |-> steps, retries |-> retries,
     maxSame |-> maxSame, onRepeated |-> repeated, onFailure |-> failure,
     rounds |-> rounds, ceiling |-> lint >= 0, prints |-> prints, touches |-> touches]

(* Three runs over two workspaces.                                         *)
Workspaces == [r \in Runs |-> IF r = "r3" THEN "w2" ELSE "w1"]

(* Outputs 1 and 2 differ in a time stamp only, 3 is the same rule at        *)
(* another place.                                                          *)
Error == [o \in Outputs |-> IF o = 3 THEN "e2" ELSE "e1"]
Key == [o \in Outputs |-> IF o = 2 THEN "k2" ELSE "k1"]

Short == { Plan("single", -1, 1, 0, 2, "abort", "abandon", 0, {1}, {}),
           Plan("review", -1, 0, 0, 2, "abort", "abandon", 1, {}, {}) }
Single == { Plan("single", 0, 1, 2, 2, "change_strategy", "abandon", 0, Outputs, Files),
            Plan("single", -1, 2, 1, 2, "abort", "output-wip", 0, Outputs, Files) }
Reviewed == { Plan("review", 0, 1, 2, 3, "abort", failure, 2, Outputs, Files) :
                failure \in {"abandon", "pause", "output-wip"} }

(* Two steps that fail in turn, again and again: only the feedback repeats.  *)
Worked == { Plan("worker", 1, 2, 1, 2, "escalate", "abandon", 0, Outputs, Files),
            Plan("worker", -1, 1, 3, 5, "abort", "abandon", 0, Outputs, Files),
            Plan("worker", -1, 2, 3, 5, "abort", "pause", 0, {1, 3}, {}) }
AllPlans == Short \cup Single \cup Reviewed \cup Worked

Load(submitted, dispatched, plans, crashes) ==
    [submitted |-> submitted, dispatched |-> dispatched, plans |-> plans,
     crashes |-> crashes, stops |-> crashes > 0]

AllLoads ==
    { Load({"r1", "r2", "r3"}, {}, Short, 1),
      Load({"r1"}, {}, Single, 0),
      Load({"r1"}, {}, Reviewed, 0),
      Load({}, {"r1"}, Worked, 0) }
=============================================================================
