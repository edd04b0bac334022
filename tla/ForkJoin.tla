------------------------------ MODULE ForkJoin ------------------------------
(***************************************************************************)
(* What a fan-out promises its caller: the branches of a fork work side by  *)
(* side, a single branch may be repeated once the others are done, and the  *)
(* join runs when nobody works for the fork any more. A crash forgets all.  *)
(***************************************************************************)
CONSTANTS Forks, Branches

VARIABLES
    atWork,  \* atWork[f]: the branches that work for f
    joining  \* the forks whose join is under way

fvars == << atWork, joining >>

ForkInit == atWork = [f \in Forks |-> {}] /\ joining = {}

Fork(f) ==
    /\ atWork[f] = {} /\ f \notin joining
    /\ atWork'[f] \subseteq Branches
    /\ \A g \in Forks \ {f} : atWork'[g] = atWork[g]
    /\ UNCHANGED joining

Settle(f) ==
    /\ \E b \in atWork[f] : atWork' = [atWork EXCEPT ![f] = @ \ {b}]
    /\ \/ UNCHANGED joining
       \/ atWork'[f] = {} /\ joining' = joining \cup {f}

Repeat(f) ==
    /\ atWork[f] = {} /\ f \notin joining
    /\ \E b \in Branches : atWork' = [atWork EXCEPT ![f] = {b}]
    /\ UNCHANGED joining

Join(f) ==
    /\ atWork[f] = {} /\ f \notin joining
    /\ joining' = joining \cup {f}
    /\ UNCHANGED atWork

Joined(f) == f \in joining /\ joining' = joining \ {f} /\ UNCHANGED atWork

Crash == atWork' = [f \in Forks |-> {}] /\ joining' = {}

ForkNext == (\E f \in Forks : Fork(f) \/ Settle(f) \/ Repeat(f) \/ Join(f) \/ Joined(f)) \/ Crash

ForkSpec == ForkInit /\ [][ForkNext]_fvars
=============================================================================
