--------------------------- MODULE WorkerRegistry ---------------------------
(***************************************************************************)
(* What the orchestrator's running map promises to its readers (reconcile,  *)
(* the stall detector, the status endpoints): a directory of agents at      *)
(* work. An agent is entered under one issue when it starts, under an       *)
(* issue that has no entry, and an entry never outlives its agent. Entries  *)
(* may be forgotten early: the agent then works on, unlisted.              *)
(***************************************************************************)
CONSTANTS Issues, Workers, NoWorker

VARIABLES
    registry,  \* registry[i]: the agent listed under issue i
    atWork     \* the agents at work

rvars == << registry, atWork >>

RegistryInit ==
    /\ registry = [i \in Issues |-> NoWorker]
    /\ atWork = {}

Without(S) == [i \in Issues |-> IF i \in S THEN NoWorker ELSE registry[i]]

Enter(w, i) ==
    /\ w \notin atWork
    /\ registry[i] = NoWorker
    /\ registry' = [registry EXCEPT ![i] = w]
    /\ atWork' = atWork \cup {w}

Forget(S) ==
    /\ registry' = Without(S)
    /\ UNCHANGED atWork

Leave(w, S) ==
    /\ w \in atWork
    /\ \A i \in Issues \ S : registry[i] # w
    /\ registry' = Without(S)
    /\ atWork' = atWork \ {w}

RegistryNext ==
    \/ \E w \in Workers, i \in Issues : Enter(w, i)
    \/ \E w \in Workers, S \in SUBSET Issues : Leave(w, S)
    \/ \E S \in SUBSET Issues : Forget(S)

RegistrySpec == RegistryInit /\ [][RegistryNext]_rvars
=============================================================================
