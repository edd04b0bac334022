---------------------------- MODULE SerialQueue -----------------------------
(***************************************************************************)
(* What a serial queue promises: at most one customer is served, customers  *)
(* are served in the order they came, and none waits while nobody is        *)
(* served. A crash sends all of them away.                                  *)
(***************************************************************************)
EXTENDS Sequences

CONSTANT Customers

VARIABLES line, serving

Init == line = << >> /\ serving = {}

Arrive(c) ==
    /\ c \notin serving
    /\ IF serving = {}
       THEN serving' = {c} /\ UNCHANGED line
       ELSE line' = Append(line, c) /\ UNCHANGED serving

Leave ==
    /\ serving # {}
    /\ IF line = << >>
       THEN serving' = {} /\ UNCHANGED line
       ELSE serving' = {Head(line)} /\ line' = Tail(line)

Crash == line' = << >> /\ serving' = {}

Next == (\E c \in Customers : Arrive(c)) \/ Leave \/ Crash

lvars == << line, serving >>

Spec == Init /\ [][Next]_lvars
=============================================================================
