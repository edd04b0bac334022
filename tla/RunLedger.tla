------------------------------ MODULE RunLedger ------------------------------
(***************************************************************************)
(* What the run queue promises whoever submits a run: it is taken up in its *)
(* turn, alone, at most once, and ends at most once. A crash ends what is   *)
(* being executed and leaves what waits where it is.                       *)
(***************************************************************************)
EXTENDS Naturals, Sequences

CONSTANTS Clients, Nobody

VARIABLES waiting, executing, ended

Init == waiting = << >> /\ executing = Nobody /\ ended = {}

(* The first of the line, if there is one, takes the free place.            *)
TakeUp(line) ==
    IF line = << >>
    THEN executing' = Nobody /\ waiting' = line
    ELSE executing' = Head(line) /\ waiting' = Tail(line)

Accept(c) ==
    /\ c # executing /\ c \notin ended
    /\ \A k \in 1..Len(waiting) : waiting[k] # c
    /\ IF executing = Nobody
       THEN TakeUp(Append(waiting, c))
       ELSE waiting' = Append(waiting, c) /\ UNCHANGED executing
    /\ UNCHANGED ended

End ==
    /\ executing # Nobody
    /\ ended' = ended \cup {executing}
    /\ TakeUp(waiting)

Crash ==
    /\ executing # Nobody
    /\ ended' = ended \cup {executing}
    /\ executing' = Nobody
    /\ UNCHANGED waiting

Next == (\E c \in Clients : Accept(c)) \/ End \/ Crash

Spec == Init /\ [][Next]_<<waiting, executing, ended>>
=============================================================================
