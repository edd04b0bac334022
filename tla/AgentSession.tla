---------------------------- MODULE AgentSession ----------------------------
(***************************************************************************)
(* The two sessions through which a worker talks to its agent: the           *)
(* persistent JSON-RPC session of codex (agent/appserver-session.ts) and the  *)
(* one-shot session that runs a command per invocation                       *)
(* (agent/oneshot-session.ts, agent/invoke.ts, execInContainer in            *)
(* container/runner.ts).                                                    *)
(*                                                                         *)
(* Users invoke one at a time, as worker.ts does, and may close the session  *)
(* at any moment. The app server works on the turns in the order they were   *)
(* started. Token counts and the text of a turn are left out.                *)
(***************************************************************************)
EXTENDS Naturals, Sequences

CONSTANT MaxTurns        \* bound: invocations of a session

Turns == 1 .. MaxTurns

ASSUME AgentSessionAssumption == MaxTurns \in Nat

VARIABLES
    sessionKind,  \* "appserver" or "oneshot"
    closed,       \* state = "closed"
    alive,        \* the app server was spawned and greeted
    invoking,     \* "no", "spawn", "initialize", "thread", "turn" or "exec"
    turnCount,    \* invocations so far
    currentTurn,  \* the turn that waits for an answer, or 0
    turnTimers,   \* turns whose timeout is armed
    server,       \* turns the app server was asked for and has not ended
    stream,       \* messages on their way: turns that ended, in order
    answer,       \* answer[k]: "none", "rejected", or the status of the result
    answeredBy,   \* answeredBy[k]: the turn whose end or timer gave the answer
    lateSpawn     \* the session was closed while its server was being spawned

svars == << sessionKind, closed, alive, invoking, turnCount, currentTurn, turnTimers,
            server, stream, answer, answeredBy, lateSpawn >>

SessionInit ==
    /\ sessionKind \in {"appserver", "oneshot"}
    /\ closed = FALSE /\ alive = FALSE /\ lateSpawn = FALSE
    /\ invoking = "no" /\ turnCount = 0 /\ currentTurn = 0
    /\ turnTimers = {} /\ server = << >> /\ stream = << >>
    /\ answer = [k \in Turns |-> "none"]
    /\ answeredBy = [k \in Turns |-> 0]

Answer(k, status, by) ==
    /\ answer' = [answer EXCEPT ![k] = status]
    /\ answeredBy' = [answeredBy EXCEPT ![k] = by]
    /\ invoking' = "no"

-----------------------------------------------------------------------------

(* Fault: no timer is armed for the turn.                                  *)
BeginTurnUntimed(k) ==
    /\ currentTurn' = k
    /\ server' = Append(server, k)
    /\ invoking' = "turn"
    /\ UNCHANGED turnTimers

(* executeTurn                                                             *)
BeginTurn(k) ==
    /\ currentTurn' = k
    /\ turnTimers' = turnTimers \cup {k}
    /\ server' = Append(server, k)
    /\ invoking' = "turn"

(* An invocation is counted here when it is made, in the code when its turn  *)
(* starts.                                                                 *)
invoke ==
    LET k == turnCount + 1
    IN  /\ invoking = "no" /\ ~closed /\ turnCount < MaxTurns
        /\ turnCount' = k
        /\ CASE sessionKind = "oneshot" -> invoking' = "exec" /\ UNCHANGED << currentTurn, turnTimers, server >>
             [] sessionKind = "appserver" /\ alive -> BeginTurn(k)
             [] OTHER -> invoking' = "spawn" /\ UNCHANGED << currentTurn, turnTimers, server >>
        /\ UNCHANGED << sessionKind, closed, alive, stream, answer, answeredBy, lateSpawn >>

(* container.exec and exec.start; a new server knows no earlier turn.        *)
Spawned ==
    /\ invoking = "spawn"
    /\ invoking' = "initialize"
    /\ server' = << >>
    /\ UNCHANGED << sessionKind, closed, alive, turnCount, currentTurn, turnTimers, stream,
                    answer, answeredBy, lateSpawn >>

(* The response to initialize, then the one to thread/start.                 *)
HandshakeAnswered ==
    /\ invoking \in {"initialize", "thread"}
    /\ IF invoking = "initialize"
       THEN invoking' = "thread" /\ UNCHANGED << alive, currentTurn, turnTimers, server >>
       ELSE alive' = TRUE /\ BeginTurn(turnCount)
    /\ UNCHANGED << sessionKind, closed, turnCount, stream, answer, answeredBy, lateSpawn >>

(* Docker refuses, an error response, or five seconds without one.           *)
HandshakeFails ==
    /\ invoking \in {"spawn", "initialize", "thread"}
    /\ Answer(turnCount, "rejected", turnCount)
    /\ UNCHANGED << sessionKind, closed, alive, turnCount, currentTurn, turnTimers, server, stream, lateSpawn >>

(* turn/completed or turn/userInputRequired is written by the server.        *)
ServerEndsTurn ==
    /\ server # << >>
    /\ server' = Tail(server)
    /\ stream' = Append(stream, Head(server))
    /\ UNCHANGED << sessionKind, closed, alive, invoking, turnCount, currentTurn, turnTimers,
                    answer, answeredBy, lateSpawn >>

(* The server dies: nothing tells the session.                              *)
ServerDies ==
    /\ server # << >>
    /\ server' = << >>
    /\ UNCHANGED << sessionKind, closed, alive, invoking, turnCount, currentTurn, turnTimers, stream,
                    answer, answeredBy, lateSpawn >>

(* Fault: the turn is resolved and its timer left armed.                    *)
SettleKeepsTimer(k, status, by) ==
    /\ Answer(k, status, by)
    /\ currentTurn' = 0
    /\ turnTimers' = IF status = "timeout" THEN turnTimers \ {by} ELSE turnTimers

(* resolve and reject of a turn clear its timer; by is the turn whose timer  *)
(* fired or whose end was read.                                            *)
Settle(k, status, by) ==
    /\ Answer(k, status, by)
    /\ currentTurn' = 0
    /\ turnTimers' = turnTimers \ {k, by}

(* handleMessage: the message does not say which turn it ends.               *)
handleMessage ==
    /\ stream # << >>
    /\ stream' = Tail(stream)
    /\ IF currentTurn = 0
       THEN UNCHANGED << invoking, currentTurn, turnTimers, answer, answeredBy >>
       ELSE \E status \in {"completed", "user_input_required"} :
                Settle(currentTurn, status, Head(stream))
    /\ UNCHANGED << sessionKind, closed, alive, turnCount, server, lateSpawn >>

TurnTimesOut(k) ==
    /\ k \in turnTimers
    /\ IF currentTurn = 0
       THEN turnTimers' = turnTimers \ {k} /\ UNCHANGED << invoking, currentTurn, answer, answeredBy >>
       ELSE Settle(currentTurn, "timeout", k)
    /\ UNCHANGED << sessionKind, closed, alive, turnCount, server, stream, lateSpawn >>

(* invokeAgent under a one-shot session: the command exits, fails, or its    *)
(* stream is destroyed when the timeout is over. A close waits for nothing.  *)
ExecEnds ==
    /\ invoking = "exec"
    /\ \E status \in {"completed", "failed", "rejected"} : Answer(turnCount, status, turnCount)
    /\ UNCHANGED << sessionKind, closed, alive, turnCount, currentTurn, turnTimers, server, stream, lateSpawn >>

RejectTurn ==
    IF currentTurn # 0 THEN Settle(currentTurn, "rejected", currentTurn)
    ELSE /\ IF invoking \in {"initialize", "thread"} THEN Answer(turnCount, "rejected", turnCount)
            ELSE UNCHANGED << answer, answeredBy, invoking >>
         /\ UNCHANGED << currentTurn, turnTimers >>

(* Rejects the turn and the requests that wait, and destroys the stream.     *)
close ==
    /\ ~closed
    /\ closed' = TRUE /\ alive' = FALSE
    /\ lateSpawn' = (invoking = "spawn")
    /\ RejectTurn
    /\ stream' = << >> /\ server' = << >>
    /\ UNCHANGED << sessionKind, turnCount >>

SessionNext ==
    \/ invoke \/ Spawned \/ HandshakeAnswered \/ HandshakeFails \/ ServerEndsTurn \/ ServerDies
    \/ handleMessage \/ ExecEnds \/ close
    \/ \E k \in Turns : TurnTimesOut(k)

SessionSpec == SessionInit /\ [][SessionNext]_svars

(* Timers fire and Docker answers; the app server owes nothing.             *)
SessionGoesOn ==
    Spawned \/ HandshakeAnswered \/ HandshakeFails \/ ExecEnds \/ \E k \in Turns : TurnTimesOut(k)

-----------------------------------------------------------------------------

(* A turn is ended by its own end, its own timer, or a close, never by what  *)
(* an earlier turn left behind - unless an earlier turn timed out: its end   *)
(* may come while the next turn waits, which takes it for its own.           *)
AnswersAreTheirOwn ==
    \A k \in Turns :
        answer[k] # "none" => answeredBy[k] = k \/ \E j \in 1 .. (k - 1) : answer[j] = "timeout"

(* A closed session has no turn that waits, unless it was closed while its   *)
(* server was being spawned.                                               *)
ClosedSessionsAreQuiet == closed => currentTurn = 0 \/ lateSpawn

TurnsAreAnsweredByTheirOwn == AnswersAreTheirOwn /\ ClosedSessionsAreQuiet

(* Every invocation is answered in the end, whatever the app server does.    *)
AllAreAnswered == \A k \in 1 .. turnCount : answer[k] # "none"
=============================================================================
