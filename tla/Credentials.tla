---------------------------- MODULE Credentials ----------------------------
(***************************************************************************)
(* The merge daemon inside the daemon: its poll loop, the installation token  *)
(* the loop works with, and shutdown (startDaemon in daemon/server.ts). What  *)
(* a poll does with a pull request is PRProcessor's.                         *)
(*                                                                         *)
(* A token is the time at which GitHub issued it; GitHub and the library      *)
(* that asks for tokens are external. Nothing calls addRepo, so the          *)
(* processors are those of the start, and share one token.                   *)
(***************************************************************************)
EXTENDS Naturals

CONSTANTS
    TokenLife,        \* GitHub refuses a token of this age
    RefreshInterval,  \* TOKEN_REFRESH_INTERVAL_MS
    MaxTime           \* bound: length of a behaviour

ASSUME CredentialsAssumption ==
    /\ TokenLife \in Nat /\ MaxTime \in Nat
    /\ RefreshInterval \in 1 .. TokenLife - 1

VARIABLES
    now,
    mergerApp,         \* the token is the merger app's; else the tracker's, which lasts
    mdToken,           \* the token, and
    tokenObtainedAt,   \* when it was asked for
    processorToken,    \* what the processors send
    libraryToken,      \* the library keeps the token it got last
    doubtful,          \* the last refresh failed, or was answered with a token kept
    loopAt,            \* "check", "asking", "polling", "sleeping", "ended"
    pollBegan,
    mergeDaemonRunning

credentialVars == << now, mergerApp, mdToken, tokenObtainedAt, processorToken, libraryToken,
                     doubtful, loopAt, pollBegan, mergeDaemonRunning >>
tokenVars == << mergerApp, mdToken, tokenObtainedAt, processorToken, libraryToken, doubtful >>

(* The app's token, or the tracker's when there is no app or its token fails. *)
CredentialsInit ==
    /\ now = 0 /\ pollBegan = 0
    /\ mergerApp \in BOOLEAN
    /\ mdToken = 0 /\ tokenObtainedAt = 0 /\ processorToken = 0 /\ libraryToken = 0
    /\ doubtful = FALSE
    /\ loopAt = "check" /\ mergeDaemonRunning = TRUE

-----------------------------------------------------------------------------

TimePasses ==
    /\ now < MaxTime
    /\ now' = now + 1
    /\ UNCHANGED << tokenVars, loopAt, pollBegan, mergeDaemonRunning >>

(* Fault: a token is refreshed when it is too late.                         *)
RefreshDueLate == now - tokenObtainedAt > TokenLife

RefreshDue == now - tokenObtainedAt >= RefreshInterval

StartPoll == loopAt' = "polling" /\ pollBegan' = now

(* The top of the loop: while (mergeDaemonRunning), refreshTokenIfNeeded.     *)
CheckToken ==
    /\ loopAt = "check"
    /\ CASE ~mergeDaemonRunning -> loopAt' = "ended" /\ UNCHANGED pollBegan
         [] mergeDaemonRunning /\ mergerApp /\ RefreshDue -> loopAt' = "asking" /\ UNCHANGED pollBegan
         [] OTHER -> StartPoll
    /\ UNCHANGED << now, tokenVars, mergeDaemonRunning >>

(* The library answers: with a new token, or with the one it keeps as long as *)
(* that lives.                                                             *)
Answers == {now} \cup {t \in {libraryToken} : now - t < TokenLife}

(* updateToken of every processor, when the token is another one.            *)
updateToken(token) == processorToken' = token

TokenAnswered ==
    /\ loopAt = "asking"
    /\ \/ \E token \in Answers :
             /\ mdToken' = token /\ libraryToken' = token
             /\ tokenObtainedAt' = now
             /\ doubtful' = (token # now)
             /\ updateToken(token)
       \/ doubtful' = TRUE /\ UNCHANGED << mdToken, libraryToken, tokenObtainedAt, processorToken >>
    /\ StartPoll
    /\ UNCHANGED << now, mergerApp, mergeDaemonRunning >>

(* All pull requests were looked at, or the daemon stops between two of them. *)
PollIsOver ==
    /\ loopAt = "polling"
    /\ loopAt' = "sleeping"
    /\ UNCHANGED << now, tokenVars, pollBegan, mergeDaemonRunning >>

IntervalIsOver ==
    /\ loopAt = "sleeping"
    /\ loopAt' = "check"
    /\ UNCHANGED << now, tokenVars, pollBegan, mergeDaemonRunning >>

(* The handler of SIGTERM and SIGINT.                                        *)
StopMergeDaemon ==
    /\ mergeDaemonRunning
    /\ mergeDaemonRunning' = FALSE
    /\ UNCHANGED << now, tokenVars, loopAt, pollBegan >>

CredentialsNext ==
    \/ TimePasses \/ CheckToken \/ TokenAnswered \/ PollIsOver \/ IntervalIsOver \/ StopMergeDaemon

CredentialsSpec == CredentialsInit /\ [][CredentialsNext]_credentialVars

-----------------------------------------------------------------------------

(* A poll works with a dead token only if it has lasted for longer than the    *)
(* margin the refresh leaves - a poll waits for checks for 45 minutes, and    *)
(* the token is looked at between polls only -, or the last refresh brought   *)
(* no new token: such an answer counts as a refresh, and the next one is       *)
(* RefreshInterval away.                                                    *)
DeadTokensHaveAReason ==
    loopAt = "polling" /\ mergerApp /\ now - processorToken >= TokenLife =>
        doubtful \/ now - pollBegan >= TokenLife - RefreshInterval
=============================================================================
