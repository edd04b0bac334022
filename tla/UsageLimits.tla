---------------------------- MODULE UsageLimits ----------------------------
(***************************************************************************)
(* The orchestrator with usage-limit recovery switched on: an agent whose   *)
(* output names a usage limit pauses every listed agent, and a probe        *)
(* restarts the paused tasks one by one (orchestrator/usage-limit-          *)
(* recovery.ts, the catch clause of executeWorkerAndHandle).                *)
(*                                                                         *)
(* The rows of the run table are left out: they are written under the id of *)
(* the issue and kept under its identifier, so no pause reaches a row and   *)
(* restoreFromDatabase finds none. cooldown_state is never entered, as      *)
(* nothing calls handleUsageLimitDetected.                                 *)
(***************************************************************************)
EXTENDS Orchestrator

CONSTANT MaxResumes  \* agent.usage_limit.max_resumes

ASSUME MaxResumesAssumption == MaxResumes \in Nat \ {0}

VARIABLES
    paused,       \* keys of pausedTasks
    resumeCount,  \* their resumeCount; 0 without an entry
    pausing,      \* pausing[w]: of the listed issues, those the handler that w
                  \* called has left to pause
    probeTimer,   \* a probe is scheduled
    restarting    \* the tasks the restart loop has left, whatever became of them

limitVars == << paused, resumeCount, pausing, probeTimer, restarting >>
lvars == << vars, limitVars >>

LimitsTypeOK ==
    /\ StateTypeOK
    /\ phase \in [Workers -> WorkerPhases \cup {"limited"}]
    /\ job \in [Workers -> Issues \cup {NoIssue}]
    /\ \A w \in Workers : Live(w) <=> job[w] \in Issues
    /\ paused \subseteq Issues
    /\ resumeCount \in [Issues -> 0..MaxResumes - 1]
    /\ \A i \in Issues : resumeCount[i] > 0 => i \in paused
    /\ pausing \in [Workers -> SUBSET Issues]
    /\ \A w \in Workers : pausing[w] # {} => phase[w] = "limited"
    /\ probeTimer \in BOOLEAN
    /\ restarting \subseteq Issues

LInit ==
    /\ Init
    /\ paused = {}
    /\ resumeCount = [i \in Issues |-> 0]
    /\ pausing = [w \in Workers |-> {}]
    /\ probeTimer = FALSE
    /\ restarting = {}

-----------------------------------------------------------------------------

(* Fault: the running entry is left.                                       *)
failTaskKeepsEntry(i) ==
    /\ claimed' = claimed \ {i}
    /\ retryAttempts' = [retryAttempts EXCEPT ![i] = 0]
    /\ retryTimers' = retryTimers \ {i}
    /\ UNCHANGED running
    /\ paused' = paused \ {i}
    /\ resumeCount' = [resumeCount EXCEPT ![i] = 0]

(* max_resumes is exhausted: the task is dropped and its issue released.    *)
failTask(i) ==
    /\ releaseIssue(i)
    /\ paused' = paused \ {i}
    /\ resumeCount' = [resumeCount EXCEPT ![i] = 0]

(* The entry goes, the claim and the agent stay. The count goes on only     *)
(* when the task is still paused, that is when it was dispatched again      *)
(* before the probe restarted it.                                          *)
pauseTask(i) ==
    LET count == IF i \in paused THEN resumeCount[i] + 1 ELSE 0
    IN  IF count >= MaxResumes
        THEN failTask(i)
        ELSE /\ running' = [running EXCEPT ![i] = NoWorker]
             /\ paused' = paused \cup {i}
             /\ resumeCount' = [resumeCount EXCEPT ![i] = count]
             /\ UNCHANGED << claimed, retryAttempts, retryTimers >>

(* Fault: the tasks are taken for being restarted already.                  *)
scheduleProbeWhenIdle(w) == probeTimer' = (probeTimer \/ restarting = {}) /\ EndWorker(w)

(* Fault: the timer that is cleared is not replaced.                        *)
scheduleProbeClears(w) == probeTimer' = FALSE /\ EndWorker(w)

(* The last statement of the handler: whatever probe was scheduled is       *)
(* replaced, and the dispatcher is done with w.                            *)
scheduleProbe(w) == probeTimer' = TRUE /\ EndWorker(w)

(* The agent of w stopped at the limit. Its slot is free at once; then the  *)
(* issues that are listed at this moment are paused one by one.            *)
LimitHit(w) ==
    /\ phase[w] = "executing"
    /\ releaseTopLevel(job[w])
    /\ \/ /\ RunningIds = {}
          /\ scheduleProbe(w)
          /\ UNCHANGED << claimed, running, retryAttempts, retryTimers, paused, resumeCount, pausing >>
       \/ \E i \in RunningIds :
            /\ pauseTask(i)
            /\ pausing' = [pausing EXCEPT ![w] = RunningIds \ {i}]
            /\ phase' = [phase EXCEPT ![w] = "limited"]
            /\ UNCHANGED << job, probeTimer >>
    /\ UNCHANGED << orphanTimers, recentlyCompleted, closedChildren, tickVars, incoming, mode, restarting >>

PauseNext(w) ==
    /\ phase[w] = "limited"
    /\ \/ /\ pausing[w] = {}
          /\ scheduleProbe(w)
          /\ UNCHANGED << claimed, running, retryAttempts, retryTimers, paused, resumeCount, pausing >>
       \/ \E i \in pausing[w] :
            /\ pauseTask(i)
            /\ pausing' = [pausing EXCEPT ![w] = @ \ {i}]
            /\ UNCHANGED << phase, job, probeTimer >>
    /\ UNCHANGED << topLevelRunning, orphanTimers, recentlyCompleted, closedChildren, tickVars,
                    incoming, mode, restarting >>

(* The issue is released, whoever works on it by now.                       *)
RestartTask(i) ==
    /\ releaseIssue(i)
    /\ paused' = paused \ {i}
    /\ resumeCount' = [resumeCount EXCEPT ![i] = 0]
    /\ UNCHANGED << topLevelRunning, orphanTimers, recentlyCompleted, closedChildren, workerVars,
                    tickVars, incoming, mode, pausing >>

(* The probe asks nobody: it restarts what is paused when it fires. It is   *)
(* due after minutes, and a restart loop takes seconds.                    *)
runProbe ==
    /\ probeTimer /\ restarting = {}
    /\ probeTimer' = FALSE
    /\ IF paused = {}
       THEN UNCHANGED << stateVars, workerVars, tickVars, incoming, mode, paused, resumeCount, pausing, restarting >>
       ELSE \E i \in paused : RestartTask(i) /\ restarting' = paused \ {i}

RestartNext ==
    /\ \E i \in restarting : RestartTask(i) /\ restarting' = restarting \ {i}
    /\ UNCHANGED probeTimer

LimitNext ==
    \/ \E w \in Workers : LimitHit(w) \/ PauseNext(w)
    \/ runProbe
    \/ RestartNext

(* stop() clears the timers of the recovery.                                *)
OthersNext ==
    /\ Next
    /\ probeTimer' = (probeTimer /\ ~(mode = "running" /\ mode' = "stopping"))
    /\ UNCHANGED << paused, resumeCount, pausing, restarting >>

LNext == OthersNext \/ LimitNext

(* A probe and a delay are timers; a handler only awaits what has resolved. *)
LSpec ==
    /\ LInit
    /\ [][LNext]_lvars
    /\ \A w \in Workers : WF_lvars(PauseNext(w))
    /\ WF_lvars(runProbe)
    /\ WF_lvars(RestartNext)

-----------------------------------------------------------------------------

(* Whoever is paused is waited for: a probe is scheduled, or the restart    *)
(* loop has the task, or a handler is about to schedule a probe.            *)
PausedAreAwaited ==
    mode = "running" =>
        \A i \in paused : probeTimer \/ i \in restarting \/ \E w \in Workers : phase[w] = "limited"

(* What the recovery keeps has its type, and no pause is forgotten.          *)
PausesAreSound == LimitsTypeOK /\ PausedAreAwaited

(* With usage limits the running map still implements the registry, an agent *)
(* being at work until the handler it called is done: no pause, failure or  *)
(* restart lets a second agent write over the entry of another.            *)
LimitRegistry == INSTANCE WorkerRegistry WITH
    registry <- running, atWork <- {w \in Workers : phase[w] \in {"executing", "limited"}}
ImplementsRegistryAtLimits == LimitRegistry!RegistrySpec

(* "Task will automatically restart after cooldown and probe succeed": once *)
(* no agent meets the limit any more, every paused task is restarted.       *)
PausedTasksResume ==
    <>[][\A w \in Workers : ~LimitHit(w)]_lvars => \A i \in Issues : i \in paused ~> i \notin paused \/ mode # "running"
=============================================================================
