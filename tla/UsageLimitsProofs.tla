-------------------------- MODULE UsageLimitsProofs --------------------------
(***************************************************************************)
(* With usage-limit recovery switched on, for any constants: no pause is    *)
(* forgotten, and the running map is still a directory of agents at work.   *)
(* Of the orchestrator's own actions only their outline is needed, as       *)
(* OrchestratorProofs gives it for agents in any phase; the observer that   *)
(* comes with that module plays no part here.                               *)
(***************************************************************************)
EXTENDS UsageLimits, OrchestratorProofs

(* An entry names an agent that executes or whose handler pauses the tasks, *)
(* for the issue it works on.                                              *)
EntriesAtWork ==
    \A i \in Issues : \A w \in Workers :
        running[i] = w => phase[w] \in {"executing", "limited"} /\ job[w] = i

(* An agent that met the limit keeps its own entry only until the handler    *)
(* gets to it: the loop over the listed issues always includes its own.     *)
LimitedPauseTheirOwn ==
    \A w \in Workers : phase[w] = "limited" /\ running[job[w]] = w => job[w] \in pausing[w]

LInv ==
    /\ LimitsTypeOK
    /\ ShapeOK
    /\ DispatchHasIssue
    /\ RunningIsClaimed
    /\ EntriesAtWork
    /\ LimitedPauseTheirOwn
    /\ PausedAreAwaited

-----------------------------------------------------------------------------
(* The orchestrator's own steps, by their outline                           *)

(* Entries that are dropped leave less to agree about.                      *)
LEMMA DropsKeep ==
    ASSUME LInv, NEW S \in SUBSET Issues, Drops(S)
    PROVE  /\ RunningIsClaimed'
           /\ \A i \in Issues : running'[i] # NoWorker => running'[i] = running[i]
<1>1. \A i \in Issues : running'[i] = IF i \in S THEN NoWorker ELSE running[i]
  BY DEF Drops
<1>2. RunningIsClaimed'
  BY <1>1 DEF Drops, LInv, RunningIsClaimed, RunningIds
<1> QED
  BY <1>1, <1>2

(* What the recovery keeps has its type after a step that leaves it alone,   *)
(* when the agents with a job are still those that are live.               *)
LEMMA LimitsTypeKeeps ==
    ASSUME LInv, UNCHANGED << paused, resumeCount, pausing, restarting >>,
           StateTypeOK', probeTimer' \in BOOLEAN,
           phase' \in [Workers -> WorkerPhases \cup {"limited"}],
           job' \in [Workers -> Issues \cup {NoIssue}],
           \A w \in Workers : phase'[w] # "idle" <=> job'[w] \in Issues,
           \A w \in Workers : phase[w] = "limited" => phase'[w] = "limited"
    PROVE  LimitsTypeOK'
BY DEF LInv, LimitsTypeOK, Live

LEMMA AgentsKeep ==
    ASSUME LInv, Outline
    PROVE  /\ phase' \in [Workers -> WorkerPhases \cup {"limited"}]
           /\ job' \in [Workers -> Issues \cup {NoIssue}]
           /\ \A w \in Workers : phase'[w] # "idle" <=> job'[w] \in Issues
           /\ \A w \in Workers : phase[w] = "limited" => phase'[w] = "limited" /\ job'[w] = job[w]
<1> USE NoIssueAssumption DEF LInv, LimitsTypeOK, WorkerPhases, Live
<1>1. CASE UNCHANGED << phase, job >>
  BY <1>1
<1>2. ASSUME NEW w \in Workers, NEW i \in Issues, Starts(w, i)
      PROVE  /\ phase' \in [Workers -> WorkerPhases \cup {"limited"}]
             /\ job' \in [Workers -> Issues \cup {NoIssue}]
             /\ \A v \in Workers : phase'[v] # "idle" <=> job'[v] \in Issues
             /\ \A v \in Workers : phase[v] = "limited" => phase'[v] = "limited" /\ job'[v] = job[v]
  BY <1>2 DEF Starts
<1>3. ASSUME NEW w \in Workers, NEW S \in SUBSET Issues, Returns(w, S)
      PROVE  /\ phase' \in [Workers -> WorkerPhases \cup {"limited"}]
             /\ job' \in [Workers -> Issues \cup {NoIssue}]
             /\ \A v \in Workers : phase'[v] # "idle" <=> job'[v] \in Issues
             /\ \A v \in Workers : phase[v] = "limited" => phase'[v] = "limited" /\ job'[v] = job[v]
  BY <1>3 DEF Returns
<1>4. ASSUME NEW w \in Workers, NEW S \in SUBSET Issues, Ends(w, S)
      PROVE  /\ phase' \in [Workers -> WorkerPhases \cup {"limited"}]
             /\ job' \in [Workers -> Issues \cup {NoIssue}]
             /\ \A v \in Workers : phase'[v] # "idle" <=> job'[v] \in Issues
             /\ \A v \in Workers : phase[v] = "limited" => phase'[v] = "limited" /\ job'[v] = job[v]
  BY <1>4 DEF Ends, EndWorker
<1> QED
  BY <1>1, <1>2, <1>3, <1>4 DEF Outline

LEMMA EntriesKeep ==
    ASSUME LInv, Outline, UNCHANGED pausing
    PROVE  RunningIsClaimed' /\ EntriesAtWork' /\ LimitedPauseTheirOwn'
<1> USE NoWorkerAssumption DEF LInv, LimitsTypeOK, StateTypeOK
<1>1. ASSUME NEW S \in SUBSET Issues, Drops(S), UNCHANGED << phase, job >>
      PROVE  RunningIsClaimed' /\ EntriesAtWork' /\ LimitedPauseTheirOwn'
  <2>1. RunningIsClaimed' /\ \A i \in Issues : running'[i] # NoWorker => running'[i] = running[i]
    BY <1>1, DropsKeep
  <2>2. EntriesAtWork'
    BY <1>1, <2>1 DEF EntriesAtWork
  <2>3. LimitedPauseTheirOwn'
    BY <1>1, <2>1 DEF LimitedPauseTheirOwn, Live
  <2> QED
    BY <2>1, <2>2, <2>3
<1>2. ASSUME NEW w \in Workers, NEW i \in Issues, Starts(w, i)
      PROVE  RunningIsClaimed' /\ EntriesAtWork' /\ LimitedPauseTheirOwn'
  <2>1. RunningIsClaimed'
    BY <1>2 DEF Starts, RunningIsClaimed, RunningIds
  <2>2. EntriesAtWork'
    BY <1>2 DEF Starts, EntriesAtWork, Live
  <2>3. LimitedPauseTheirOwn'
    BY <1>2 DEF Starts, LimitedPauseTheirOwn, Live
  <2> QED
    BY <2>1, <2>2, <2>3
<1>3. ASSUME NEW w \in Workers, NEW S \in SUBSET Issues, Returns(w, S) \/ Ends(w, S)
      PROVE  RunningIsClaimed' /\ EntriesAtWork' /\ LimitedPauseTheirOwn'
  <2>1. RunningIsClaimed' /\ \A i \in Issues : running'[i] # NoWorker => running'[i] = running[i]
    BY <1>3, DropsKeep DEF Returns, Ends
  <2>2. \A i \in Issues : running'[i] # w
    BY <1>3 DEF Returns, Ends, Drops, EntriesAtWork
  <2>3. \A v \in Workers \ {w} : phase'[v] = phase[v] /\ job'[v] = job[v]
    BY <1>3 DEF Returns, Ends, EndWorker
  <2>4. phase'[w] # "limited"
    BY <1>3 DEF Returns, Ends, EndWorker
  <2>5. EntriesAtWork'
    BY <2>1, <2>2, <2>3 DEF EntriesAtWork
  <2>6. LimitedPauseTheirOwn'
    BY <1>3, <2>1, <2>3, <2>4 DEF LimitedPauseTheirOwn, Live
  <2> QED
    BY <2>1, <2>5, <2>6
<1> QED
  BY <1>1, <1>2, <1>3 DEF Outline

LEMMA OthersKeep ==
    ASSUME LInv, OthersNext
    PROVE  LInv'
<1>1. ShapeOK /\ DispatchHasIssue /\ LiveHaveJobs /\ [Next]_vars
  BY DEF LInv, LimitsTypeOK, LiveHaveJobs, OthersNext
<1>2. Outline /\ (mode' = "running" => mode = "running")
  BY <1>1, NextOutline
<1>3. ShapeOK' /\ DispatchHasIssue'
  BY <1>1, ShapeStep
<1>4. UNCHANGED << paused, resumeCount, pausing, restarting >>
  BY DEF OthersNext
<1>5. /\ phase' \in [Workers -> WorkerPhases \cup {"limited"}]
      /\ job' \in [Workers -> Issues \cup {NoIssue}]
      /\ \A w \in Workers : phase'[w] # "idle" <=> job'[w] \in Issues
      /\ \A w \in Workers : phase[w] = "limited" => phase'[w] = "limited"
  BY <1>2, AgentsKeep
<1>6. LimitsTypeOK'
  <2>1. probeTimer' \in BOOLEAN
    BY DEF OthersNext
  <2>2. StateTypeOK'
    BY <1>3 DEF ShapeOK
  <2> QED
    BY <1>4, <1>5, <2>1, <2>2, LimitsTypeKeeps
<1>7. PausedAreAwaited'
  <2>1. mode' = "running" /\ probeTimer => probeTimer'
    BY <1>2 DEF OthersNext
  <2> QED
    BY <1>2, <1>4, <1>5, <2>1 DEF PausedAreAwaited, LInv
<1> QED
  BY <1>2, <1>3, <1>4, <1>6, <1>7, EntriesKeep DEF LInv

-----------------------------------------------------------------------------
(* The steps of the recovery                                                *)

(* A step that leaves the ticks alone keeps their types.                     *)
LEMMA ShapeKeeps ==
    ASSUME LInv, StateTypeOK', job' \in [Workers -> Issues \cup {NoIssue}],
           UNCHANGED << tickVars, incoming, mode >>
    PROVE  ShapeOK' /\ DispatchHasIssue'
BY DEF LInv, ShapeOK, DispatchHasIssue, tickVars

(* pauseTask, whether it pauses or gives up: the issue's entry goes, and    *)
(* every other paused task stays.                                          *)
LEMMA PauseTaskKeeps ==
    ASSUME LInv, NEW i \in Issues, pauseTask(i)
    PROVE  /\ Drops({i})
           /\ running' = [running EXCEPT ![i] = NoWorker]
           /\ claimed' \subseteq Issues
           /\ retryAttempts' \in [Issues -> Nat]
           /\ retryTimers' \subseteq Issues
           /\ paused' \subseteq Issues
           /\ resumeCount' \in [Issues -> 0..MaxResumes - 1]
           /\ \A j \in Issues : resumeCount'[j] > 0 => j \in paused'
<1> USE MaxResumesAssumption DEF LInv, LimitsTypeOK, StateTypeOK
<1> DEFINE count == IF i \in paused THEN resumeCount[i] + 1 ELSE 0
<1>0. count \in Nat
  OBVIOUS
<1>1. CASE failTask(i)
  <2>1. releaseIssue(i) /\ paused' = paused \ {i} /\ resumeCount' = [resumeCount EXCEPT ![i] = 0]
    BY <1>1 DEF failTask
  <2>2. 0 \in 0..MaxResumes - 1
    OBVIOUS
  <2>3. resumeCount' \in [Issues -> 0..MaxResumes - 1]
    BY <2>1, <2>2
  <2>4. \A j \in Issues : resumeCount'[j] > 0 => j \in paused'
    BY <2>1
  <2>5. Drops({i})
    BY <2>1 DEF releaseIssue, Drops
  <2> QED
    BY <2>1, <2>3, <2>4, <2>5, ReleaseType DEF releaseIssue
<1>2. CASE /\ count < MaxResumes
           /\ running' = [running EXCEPT ![i] = NoWorker]
           /\ paused' = paused \cup {i}
           /\ resumeCount' = [resumeCount EXCEPT ![i] = count]
           /\ UNCHANGED << claimed, retryAttempts, retryTimers >>
  <2>1. count \in 0..MaxResumes - 1
    BY <1>0, <1>2
  <2>2. resumeCount' \in [Issues -> 0..MaxResumes - 1]
    BY <1>2, <2>1
  <2>3. \A j \in Issues : resumeCount'[j] > 0 => j \in paused'
    BY <1>2
  <2>4. Drops({i})
    BY <1>2 DEF Drops
  <2> QED
    BY <1>2, <2>2, <2>3, <2>4
<1>3. failTask(i) \/ (/\ count < MaxResumes
                      /\ running' = [running EXCEPT ![i] = NoWorker]
                      /\ paused' = paused \cup {i}
                      /\ resumeCount' = [resumeCount EXCEPT ![i] = count]
                      /\ UNCHANGED << claimed, retryAttempts, retryTimers >>)
  BY <1>0 DEF pauseTask
<1> QED
  BY <1>1, <1>2, <1>3

(* A step of the handler that pauses one of the tasks it has left.          *)
LEMMA PauseKeeps ==
    ASSUME LInv, NEW w \in Workers, NEW i \in Issues, pauseTask(i),
           NEW left \in SUBSET Issues, pausing' = [pausing EXCEPT ![w] = left \ {i}],
           phase[w] \in {"executing", "limited"}, phase' = [phase EXCEPT ![w] = "limited"],
           running[job[w]] = w => job[w] \in left,
           topLevelRunning' \in [Issues -> Workers \cup {NoWorker}],
           UNCHANGED << job, probeTimer, orphanTimers, recentlyCompleted, closedChildren,
                        tickVars, incoming, mode, restarting >>
    PROVE  LInv'
<1> USE DEF LInv, LimitsTypeOK
<1>1. /\ Drops({i})
      /\ running' = [running EXCEPT ![i] = NoWorker]
      /\ claimed' \subseteq Issues
      /\ retryAttempts' \in [Issues -> Nat]
      /\ retryTimers' \subseteq Issues
      /\ paused' \subseteq Issues
      /\ resumeCount' \in [Issues -> 0..MaxResumes - 1]
      /\ \A j \in Issues : resumeCount'[j] > 0 => j \in paused'
  BY PauseTaskKeeps
<1>2. StateTypeOK'
  BY <1>1 DEF StateTypeOK
<1>3. ShapeOK' /\ DispatchHasIssue'
  BY <1>2, ShapeKeeps
<1>4. \A v \in Workers : phase'[v] = IF v = w THEN "limited" ELSE phase[v]
  OBVIOUS
<1>5. LimitsTypeOK'
  <2>1. \A v \in Workers : phase'[v] # "idle" <=> job'[v] \in Issues
    BY <1>4 DEF Live
  <2>2. pausing' \in [Workers -> SUBSET Issues]
    OBVIOUS
  <2>3. \A v \in Workers : pausing'[v] # {} => phase'[v] = "limited"
    BY <1>4
  <2> QED
    BY <1>1, <1>2, <2>1, <2>2, <2>3 DEF Live
<1>6. RunningIsClaimed' /\ \A j \in Issues : running'[j] # NoWorker => running'[j] = running[j]
  BY <1>1, DropsKeep
<1>7. EntriesAtWork'
  BY <1>4, <1>6, NoWorkerAssumption DEF EntriesAtWork
<1>8. LimitedPauseTheirOwn'
  <2> SUFFICES ASSUME NEW v \in Workers, phase'[v] = "limited", running'[job[v]] = v
               PROVE  job[v] \in pausing'[v]
    BY DEF LimitedPauseTheirOwn
  <2>1. job[v] \in Issues
    BY <1>4 DEF Live
  <2>2. running[job[v]] = v /\ job[v] # i
    BY <1>1, <1>6, <2>1, NoWorkerAssumption DEF StateTypeOK
  <2> QED
    BY <1>4, <2>2 DEF LimitedPauseTheirOwn
<1>9. PausedAreAwaited'
  BY <1>4 DEF PausedAreAwaited
<1> QED
  BY <1>3, <1>5, <1>6, <1>7, <1>8, <1>9

(* The handler is done with its agent, which nothing lists any more.         *)
LEMMA ProbeKeeps ==
    ASSUME LInv, NEW w \in Workers, phase[w] \in {"executing", "limited"},
           pausing[w] = {}, \A i \in Issues : running[i] # w, scheduleProbe(w),
           topLevelRunning' \in [Issues -> Workers \cup {NoWorker}],
           UNCHANGED << claimed, running, retryAttempts, retryTimers, orphanTimers,
                        recentlyCompleted, closedChildren, tickVars, incoming, mode,
                        paused, resumeCount, pausing, restarting >>
    PROVE  LInv'
<1> USE NoIssueAssumption DEF LInv, LimitsTypeOK
<1>1. \A v \in Workers : /\ phase'[v] = IF v = w THEN "idle" ELSE phase[v]
                         /\ job'[v] = IF v = w THEN NoIssue ELSE job[v]
  BY DEF scheduleProbe, EndWorker
<1>2. /\ phase' \in [Workers -> WorkerPhases \cup {"limited"}]
      /\ job' \in [Workers -> Issues \cup {NoIssue}]
  BY DEF scheduleProbe, EndWorker, WorkerPhases
<1>3. StateTypeOK'
  BY DEF StateTypeOK
<1>4. ShapeOK' /\ DispatchHasIssue'
  BY <1>2, <1>3, ShapeKeeps
<1>5. LimitsTypeOK'
  <2>1. \A v \in Workers : phase'[v] # "idle" <=> job'[v] \in Issues
    BY <1>1 DEF Live
  <2>2. \A v \in Workers : pausing'[v] # {} => phase'[v] = "limited"
    BY <1>1
  <2> QED
    BY <1>2, <1>3, <2>1, <2>2 DEF Live, scheduleProbe
<1>6. RunningIsClaimed'
  BY DEF RunningIsClaimed, RunningIds
<1>7. EntriesAtWork'
  BY <1>1 DEF EntriesAtWork
<1>8. LimitedPauseTheirOwn'
  BY <1>1 DEF LimitedPauseTheirOwn
<1>9. PausedAreAwaited'
  BY DEF PausedAreAwaited, scheduleProbe
<1> QED
  BY <1>4, <1>5, <1>6, <1>7, <1>8, <1>9

(* A listed agent is the entry of its own issue, and has tasks to pause.     *)
LEMMA ListedPause ==
    ASSUME LInv, NEW w \in Workers, phase[w] = "limited", pausing[w] = {}
    PROVE  \A i \in Issues : running[i] # w
BY DEF LInv, EntriesAtWork, LimitedPauseTheirOwn

LEMMA HitKeeps ==
    ASSUME LInv, NEW w \in Workers, LimitHit(w)
    PROVE  LInv'
<1>1. job[w] \in Issues /\ pausing[w] = {} /\ phase[w] = "executing"
  BY DEF LimitHit, LInv, LimitsTypeOK, Live
<1>2. topLevelRunning' \in [Issues -> Workers \cup {NoWorker}]
  BY <1>1 DEF LimitHit, releaseTopLevel, LInv, ShapeOK, StateTypeOK
<1>3. CASE RunningIds = {} /\ scheduleProbe(w) /\ UNCHANGED << claimed, running, retryAttempts,
                                retryTimers, paused, resumeCount, pausing >>
  <2>1. \A i \in Issues : running[i] # w
    BY <1>3, NoWorkerAssumption DEF RunningIds
  <2> QED
    BY <1>1, <1>2, <1>3, <2>1, ProbeKeeps DEF LimitHit
<1>4. ASSUME NEW i \in RunningIds, pauseTask(i), pausing' = [pausing EXCEPT ![w] = RunningIds \ {i}],
             phase' = [phase EXCEPT ![w] = "limited"], UNCHANGED << job, probeTimer >>
      PROVE  LInv'
  <2>1. RunningIds \in SUBSET Issues /\ i \in Issues
    BY DEF RunningIds
  <2>2. running[job[w]] = w => job[w] \in RunningIds
    BY <1>1, NoWorkerAssumption DEF RunningIds
  <2> QED
    BY <1>1, <1>2, <1>4, <2>1, <2>2, PauseKeeps DEF LimitHit
<1> QED
  BY <1>3, <1>4 DEF LimitHit

LEMMA PauseNextKeeps ==
    ASSUME LInv, NEW w \in Workers, PauseNext(w)
    PROVE  LInv'
<1>1. topLevelRunning' \in [Issues -> Workers \cup {NoWorker}] /\ phase[w] = "limited"
  BY DEF PauseNext, LInv, ShapeOK, StateTypeOK
<1>2. CASE pausing[w] = {} /\ scheduleProbe(w) /\ UNCHANGED << claimed, running, retryAttempts,
                                retryTimers, paused, resumeCount, pausing >>
  BY <1>1, <1>2, ListedPause, ProbeKeeps DEF PauseNext
<1>3. ASSUME NEW i \in pausing[w], pauseTask(i), pausing' = [pausing EXCEPT ![w] = @ \ {i}],
             UNCHANGED << phase, job, probeTimer >>
      PROVE  LInv'
  <2>1. pausing[w] \in SUBSET Issues /\ i \in Issues
    BY DEF LInv, LimitsTypeOK
  <2>2. running[job[w]] = w => job[w] \in pausing[w]
    BY <1>1 DEF LInv, LimitedPauseTheirOwn
  <2>3. phase' = [phase EXCEPT ![w] = "limited"]
    BY <1>1, <1>3 DEF LInv, LimitsTypeOK
  <2> QED
    BY <1>1, <1>3, <2>1, <2>2, <2>3, PauseKeeps DEF PauseNext
<1> QED
  BY <1>2, <1>3 DEF PauseNext

(* The restart loop releases one task: the others are still awaited.         *)
LEMMA RestartKeeps ==
    ASSUME LInv, NEW i \in Issues, RestartTask(i), NEW left \in SUBSET Issues,
           restarting' = left \ {i}, probeTimer' \in BOOLEAN,
           mode = "running" => \A j \in paused : probeTimer' \/ j \in left \/ \E w \in Workers : phase[w] = "limited"
    PROVE  LInv'
<1> USE MaxResumesAssumption DEF LInv, LimitsTypeOK, RestartTask, workerVars
<1>1. /\ claimed' \subseteq Issues
      /\ running' \in [Issues -> Workers \cup {NoWorker}]
      /\ retryAttempts' \in [Issues -> Nat]
      /\ retryTimers' \subseteq Issues
  BY ReleaseType
<1>2. StateTypeOK'
  BY <1>1 DEF StateTypeOK
<1>3. ShapeOK' /\ DispatchHasIssue'
  BY <1>2, ShapeKeeps
<1>4. LimitsTypeOK'
  BY <1>2 DEF Live
<1>5. Drops({i})
  BY DEF releaseIssue, Drops, StateTypeOK
<1>6. RunningIsClaimed' /\ \A j \in Issues : running'[j] # NoWorker => running'[j] = running[j]
  BY <1>5, DropsKeep
<1>7. EntriesAtWork'
  BY <1>6, NoWorkerAssumption DEF EntriesAtWork
<1>8. LimitedPauseTheirOwn'
  BY <1>6, NoWorkerAssumption DEF LimitedPauseTheirOwn, Live
<1>9. PausedAreAwaited'
  BY DEF PausedAreAwaited
<1> QED
  BY <1>3, <1>4, <1>6, <1>7, <1>8, <1>9

LEMMA ProbeRunKeeps ==
    ASSUME LInv, runProbe
    PROVE  LInv'
<1>1. CASE paused = {}
  <2>1. UNCHANGED << stateVars, workerVars, tickVars, incoming, mode, paused, resumeCount, pausing, restarting >>
    BY <1>1 DEF runProbe
  <2>2. probeTimer' = FALSE
    BY DEF runProbe
  <2>3. LimitsTypeOK'
    BY <2>1, <2>2 DEF LInv, LimitsTypeOK, StateTypeOK, Live, stateVars, workerVars
  <2>4. ShapeOK' /\ DispatchHasIssue'
    BY <2>1 DEF LInv, ShapeOK, StateTypeOK, DispatchHasIssue, stateVars, workerVars, tickVars
  <2>5. RunningIsClaimed' /\ EntriesAtWork' /\ LimitedPauseTheirOwn'
    BY <2>1 DEF LInv, RunningIsClaimed, RunningIds, EntriesAtWork, LimitedPauseTheirOwn, stateVars, workerVars
  <2>6. PausedAreAwaited'
    BY <1>1, <2>1 DEF PausedAreAwaited
  <2> QED
    BY <2>3, <2>4, <2>5, <2>6 DEF LInv
<1>2. CASE paused # {}
  <2>1. PICK i \in paused : RestartTask(i) /\ restarting' = paused \ {i}
    BY <1>2 DEF runProbe
  <2>2. i \in Issues /\ paused \in SUBSET Issues /\ probeTimer' \in BOOLEAN
    BY DEF LInv, LimitsTypeOK, runProbe
  <2> QED
    BY <2>1, <2>2, RestartKeeps
<1> QED
  BY <1>1, <1>2

LEMMA RestartNextKeeps ==
    ASSUME LInv, RestartNext
    PROVE  LInv'
<1>1. PICK i \in restarting : RestartTask(i) /\ restarting' = restarting \ {i}
  BY DEF RestartNext
<1>2. i \in Issues /\ restarting \in SUBSET Issues /\ probeTimer' \in BOOLEAN
  BY DEF LInv, LimitsTypeOK, RestartNext
<1>3. mode = "running" => \A j \in paused : probeTimer' \/ j \in restarting \/ \E w \in Workers : phase[w] = "limited"
  BY DEF LInv, PausedAreAwaited, RestartNext
<1> QED
  BY <1>1, <1>2, <1>3, RestartKeeps

-----------------------------------------------------------------------------
(* The invariant is inductive                                               *)

LEMMA LInvInit == LInit => LInv
<1> SUFFICES ASSUME LInit PROVE LInv
  OBVIOUS
<1>1. Init /\ IInv
  BY InitIInv DEF LInit
<1>2. LimitsTypeOK
  <2>1. 0 \in 0..MaxResumes - 1
    BY MaxResumesAssumption
  <2>2. resumeCount \in [Issues -> 0..MaxResumes - 1]
    BY <2>1 DEF LInit
  <2>3. StateTypeOK
    BY <1>1 DEF IInv, TypeOK
  <2>4. /\ phase \in [Workers -> WorkerPhases \cup {"limited"}]
        /\ job \in [Workers -> Issues \cup {NoIssue}]
        /\ \A w \in Workers : Live(w) <=> job[w] \in Issues
    BY <1>1, NoIssueAssumption DEF Init, Live, WorkerPhases
  <2>5. /\ paused = {} /\ paused \subseteq Issues /\ restarting \subseteq Issues
        /\ pausing \in [Workers -> SUBSET Issues]
        /\ \A w \in Workers : pausing[w] # {} => phase[w] = "limited"
        /\ \A i \in Issues : resumeCount[i] > 0 => i \in paused
    BY DEF LInit
  <2>6. probeTimer \in BOOLEAN
    BY DEF LInit
  <2> QED
    BY <2>2, <2>3, <2>4, <2>5, <2>6, Zenon DEF LimitsTypeOK
<1>3. ShapeOK /\ DispatchHasIssue /\ RunningIsClaimed
  BY <1>1 DEF IInv, TypeOK, ShapeOK, CoreInv
<1>4. EntriesAtWork /\ LimitedPauseTheirOwn /\ PausedAreAwaited
  BY <1>1, NoWorkerAssumption
     DEF LInit, Init, createState, EntriesAtWork, LimitedPauseTheirOwn, PausedAreAwaited
<1> QED
  BY <1>2, <1>3, <1>4 DEF LInv

LEMMA LInvStep == LInv /\ [LNext]_lvars => LInv'
<1> SUFFICES ASSUME LInv, [LNext]_lvars PROVE LInv'
  OBVIOUS
<1>1. CASE UNCHANGED lvars
  BY <1>1 DEF lvars, limitVars, vars, stateVars, workerVars, tickVars, LInv, LimitsTypeOK, ShapeOK,
     StateTypeOK, Live, DispatchHasIssue, RunningIsClaimed, RunningIds, EntriesAtWork,
     LimitedPauseTheirOwn, PausedAreAwaited
<1> QED
  BY <1>1, OthersKeep, HitKeeps, PauseNextKeeps, ProbeRunKeeps, RestartNextKeeps DEF LNext, LimitNext

LEMMA LimitInvariant == LSpec => []LInv
BY LInvInit, LInvStep, PTL DEF LSpec

(* Whatever the agents, ticks and timers do between the steps of a handler, *)
(* every task usage-limit-recovery.ts has paused is waited for by a probe   *)
(* timer, a restart loop or a handler about to schedule a probe.            *)
THEOREM PausesStaySound == LSpec => []PausesAreSound
<1>1. LInv => PausesAreSound
  BY DEF LInv, PausesAreSound
<1> QED
  BY <1>1, LimitInvariant, PTL

-----------------------------------------------------------------------------
(* The running map as a registry                                            *)

LEMMA LimitForget ==
    ASSUME NEW S \in SUBSET Issues, Drops(S),
           \A w \in Workers : phase'[w] \in {"executing", "limited"} <=> phase[w] \in {"executing", "limited"}
    PROVE  LimitRegistry!RegistryNext
<1>1. LimitRegistry!Forget(S)
  BY DEF Drops, LimitRegistry!Forget, LimitRegistry!Without
<1> QED
  BY <1>1 DEF LimitRegistry!RegistryNext

LEMMA LimitLeave ==
    ASSUME LInv, NEW w \in Workers, NEW S \in SUBSET Issues, Drops(S),
           phase[w] \in {"executing", "limited"}, \A i \in Issues \ S : running[i] # w,
           NEW p, phase' = [phase EXCEPT ![w] = p], p \notin {"executing", "limited"}
    PROVE  LimitRegistry!RegistryNext
<1>1. \A v \in Workers : phase'[v] = IF v = w THEN p ELSE phase[v]
  BY DEF LInv, LimitsTypeOK
<1>2. LimitRegistry!Leave(w, S)
  BY <1>1 DEF Drops, LimitRegistry!Leave, LimitRegistry!Without
<1> QED
  BY <1>2 DEF LimitRegistry!RegistryNext

LEMMA LimitOutline ==
    ASSUME LInv, Outline
    PROVE  LimitRegistry!RegistryNext
<1>1. ASSUME NEW S \in SUBSET Issues, Drops(S), UNCHANGED << phase, job >>
      PROVE  LimitRegistry!RegistryNext
  BY <1>1, LimitForget
<1>2. ASSUME NEW w \in Workers, NEW i \in Issues, Starts(w, i)
      PROVE  LimitRegistry!RegistryNext
  <2>1. running[i] = NoWorker
    BY <1>2 DEF Starts, LInv, RunningIsClaimed, RunningIds
  <2>2. \A v \in Workers : phase'[v] = IF v = w THEN "executing" ELSE phase[v]
    BY <1>2 DEF Starts, LInv, LimitsTypeOK
  <2>3. phase[w] = "idle"
    BY <1>2 DEF Starts, Live
  <2>4. LimitRegistry!Enter(w, i)
    BY <1>2, <2>1, <2>2, <2>3 DEF Starts, LimitRegistry!Enter
  <2> QED
    BY <2>4 DEF LimitRegistry!RegistryNext
<1>3. ASSUME NEW w \in Workers, NEW S \in SUBSET Issues, Returns(w, S)
      PROVE  LimitRegistry!RegistryNext
  <2>1. \A i \in Issues \ S : running[i] # w
    BY <1>3 DEF Returns, LInv, EntriesAtWork
  <2>2. PICK p \in {"succeeded", "exceeded", "failed"} : phase' = [phase EXCEPT ![w] = p]
    BY <1>3 DEF Returns
  <2> QED
    BY <1>3, <2>1, <2>2, LimitLeave DEF Returns
<1>4. ASSUME NEW w \in Workers, NEW S \in SUBSET Issues, Ends(w, S)
      PROVE  LimitRegistry!RegistryNext
  <2>1. CASE phase[w] = "executing"
    <3>1. \A i \in Issues \ S : running[i] # w
      BY <1>4, <2>1 DEF Ends, LInv, EntriesAtWork
    <3>2. "idle" \notin {"executing", "limited"}
      OBVIOUS
    <3> QED
      BY <1>4, <2>1, <3>1, <3>2, LimitLeave DEF Ends, EndWorker
  <2>2. CASE phase[w] # "executing"
    <3>1. \A v \in Workers : phase'[v] = IF v = w THEN "idle" ELSE phase[v]
      BY <1>4 DEF Ends, EndWorker, LInv, LimitsTypeOK
    <3> QED
      BY <1>4, <2>2, <3>1, LimitForget DEF Ends
  <2> QED
    BY <2>1, <2>2
<1> QED
  BY <1>1, <1>2, <1>3, <1>4 DEF Outline

(* What the handlers and the probe do to the map.                            *)
LEMMA LimitSteps ==
    ASSUME LInv, LimitNext
    PROVE  LimitRegistry!RegistryNext \/ UNCHANGED LimitRegistry!rvars
<1>1. ASSUME NEW w \in Workers, scheduleProbe(w), phase[w] \in {"executing", "limited"},
             \A i \in Issues : running[i] # w, UNCHANGED running, UNCHANGED claimed
      PROVE  LimitRegistry!RegistryNext
  <2>1. Drops({})
    BY <1>1 DEF Drops, LInv, ShapeOK, StateTypeOK
  <2>2. "idle" \notin {"executing", "limited"} /\ {} \in SUBSET Issues
    OBVIOUS
  <2> QED
    BY <1>1, <2>1, <2>2, LimitLeave DEF scheduleProbe, EndWorker
<1>2. ASSUME NEW w \in Workers, NEW i \in Issues, pauseTask(i), phase[w] \in {"executing", "limited"},
             phase' = phase \/ phase' = [phase EXCEPT ![w] = "limited"]
      PROVE  LimitRegistry!RegistryNext
  <2>1. Drops({i})
    BY <1>2, PauseTaskKeeps
  <2>2. \A v \in Workers : phase'[v] \in {"executing", "limited"} <=> phase[v] \in {"executing", "limited"}
    BY <1>2 DEF LInv, LimitsTypeOK
  <2> QED
    BY <2>1, <2>2, LimitForget
<1>3. ASSUME NEW w \in Workers, LimitHit(w) PROVE LimitRegistry!RegistryNext
  <2>1. CASE RunningIds = {} /\ scheduleProbe(w) /\ UNCHANGED << claimed, running >>
    BY <1>1, <1>3, <2>1, NoWorkerAssumption DEF LimitHit, RunningIds
  <2>2. ASSUME NEW i \in RunningIds, pauseTask(i), phase' = [phase EXCEPT ![w] = "limited"]
        PROVE  LimitRegistry!RegistryNext
    BY <1>2, <1>3, <2>2 DEF LimitHit, RunningIds
  <2> QED
    BY <1>3, <2>1, <2>2 DEF LimitHit
<1>4. ASSUME NEW w \in Workers, PauseNext(w) PROVE LimitRegistry!RegistryNext
  <2>1. CASE pausing[w] = {} /\ scheduleProbe(w) /\ UNCHANGED << claimed, running >>
    BY <1>1, <1>4, <2>1, ListedPause DEF PauseNext
  <2>2. ASSUME NEW i \in pausing[w], pauseTask(i), UNCHANGED phase
        PROVE  LimitRegistry!RegistryNext
    BY <1>2, <1>4, <2>2 DEF PauseNext, LInv, LimitsTypeOK
  <2> QED
    BY <1>4, <2>1, <2>2 DEF PauseNext
<1>5. ASSUME NEW i \in Issues, RestartTask(i) PROVE LimitRegistry!RegistryNext
  <2>1. Drops({i})
    BY <1>5 DEF RestartTask, releaseIssue, Drops, LInv, ShapeOK, StateTypeOK
  <2> QED
    BY <1>5, <2>1, LimitForget DEF RestartTask, workerVars
<1>6. CASE runProbe
  <2>1. CASE paused = {}
    BY <1>6, <2>1 DEF runProbe, stateVars, workerVars, LimitRegistry!rvars
  <2>2. CASE paused # {}
    BY <1>5, <1>6, <2>2 DEF runProbe, LInv, LimitsTypeOK
  <2> QED
    BY <2>1, <2>2
<1>7. CASE RestartNext
  BY <1>5, <1>7 DEF RestartNext, LInv, LimitsTypeOK
<1> QED
  BY <1>3, <1>4, <1>6, <1>7 DEF LimitNext

LEMMA LimitRegistryStep == LInv /\ [LNext]_lvars => [LimitRegistry!RegistryNext]_(LimitRegistry!rvars)
<1> SUFFICES ASSUME LInv, [LNext]_lvars
             PROVE  LimitRegistry!RegistryNext \/ UNCHANGED LimitRegistry!rvars
  OBVIOUS
<1>1. CASE OthersNext
  <2>1. ShapeOK /\ DispatchHasIssue /\ LiveHaveJobs /\ [Next]_vars
    BY <1>1 DEF LInv, LimitsTypeOK, LiveHaveJobs, OthersNext
  <2> QED
    BY <2>1, NextOutline, LimitOutline
<1>2. CASE LimitNext
  BY <1>2, LimitSteps
<1>3. CASE UNCHANGED lvars
  BY <1>3 DEF lvars, vars, stateVars, workerVars, LimitRegistry!rvars
<1> QED
  BY <1>1, <1>2, <1>3 DEF LNext

(* However the handlers of usage-limit-recovery.ts interleave with ticks and *)
(* dispatches, an agent is entered where no entry is and no entry outlives   *)
(* the handler its agent called.                                            *)
THEOREM LimitsImplementRegistry == LSpec => ImplementsRegistryAtLimits
<1>1. LInit => LimitRegistry!RegistryInit
  BY DEF LInit, Init, createState, LimitRegistry!RegistryInit
<1> QED
  BY <1>1, LimitRegistryStep, LimitInvariant, PTL
     DEF LSpec, ImplementsRegistryAtLimits, LimitRegistry!RegistrySpec
=============================================================================
