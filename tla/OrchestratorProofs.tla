------------------------- MODULE OrchestratorProofs -------------------------
(***************************************************************************)
(* For any number of issues, agents and ticks: the type invariant and the   *)
(* safety invariants of Orchestrator, proved together as one inductive      *)
(* invariant, because each action relies on several of them; then what      *)
(* builds on it: the slots, the running map as a directory of agents at     *)
(* work, and, with the observer of OrchestratorHistory, the blockers of     *)
(* what a tick starts.                                                      *)
(***************************************************************************)
EXTENDS OrchestratorHistory, FiniteSetTheorems, SequenceTheorems, TLAPS

-----------------------------------------------------------------------------
(* An agent has a job exactly while it is live. *)
JobMatchesPhase == \A w \in Workers : (job[w] = NoIssue) <=> ~Live(w)

(* A tick in its dispatch loop has an issue to dispatch. *)
DispatchHasIssue == \A t \in Ticks : tickPc[t] = "dispatch" => queue[t] # << >>

(* TypeOK but for the phases, of which usage limits add one.               *)
ShapeOK ==
    /\ StateTypeOK
    /\ job \in [Workers -> Issues \cup {NoIssue}]
    /\ tickPc \in [Ticks -> TickPcs]
    /\ snapshot \in [Ticks -> SUBSET Issues]
    /\ stopping \in [Ticks -> Issues \cup {NoIssue}]
    /\ queue \in [Ticks -> Seq(Issues)]
    /\ incoming \subseteq Issues
    /\ mode \in {"running", "stopping", "stopped"}

(* Whoever is live works on an issue.                                       *)
LiveHaveJobs == \A w \in Workers : Live(w) => job[w] \in Issues

(* The safety of the shared state.                                          *)
CoreInv ==
    /\ JobMatchesPhase
    /\ RunningIsClaimed
    /\ EntriesAreExecuting
    /\ RunningHoldsSlot
    /\ RetryStateMatchesTimer
    /\ ClaimHasOwner

(* The inductive invariant of Orchestrator.                                 *)
IInv == TypeOK /\ DispatchHasIssue /\ CoreInv

coreVars == << claimed, running, topLevelRunning, retryTimers, retryAttempts,
               phase, job, mode >>

-----------------------------------------------------------------------------
(* Lemmas on the operations the actions share *)

(* What a tick keeps of the eligible issues is a sequence of issues. *)
LEMMA DispatchOrdersType ==
    ASSUME NEW eligible \in SUBSET Issues, NEW available,
           NEW order \in DispatchOrders(eligible, available)
    PROVE  order \in Seq(Issues)
<1>1. PICK chosen \in SUBSET eligible : order \in SetToSeqs(chosen)
  BY DEF DispatchOrders, kSubset
<1>2. IsFiniteSet(chosen)
  BY FS_Subset, IssuesAssumption
<1>3. Cardinality(chosen) \in Nat
  BY <1>2, FS_CardinalityType
<1>4. order \in [1..Cardinality(chosen) -> chosen]
  BY <1>1 DEF SetToSeqs
<1> QED
  BY <1>3, <1>4, SeqDef

(* A step that leaves the claims, maps, timers, counts and agents alone. *)
LEMMA CoreUnchanged ==
    ASSUME CoreInv, UNCHANGED coreVars
    PROVE  CoreInv'
BY DEF CoreInv, coreVars, JobMatchesPhase, Live, RunningIsClaimed, EntriesAreExecuting,
       RunningHoldsSlot, RetryStateMatchesTimer, ClaimHasOwner, RunningIds, SlotHolders

(* Releasing an issue with no agent ending: it loses its claim, its entry,  *)
(* its count and its timer at once.                                        *)
LEMMA ReleasePreserves ==
    ASSUME TypeOK, CoreInv, NEW i \in Issues, releaseIssue(i),
           UNCHANGED << topLevelRunning, phase, job, mode >>
    PROVE  CoreInv'
<1> USE DEF TypeOK, StateTypeOK, releaseIssue, CoreInv
<1>1. JobMatchesPhase'
  BY DEF JobMatchesPhase, Live
<1>2. RunningIsClaimed'
  BY NoWorkerAssumption DEF RunningIsClaimed, RunningIds
<1>3. EntriesAreExecuting'
  BY NoWorkerAssumption DEF EntriesAreExecuting
<1>4. RunningHoldsSlot'
  BY DEF RunningHoldsSlot, RunningIds, SlotHolders
<1>5. RetryStateMatchesTimer'
  BY DEF RetryStateMatchesTimer
<1>6. ClaimHasOwner'
  BY DEF ClaimHasOwner, Live
<1> QED
  BY <1>1, <1>2, <1>3, <1>4, <1>5, <1>6

(* An agent that had returned ends and releases its issue. *)
LEMMA EndPreserves ==
    ASSUME TypeOK, CoreInv, NEW w \in Workers,
           phase[w] \in {"succeeded", "exceeded", "failed"},
           releaseIssue(job[w]), EndWorker(w), UNCHANGED << topLevelRunning, mode >>
    PROVE  CoreInv'
<1> DEFINE i == job[w]
<1> USE DEF TypeOK, StateTypeOK, releaseIssue, EndWorker, CoreInv
<1>0. i \in Issues
  BY DEF JobMatchesPhase, Live
<1>1. JobMatchesPhase'
  BY NoIssueAssumption DEF JobMatchesPhase, Live
<1>2. RunningIsClaimed'
  BY <1>0, NoWorkerAssumption DEF RunningIsClaimed, RunningIds
<1>3. EntriesAreExecuting'
  BY <1>0, NoWorkerAssumption DEF EntriesAreExecuting
<1>4. RunningHoldsSlot'
  BY <1>0 DEF RunningHoldsSlot, RunningIds, SlotHolders
<1>5. RetryStateMatchesTimer'
  BY <1>0 DEF RetryStateMatchesTimer
<1>6. ClaimHasOwner'
  BY <1>0 DEF ClaimHasOwner, Live
<1> QED
  BY <1>1, <1>2, <1>3, <1>4, <1>5, <1>6

(* The claim that precedes it makes the entry of a new agent the only one   *)
(* of its issue.                                                           *)
LEMMA StartPreserves ==
    ASSUME TypeOK, CoreInv, NEW i \in Issues, StartWorker(i),
           UNCHANGED << retryTimers, retryAttempts, mode >>
    PROVE  CoreInv'
<1> USE DEF TypeOK, StateTypeOK, CoreInv
<1>0. PICK w \in Workers :
        /\ ~Live(w)
        /\ claimed' = claimed \cup {i}
        /\ running' = [running EXCEPT ![i] = w]
        /\ topLevelRunning' = [topLevelRunning EXCEPT ![i] = w]
        /\ phase' = [phase EXCEPT ![w] = "executing"]
        /\ job' = [job EXCEPT ![w] = i]
  BY DEF StartWorker
<1>1. JobMatchesPhase'
  BY <1>0, NoIssueAssumption DEF JobMatchesPhase, Live
<1>2. RunningIsClaimed'
  BY <1>0 DEF RunningIsClaimed, RunningIds
<1>3. EntriesAreExecuting'
  BY <1>0 DEF EntriesAreExecuting, Live
<1>4. RunningHoldsSlot'
  BY <1>0, NoWorkerAssumption DEF RunningHoldsSlot, RunningIds, SlotHolders
<1>5. RetryStateMatchesTimer'
  BY DEF RetryStateMatchesTimer
<1>6. ClaimHasOwner'
  <2> SUFFICES ASSUME mode # "stopping", NEW j \in claimed', j \notin retryTimers
               PROVE  \E v \in Workers : Live(v)' /\ job'[v] = j
    BY DEF ClaimHasOwner
  <2>1. CASE j = i
    BY <1>0, <2>1 DEF Live
  <2>2. CASE j # i
    <3>1. PICK v \in Workers : Live(v) /\ job[v] = j
      BY <1>0, <2>2 DEF ClaimHasOwner
    <3> QED
      BY <1>0, <3>1 DEF Live
  <2> QED
    BY <2>1, <2>2
<1> QED
  BY <1>1, <1>2, <1>3, <1>4, <1>5, <1>6

(* An agent that threw or returned loses its slot, and its issue the entry. *)
LEMMA ThrowPreserves ==
    ASSUME TypeOK, CoreInv, NEW w \in Workers, WorkerThrows(w)
    PROVE  CoreInv'
<1> DEFINE i == job[w]
<1> USE DEF TypeOK, StateTypeOK, WorkerThrows, releaseIssue, releaseTopLevel, EndWorker, CoreInv
<1>0. i \in Issues
  BY DEF JobMatchesPhase, Live
<1>1. JobMatchesPhase'
  BY NoIssueAssumption DEF JobMatchesPhase, Live
<1>2. RunningIsClaimed'
  BY <1>0, NoWorkerAssumption DEF RunningIsClaimed, RunningIds
<1>3. EntriesAreExecuting'
  BY <1>0, NoWorkerAssumption DEF EntriesAreExecuting
<1>4. RunningHoldsSlot'
  BY <1>0 DEF RunningHoldsSlot, RunningIds, SlotHolders
<1>5. RetryStateMatchesTimer'
  BY <1>0 DEF RetryStateMatchesTimer
<1>6. ClaimHasOwner'
  BY <1>0 DEF ClaimHasOwner, Live
<1> QED
  BY <1>1, <1>2, <1>3, <1>4, <1>5, <1>6

LEMMA ReturnPreserves ==
    ASSUME TypeOK, CoreInv, NEW w \in Workers, WorkerReturns(w)
    PROVE  CoreInv'
<1> DEFINE i == job[w]
<1> USE DEF TypeOK, StateTypeOK, WorkerReturns, releaseTopLevel, CoreInv
<1>0. i \in Issues
  BY DEF JobMatchesPhase, Live
<1>1. JobMatchesPhase'
  BY DEF JobMatchesPhase, Live
<1>2. RunningIsClaimed'
  BY <1>0, NoWorkerAssumption DEF RunningIsClaimed, RunningIds
<1>3. EntriesAreExecuting'
  BY <1>0, NoWorkerAssumption DEF EntriesAreExecuting
<1>4. RunningHoldsSlot'
  BY <1>0 DEF RunningHoldsSlot, RunningIds, SlotHolders
<1>5. RetryStateMatchesTimer'
  BY DEF RetryStateMatchesTimer
<1>6. ClaimHasOwner'
  BY <1>0 DEF ClaimHasOwner, Live
<1> QED
  BY <1>1, <1>2, <1>3, <1>4, <1>5, <1>6

(* A stalled entry is dropped; its claim is kept by the backoff timer.      *)
LEMMA StallPreserves ==
    ASSUME TypeOK, CoreInv, NEW t \in Ticks, NEW i \in Issues, FinishStall(t, i)
    PROVE  CoreInv'
<1>1. CASE /\ RetryLeft(i)
           /\ running' = [running EXCEPT ![i] = NoWorker]
           /\ retryAttempts' = [retryAttempts EXCEPT ![i] = @ + 1]
           /\ scheduleRetry(i)
           /\ UNCHANGED claimed
  <2> USE <1>1 DEF TypeOK, StateTypeOK, FinishStall, workerVars, CoreInv
  <2>1. JobMatchesPhase'
    BY DEF JobMatchesPhase, Live
  <2>2. RunningIsClaimed'
    BY DEF RunningIsClaimed, RunningIds
  <2>3. EntriesAreExecuting'
    BY NoWorkerAssumption DEF EntriesAreExecuting
  <2>4. RunningHoldsSlot'
    BY DEF RunningHoldsSlot, RunningIds, SlotHolders
  <2>5. RetryStateMatchesTimer'
    BY MaxRetriesAssumption DEF RetryStateMatchesTimer, RetryLeft, scheduleRetry
  <2>6. ClaimHasOwner'
    BY DEF ClaimHasOwner, Live, scheduleRetry
  <2> QED
    BY <2>1, <2>2, <2>3, <2>4, <2>5, <2>6
<1>2. CASE releaseIssue(i)
  BY <1>2, ReleasePreserves DEF FinishStall, workerVars
<1> QED
  BY <1>1, <1>2 DEF FinishStall

(* An agent ends whose attempt failed: the backoff timer takes the claim    *)
(* over, or everything is released.                                        *)
LEMMA FailPreserves ==
    ASSUME TypeOK, CoreInv, NEW w \in Workers, FinishFailed(w)
    PROVE  CoreInv'
<1> DEFINE i == job[w]
<1>1. CASE /\ RetryLeft(i)
           /\ retryAttempts' = [retryAttempts EXCEPT ![i] = @ + 1]
           /\ scheduleRetry(i)
           /\ UNCHANGED << claimed, running >>
  <2> USE <1>1 DEF TypeOK, StateTypeOK, FinishFailed, EndWorker, CoreInv
  <2>0. i \in Issues
    BY DEF JobMatchesPhase, Live
  <2>1. JobMatchesPhase'
    BY NoIssueAssumption DEF JobMatchesPhase, Live
  <2>2. RunningIsClaimed'
    BY DEF RunningIsClaimed, RunningIds
  <2>3. EntriesAreExecuting'
    BY DEF EntriesAreExecuting
  <2>4. RunningHoldsSlot'
    BY DEF RunningHoldsSlot, RunningIds, SlotHolders
  <2>5. RetryStateMatchesTimer'
    BY <2>0, MaxRetriesAssumption DEF RetryStateMatchesTimer, RetryLeft, scheduleRetry
  <2>6. ClaimHasOwner'
    BY <2>0 DEF ClaimHasOwner, Live, scheduleRetry
  <2> QED
    BY <2>1, <2>2, <2>3, <2>4, <2>5, <2>6
<1>2. CASE releaseIssue(i)
  BY <1>2, EndPreserves DEF FinishFailed
<1> QED
  BY <1>1, <1>2 DEF FinishFailed

(* The drain removes no claim of a listed agent, and the two halves of      *)
(* stop() leave nothing that needs an owner.                               *)
LEMMA DrainPreserves ==
    ASSUME TypeOK, CoreInv, NEW t \in Ticks, Drain(t)
    PROVE  CoreInv'
BY DEF TypeOK, StateTypeOK, Drain, workerVars, CoreInv, JobMatchesPhase, Live,
       RunningIsClaimed, EntriesAreExecuting, RunningHoldsSlot, RetryStateMatchesTimer,
       ClaimHasOwner, RunningIds, SlotHolders

LEMMA BeginShutdownPreserves ==
    ASSUME TypeOK, CoreInv, BeginShutdown
    PROVE  CoreInv'
BY DEF TypeOK, StateTypeOK, BeginShutdown, workerVars, CoreInv, JobMatchesPhase, Live,
       RunningIsClaimed, EntriesAreExecuting, RunningHoldsSlot, RetryStateMatchesTimer,
       ClaimHasOwner, RunningIds, SlotHolders

LEMMA FinishShutdownPreserves ==
    ASSUME TypeOK, CoreInv, FinishShutdown
    PROVE  CoreInv'
BY NoWorkerAssumption
   DEF TypeOK, StateTypeOK, FinishShutdown, workerVars, CoreInv, JobMatchesPhase, Live,
       RunningIsClaimed, EntriesAreExecuting, RunningHoldsSlot, RetryStateMatchesTimer,
       ClaimHasOwner, RunningIds, SlotHolders

-----------------------------------------------------------------------------
(* The invariant is inductive *)

LEMMA InitIInv == Init => IInv
BY TopLevelMaxAssumption, NoWorkerAssumption
   DEF Init, createState, IInv, TypeOK, StateTypeOK, WorkerPhases, TickPcs,
       DispatchHasIssue, CoreInv, JobMatchesPhase, Live, RunningIsClaimed,
       EntriesAreExecuting, RunningHoldsSlot, RetryStateMatchesTimer, ClaimHasOwner,
       RunningIds, SlotHolders

(* What releaseIssue and StartWorker assign is well typed. *)
LEMMA ReleaseType ==
    ASSUME StateTypeOK, NEW i \in Issues, releaseIssue(i)
    PROVE  /\ claimed' \subseteq Issues
           /\ running' \in [Issues -> Workers \cup {NoWorker}]
           /\ retryAttempts' \in [Issues -> Nat]
           /\ retryTimers' \subseteq Issues
BY DEF StateTypeOK, releaseIssue

LEMMA StartType ==
    ASSUME ShapeOK, NEW i \in Issues, StartWorker(i) \/ SkipIssue
    PROVE  /\ claimed' \subseteq Issues
           /\ running' \in [Issues -> Workers \cup {NoWorker}]
           /\ topLevelRunning' \in [Issues -> Workers \cup {NoWorker}]
           /\ job' \in [Workers -> Issues \cup {NoIssue}]
<1> USE DEF ShapeOK, StateTypeOK
<1>1. CASE StartWorker(i)
  BY <1>1 DEF StartWorker
<1>2. CASE SkipIssue
  BY <1>2 DEF SkipIssue, workerVars
<1> QED
  BY <1>1, <1>2

(* Typing, and the queue of a tick in its dispatch loop. *)
LEMMA ShapeStep ==
    ASSUME ShapeOK, DispatchHasIssue, LiveHaveJobs, [Next]_vars
    PROVE  ShapeOK' /\ DispatchHasIssue'
<1> USE DEF ShapeOK, StateTypeOK, TickPcs, DispatchHasIssue, workerVars, tickVars, GoTo
<1>0. \A w \in Workers : Live(w) => job[w] \in Issues
  BY DEF LiveHaveJobs
<1>1. ASSUME NEW t \in Ticks, TickStart(t) PROVE ShapeOK' /\ DispatchHasIssue'
  BY <1>1 DEF TickStart, pruneStaleState, RunningIds
<1>2. ASSUME NEW t \in Ticks, FetchStates(t) PROVE ShapeOK' /\ DispatchHasIssue'
  <2>1. PICK pc \in {"drain", "stops"}, leaving \in SUBSET Issues :
          /\ tickPc' = [tickPc EXCEPT ![t] = pc]
          /\ snapshot' = [snapshot EXCEPT ![t] = leaving]
    <3>1. snapshot[t] \in SUBSET Issues
      OBVIOUS
    <3> HIDE DEF ShapeOK
    <3> QED
      BY <1>2, <3>1 DEF FetchStates
  <2>2. UNCHANGED <<stateVars, workerVars, stopping, queue, incoming, mode>>
    BY <1>2 DEF FetchStates
  <2> QED
    BY <2>1, <2>2 DEF stateVars
<1>3. ASSUME NEW t \in Ticks, NEW i \in Issues, BeginStop(t, i)
      PROVE  ShapeOK' /\ DispatchHasIssue'
  BY <1>3 DEF BeginStop, stateVars
<1>4. ASSUME NEW t \in Ticks, FinishStop(t) PROVE ShapeOK' /\ DispatchHasIssue'
  <2>1. stopping[t] \in Issues
    BY <1>4 DEF FinishStop
  <2> QED
    BY <1>4, <2>1, ReleaseType DEF FinishStop
<1>5. ASSUME NEW t \in Ticks, BeginStalls(t) PROVE ShapeOK' /\ DispatchHasIssue'
  BY <1>5 DEF BeginStalls, stateVars, RunningIds
<1>6. ASSUME NEW t \in Ticks, NEW i \in Issues, FinishStall(t, i)
      PROVE  ShapeOK' /\ DispatchHasIssue'
  <2>1. /\ claimed' \subseteq Issues
        /\ running' \in [Issues -> Workers \cup {NoWorker}]
        /\ retryAttempts' \in [Issues -> Nat]
        /\ retryTimers' \subseteq Issues
    <3>1. CASE releaseIssue(i)
      BY <3>1, ReleaseType
    <3>2. CASE ~releaseIssue(i)
      <4>1. /\ running' = [running EXCEPT ![i] = NoWorker]
            /\ retryAttempts' = [retryAttempts EXCEPT ![i] = @ + 1]
            /\ retryTimers' = retryTimers \cup {i}
            /\ claimed' = claimed
        BY <1>6, <3>2 DEF FinishStall, scheduleRetry
      <4> QED
        BY <4>1
    <3> QED
      BY <3>1, <3>2
  <2> QED
    BY <1>6, <2>1 DEF FinishStall
<1>7. ASSUME NEW t \in Ticks, Drain(t) PROVE ShapeOK' /\ DispatchHasIssue'
  BY <1>7 DEF Drain
<1>8. ASSUME NEW t \in Ticks, FetchCandidates(t) PROVE ShapeOK' /\ DispatchHasIssue'
  <2>1. ASSUME NEW eligible \in SUBSET Issues, NEW available,
               NEW order \in DispatchOrders(eligible, available),
               queue' = [queue EXCEPT ![t] = order],
               GoTo(t, IF order = << >> THEN "idle" ELSE "dispatch"),
               FillCache
        PROVE  ShapeOK' /\ DispatchHasIssue'
    <3>1. order \in Seq(Issues)
      BY DispatchOrdersType
    <3> QED
      BY <1>8, <2>1, <3>1 DEF FetchCandidates, FillCache
  <2>2. CASE GoTo(t, "idle") /\ UNCHANGED << closedChildren, queue >>
    BY <1>8, <2>2 DEF FetchCandidates
  <2>3. ASSUME NEW candidates \in SUBSET Issues, NEW done \in SUBSET candidates,
               NEW terminal
        PROVE  filterCandidates(candidates, done, terminal) \in SUBSET Issues
    BY DEF filterCandidates
  <2> QED
    BY <1>8, <2>1, <2>2, <2>3 DEF FetchCandidates
<1>10. ASSUME NEW t \in Ticks, DispatchNext(t) PROVE ShapeOK' /\ DispatchHasIssue'
  <2>1. queue[t] \in Seq(Issues) /\ queue[t] # << >>
    BY <1>10 DEF DispatchNext
  <2>2. Head(queue[t]) \in Issues /\ Tail(queue[t]) \in Seq(Issues)
    BY <2>1, HeadTailProperties
  <2>3. Len(queue[t]) # 1 => Tail(queue[t]) # << >>
    <3>1. Len(queue[t]) \in Nat \ {0} /\ Len(Tail(queue[t])) = Len(queue[t]) - 1
      BY <2>1, HeadTailProperties, EmptySeq
    <3>2. Len(<< >>) = 0
      BY EmptySeq
    <3>3. Tail(queue[t]) = << >> => Len(Tail(queue[t])) = 0
      BY <3>2, Zenon
    <3> QED
      BY <3>1, <3>3
  <2>4. \A q \in Ticks : queue'[q] = IF q = t THEN Tail(queue[t]) ELSE queue[q]
    BY <1>10 DEF DispatchNext
  <2>5. DispatchHasIssue'
    BY <1>10, <2>3, <2>4 DEF DispatchNext
  <2> QED
    BY StartType, <1>10, <2>2, <2>5 DEF DispatchNext
<1>11. ASSUME NEW w \in Workers, WorkerStep(w) PROVE ShapeOK' /\ DispatchHasIssue'
  <2>1. CASE WorkerThrows(w)
    BY <1>0, <2>1 DEF WorkerThrows, Live, releaseIssue, releaseTopLevel, EndWorker
  <2>2. CASE WorkerReturns(w)
    BY <1>0, <2>2 DEF WorkerReturns, Live, releaseTopLevel, RollupMark
  <2>3. CASE FinishSucceeded(w)
    BY <1>0, <2>3 DEF FinishSucceeded, Live, releaseIssue, EndWorker
  <2>4. CASE FinishExceeded(w)
    BY <1>0, <2>4 DEF FinishExceeded, Live, releaseIssue, EndWorker
  <2>5. CASE FinishFailed(w)
    <3>1. job[w] \in Issues
      BY <1>0, <2>5 DEF FinishFailed, Live
    <3>2. /\ claimed' \subseteq Issues
          /\ running' \in [Issues -> Workers \cup {NoWorker}]
          /\ retryAttempts' \in [Issues -> Nat]
          /\ retryTimers' \subseteq Issues
      <4>1. CASE releaseIssue(job[w])
        BY <3>1, <4>1, ReleaseType
      <4>2. CASE ~releaseIssue(job[w])
        <5>1. /\ retryAttempts' = [retryAttempts EXCEPT ![job[w]] = @ + 1]
              /\ retryTimers' = retryTimers \cup {job[w]}
              /\ claimed' = claimed /\ running' = running
          BY <2>5, <4>2 DEF FinishFailed, scheduleRetry
        <5> QED
          BY <3>1, <5>1
      <4> QED
        BY <4>1, <4>2
    <3> QED
      BY <2>5, <3>2 DEF FinishFailed, EndWorker
  <2> QED
    BY <1>11, <2>1, <2>2, <2>3, <2>4, <2>5 DEF WorkerStep
<1>12. ASSUME NEW i \in Issues, RetryTimerFires(i) \/ OrphanTimerFires(i)
       PROVE  ShapeOK' /\ DispatchHasIssue'
  <2>1. releaseIssue(i)
    BY <1>12 DEF RetryTimerFires, OrphanTimerFires
  <2> QED
    BY <1>12, <2>1, ReleaseType DEF RetryTimerFires, OrphanTimerFires
<1>13. ASSUME NEW i \in Issues, dispatchIssue(i) PROVE ShapeOK' /\ DispatchHasIssue'
  BY <1>13 DEF dispatchIssue, stateVars
<1>14. ASSUME NEW i \in Issues, DispatchIncoming(i) PROVE ShapeOK' /\ DispatchHasIssue'
  BY StartType, <1>14 DEF DispatchIncoming
<1>15. CASE CacheEntryExpires
  BY <1>15 DEF CacheEntryExpires
<1>16. CASE BeginShutdown
  BY <1>16 DEF BeginShutdown
<1>17. CASE FinishShutdown
  BY <1>17 DEF FinishShutdown
<1>18. CASE UNCHANGED vars
  BY <1>18 DEF vars, stateVars
<1> QED
  BY <1>1, <1>2, <1>3, <1>4, <1>5, <1>6, <1>7, <1>8, <1>10, <1>11, <1>12, <1>13,
     <1>14, <1>15, <1>16, <1>17, <1>18 DEF Next, TickStep

(* What a step does to claims, entries and agents, whatever the phases are: *)
(* it drops the entries of some issues, starts an agent, or lets one return *)
(* or end.                                                                  *)
Drops(S) ==
    /\ running' = [i \in Issues |-> IF i \in S THEN NoWorker ELSE running[i]]
    /\ (claimed \cap RunningIds) \ S \subseteq claimed'

(* w starts on i, which nobody had claimed.                                 *)
Starts(w, i) ==
    /\ i \notin claimed
    /\ ~Live(w)
    /\ claimed' = claimed \cup {i}
    /\ running' = [running EXCEPT ![i] = w]
    /\ phase' = [phase EXCEPT ![w] = "executing"]
    /\ job' = [job EXCEPT ![w] = i]

(* The worker of w returns, whatever becomes of the entries in S.           *)
Returns(w, S) ==
    /\ phase[w] = "executing"
    /\ job[w] \in S
    /\ Drops(S)
    /\ \E outcome \in {"succeeded", "exceeded", "failed"} : phase' = [phase EXCEPT ![w] = outcome]
    /\ UNCHANGED job

(* The handler of w ends, whatever becomes of the entries in S.             *)
Ends(w, S) ==
    /\ phase[w] \in {"executing", "succeeded", "exceeded", "failed"}
    /\ phase[w] = "executing" => job[w] \in S
    /\ Drops(S)
    /\ EndWorker(w)

(* Every step in outline: what it may do to agents, entries and claims,     *)
(* whichever phases agents have.                                            *)
Outline ==
    \/ \E S \in SUBSET Issues : Drops(S) /\ UNCHANGED << phase, job >>
    \/ \E w \in Workers, i \in Issues : Starts(w, i)
    \/ \E w \in Workers, S \in SUBSET Issues : Returns(w, S) \/ Ends(w, S)

LEMMA KeepsOutline ==
    ASSUME ShapeOK, UNCHANGED << running, phase, job >>, claimed \cap RunningIds \subseteq claimed'
    PROVE  Outline
<1>1. Drops({})
  BY DEF Drops, ShapeOK, StateTypeOK
<1> QED
  BY <1>1 DEF Outline

LEMMA ForgetsOutline ==
    ASSUME ShapeOK, NEW i \in Issues, running' = [running EXCEPT ![i] = NoWorker],
           claimed \ {i} \subseteq claimed'
    PROVE  Drops({i})
BY DEF Drops, ShapeOK, StateTypeOK

(* Every step of Next has the outline.                                      *)
LEMMA NextOutline ==
    ASSUME ShapeOK, DispatchHasIssue, LiveHaveJobs, [Next]_vars
    PROVE  Outline /\ (mode' = "running" => mode = "running")
<1>1. ASSUME NEW t \in Ticks,
             \/ TickStart(t) \/ FetchStates(t) \/ BeginStalls(t) \/ FetchCandidates(t)
             \/ Drain(t)
             \/ \E i \in Issues : BeginStop(t, i)
      PROVE  Outline /\ UNCHANGED mode
  <2>1. UNCHANGED << running, phase, job, mode >> /\ claimed \cap RunningIds \subseteq claimed'
    BY <1>1 DEF TickStart, FetchStates, BeginStalls, FetchCandidates, Drain, BeginStop,
                stateVars, workerVars
  <2> QED
    BY <2>1, KeepsOutline
<1>2. ASSUME NEW i \in Issues, UNCHANGED << phase, job >>, releaseIssue(i)
      PROVE  Outline
  <2>1. Drops({i})
    BY <1>2, ForgetsOutline DEF releaseIssue
  <2> QED
    BY <1>2, <2>1 DEF Outline
<1>3. ASSUME NEW t \in Ticks, FinishStop(t) PROVE Outline /\ UNCHANGED mode
  <2>1. stopping[t] \in Issues
    BY <1>3 DEF FinishStop, ShapeOK
  <2>2. CASE releaseIssue(stopping[t])
    BY <1>2, <1>3, <2>1, <2>2 DEF FinishStop, workerVars
  <2>3. CASE UNCHANGED << claimed, running >>
    BY <1>3, <2>3, KeepsOutline DEF FinishStop, workerVars
  <2> QED
    BY <1>3, <2>2, <2>3 DEF FinishStop
<1>4. ASSUME NEW t \in Ticks, NEW i \in Issues, FinishStall(t, i)
      PROVE  Outline /\ UNCHANGED mode
  <2>1. Drops({i})
    BY <1>4, ForgetsOutline DEF FinishStall, releaseIssue
  <2> QED
    BY <1>4, <2>1 DEF Outline, FinishStall, workerVars
<1>5. ASSUME NEW i \in Issues, StartWorker(i) \/ SkipIssue PROVE Outline
  <2>1. CASE SkipIssue
    BY <2>1, KeepsOutline DEF SkipIssue, workerVars
  <2>2. CASE StartWorker(i)
    BY <2>2 DEF StartWorker, Starts, Outline
  <2> QED
    BY <1>5, <2>1, <2>2
<1>6. ASSUME NEW t \in Ticks, DispatchNext(t) PROVE Outline /\ UNCHANGED mode
  <2>1. Head(queue[t]) \in Issues
    BY <1>6, HeadTailProperties DEF DispatchNext, ShapeOK, DispatchHasIssue
  <2> QED
    BY <1>5, <1>6, <2>1 DEF DispatchNext
<1>7. ASSUME NEW i \in Issues, DispatchIncoming(i) PROVE Outline /\ UNCHANGED mode
  BY <1>5, <1>7 DEF DispatchIncoming
<1>8. ASSUME NEW w \in Workers, WorkerStep(w) PROVE Outline /\ UNCHANGED mode
  <2>1. UNCHANGED mode
    BY <1>8 DEF WorkerStep, WorkerThrows, WorkerReturns, FinishSucceeded, FinishExceeded, FinishFailed
  <2>2. PICK i \in Issues : i = job[w]
    BY <1>8 DEF WorkerStep, WorkerThrows, WorkerReturns, FinishSucceeded, FinishExceeded,
                FinishFailed, LiveHaveJobs, Live
  <2>3. CASE WorkerReturns(w)
    <3>1. Drops({i})
      BY <2>2, <2>3, ForgetsOutline DEF WorkerReturns
    <3>2. Returns(w, {i})
      BY <2>2, <2>3, <3>1 DEF WorkerReturns, Returns
    <3> QED
      BY <2>1, <3>2 DEF Outline
  <2>4. ASSUME releaseIssue(i), EndWorker(w),
               phase[w] \in {"executing", "succeeded", "exceeded", "failed"}
        PROVE  Outline
    <3>1. Drops({i})
      BY <2>4, ForgetsOutline DEF releaseIssue
    <3>2. Ends(w, {i})
      BY <2>2, <2>4, <3>1 DEF Ends
    <3> QED
      BY <3>2 DEF Outline
  <2>5. ASSUME UNCHANGED << claimed, running >>, EndWorker(w), phase[w] = "failed" PROVE Outline
    <3>1. Drops({})
      BY <2>5 DEF Drops, ShapeOK, StateTypeOK
    <3>2. Ends(w, {})
      BY <2>5, <3>1 DEF Ends
    <3> QED
      BY <3>2 DEF Outline
  <2> QED
    BY <1>8, <2>1, <2>2, <2>3, <2>4, <2>5
       DEF WorkerStep, WorkerThrows, FinishSucceeded, FinishExceeded, FinishFailed
<1>9. ASSUME NEW i \in Issues, RetryTimerFires(i) \/ OrphanTimerFires(i)
      PROVE  Outline /\ UNCHANGED mode
  BY <1>2, <1>9 DEF RetryTimerFires, OrphanTimerFires, workerVars
<1>10. ASSUME NEW i \in Issues, dispatchIssue(i) PROVE Outline /\ UNCHANGED mode
  BY <1>10, KeepsOutline DEF dispatchIssue, stateVars, workerVars
<1>11. CASE CacheEntryExpires \/ BeginShutdown
  BY <1>11, KeepsOutline DEF CacheEntryExpires, BeginShutdown, workerVars
<1>12. CASE FinishShutdown
  <2>1. Drops(Issues) /\ UNCHANGED << phase, job >>
    BY <1>12 DEF FinishShutdown, Drops, workerVars, ShapeOK, StateTypeOK
  <2>2. Issues \in SUBSET Issues
    OBVIOUS
  <2> QED
    BY <1>12, <2>1, <2>2 DEF FinishShutdown, Outline
<1>13. CASE UNCHANGED vars
  BY <1>13, KeepsOutline DEF vars, stateVars, workerVars
<1> QED
  BY <1>1, <1>3, <1>4, <1>6, <1>7, <1>8, <1>9, <1>10, <1>11, <1>12, <1>13 DEF Next, TickStep

(* The phases are those of the code. *)
LEMMA TypeStep == IInv /\ [Next]_vars => TypeOK' /\ DispatchHasIssue'
<1> SUFFICES ASSUME IInv, [Next]_vars PROVE TypeOK' /\ DispatchHasIssue'
  OBVIOUS
<1>1. ShapeOK /\ LiveHaveJobs
  BY DEF IInv, TypeOK, ShapeOK, LiveHaveJobs, CoreInv, JobMatchesPhase
<1>2. phase' \in [Workers -> WorkerPhases]
  <2>1. Outline
    BY <1>1, NextOutline DEF IInv
  <2>2. phase' = phase \/ \E w \in Workers : \E p \in WorkerPhases : phase' = [phase EXCEPT ![w] = p]
    BY <2>1 DEF Outline, Starts, Returns, Ends, EndWorker, WorkerPhases
  <2> QED
    BY <2>2 DEF IInv, TypeOK
<1>3. ShapeOK' /\ DispatchHasIssue'
  BY <1>1, ShapeStep DEF IInv
<1> QED
  BY <1>2, <1>3 DEF TypeOK, ShapeOK

(* Claims, maps, slots, counts and timers. *)
LEMMA CoreStep == IInv /\ [Next]_vars => CoreInv'
<1> SUFFICES ASSUME IInv, [Next]_vars PROVE CoreInv'
  OBVIOUS
<1> USE DEF IInv
<1>0. \A w \in Workers : Live(w) => job[w] \in Issues
  BY DEF CoreInv, JobMatchesPhase, TypeOK
<1>1. ASSUME NEW t \in Ticks,
             \/ TickStart(t) \/ FetchStates(t) \/ BeginStalls(t) \/ FetchCandidates(t)
             \/ \E i \in Issues : BeginStop(t, i)
      PROVE  CoreInv'
  <2>1. UNCHANGED coreVars
    BY <1>1 DEF TickStart, FetchStates, BeginStalls, FetchCandidates, BeginStop,
                stateVars, workerVars, coreVars
  <2> QED
    BY <2>1, CoreUnchanged
<1>2. ASSUME NEW t \in Ticks, FinishStop(t) PROVE CoreInv'
  <2>1. CASE releaseIssue(stopping[t])
    <3>1. stopping[t] \in Issues
      BY <1>2 DEF FinishStop, TypeOK
    <3> QED
      BY <1>2, <2>1, <3>1, ReleasePreserves DEF FinishStop, workerVars
  <2>2. CASE UNCHANGED << claimed, running, retryAttempts, retryTimers >>
    <3>1. UNCHANGED coreVars
      BY <1>2, <2>2 DEF FinishStop, workerVars, coreVars
    <3> QED
      BY <3>1, CoreUnchanged
  <2> QED
    BY <1>2, <2>1, <2>2 DEF FinishStop
<1>3. ASSUME NEW i \in Issues, StartWorker(i) \/ SkipIssue,
             UNCHANGED << retryTimers, retryAttempts, mode >>
      PROVE  CoreInv'
  <2>1. CASE StartWorker(i)
    BY <1>3, <2>1, StartPreserves
  <2>2. CASE SkipIssue
    <3>1. UNCHANGED coreVars
      BY <1>3, <2>2 DEF SkipIssue, workerVars, coreVars
    <3> QED
      BY <3>1, CoreUnchanged
  <2> QED
    BY <1>3, <2>1, <2>2
<1>4. ASSUME NEW t \in Ticks, DispatchNext(t) PROVE CoreInv'
  <2>1. Head(queue[t]) \in Issues
    BY <1>4, HeadTailProperties DEF DispatchNext, TypeOK, DispatchHasIssue
  <2> QED
    BY <1>3, <1>4, <2>1 DEF DispatchNext
<1>5. ASSUME NEW i \in Issues, DispatchIncoming(i) PROVE CoreInv'
  BY <1>3, <1>5 DEF DispatchIncoming
<1>6. ASSUME NEW w \in Workers, WorkerStep(w) PROVE CoreInv'
  <2>1. CASE FinishSucceeded(w)
    BY <2>1, EndPreserves DEF FinishSucceeded
  <2>2. CASE FinishExceeded(w)
    BY <2>2, EndPreserves DEF FinishExceeded
  <2> QED
    BY <1>6, <2>1, <2>2, ThrowPreserves, ReturnPreserves, FailPreserves DEF WorkerStep
<1>7. ASSUME NEW i \in Issues, RetryTimerFires(i) \/ OrphanTimerFires(i) PROVE CoreInv'
  BY <1>7, ReleasePreserves DEF RetryTimerFires, OrphanTimerFires, workerVars
<1>8. ASSUME NEW i \in Issues, dispatchIssue(i) PROVE CoreInv'
  BY <1>8, CoreUnchanged DEF dispatchIssue, stateVars, workerVars, coreVars
<1>9. CASE CacheEntryExpires
  BY <1>9, CoreUnchanged DEF CacheEntryExpires, workerVars, coreVars
<1>10. CASE UNCHANGED vars
  BY <1>10, CoreUnchanged DEF vars, stateVars, workerVars, coreVars
<1> QED
  BY <1>1, <1>2, <1>4, <1>5, <1>6, <1>7, <1>8, <1>9, <1>10, StallPreserves,
     DrainPreserves, BeginShutdownPreserves, FinishShutdownPreserves DEF Next, TickStep

(* Every reachable state satisfies the inductive invariant. *)
THEOREM InvariantHolds == Spec => []IInv
<1>1. Init => IInv
  BY InitIInv
<1>2. IInv /\ [Next]_vars => IInv'
  BY TypeStep, CoreStep DEF IInv
<1> QED
  BY <1>1, <1>2, PTL DEF Spec

-----------------------------------------------------------------------------
(* Consequences *)

(* Types: every variable of state.ts and of the suspended callbacks keeps   *)
(* its shape, whatever the interleaving.                                   *)
THEOREM TypeCorrect == Spec => []TypeOK
BY InvariantHolds, PTL DEF IInv

(* For any number of issues, workers and ticks, claims, running map, slots, *)
(* failure counts and timers agree: the drain of a tick (scheduler.ts) and a *)
(* second dispatchIssue never take the claim of a listed agent, no entry    *)
(* and no slot outlives its agent, every listed agent holds a slot, a       *)
(* failure count lives as long as its backoff timer and never reaches       *)
(* max_retries, and no claim is left without somebody to drop it.           *)
THEOREM SharedStateIsConsistent == Spec => []SharedStateAgrees
<1>1. IInv => SharedStateAgrees
  BY DEF IInv, CoreInv, SharedStateAgrees
<1> QED
  BY <1>1, InvariantHolds, PTL

-----------------------------------------------------------------------------
(* The slots                                                                *)

(* The free slots a tick counted before its dispatch loop stay free until    *)
(* the loop takes them, when no other tick and no caller from outside       *)
(* dispatches.                                                             *)
DispatchFits ==
    /\ Cardinality(SlotHolders) <= TopLevelMax
    /\ \A t \in Ticks : tickPc[t] = "dispatch" =>
                            Cardinality(SlotHolders) + Len(queue[t]) <= TopLevelMax

(* One tick at a time and no dispatch from outside leave nothing else that  *)
(* dispatches.                                                              *)
AloneInv == Cardinality(Ticks) <= 1 /\ ~Webhooks => incoming = {} /\ DispatchFits

(* Among at most one tick there are no two.                                 *)
LEMMA OneTick ==
    ASSUME Cardinality(Ticks) <= 1, NEW t \in Ticks, NEW u \in Ticks
    PROVE  t = u
<1> SUFFICES ASSUME t # u PROVE FALSE
  OBVIOUS
<1>1. IsFiniteSet({t, u}) /\ Cardinality({t, u}) = 2
  <2>1. IsFiniteSet({t}) /\ Cardinality({t}) = 1
    BY FS_Singleton
  <2>2. IsFiniteSet({t} \cup {u}) /\ Cardinality({t} \cup {u}) = 2
    BY <2>1, FS_AddElement
  <2>3. {t} \cup {u} = {t, u}
    OBVIOUS
  <2> QED
    BY <2>2, <2>3
<1>2. Cardinality({t, u}) <= Cardinality(Ticks) /\ Cardinality(Ticks) \in Nat
  BY TicksAssumption, FS_Subset, FS_CardinalityType
<1> QED
  BY <1>1, <1>2

LEMMA MinOfTwo == \A a, b \in Nat : Min({a, b}) <= a /\ Min({a, b}) <= b
<1> TAKE a, b \in Nat
<1>1. \E x \in {a, b} : \A y \in {a, b} : x <= y
  <2>1. CASE a <= b
    BY <2>1
  <2>2. CASE ~(a <= b)
    BY <2>2
  <2> QED
    BY <2>1, <2>2
<1> QED
  BY <1>1 DEF Min

LEMMA MaxWithZero == \A a \in Int : Max({0, a}) = IF a >= 0 THEN a ELSE 0
<1> TAKE a \in Int
<1>1. \E x \in {0, a} : \A y \in {0, a} : x >= y
  <2>1. CASE a >= 0
    BY <2>1
  <2>2. CASE ~(a >= 0)
    BY <2>2
  <2> QED
    BY <2>1, <2>2
<1> QED
  BY <1>1 DEF Max

(* The issues that hold a slot can be counted.                              *)
LEMMA HoldersFinite == IsFiniteSet(SlotHolders) /\ Cardinality(SlotHolders) \in Nat
BY IssuesAssumption, FS_Subset, FS_CardinalityType DEF SlotHolders

(* A tick keeps no more issues than there are slots available.               *)
LEMMA DispatchOrdersFit ==
    ASSUME NEW eligible \in SUBSET Issues, NEW available \in Nat,
           NEW order \in DispatchOrders(eligible, available)
    PROVE  order \in Seq(Issues) /\ Len(order) <= available
<1>1. IsFiniteSet(eligible) /\ Cardinality(eligible) \in Nat
  BY IssuesAssumption, FS_Subset, FS_CardinalityType
<1>2. PICK chosen \in SUBSET eligible :
        /\ Cardinality(chosen) = Min({Cardinality(eligible), available})
        /\ order \in SetToSeqs(chosen)
  BY DEF DispatchOrders, kSubset
<1>3. Cardinality(chosen) \in Nat
  BY <1>1, FS_Subset, FS_CardinalityType
<1>4. Cardinality(chosen) <= available
  BY <1>1, <1>2, MinOfTwo
<1>5. order \in [1..Cardinality(chosen) -> chosen]
  BY <1>2 DEF SetToSeqs
<1>6. Len(order) = Cardinality(chosen)
  BY <1>3, <1>5
<1> QED
  BY <1>4, <1>6, DispatchOrdersType

(* The steps that take no slot and begin no dispatch loop.                   *)
LEMMA FitKeeps ==
    ASSUME DispatchFits, SlotHolders' \subseteq SlotHolders, queue \in [Ticks -> Seq(Issues)],
           \A t \in Ticks : tickPc'[t] = "dispatch" => tickPc[t] = "dispatch" /\ queue'[t] = queue[t]
    PROVE  DispatchFits'
<1>1. Cardinality(SlotHolders') <= Cardinality(SlotHolders) /\ Cardinality(SlotHolders') \in Nat
  BY HoldersFinite, FS_Subset, FS_CardinalityType
<1>2. Cardinality(SlotHolders)' = Cardinality(SlotHolders')
  OBVIOUS
<1>3. \A t \in Ticks : Len(queue[t]) \in Nat
  BY LenProperties
<1> QED
  BY <1>1, <1>2, <1>3, HoldersFinite, TopLevelMaxAssumption DEF DispatchFits

(* Freeing a slot makes room.                                               *)
LEMMA SlotFreed ==
    ASSUME IInv, NEW i, releaseTopLevel(i)
    PROVE  SlotHolders' \subseteq SlotHolders
BY DEF IInv, TypeOK, StateTypeOK, releaseTopLevel, SlotHolders

LEMMA CalmStep ==
    ASSUME IInv, DispatchFits,
           \/ \E t \in Ticks :
                \/ TickStart(t) \/ FetchStates(t) \/ FinishStop(t) \/ BeginStalls(t) \/ Drain(t)
                \/ \E i \in Issues : BeginStop(t, i) \/ FinishStall(t, i)
           \/ \E w \in Workers : WorkerStep(w)
           \/ \E i \in Issues : RetryTimerFires(i) \/ OrphanTimerFires(i)
           \/ CacheEntryExpires \/ BeginShutdown \/ FinishShutdown
           \/ UNCHANGED vars
    PROVE  DispatchFits' /\ UNCHANGED incoming
<1>1. SlotHolders' \subseteq SlotHolders /\ UNCHANGED << queue, incoming >>
  <2>1. CASE \E t \in Ticks :
                \/ TickStart(t) \/ FetchStates(t) \/ FinishStop(t) \/ BeginStalls(t) \/ Drain(t)
                \/ \E i \in Issues : BeginStop(t, i) \/ FinishStall(t, i)
    BY <2>1 DEF TickStart, FetchStates, FinishStop, BeginStalls, Drain, BeginStop, FinishStall,
                stateVars, SlotHolders
  <2>2. ASSUME NEW w \in Workers, WorkerStep(w)
        PROVE  SlotHolders' \subseteq SlotHolders /\ UNCHANGED << queue, incoming >>
    <3>1. UNCHANGED topLevelRunning \/ releaseTopLevel(job[w])
      BY <2>2 DEF WorkerStep, WorkerThrows, WorkerReturns, FinishSucceeded, FinishExceeded, FinishFailed
    <3>2. SlotHolders' \subseteq SlotHolders
      BY <3>1, SlotFreed DEF SlotHolders
    <3> QED
      BY <2>2, <3>2 DEF WorkerStep, WorkerThrows, WorkerReturns, FinishSucceeded, FinishExceeded,
                        FinishFailed, tickVars
  <2>3. CASE \/ \E i \in Issues : RetryTimerFires(i) \/ OrphanTimerFires(i)
             \/ CacheEntryExpires \/ BeginShutdown \/ FinishShutdown
             \/ UNCHANGED vars
    BY <2>3 DEF RetryTimerFires, OrphanTimerFires, CacheEntryExpires, BeginShutdown, FinishShutdown,
                vars, stateVars, tickVars, SlotHolders
  <2> QED
    BY <2>1, <2>2, <2>3
<1>2. \A u \in Ticks : tickPc'[u] = "dispatch" => tickPc[u] = "dispatch"
  <2>1. ASSUME NEW t \in Ticks,
                \/ TickStart(t) \/ FetchStates(t) \/ FinishStop(t) \/ BeginStalls(t) \/ Drain(t)
                \/ \E i \in Issues : BeginStop(t, i) \/ FinishStall(t, i)
        PROVE  \A u \in Ticks : tickPc'[u] = "dispatch" => tickPc[u] = "dispatch"
    <3>1. tickPc' = tickPc \/ \E pc \in TickPcs \ {"dispatch"} : GoTo(t, pc)
      BY <2>1 DEF TickStart, FetchStates, FinishStop, BeginStalls, Drain, BeginStop, FinishStall, TickPcs
    <3> QED
      BY <3>1 DEF GoTo, IInv, TypeOK
  <2>2. CASE ~\E t \in Ticks :
                \/ TickStart(t) \/ FetchStates(t) \/ FinishStop(t) \/ BeginStalls(t) \/ Drain(t)
                \/ \E i \in Issues : BeginStop(t, i) \/ FinishStall(t, i)
    <3>1. UNCHANGED tickPc
      BY <2>2 DEF WorkerStep, WorkerThrows, WorkerReturns, FinishSucceeded, FinishExceeded, FinishFailed,
                RetryTimerFires, OrphanTimerFires, CacheEntryExpires, BeginShutdown, FinishShutdown,
                vars, tickVars
    <3> QED
      BY <3>1
  <2> QED
    BY <2>1, <2>2
<1>3. queue \in [Ticks -> Seq(Issues)]
  BY DEF IInv, TypeOK
<1> QED
  BY <1>1, <1>2, <1>3, FitKeeps

LEMMA FetchFits ==
    ASSUME IInv, DispatchFits, Cardinality(Ticks) <= 1, NEW t \in Ticks, FetchCandidates(t)
    PROVE  DispatchFits' /\ UNCHANGED incoming
<1> DEFINE free == AvailableTopLevelSlots
<1>1. free \in Nat /\ Cardinality(SlotHolders) + free <= TopLevelMax
  <2>1. TopLevelMax - Cardinality(SlotHolders) \in Int /\ TopLevelMax - Cardinality(SlotHolders) >= 0
    BY HoldersFinite, TopLevelMaxAssumption DEF DispatchFits
  <2> QED
    BY <2>1, MaxWithZero, HoldersFinite, TopLevelMaxAssumption DEF AvailableTopLevelSlots
<1>2. UNCHANGED topLevelRunning /\ UNCHANGED incoming
  BY DEF FetchCandidates
<1>3. SlotHolders' = SlotHolders
  BY <1>2 DEF SlotHolders
<1>4. CASE GoTo(t, "idle")
  <2>1. \A u \in Ticks : u = t /\ tickPc'[u] # "dispatch"
    BY <1>4, OneTick DEF GoTo, IInv, TypeOK
  <2> QED
    BY <1>2, <1>3, <2>1 DEF DispatchFits
<1>5. ASSUME NEW eligible \in SUBSET Issues, NEW order \in DispatchOrders(eligible, free),
             queue' = [queue EXCEPT ![t] = order]
      PROVE  DispatchFits'
  <2>1. Len(order) \in Nat /\ Len(order) <= free
    BY <1>1, <1>5, DispatchOrdersFit, LenProperties
  <2>2. \A u \in Ticks : queue'[u] = order
    BY <1>5, OneTick DEF IInv, TypeOK
  <2> HIDE DEF free
  <2>3. Cardinality(SlotHolders) + Len(order) <= TopLevelMax
    BY <1>1, <2>1, HoldersFinite, TopLevelMaxAssumption
  <2> QED
    BY <1>3, <2>2, <2>3 DEF DispatchFits
<1>6. ASSUME NEW candidates \in SUBSET Issues, NEW done \in SUBSET candidates, NEW terminal
      PROVE  filterCandidates(candidates, done, terminal) \in SUBSET Issues
  BY DEF filterCandidates
<1> QED
  BY <1>2, <1>4, <1>5, <1>6 DEF FetchCandidates

LEMMA DispatchFitsOn ==
    ASSUME IInv, DispatchFits, Cardinality(Ticks) <= 1, NEW t \in Ticks, DispatchNext(t)
    PROVE  DispatchFits' /\ UNCHANGED incoming
<1> DEFINE held == Cardinality(SlotHolders)
           left == Len(queue[t])
<1>1. queue[t] \in Seq(Issues) /\ queue[t] # << >> /\ held + left <= TopLevelMax
  BY DEF DispatchNext, IInv, TypeOK, DispatchHasIssue, DispatchFits
<1>2. left \in Nat \ {0} /\ Len(Tail(queue[t])) = left - 1 /\ Head(queue[t]) \in Issues
  BY <1>1, HeadTailProperties, EmptySeq, LenProperties
<1>3. PICK i \in Issues : SlotHolders' \subseteq SlotHolders \cup {i}
  <2>1. CASE SkipIssue
    BY <1>2, <2>1 DEF SkipIssue, SlotHolders
  <2>2. CASE StartWorker(Head(queue[t]))
    <3>1. SlotHolders' \subseteq SlotHolders \cup {Head(queue[t])}
      BY <1>2, <2>2 DEF StartWorker, SlotHolders, IInv, TypeOK, StateTypeOK
    <3> QED
      BY <1>2, <3>1
  <2> QED
    BY <2>1, <2>2 DEF DispatchNext
<1>4. Cardinality(SlotHolders') \in Nat /\ Cardinality(SlotHolders') <= held + 1
  <2>1. IsFiniteSet(SlotHolders \cup {i}) /\ Cardinality(SlotHolders \cup {i}) <= held + 1
    <3>1. /\ IsFiniteSet(SlotHolders \cup {i})
          /\ \/ Cardinality(SlotHolders \cup {i}) = held
             \/ Cardinality(SlotHolders \cup {i}) = held + 1
      BY HoldersFinite, FS_AddElement
    <3> HIDE DEF held
    <3>2. held \in Nat
      BY HoldersFinite DEF held
    <3> QED
      BY <3>1, <3>2
  <2> QED
    BY <1>3, <2>1, FS_Subset, FS_CardinalityType, HoldersFinite
<1>5. \A u \in Ticks : queue'[u] = Tail(queue[t])
  BY OneTick DEF DispatchNext, IInv, TypeOK
<1>6. \A u \in Ticks : Len(queue'[u]) = left - 1
  BY <1>2, <1>5
<1>7. held \in Nat
  BY HoldersFinite
<1>8. UNCHANGED incoming
  BY DEF DispatchNext
<1> HIDE DEF held, left
<1>9. Cardinality(SlotHolders') <= TopLevelMax /\ Cardinality(SlotHolders') + (left - 1) <= TopLevelMax
  BY <1>1, <1>2, <1>4, <1>7, TopLevelMaxAssumption
<1> QED
  BY <1>6, <1>8, <1>9 DEF DispatchFits

LEMMA AloneStep == IInv /\ AloneInv /\ [Next]_vars => AloneInv'
<1> SUFFICES ASSUME IInv, [Next]_vars, Cardinality(Ticks) <= 1, ~Webhooks, incoming = {}, DispatchFits
             PROVE  UNCHANGED incoming /\ DispatchFits'
  BY DEF AloneInv
<1>1. ASSUME NEW i \in Issues, dispatchIssue(i) \/ DispatchIncoming(i) PROVE FALSE
  BY <1>1 DEF dispatchIssue, DispatchIncoming
<1> QED
  BY <1>1, CalmStep, FetchFits, DispatchFitsOn DEF Next, TickStep

(* With one tick at a time and no dispatch from outside, the agents that     *)
(* hold a slot never exceed the limit of TwoTierSlotManager (state.ts),      *)
(* however many issues, agents and retries there are: the slots dispatcher.ts *)
(* counts once before its loop are still free when the loop takes them.      *)
THEOREM SlotsStayWithinMax == Spec => []SlotsWithinMax
<1>1. Init => AloneInv
  <2> SUFFICES ASSUME Init PROVE incoming = {} /\ DispatchFits
    BY DEF AloneInv
  <2>1. SlotHolders = {} /\ \A t \in Ticks : tickPc[t] # "dispatch"
    BY DEF Init, createState, SlotHolders
  <2>2. Cardinality(SlotHolders) = 0
    BY <2>1, FS_EmptySet
  <2> QED
    BY <2>1, <2>2, TopLevelMaxAssumption DEF Init, DispatchFits
<1>2. AloneInv => SlotsWithinMax
  BY DEF AloneInv, DispatchFits, SlotsWithinMax
<1> QED
  BY <1>1, <1>2, AloneStep, InvariantHolds, PTL DEF Spec

-----------------------------------------------------------------------------
(* The running map implements WorkerRegistry: each action enters, forgets   *)
(* or removes entries as the registry allows, or leaves it alone; the       *)
(* invariant gives the guards.                                              *)

AtWork == {w \in Workers : phase[w] = "executing"}

(* A step that changes neither the map nor who executes. *)
LEMMA StutterStep ==
    ASSUME UNCHANGED << running, phase >>
    PROVE  UNCHANGED Registry!rvars
BY DEF Registry!rvars

(* releaseIssue with no executing agent ending forgets one entry. *)
LEMMA ForgetStep ==
    ASSUME IInv, NEW i \in Issues, running' = [running EXCEPT ![i] = NoWorker],
           AtWork' = AtWork
    PROVE  Registry!RegistryNext
<1>1. running' = Registry!Without({i})
  BY DEF Registry!Without, IInv, TypeOK, StateTypeOK
<1>2. Registry!Forget({i})
  BY <1>1 DEF Registry!Forget, AtWork
<1>3. {i} \in SUBSET Issues
  OBVIOUS
<1> QED
  BY <1>2, <1>3 DEF Registry!RegistryNext

(* An agent starts under an issue without an entry: it was not claimed. *)
LEMMA EnterStep ==
    ASSUME IInv, NEW i \in Issues, StartWorker(i)
    PROVE  Registry!RegistryNext
<1> USE DEF IInv, TypeOK, StateTypeOK
<1>1. PICK w \in Workers :
        /\ ~Live(w)
        /\ running' = [running EXCEPT ![i] = w]
        /\ phase' = [phase EXCEPT ![w] = "executing"]
  BY DEF StartWorker
<1>2. running[i] = NoWorker
  BY DEF StartWorker, CoreInv, RunningIsClaimed, RunningIds
<1>3. w \notin AtWork /\ AtWork' = AtWork \cup {w}
  BY <1>1 DEF AtWork, Live
<1>4. Registry!Enter(w, i)
  BY <1>1, <1>2, <1>3 DEF Registry!Enter, AtWork
<1> QED
  BY <1>4 DEF Registry!RegistryNext

(* An agent that was executing leaves with every entry that names it. *)
LEMMA LeaveStep ==
    ASSUME IInv, NEW w \in Workers, NEW outcome, phase[w] = "executing",
           running' = [running EXCEPT ![job[w]] = NoWorker],
           phase' = [phase EXCEPT ![w] = outcome], outcome # "executing"
    PROVE  Registry!RegistryNext
<1>1. PICK i \in Issues : i = job[w]
  BY DEF IInv, TypeOK, CoreInv, JobMatchesPhase, Live
<1>2. running' = Registry!Without({i})
  BY <1>1 DEF Registry!Without, IInv, TypeOK, StateTypeOK
<1>3. \A j \in Issues \ {i} : running[j] # w
  BY <1>1 DEF IInv, CoreInv, EntriesAreExecuting
<1>4. w \in AtWork /\ AtWork' = AtWork \ {w}
  BY DEF AtWork, IInv, TypeOK
<1>5. Registry!Leave(w, {i})
  BY <1>2, <1>3, <1>4 DEF Registry!Leave, AtWork
<1>6. {i} \in SUBSET Issues
  OBVIOUS
<1> QED
  BY <1>5, <1>6 DEF Registry!RegistryNext

(* The three ways an agent that has returned ends. *)
LEMMA FinishStep ==
    ASSUME IInv, NEW w \in Workers,
           FinishSucceeded(w) \/ FinishExceeded(w) \/ FinishFailed(w)
    PROVE  Registry!RegistryNext \/ UNCHANGED Registry!rvars
<1>1. AtWork' = AtWork
  BY DEF FinishSucceeded, FinishExceeded, FinishFailed, EndWorker, AtWork, IInv, TypeOK
<1>2. job[w] \in Issues
  BY DEF FinishSucceeded, FinishExceeded, FinishFailed, IInv, TypeOK, CoreInv,
         JobMatchesPhase, Live
<1>3. CASE releaseIssue(job[w])
  BY <1>1, <1>2, <1>3, ForgetStep DEF releaseIssue
<1>4. CASE UNCHANGED running
  BY <1>1, <1>4 DEF Registry!rvars, AtWork
<1> QED
  BY <1>3, <1>4 DEF FinishSucceeded, FinishExceeded, FinishFailed

(* stop() forgets every entry at once; the agents work on. *)
LEMMA ForgetAllStep ==
    ASSUME IInv, FinishShutdown
    PROVE  Registry!RegistryNext
<1>1. running' = Registry!Without(Issues)
  BY DEF FinishShutdown, Registry!Without
<1>2. Registry!Forget(Issues)
  BY <1>1 DEF Registry!Forget, FinishShutdown, workerVars
<1>3. Issues \in SUBSET Issues
  OBVIOUS
<1> QED
  BY <1>2, <1>3 DEF Registry!RegistryNext

LEMMA RegistryStep == IInv /\ [Next]_vars => [Registry!RegistryNext]_(Registry!rvars)
<1> SUFFICES ASSUME IInv, [Next]_vars
             PROVE  Registry!RegistryNext \/ UNCHANGED Registry!rvars
  OBVIOUS
<1>1. ASSUME NEW t \in Ticks,
             \/ TickStart(t) \/ FetchStates(t) \/ BeginStalls(t) \/ FetchCandidates(t)
             \/ Drain(t)
             \/ \E i \in Issues : BeginStop(t, i)
      PROVE  UNCHANGED Registry!rvars
  <2>1. UNCHANGED << running, phase >>
    BY <1>1 DEF TickStart, FetchStates, BeginStalls, FetchCandidates, Drain, BeginStop,
                stateVars, workerVars
  <2> QED
    BY <2>1, StutterStep
<1>2. ASSUME NEW t \in Ticks, FinishStop(t)
      PROVE  Registry!RegistryNext \/ UNCHANGED Registry!rvars
  <2>1. stopping[t] \in Issues
    BY <1>2 DEF FinishStop, IInv, TypeOK
  <2>2. UNCHANGED phase
    BY <1>2 DEF FinishStop, workerVars
  <2>3. CASE releaseIssue(stopping[t])
    BY <2>1, <2>2, <2>3, ForgetStep DEF releaseIssue, AtWork
  <2>4. CASE UNCHANGED running
    BY <2>2, <2>4, StutterStep
  <2> QED
    BY <1>2, <2>3, <2>4 DEF FinishStop
<1>3. ASSUME NEW t \in Ticks, NEW i \in Issues, FinishStall(t, i)
      PROVE  Registry!RegistryNext
  BY <1>3, ForgetStep DEF FinishStall, releaseIssue, workerVars, AtWork
<1>4. ASSUME NEW i \in Issues, StartWorker(i) \/ SkipIssue
      PROVE  Registry!RegistryNext \/ UNCHANGED Registry!rvars
  <2>1. CASE SkipIssue
    BY <2>1, StutterStep DEF SkipIssue, workerVars
  <2> QED
    BY <1>4, <2>1, EnterStep
<1>5. ASSUME NEW t \in Ticks, DispatchNext(t)
      PROVE  Registry!RegistryNext \/ UNCHANGED Registry!rvars
  <2>1. Head(queue[t]) \in Issues
    BY <1>5, HeadTailProperties DEF DispatchNext, IInv, TypeOK, DispatchHasIssue
  <2> QED
    BY <1>4, <1>5, <2>1 DEF DispatchNext
<1>6. ASSUME NEW w \in Workers, WorkerStep(w)
      PROVE  Registry!RegistryNext \/ UNCHANGED Registry!rvars
  <2>1. CASE WorkerThrows(w)
    BY <2>1, LeaveStep DEF WorkerThrows, releaseIssue, EndWorker
  <2>2. CASE WorkerReturns(w)
    <3>1. PICK outcome \in {"succeeded", "exceeded", "failed"} :
            phase' = [phase EXCEPT ![w] = outcome]
      BY <2>2 DEF WorkerReturns
    <3>2. outcome # "executing"
      OBVIOUS
    <3> QED
      BY <2>2, <3>1, <3>2, LeaveStep DEF WorkerReturns
  <2> QED
    BY <1>6, <2>1, <2>2, FinishStep DEF WorkerStep
<1>7. ASSUME NEW i \in Issues, RetryTimerFires(i) \/ OrphanTimerFires(i)
      PROVE  Registry!RegistryNext
  BY <1>7, ForgetStep DEF RetryTimerFires, OrphanTimerFires, releaseIssue, workerVars, AtWork
<1>8. ASSUME NEW i \in Issues, dispatchIssue(i) PROVE UNCHANGED Registry!rvars
  BY <1>8, StutterStep DEF dispatchIssue, stateVars, workerVars
<1>9. ASSUME NEW i \in Issues, DispatchIncoming(i)
      PROVE  Registry!RegistryNext \/ UNCHANGED Registry!rvars
  BY <1>4, <1>9 DEF DispatchIncoming
<1>10. CASE CacheEntryExpires \/ BeginShutdown
  BY <1>10, StutterStep DEF CacheEntryExpires, BeginShutdown, workerVars
<1>11. CASE UNCHANGED vars
  BY <1>11, StutterStep DEF vars, stateVars, workerVars
<1> QED
  BY <1>1, <1>2, <1>3, <1>5, <1>6, <1>7, <1>8, <1>9, <1>10, <1>11, ForgetAllStep
     DEF Next, TickStep

(* The running map of state.ts is a directory of agents at work: an agent   *)
(* is entered where no entry is, no entry outlives its agent, and reconcile, *)
(* timers and stop() only forget.                                          *)
THEOREM RunningImplementsRegistry == Spec => ImplementsRegistry
<1>1. Init => Registry!RegistryInit
  BY DEF Init, createState, Registry!RegistryInit
<1> QED
  BY <1>1, RegistryStep, InvariantHolds, PTL DEF Spec, ImplementsRegistry, Registry!RegistrySpec

-----------------------------------------------------------------------------
(* Blockers                                                                 *)

Unblocked(i) == Blockers[i] \subseteq resolved

(* Whatever the cache calls closed was reported closed or completed, and so  *)
(* was every blocker of an issue that is to be dispatched or worked on.     *)
BlockersAreResolved ==
    /\ closedChildren # NoEntry => closedChildren \subseteq resolved
    /\ \A t \in Ticks : \A k \in 1..Len(queue[t]) : Unblocked(queue[t][k])
    /\ \A w \in Workers : Live(w) => Unblocked(job[w])

(* Without dispatch from outside none is suspended, and blockers stay       *)
(* resolved.                                                                *)
ResolvedInv == ~Webhooks => incoming = {} /\ BlockersAreResolved

(* What a tick is to dispatch is among what it found eligible.              *)
LEMMA DispatchOrdersKept ==
    ASSUME NEW eligible \in SUBSET Issues, NEW available,
           NEW order \in DispatchOrders(eligible, available)
    PROVE  \A k \in 1..Len(order) : order[k] \in eligible
<1>1. PICK chosen \in SUBSET eligible : order \in SetToSeqs(chosen)
  BY DEF DispatchOrders, kSubset
<1>2. Cardinality(chosen) \in Nat
  BY IssuesAssumption, FS_Subset, FS_CardinalityType
<1>3. order \in [1..Cardinality(chosen) -> chosen]
  BY <1>1 DEF SetToSeqs
<1> QED
  BY <1>2, <1>3

(* The steps that start no agent and choose no issues to dispatch.           *)
LEMMA ResolvedKeeps ==
    ASSUME BlockersAreResolved, resolved \subseteq resolved', UNCHANGED queue,
           \A w \in Workers : phase'[w] # "idle" => phase[w] # "idle" /\ job'[w] = job[w],
           closedChildren' # NoEntry => closedChildren # NoEntry /\ closedChildren' \subseteq closedChildren
    PROVE  BlockersAreResolved'
<1>1. \A i : Unblocked(i) => Unblocked(i)'
  BY DEF Unblocked
<1>2. (closedChildren # NoEntry => closedChildren \subseteq resolved)'
  BY DEF BlockersAreResolved
<1>3. \A t \in Ticks : \A k \in 1..Len(queue'[t]) : Unblocked(queue[t][k])'
  BY <1>1 DEF BlockersAreResolved
<1>4. \A w \in Workers : Live(w)' => Blockers[job'[w]] \subseteq resolved'
  BY DEF BlockersAreResolved, Unblocked, Live
<1> QED
  BY <1>2, <1>3, <1>4 DEF BlockersAreResolved, Unblocked

(* A step that starts nothing and forgets nothing keeps blockers resolved.  *)
LEMMA ResolvedStays ==
    ASSUME BlockersAreResolved, resolved \subseteq resolved',
           UNCHANGED << queue, phase, job, closedChildren >>
    PROVE  BlockersAreResolved'
<1>1. closedChildren' # NoEntry => closedChildren # NoEntry /\ closedChildren' \subseteq closedChildren
  OBVIOUS
<1>2. \A w \in Workers : phase'[w] # "idle" => phase[w] # "idle" /\ job'[w] = job[w]
  OBVIOUS
<1> QED
  BY <1>1, <1>2, ResolvedKeeps

(* On Linear, and without a GitHub client, a rollup never closes a sub-issue *)
(* in the cache.                                                           *)
LEMMA QuietStep ==
    ASSUME IInv, BlockersAreResolved, TrackerKind = "linear" \/ ~GithubContext,
           resolved \subseteq resolved',
           \/ \E t \in Ticks :
                \/ TickStart(t) \/ FetchStates(t) \/ FinishStop(t) \/ BeginStalls(t) \/ Drain(t)
                \/ \E i \in Issues : BeginStop(t, i) \/ FinishStall(t, i)
           \/ \E w \in Workers : WorkerStep(w)
           \/ \E i \in Issues : RetryTimerFires(i) \/ OrphanTimerFires(i)
           \/ CacheEntryExpires \/ BeginShutdown \/ FinishShutdown
           \/ UNCHANGED vars
    PROVE  BlockersAreResolved' /\ UNCHANGED incoming
<1>1. ASSUME UNCHANGED << queue, phase, job, closedChildren, incoming >>
      PROVE  BlockersAreResolved' /\ UNCHANGED incoming
  BY <1>1, ResolvedStays
<1>2. CASE \E t \in Ticks :
                \/ TickStart(t) \/ FetchStates(t) \/ FinishStop(t) \/ BeginStalls(t) \/ Drain(t)
                \/ \E i \in Issues : BeginStop(t, i) \/ FinishStall(t, i)
  BY <1>1, <1>2 DEF TickStart, FetchStates, FinishStop, BeginStalls, Drain, BeginStop, FinishStall,
                    stateVars, workerVars
<1>3. ASSUME NEW w \in Workers, WorkerStep(w) PROVE BlockersAreResolved' /\ UNCHANGED incoming
  <2>1. UNCHANGED << queue, incoming >>
    BY <1>3 DEF WorkerStep, WorkerThrows, WorkerReturns, FinishSucceeded, FinishExceeded,
                FinishFailed, tickVars
  <2>2. \A v \in Workers : phase'[v] # "idle" => phase[v] # "idle" /\ job'[v] = job[v]
    <3>1. \/ EndWorker(w)
          \/ /\ phase[w] = "executing" /\ UNCHANGED job
             /\ \E outcome \in {"succeeded", "exceeded", "failed"} : phase' = [phase EXCEPT ![w] = outcome]
      BY <1>3 DEF WorkerStep, WorkerThrows, WorkerReturns, FinishSucceeded, FinishExceeded, FinishFailed
    <3> QED
      BY <3>1 DEF EndWorker, IInv, TypeOK
  <2>3. closedChildren' # NoEntry => closedChildren # NoEntry /\ closedChildren' \subseteq closedChildren
    BY <1>3 DEF WorkerStep, WorkerThrows, WorkerReturns, FinishSucceeded, FinishExceeded,
                FinishFailed, RollupMark
  <2>4. BlockersAreResolved'
    BY <2>1, <2>2, <2>3, ResolvedKeeps
  <2> QED
    BY <2>1, <2>4
<1>4. CASE \E i \in Issues : RetryTimerFires(i) \/ OrphanTimerFires(i)
  BY <1>1, <1>4 DEF RetryTimerFires, OrphanTimerFires, workerVars, tickVars
<1>5. CASE CacheEntryExpires
  BY <1>5, ResolvedKeeps DEF CacheEntryExpires, workerVars, tickVars
<1>6. CASE BeginShutdown \/ FinishShutdown \/ UNCHANGED vars
  BY <1>1, <1>6 DEF BeginShutdown, FinishShutdown, vars, stateVars, workerVars, tickVars
<1> QED
  BY <1>2, <1>3, <1>4, <1>5, <1>6

(* What a tick takes up is blocked by nothing the cache does not close, and  *)
(* what the cache closes when it is filled the tracker reported closed.     *)
LEMMA FetchResolved ==
    ASSUME IInv, BlockersAreResolved, resolved \subseteq resolved', ReportedClosed \subseteq resolved',
           NEW t \in Ticks, FetchCandidates(t)
    PROVE  BlockersAreResolved' /\ UNCHANGED incoming
<1>1. UNCHANGED << phase, job, incoming >>
  BY DEF FetchCandidates, workerVars
<1>2. CASE UNCHANGED << closedChildren, queue >>
  BY <1>1, <1>2, ResolvedStays
<1>3. ASSUME NEW candidates \in SUBSET Issues, NEW done \in SUBSET candidates, FillCache,
             NEW order \in DispatchOrders(filterCandidates(candidates, done, TerminalIds(closedChildren')),
                                          AvailableTopLevelSlots),
             queue' = [queue EXCEPT ![t] = order]
      PROVE  BlockersAreResolved'
  <2>1. (closedChildren # NoEntry => closedChildren \subseteq resolved)'
    BY <1>3 DEF FillCache, ReportedClosed, BlockersAreResolved
  <2>2. TerminalIds(closedChildren') \subseteq resolved'
    BY <2>1 DEF TerminalIds
  <2> DEFINE eligible == filterCandidates(candidates, done, TerminalIds(closedChildren'))
  <2>3. eligible \in SUBSET Issues /\ \A i \in eligible : Blockers[i] \subseteq resolved'
    BY <2>2 DEF filterCandidates
  <2>4. \A k \in 1..Len(order) : order[k] \in eligible
    <3> HIDE DEF eligible
    <3>1. order \in DispatchOrders(eligible, AvailableTopLevelSlots)
      BY <1>3 DEF eligible
    <3> QED
      BY <2>3, <3>1, DispatchOrdersKept
  <2>5. \A u \in Ticks : queue'[u] = IF u = t THEN order ELSE queue[u]
    BY <1>3 DEF IInv, TypeOK
  <2>6. \A u \in Ticks : \A k \in 1..Len(queue'[u]) : Blockers[queue'[u][k]] \subseteq resolved'
    <3> HIDE DEF eligible
    <3> TAKE u \in Ticks
    <3>1. CASE u = t
      BY <2>3, <2>4, <2>5, <3>1
    <3>2. CASE u # t
      BY <2>5, <3>2 DEF BlockersAreResolved, Unblocked
    <3> QED
      BY <3>1, <3>2
  <2>7. \A w \in Workers : Live(w)' => Blockers[job'[w]] \subseteq resolved'
    BY <1>1 DEF BlockersAreResolved, Unblocked, Live
  <2> QED
    BY <2>1, <2>6, <2>7 DEF BlockersAreResolved, Unblocked
<1> QED
  BY <1>1, <1>2, <1>3 DEF FetchCandidates

LEMMA DispatchResolved ==
    ASSUME IInv, BlockersAreResolved, resolved \subseteq resolved', NEW t \in Ticks, DispatchNext(t)
    PROVE  BlockersAreResolved' /\ UNCHANGED incoming
<1>1. queue[t] \in Seq(Issues) /\ queue[t] # << >> /\ UNCHANGED << closedChildren, incoming >>
  BY DEF DispatchNext, IInv, TypeOK, DispatchHasIssue
<1>2. /\ Len(queue[t]) \in Nat \ {0}
      /\ Len(Tail(queue[t])) = Len(queue[t]) - 1
      /\ Head(queue[t]) = queue[t][1]
      /\ \A k \in 1..Len(Tail(queue[t])) : Tail(queue[t])[k] = queue[t][k + 1]
  BY <1>1, HeadTailProperties, EmptySeq, LenProperties
<1>3. \A u \in Ticks : queue'[u] = IF u = t THEN Tail(queue[t]) ELSE queue[u]
  BY DEF DispatchNext, IInv, TypeOK
<1>4. \A u \in Ticks : \A k \in 1..Len(queue'[u]) : Blockers[queue'[u][k]] \subseteq resolved'
  <2> TAKE u \in Ticks
  <2>1. CASE u = t
    <3> SUFFICES ASSUME NEW k \in 1..Len(Tail(queue[t]))
                 PROVE  Blockers[Tail(queue[t])[k]] \subseteq resolved'
      BY <1>3, <2>1
    <3>1. k + 1 \in 1..Len(queue[t]) /\ Tail(queue[t])[k] = queue[t][k + 1]
      BY <1>2
    <3> QED
      BY <3>1 DEF BlockersAreResolved, Unblocked
  <2>2. CASE u # t
    BY <1>3, <2>2 DEF BlockersAreResolved, Unblocked
  <2> QED
    BY <2>1, <2>2
<1>5. \A w \in Workers : Live(w)' => Blockers[job'[w]] \subseteq resolved'
  <2>1. CASE SkipIssue
    BY <2>1 DEF SkipIssue, workerVars, BlockersAreResolved, Unblocked, Live
  <2>2. CASE StartWorker(Head(queue[t]))
    <3>1. 1 \in 1..Len(queue[t])
      BY <1>2
    <3>2. Blockers[Head(queue[t])] \subseteq resolved
      BY <1>2, <3>1 DEF BlockersAreResolved, Unblocked
    <3> QED
      BY <2>2, <3>2 DEF StartWorker, BlockersAreResolved, Unblocked, Live, IInv, TypeOK
  <2> QED
    BY <2>1, <2>2 DEF DispatchNext
<1>6. (closedChildren # NoEntry => closedChildren \subseteq resolved)'
  BY <1>1 DEF BlockersAreResolved
<1> QED
  BY <1>1, <1>4, <1>5, <1>6 DEF BlockersAreResolved, Unblocked

LEMMA ResolvedStep ==
    ASSUME IInv, ResolvedInv, TrackerKind = "linear" \/ ~GithubContext,
           [Next /\ CountFailures /\ CollectResolved]_hvars
    PROVE  ResolvedInv'
<1> SUFFICES ASSUME ~Webhooks, incoming = {}, BlockersAreResolved
             PROVE  UNCHANGED incoming /\ BlockersAreResolved'
  BY DEF ResolvedInv
<1>1. ASSUME NEW i \in Issues, dispatchIssue(i) \/ DispatchIncoming(i) PROVE FALSE
  BY <1>1 DEF dispatchIssue, DispatchIncoming
<1>2. CASE Next /\ CollectResolved
  <2>1. resolved \subseteq resolved' /\ ReportedClosed \subseteq resolved'
    BY <1>2 DEF CollectResolved
  <2> QED
    BY <1>1, <1>2, <2>1, QuietStep, FetchResolved, DispatchResolved DEF Next, TickStep
<1>3. CASE UNCHANGED hvars
  <2>1. UNCHANGED vars /\ resolved \subseteq resolved'
    BY <1>3 DEF hvars
  <2> QED
    BY <2>1, QuietStep
<1> QED
  BY <1>2, <1>3

(* Where no rollup closes a sub-issue by itself (Linear, or no GitHub        *)
(* client), filterCandidates of dispatcher.ts holds its promise for any     *)
(* blockers and any number of ticks: a tick starts no agent on an issue with *)
(* a blocker that was neither completed nor ever reported closed.           *)
THEOREM StartedIssuesStayUnblocked ==
    ASSUME TrackerKind = "linear" \/ ~GithubContext
    PROVE  HSpec => []StartedIssuesAreUnblocked
<1>1. HInit => IInv /\ ResolvedInv
  <2>1. HInit => IInv
    BY InitIInv DEF HInit
  <2>2. HInit => ResolvedInv
    <3> SUFFICES ASSUME HInit PROVE incoming = {} /\ BlockersAreResolved
      BY DEF ResolvedInv
    <3>1. \A t \in Ticks : Len(queue[t]) = 0
      BY DEF HInit, Init
    <3>2. \A w \in Workers : ~Live(w)
      BY DEF HInit, Init, Live
    <3> QED
      BY <3>1, <3>2 DEF HInit, Init, createState, BlockersAreResolved
  <2> QED
    BY <2>1, <2>2
<1>2. IInv /\ ResolvedInv /\ [Next /\ CountFailures /\ CollectResolved]_hvars => IInv' /\ ResolvedInv'
  <2> SUFFICES ASSUME IInv, ResolvedInv, [Next /\ CountFailures /\ CollectResolved]_hvars
               PROVE  IInv' /\ ResolvedInv'
    OBVIOUS
  <2>1. [Next]_vars
    BY DEF hvars
  <2> QED
    BY <2>1, TypeStep, CoreStep, ResolvedStep DEF IInv
<1>3. IInv /\ ResolvedInv => StartedIssuesAreUnblocked
  BY DEF ResolvedInv, BlockersAreResolved, Unblocked, StartedIssuesAreUnblocked
<1> QED
  BY <1>1, <1>2, <1>3, PTL DEF HSpec

=============================================================================
