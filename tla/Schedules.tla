----------------------------- MODULE Schedules -----------------------------
(***************************************************************************)
(* Scheduled tasks: cron expressions (orchestrator/cron.ts), and the part of  *)
(* a tick that turns the schedules that are due into synthetic issues and    *)
(* dispatches them (orchestrator/scheduler.ts), through the gates of          *)
(* dispatchIssue (orchestrator/dispatcher.ts, orchestrator/triage.ts). Ticks  *)
(* come from the scheduler's loop and from triggerTick                       *)
(* (orchestrator/index.ts), whose lock the loop does not share.              *)
(*                                                                         *)
(* An expression has two fields here, minute and hour, of the five. A part   *)
(* of a field is [kind, lo, hi, step]: "all" is *, "range" is lo-hi, "value"  *)
(* is lo and "from" is lo with a step.                                       *)
(***************************************************************************)
EXTENDS Naturals, FiniteSets, FiniteSetsExt

CONSTANTS
    Cron,            \* Cron[s]: the two fields of schedule s, sets of parts
    HourLength,      \* minutes of an hour
    MaxMinutes,      \* bound: minutes of a behaviour
    TickCallers,     \* the loop and the API
    TopLevelSlots,
    MaxCandidates,   \* bound: other eligible issues of a tick
    ProjectSchedules \* schedules whose task asks for a new project

Names == DOMAIN Cron
Instants == 0 .. MaxMinutes

ASSUME SchedulesAssumption ==
    /\ HourLength \in Nat \ {0} /\ {MaxMinutes, TopLevelSlots, MaxCandidates} \subseteq Nat
    /\ IsFiniteSet(Names) /\ ProjectSchedules \subseteq Names

VARIABLES
    instant,     \* minutes since the start
    lastRunAt,   \* lastRunAt[s]: minutes of the last run noted for s: none or one
    tickAt,      \* tickAt[c]: "idle", "fetching", "dispatching"
    due,         \* due[c]: synthetic issues of c's tick: << s, minute >>
    admitted,    \* admitted[c]: the one of them that passed the gates, if any
    workersOf,   \* workersOf[s]: running workers on issues of s
    otherWorkers, \* running workers on issues of the tracker
    starts,      \* starts[s][m]: agents started for s as of minute m
    seen,        \* << s, m >>: s was due at m and a tick began then
    outranked,   \* << s, m >>: the issue was not among the ones with a slot
    turnedAway,  \* << s, m >>: the gates returned without a claim
    restartedIn, \* minutes in which the process was restarted
    enableTriage \* enable_triage of the configuration

workerVars == << workersOf, otherWorkers >>

scheduleVars == << instant, lastRunAt, tickAt, due, admitted, workerVars, starts, seen, outranked,
                   turnedAway, restartedIn, enableTriage >>

SchedulesInit ==
    /\ instant = 0 /\ otherWorkers = 0
    /\ workersOf = [s \in Names |-> 0]
    /\ admitted = [c \in TickCallers |-> {}]
    /\ enableTriage \in BOOLEAN
    /\ lastRunAt = [s \in Names |-> {}]
    /\ tickAt = [c \in TickCallers |-> "idle"]
    /\ due = [c \in TickCallers |-> {}]
    /\ starts = [s \in Names |-> [m \in Instants |-> 0]]
    /\ seen = {} /\ outranked = {} /\ turnedAway = {} /\ restartedIn = {}

-----------------------------------------------------------------------------

Every(lo, hi, step) == {i \in lo .. hi : (i - lo) % step = 0}

(* The values of a part are not checked against the range of the field.      *)
PartValues(part, min, max) ==
    CASE part.kind = "all" -> Every(min, max, part.step)
      [] part.kind = "range" -> Every(part.lo, part.hi, part.step)
      [] part.kind = "from" -> Every(part.lo, max, part.step)
      [] part.kind = "value" -> {part.lo}

parseField(field, min, max) == UNION {PartValues(part, min, max) : part \in field}

(* A step of 0 throws; the schedule is skipped with a warning, at every tick. *)
Parses(expression) ==
    \A part \in expression.minute \cup expression.hour : part.step >= 1

cronMatches(expression, m) ==
    /\ m % HourLength \in parseField(expression.minute, 0, HourLength - 1)
    /\ m \div HourLength \in parseField(expression.hour, 0, MaxMinutes \div HourLength)

IsDue(s, m) == Parses(Cron[s]) /\ cronMatches(Cron[s], m)

MinutePasses ==
    /\ instant < MaxMinutes
    /\ instant' = instant + 1
    /\ UNCHANGED << lastRunAt, tickAt, due, admitted, workerVars, starts, seen, outranked,
                    turnedAway, restartedIn, enableTriage >>

(* Fault: a run is noted when its agent is started.                         *)
NotedLate(triggered) == lastRunAt

Noted(triggered) == [s \in Names |-> IF s \in triggered THEN {instant} ELSE lastRunAt[s]]

(* A tick begins; evaluateSchedules does not wait for anything.              *)
evaluateSchedules(c) ==
    LET matching == {s \in Names : IsDue(s, instant)}
        triggered == {s \in matching : instant \notin lastRunAt[s]}
    IN  /\ tickAt[c] = "idle"
        /\ lastRunAt' = Noted(triggered)
        /\ due' = [due EXCEPT ![c] = triggered \X {instant}]
        /\ tickAt' = [tickAt EXCEPT ![c] = "fetching"]
        /\ seen' = seen \cup (matching \X {instant})
        /\ UNCHANGED << instant, admitted, workerVars, starts, outranked, turnedAway, restartedIn, enableTriage >>

WorkersOn(s) == workersOf[s]

Workers == otherWorkers + MapThenSumSet(WorkersOn, Names)

(* The issues of the tracker are older and come first, and some of them pass  *)
(* the gates; the others of c's issues are not kept for a later tick.        *)
TakeSlots(c, issues) ==
    LET free == Max({TopLevelSlots - Workers, 0})
        left == Min({Max({free - issues, 0}), Cardinality(due[c])})
    IN  \E taken \in kSubset(left, due[c]), claimed \in 0 .. Min({free, issues}) :
            /\ due' = [due EXCEPT ![c] = taken]
            /\ outranked' = outranked \cup (due[c] \ taken)
            /\ otherWorkers' = otherWorkers + claimed
            /\ tickAt' = [tickAt EXCEPT ![c] = "dispatching"]

(* Without candidates a tick goes on with the schedules that are due, if any. *)
FetchFails(c) ==
    \/ due[c] # {} /\ TakeSlots(c, 0)
    \/ due[c] = {} /\ tickAt' = [tickAt EXCEPT ![c] = "idle"] /\ UNCHANGED << due, otherWorkers, outranked >>

CandidatesFetched(c) ==
    /\ tickAt[c] = "fetching"
    /\ FetchFails(c) \/ \E issues \in 0 .. MaxCandidates : TakeSlots(c, issues)
    /\ UNCHANGED << instant, lastRunAt, admitted, workersOf, starts, seen, turnedAway, restartedIn, enableTriage >>

(* triageIssue: the issues of a schedule share their title, and none passes   *)
(* while a worker is at one of them.                                        *)
PassesTriage(s) == enableTriage => workersOf[s] = 0

(* Too complex, of the title of a running issue, or a new project was made of *)
(* it: nothing is claimed, and no later tick comes back to it.              *)
MayBeTurnedAway(s) == enableTriage \/ s \in ProjectSchedules

(* The issues are dispatched one after the other; the assessment is awaited.  *)
TriageScheduled(c) ==
    /\ tickAt[c] = "dispatching" /\ admitted[c] = {}
    /\ \E d \in due[c] :
          \/ /\ PassesTriage(d[1])
             /\ admitted' = [admitted EXCEPT ![c] = {d}]
             /\ UNCHANGED << due, turnedAway >>
          \/ /\ MayBeTurnedAway(d[1])
             /\ due' = [due EXCEPT ![c] = @ \ {d}]
             /\ turnedAway' = turnedAway \cup {d}
             /\ UNCHANGED admitted
    /\ UNCHANGED << instant, lastRunAt, tickAt, workerVars, starts, seen, outranked, restartedIn, enableTriage >>

(* The id of an issue holds the time, so it is never claimed already.        *)
DispatchScheduled(c) ==
    /\ \E d \in admitted[c] :
          /\ due' = [due EXCEPT ![c] = @ \ {d}]
          /\ admitted' = [admitted EXCEPT ![c] = {}]
          /\ workersOf' = [workersOf EXCEPT ![d[1]] = @ + 1]
          /\ starts' = [starts EXCEPT ![d[1]][d[2]] = @ + 1]
    /\ UNCHANGED << instant, lastRunAt, tickAt, otherWorkers, seen, outranked, turnedAway, restartedIn, enableTriage >>

TickEnds(c) ==
    /\ tickAt[c] = "dispatching" /\ due[c] = {}
    /\ tickAt' = [tickAt EXCEPT ![c] = "idle"]
    /\ UNCHANGED << instant, lastRunAt, due, admitted, workerVars, starts, seen, outranked, turnedAway,
                    restartedIn, enableTriage >>

(* A worker leaves the running ones.                                        *)
WorkerEnds ==
    /\ \/ otherWorkers > 0 /\ otherWorkers' = otherWorkers - 1 /\ UNCHANGED workersOf
       \/ /\ \E s \in Names : workersOf[s] > 0 /\ workersOf' = [workersOf EXCEPT ![s] = @ - 1]
          /\ UNCHANGED otherWorkers
    /\ UNCHANGED << instant, lastRunAt, tickAt, due, admitted, starts, seen, outranked, turnedAway,
                    restartedIn, enableTriage >>

(* The minutes of the last runs are in memory only.                          *)
ProcessRestarts ==
    /\ restartedIn = {}
    /\ restartedIn' = {instant}
    /\ lastRunAt' = [s \in Names |-> {}]
    /\ tickAt' = [c \in TickCallers |-> "idle"]
    /\ due' = [c \in TickCallers |-> {}]
    /\ admitted' = [c \in TickCallers |-> {}]
    /\ workersOf' = [s \in Names |-> 0]
    /\ otherWorkers' = 0
    /\ UNCHANGED << instant, starts, seen, outranked, turnedAway, enableTriage >>

SchedulesNext ==
    \/ MinutePasses \/ WorkerEnds \/ ProcessRestarts
    \/ \E c \in TickCallers :
          \/ evaluateSchedules(c) \/ CandidatesFetched(c)
          \/ TriageScheduled(c) \/ DispatchScheduled(c) \/ TickEnds(c)

SchedulesSpec == SchedulesInit /\ [][SchedulesNext]_scheduleVars

-----------------------------------------------------------------------------

(* A schedule starts one agent for a minute, whatever ticks run at the same   *)
(* time; the minute of a restart can start a second one.                     *)
OneStartPerMinute ==
    \A s \in Names, m \in Instants : starts[s][m] <= IF m \in restartedIn THEN 2 ELSE 1

(* A schedule that is due when a tick begins is started, or about to be, or    *)
(* lost, for the tick has noted its run: it had no slot, triage or a new      *)
(* project turned it away, or a restart came between.                        *)
DueSchedulesAreServed ==
    \A d \in seen :
        \/ starts[d[1]][d[2]] > 0
        \/ d \in outranked
        \/ d \in turnedAway /\ MayBeTurnedAway(d[1])
        \/ \E c \in TickCallers : d \in due[c]
        \/ \E r \in restartedIn : d[2] <= r

(* Both promises about the schedules.                                       *)
SchedulesAreKept == OneStartPerMinute /\ DueSchedulesAreServed
=============================================================================
