--------------------------- MODULE ReactiveIssues ---------------------------
(***************************************************************************)
(* Issues that the program opens about its own failures: the outcomes of     *)
(* runs, the patterns found in them, and the two evaluators that open issues *)
(* - the end of every orchestrated run and a periodic loop                   *)
(* (analysis/reactive-dispatch.ts, analysis/metrics-loop.ts,                 *)
(* analysis/anomaly-detector.ts, storage/repositories/outcomes.ts, the end of *)
(* executeWorkerAndHandle in orchestrator/dispatcher.ts).                    *)
(*                                                                         *)
(* A pattern stands for a module and a failure mode. Of the anomalies of the *)
(* loop those are modelled that outcomes alone decide: a failure mode that    *)
(* repeats, and one that hits several issues. An issue is known by its title; *)
(* people close issues and move them, but open none with these titles.       *)
(***************************************************************************)
EXTENDS Naturals, FiniteSets, FiniteSetsExt

CONSTANTS
    Ended,            \* issues whose runs end
    Patterns,         \* what a run can fail with
    RecordedBefore,   \* RecordedBefore[i]: the outcome in the table at the start
    Finishers,        \* runs that end while the program runs
    Loop,             \* the periodic loop
    MaxPerDay,        \* max_issues_per_day
    Threshold,        \* repeated_failure_threshold
    MaxTicks          \* bound: ticks of the loop

NoTitle == "nothing"
Success == "success"
NoOutcome == "none"
Evaluators == Finishers \cup {Loop}
Investigations == {"repeated failure", "systemic failure"}
Titles == Patterns \cup Investigations

ASSUME ReactiveAssumption ==
    /\ MaxPerDay \in Nat /\ Threshold \in Nat
    /\ Loop \notin Finishers /\ IsFiniteSet(Finishers)
    /\ Patterns \cap (Investigations \cup {Success, NoOutcome, NoTitle}) = {}

VARIABLES
    recorded,    \* recorded[i]: the row of run_outcomes
    openIssues,  \* openIssues[t]: open issues with title t
    issueCounts, \* the counter of today
    activity,    \* activity[e]: "no", "list", "check", "create", "ended"
    anomalies,   \* anomalies[e]: patterns e has still to handle
    structured,  \* what the loop has to open after that
    knownTitles, \* knownTitles[e]: the titles of its anomalies that e fetched
    current,     \* current[e]: the title being created
    ticks,
    overlapped,  \* evaluators were at work at the same time
    unlisted,    \* the titles could not be fetched, once
    outOfSight   \* titles fetched in vain while an issue with them was open

rvars == << recorded, openIssues, issueCounts, activity, anomalies, structured, knownTitles,
            current, ticks, overlapped, unlisted, outOfSight >>

issueVars == << openIssues, outOfSight >>

ReactiveInit ==
    /\ recorded = RecordedBefore
    /\ openIssues = [t \in Titles |-> 0] /\ outOfSight = {}
    /\ issueCounts = 0 /\ ticks = 0
    /\ activity = [e \in Evaluators |-> "no"]
    /\ anomalies = [e \in Evaluators |-> {}]
    /\ structured = {}
    /\ knownTitles = [e \in Evaluators |-> {}]
    /\ current = [e \in Evaluators |-> NoTitle]
    /\ overlapped = FALSE /\ unlisted = FALSE

Failures(rows, p) == Cardinality({i \in Ended : rows[i] = p})

(* detectAnomalies of reactive-dispatch.ts                                   *)
detectAnomalies(rows) == {p \in Patterns : Failures(rows, p) >= 2}

(* detectAnomalies of anomaly-detector.ts: three issues make it systemic.    *)
detectStructuredAnomalies(rows) ==
    (IF \E p \in Patterns : Failures(rows, p) >= Threshold THEN {"repeated failure"} ELSE {})
    \cup (IF \E p \in Patterns : Failures(rows, p) >= 3 THEN {"systemic failure"} ELSE {})

AtWork(e) == activity[e] \in {"list", "check", "create"}

(* dispatchReactiveIssues begins with what findAll returns.                  *)
BeginEvaluation(e, rows) ==
    /\ anomalies' = [anomalies EXCEPT ![e] = detectAnomalies(rows)]
    /\ activity' = [activity EXCEPT ![e] = IF detectAnomalies(rows) = {} THEN "check" ELSE "list"]
    /\ overlapped' = (overlapped \/ \E o \in Evaluators \ {e} : AtWork(o))

(* The id of a row is the issue, so that a later outcome of an issue is      *)
(* refused by the primary key and logged.                                   *)
InsertOutcome(i, status) ==
    recorded' = IF recorded[i] = NoOutcome THEN [recorded EXCEPT ![i] = status] ELSE recorded

RunEnds(e, i, status) ==
    /\ e \in Finishers /\ activity[e] = "no"
    /\ InsertOutcome(i, status)
    /\ BeginEvaluation(e, recorded')
    /\ UNCHANGED << issueVars, issueCounts, structured, knownTitles, current, ticks, unlisted >>

(* The running flag.                                                       *)
LoopIsIdle == ~AtWork(Loop)

tick ==
    /\ LoopIsIdle /\ ticks < MaxTicks
    /\ ticks' = ticks + 1
    /\ structured' = detectStructuredAnomalies(recorded)
    /\ BeginEvaluation(Loop, recorded)
    /\ UNCHANGED << recorded, issueVars, issueCounts, knownTitles, current, unlisted >>

Open == {t \in Titles : openIssues[t] > 0}

(* fetchIssuesByStates asks for five names of states, and the trackers for    *)
(* the configured labels and project as well. An open issue may be found or   *)
(* not: Linear gives a new one the default state of the team and no such      *)
(* label, and people move issues. A failure leaves no titles to compare with. *)
ListTitles(e) ==
    /\ activity[e] = "list"
    /\ \/ \E found \in SUBSET (anomalies[e] \cap Open) :
             /\ knownTitles' = [knownTitles EXCEPT ![e] = found]
             /\ outOfSight' = outOfSight \cup ((anomalies[e] \cap Open) \ found)
             /\ UNCHANGED unlisted
       \/ knownTitles' = [knownTitles EXCEPT ![e] = {}] /\ unlisted' = TRUE /\ UNCHANGED outOfSight
    /\ activity' = [activity EXCEPT ![e] = "check"]
    /\ UNCHANGED << recorded, openIssues, issueCounts, anomalies, structured, current, ticks, overlapped >>

(* Fault: the daily limit is looked at once, before the first issue.        *)
WithinDailyLimitOnce(e) == issueCounts < MaxPerDay \/ knownTitles[e] # {}

WithinDailyLimit(e) == issueCounts < MaxPerDay

(* createReactiveIssue up to its await, for one anomaly after the other; the *)
(* limit ends the rest.                                                    *)
CheckAnomaly(e) ==
    /\ activity[e] = "check" /\ anomalies[e] # {}
    /\ \E p \in anomalies[e] :
          IF ~WithinDailyLimit(e)
          THEN anomalies' = [anomalies EXCEPT ![e] = {}] /\ UNCHANGED << activity, current >>
          ELSE /\ anomalies' = [anomalies EXCEPT ![e] = @ \ {p}]
               /\ IF p \in knownTitles[e] THEN UNCHANGED << activity, current >>
                  ELSE /\ activity' = [activity EXCEPT ![e] = "create"]
                       /\ current' = [current EXCEPT ![e] = p]
    /\ UNCHANGED << recorded, issueVars, issueCounts, structured, knownTitles, ticks, overlapped, unlisted >>

(* tracker.createIssue answers. The issues of the loop's own kind are not    *)
(* counted, and the titles are fetched again for each of them.              *)
IssueCreated(e) ==
    /\ activity[e] = "create"
    /\ \E ok \in BOOLEAN :
          /\ openIssues' = IF ok THEN [openIssues EXCEPT ![current[e]] = @ + 1] ELSE openIssues
          /\ issueCounts' = IF ok /\ current[e] \in Patterns THEN issueCounts + 1 ELSE issueCounts
    /\ activity' = [activity EXCEPT ![e] = "check"]
    /\ current' = [current EXCEPT ![e] = NoTitle]
    /\ UNCHANGED << recorded, outOfSight, anomalies, structured, knownTitles, ticks, overlapped, unlisted >>

(* evaluate goes on to the structured anomalies.                            *)
CheckStructured ==
    /\ activity[Loop] = "check" /\ anomalies[Loop] = {} /\ structured # {}
    /\ \E s \in structured :
          /\ structured' = structured \ {s}
          /\ \/ s \in Open /\ UNCHANGED << activity, current, unlisted, outOfSight >>
             \/ /\ \/ UNCHANGED unlisted /\ outOfSight' = outOfSight \cup ({s} \cap Open)
                   \/ unlisted' = TRUE /\ UNCHANGED outOfSight
                /\ activity' = [activity EXCEPT ![Loop] = "create"]
                /\ current' = [current EXCEPT ![Loop] = s]
    /\ UNCHANGED << recorded, openIssues, issueCounts, anomalies, knownTitles, ticks, overlapped >>

EvaluationEnds(e) ==
    /\ activity[e] = "check" /\ anomalies[e] = {}
    /\ e = Loop => structured = {}
    /\ activity' = [activity EXCEPT ![e] = "ended"]
    /\ knownTitles' = [knownTitles EXCEPT ![e] = {}]
    /\ UNCHANGED << recorded, issueVars, issueCounts, anomalies, structured,
                    current, ticks, overlapped, unlisted >>

(* Somebody closes an issue; the rows it was made of stay.                   *)
CloseIssue(t) ==
    /\ openIssues[t] > 0
    /\ openIssues' = [openIssues EXCEPT ![t] = @ - 1]
    /\ UNCHANGED << recorded, issueCounts, activity, anomalies, structured, knownTitles,
                    current, ticks, overlapped, unlisted, outOfSight >>

ReactiveNext ==
    \/ tick \/ CheckStructured
    \/ \E e \in Evaluators :
          \/ ListTitles(e) \/ CheckAnomaly(e) \/ IssueCreated(e) \/ EvaluationEnds(e)
          \/ \E i \in Ended, status \in Patterns \cup {Success} : RunEnds(e, i, status)
    \/ \E t \in Titles : CloseIssue(t)

ReactiveSpec == ReactiveInit /\ [][ReactiveNext]_rvars

-----------------------------------------------------------------------------

(* max_issues_per_day bounds the issues opened for patterns, exactly while   *)
(* evaluators do not overlap, and otherwise up to one issue for each other   *)
(* evaluator, which counted before the answer of the tracker.               *)
DailyLimitHolds ==
    issueCounts <= MaxPerDay + IF overlapped THEN Cardinality(Evaluators) - 1 ELSE 0

(* No failure has two open issues, unless evaluators overlapped, one could    *)
(* not fetch the titles, or one fetched them without that of the open issue,  *)
(* whose state or labels the query leaves out.                              *)
ReactiveIssuesAreDistinct ==
    \A t \in Titles : openIssues[t] > 1 => overlapped \/ unlisted \/ t \in outOfSight

(* The loop's own issues are distinct however the evaluators overlap.        *)
InvestigationsAreDistinct ==
    \A t \in Investigations : openIssues[t] > 1 => unlisted \/ t \in outOfSight

ReactiveIssuesAreBounded ==
    DailyLimitHolds /\ ReactiveIssuesAreDistinct /\ InvestigationsAreDistinct
=============================================================================
