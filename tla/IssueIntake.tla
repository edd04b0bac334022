---------------------------- MODULE IssueIntake ----------------------------
(***************************************************************************)
(* What happens to an issue between its dispatch and its claim: creation of  *)
(* a new project, triage, and the claim (dispatchIssue in                    *)
(* orchestrator/dispatcher.ts up to the start of the worker,                 *)
(* project/create.ts, orchestrator/triage.ts).                               *)
(*                                                                         *)
(* A tick dispatches the issues it fetched one after the other; webhooks     *)
(* dispatch at any time. project.auto_create and enable_triage are on. The   *)
(* agent, the labels and the retries of Orchestrator are left out.           *)
(***************************************************************************)
EXTENDS Naturals

CONSTANTS
    IntakeIssues,   \* issues of the tracker
    NewProjects,    \* issues that ask for a new project, and name it
    TitleOf,        \* TitleOf[i]: the title of issue i, in lower case
    Tick, Hooks,    \* dispatchers: the tick, and webhooks at the same time
    MaxDispatches   \* bound: MaxDispatches[i] dispatches of issue i

Dispatchers == Hooks \cup {Tick}
NoIssue == "none"

ASSUME IntakeAssumption ==
    /\ NewProjects \subseteq IntakeIssues /\ Tick \notin Hooks
    /\ MaxDispatches \in [IntakeIssues -> Nat] /\ NoIssue \notin IntakeIssues

VARIABLES
    closedIssues,  \* issues closed in the tracker
    repos,         \* new projects whose repository exists on GitHub
    fetched,       \* candidates the tick has still to dispatch
    events,        \* webhook events that were not handled yet
    handling,      \* handling[d]: the issue d dispatches
    step,          \* step[d]: "no", "create", "scaffold", "close", "triaged"
    working,       \* issues that are claimed and running
    recentlyCompleted,
    dispatches,    \* dispatches[i]: dispatchIssue calls for i
    brokenOff,     \* new projects with a failure after the repository was created
    crossed        \* pairs of issues triaged before either was claimed

ivars == << closedIssues, repos, fetched, events, handling, step, working, recentlyCompleted,
            dispatches, brokenOff, crossed >>

IntakeInit ==
    /\ closedIssues = {} /\ repos = {} /\ fetched = {} /\ events = {}
    /\ working = {} /\ recentlyCompleted = {} /\ brokenOff = {} /\ crossed = {}
    /\ handling = [d \in Dispatchers |-> NoIssue]
    /\ step = [d \in Dispatchers |-> "no"]
    /\ dispatches = [i \in IntakeIssues |-> 0]

-----------------------------------------------------------------------------

(* fetchCandidateIssues and filterCandidates.                               *)
FetchCandidates ==
    /\ fetched = {} /\ step[Tick] = "no"
    /\ fetched' = IntakeIssues \ (closedIssues \cup working \cup recentlyCompleted)
    /\ UNCHANGED << closedIssues, repos, events, handling, step, working, recentlyCompleted,
                    dispatches, brokenOff, crossed >>

(* The trigger label is set; the event waits for its handler.               *)
Labelled(i) ==
    /\ i \notin closedIssues \cup events /\ dispatches[i] < MaxDispatches[i]
    /\ events' = events \cup {i}
    /\ UNCHANGED << closedIssues, repos, fetched, handling, step, working, recentlyCompleted,
                    dispatches, brokenOff, crossed >>

(* The complexity comes from a model, and from heuristics when that fails:    *)
(* any answer is possible.                                                 *)
Complexities == {"dispatch", "too complex"}

(* Fault: the titles of running issues are not looked at.                   *)
triageIssueTitleless(i, complexity) == i \notin recentlyCompleted /\ complexity = "dispatch"

(* triageIssue up to its last await                                          *)
triageIssue(i, complexity) ==
    /\ \A j \in working : j # i => TitleOf[j] # TitleOf[i]
    /\ i \notin recentlyCompleted
    /\ complexity = "dispatch"

Triage(d, i) ==
    \E complexity \in Complexities :
        IF triageIssue(i, complexity)
        THEN step' = [step EXCEPT ![d] = "triaged"] /\ handling' = [handling EXCEPT ![d] = i]
        ELSE step' = [step EXCEPT ![d] = "no"] /\ handling' = [handling EXCEPT ![d] = NoIssue]

(* A label, the words or the fields of the issue ask for a new project, and  *)
(* its name, the organisation and the token are known.                      *)
detectNewProject(i) == i \in NewProjects

(* dispatchIssue up to its first await: an issue that asks for a new project  *)
(* waits for GitHub, any other one is triaged at once.                       *)
dispatchIssue(d, i) ==
    /\ step[d] = "no" /\ dispatches[i] < MaxDispatches[i]
    /\ IF d = Tick THEN i \in fetched /\ fetched' = fetched \ {i} /\ UNCHANGED events
                   ELSE i \in events /\ events' = events \ {i} /\ UNCHANGED fetched
    /\ dispatches' = [dispatches EXCEPT ![i] = @ + 1]
    /\ IF detectNewProject(i)
       THEN step' = [step EXCEPT ![d] = "create"] /\ handling' = [handling EXCEPT ![d] = i]
       ELSE Triage(d, i)
    /\ UNCHANGED << closedIssues, repos, working, recentlyCompleted, brokenOff, crossed >>

(* createGitHubRepo: GitHub refuses a name that exists, and may fail. After   *)
(* the failure comment the issue goes on to triage.                         *)
createGitHubRepo(d) ==
    /\ step[d] = "create"
    /\ \/ /\ handling[d] \notin repos
          /\ repos' = repos \cup {handling[d]}
          /\ step' = [step EXCEPT ![d] = "scaffold"]
          /\ UNCHANGED handling
       \/ Triage(d, handling[d]) /\ UNCHANGED repos
    /\ UNCHANGED << closedIssues, fetched, events, working, recentlyCompleted,
                    dispatches, brokenOff, crossed >>

(* scaffoldProject, initAndPush and the profile.                             *)
ScaffoldAndPush(d) ==
    /\ step[d] = "scaffold"
    /\ \/ step' = [step EXCEPT ![d] = "close"] /\ UNCHANGED << handling, brokenOff >>
       \/ Triage(d, handling[d]) /\ brokenOff' = brokenOff \cup {handling[d]}
    /\ UNCHANGED << closedIssues, repos, fetched, events, working, recentlyCompleted,
                    dispatches, crossed >>

(* handleNewProjectIssue returns true.                                      *)
ProjectCreated(d) ==
    step' = [step EXCEPT ![d] = "no"] /\ handling' = [handling EXCEPT ![d] = NoIssue]

(* updateState; a failure is ignored.                                       *)
CloseNewProject(d) ==
    /\ step[d] = "close"
    /\ \E ok \in BOOLEAN :
          closedIssues' = IF ok THEN closedIssues \cup {handling[d]} ELSE closedIssues
    /\ ProjectCreated(d)
    /\ UNCHANGED << repos, fetched, events, working, recentlyCompleted, dispatches, brokenOff, crossed >>

(* claimIssue: an issue that is claimed is left alone.                       *)
claimIssue(d) ==
    /\ step[d] = "triaged"
    /\ LET i == handling[d]
       IN  /\ working' = working \cup {i}
           /\ crossed' = crossed \cup
                 {{i, handling[e]} : e \in {e \in Dispatchers \ {d} : step[e] = "triaged"}}
    /\ step' = [step EXCEPT ![d] = "no"]
    /\ handling' = [handling EXCEPT ![d] = NoIssue]
    /\ UNCHANGED << closedIssues, repos, fetched, events, recentlyCompleted, dispatches, brokenOff >>

(* The worker is done; a completed issue is remembered, and mostly closed.   *)
AgentEnds(i) ==
    /\ i \in working
    /\ working' = working \ {i}
    /\ \E completed, ok \in BOOLEAN :
          /\ recentlyCompleted' = IF completed THEN recentlyCompleted \cup {i} ELSE recentlyCompleted
          /\ closedIssues' = IF completed /\ ok THEN closedIssues \cup {i} ELSE closedIssues
    /\ UNCHANGED << repos, fetched, events, handling, step, dispatches, brokenOff, crossed >>

IntakeNext ==
    \/ FetchCandidates
    \/ \E i \in IntakeIssues : Labelled(i) \/ AgentEnds(i)
    \/ \E d \in Dispatchers :
          \/ createGitHubRepo(d) \/ ScaffoldAndPush(d) \/ CloseNewProject(d) \/ claimIssue(d)
          \/ \E i \in IntakeIssues : dispatchIssue(d, i)

IntakeSpec == IntakeInit /\ [][IntakeNext]_ivars

-----------------------------------------------------------------------------

(* An issue whose project the program created gets no agent, unless it was   *)
(* dispatched twice - the second dispatch finds the name taken, takes that   *)
(* for a failure and goes on to an agent - or a step after the creation of   *)
(* the repository failed.                                                   *)
NewProjectsGetNoAgent ==
    \A i \in repos \cap working : dispatches[i] > 1 \/ i \in brokenOff

(* Two issues with the same title run at the same time only if both were      *)
(* triaged before one of them was claimed.                                  *)
RunningTitlesDiffer ==
    \A i, j \in working : i # j /\ TitleOf[i] = TitleOf[j] => {i, j} \in crossed

(* Both promises of the gate before the claim.                              *)
IntakeGateHolds == NewProjectsGetNoAgent /\ RunningTitlesDiffer
=============================================================================
