----------------------------- MODULE MCServices -----------------------------
(***************************************************************************)
(* Constants of the TLC run of the services, and the run itself: they share *)
(* no variable, so one behaviour moves one service, chosen at the start,    *)
(* and the run explores the sum of their state spaces, not the product.     *)
(***************************************************************************)
EXTENDS Delegation, TrackerPolls, NotionPolls, HostRepo, Workspaces, AgentSession, ReactiveIssues, IssueIntake,
        Decomposition, Schedules, ChatOps, Credentials, ParentRollup, ReviewRecords, PRDescriptions, WorkflowReload, TLC

CONSTANTS s1, s2, parentIssue, subIssue, i1, i2, i3, i4, pattern1, pattern2, newIssue, otherIssue, p1, p2

(* The agent of p1 asks for one child more than it may have.                 *)
MCManifests == p1 :> {<< s1, s2, s2 >>} @@ p2 :> {<< s1 >>}
MCKids == [i \in {parentIssue, subIssue} |-> IF i = parentIssue THEN {subIssue} ELSE {}]

(* Three steps in a row, the last of which joins the first two.             *)
MCUpstream == [a |-> {}, b |-> {"a"}, c |-> {"a", "b"}]

(* i1 is tried twice.                                                      *)
MCMaxAttempts == i1 :> 2 @@ i2 :> 1

(* Two issues of the same pattern have failed already; one is to fail, one  *)
(* is new.                                                                 *)
MCRecordedBefore == i1 :> pattern1 @@ i2 :> pattern1 @@ i3 :> pattern2 @@ i4 :> NoOutcome

(* newIssue asks for a new project; otherIssue has the same title.          *)
MCTitleOf == newIssue :> "x" @@ otherIssue :> "x"
MCMaxDispatches == newIssue :> 2 @@ otherIssue :> 2

(* minute and hour: every other minute, a list, and one that cannot be read. *)
Part(kindOf, from, to, by) == [kind |-> kindOf, lo |-> from, hi |-> to, step |-> by]
MCCron ==
    [a |-> [minute |-> {Part("all", 0, 0, 2)}, hour |-> {Part("range", 0, 1, 1)}],
     b |-> [minute |-> {Part("value", 1, 0, 1), Part("from", 2, 0, 3)}, hour |-> {Part("value", 1, 0, 1)}],
     bad |-> [minute |-> {Part("all", 0, 0, 0)}, hour |-> {}]]

(* The agent of the first sub-issue is retried once.                        *)
MCMaxReturns == [k1 |-> 2, k2 |-> 1]

MCMentions == [q1 |-> {"i1"}]

-----------------------------------------------------------------------------

VARIABLE service   \* the one that moves

Services == {"delegation", "trackers", "notion", "pipeline repository", "workspaces", "agent session", "reactive issues",
             "intake", "decomposition", "schedules", "chat", "credentials", "parent rollup", "review records",
             "PR descriptions", "workflow reload"}

(* A service that does not move has one initial state.                      *)
ServicesInit ==
    /\ service \in Services
    /\ service # "trackers" => kind = "github" /\ open = {}
    /\ service # "notion" => active = {}
    /\ service # "workspaces" => setup = "single"
    /\ service # "agent session" => sessionKind = "oneshot"
    /\ service # "decomposition" => flow = "planner"
    /\ service # "schedules" => enableTriage = TRUE
    /\ service # "credentials" => mergerApp = TRUE
    /\ service # "PR descriptions" => titleNumber = NoNumber
    /\ service # "workflow reload" => maxConcurrent = 1 /\ childSlots = 0 /\ unreadable = {}
    /\ DelegationInit /\ TrackerInit /\ NotionInit /\ HostRepoInit /\ WInit /\ SessionInit /\ ReactiveInit
    /\ IntakeInit /\ DecInit /\ SchedulesInit /\ ChatInit /\ CredentialsInit /\ RollupInit /\ RecordsInit
    /\ DescriptionInit /\ ReloadInit

ServicesNext ==
    /\ UNCHANGED service
    /\ IF service = "delegation" THEN DelegationNext ELSE UNCHANGED dvars
    /\ IF service = "trackers" THEN TrackerNext ELSE UNCHANGED pvars
    /\ IF service = "notion" THEN NotionNext ELSE UNCHANGED nvars
    /\ IF service = "pipeline repository" THEN HostRepoNext ELSE UNCHANGED hvars
    /\ IF service = "workspaces" THEN WNext ELSE UNCHANGED wvars
    /\ IF service = "agent session" THEN SessionNext ELSE UNCHANGED svars
    /\ IF service = "reactive issues" THEN ReactiveNext ELSE UNCHANGED rvars
    /\ IF service = "intake" THEN IntakeNext ELSE UNCHANGED ivars
    /\ IF service = "decomposition" THEN DecNext ELSE UNCHANGED decVars
    /\ IF service = "schedules" THEN SchedulesNext ELSE UNCHANGED scheduleVars
    /\ IF service = "chat" THEN ChatNext ELSE UNCHANGED chatVars
    /\ IF service = "credentials" THEN CredentialsNext ELSE UNCHANGED credentialVars
    /\ IF service = "parent rollup" THEN RollupNext ELSE UNCHANGED rollupVars
    /\ IF service = "review records" THEN RecordsNext ELSE UNCHANGED recordVars
    /\ IF service = "PR descriptions" THEN DescriptionNext ELSE UNCHANGED prTextVars
    /\ IF service = "workflow reload" THEN ReloadNext ELSE UNCHANGED reloadVars

svcVars == << service, dvars, pvars, nvars, hvars, wvars, svars, rvars, ivars, decVars, scheduleVars, chatVars,
              credentialVars, rollupVars, recordVars, prTextVars, reloadVars >>

ServicesSpec ==
    /\ ServicesInit
    /\ [][ServicesNext]_svcVars
    /\ WF_dvars(service = "delegation" /\ DelegationGoesOn)
    /\ WF_hvars(service = "pipeline repository" /\ HostRepoGoesOn)
    /\ WF_svars(service = "agent session" /\ SessionGoesOn)
    /\ WF_decVars(service = "decomposition" /\ DecGoesOn)

(* Delegated calls, pipeline runs on a shared repository, invocations of an  *)
(* agent session and the children of a plan all end, whatever else they     *)
(* wait for: each other's retries, the repository lock, an app server that  *)
(* stays silent, the children that block them.                             *)
ServicesEnd == []<>(NoCallIsOpen /\ NoRunIsExecuted /\ AllAreAnswered /\ AllAreClosed)
=============================================================================
