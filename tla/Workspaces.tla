----------------------------- MODULE Workspaces -----------------------------
(***************************************************************************)
(* What a worker does to the workspace directories, the remote repository    *)
(* (orchestrator/worker.ts, workspace/manager.ts,         *)
(* output/git.ts, and the parts of dispatcher.ts and reconciler.ts that      *)
(* start a worker, take its result and remove a workspace).                  *)
(*                                                                         *)
(* AgentRun models the agent, validation and review of one worker; here      *)
(* they are one step. The work of an attempt is a token: a repository is the *)
(* set of attempts whose commits its main branch contains. A failed          *)
(* after_create hook leaves no .git behind. Merges of pull requests are left *)
(* out, so that a new clone contains no work.                               *)
(***************************************************************************)
EXTENDS Naturals

CONSTANTS
    WIssues,      \* issues that are dispatched
    SharedDir,    \* the workspace of all issues when max_concurrent_agents is 1
    MaxAttempts   \* bound: MaxAttempts[i] attempts for issue i

ASSUME WorkspacesAssumption == MaxAttempts \in [WIssues -> Nat] /\ SharedDir \notin WIssues

Attempts == UNION {{i} \X (1 .. MaxAttempts[i]) : i \in WIssues}
Dirs == WIssues \cup {SharedDir}

VARIABLES
    setup,        \* "single": one agent, one directory; "webhooks": one directory,
                  \* and webhooks start agents beyond the slot; "many": a directory for each issue
    dir,          \* dir[d]: "none", "empty", "cloning" (.git is there) or "clone"
    localMain,    \* localMain[d]: the attempts in main of the repository in d
    remote,       \* attempts whose branch was pushed
    opened,       \* attempts with a pull request
    progressOf,        \* stage[a]: how far the worker of an attempt is
    copied,       \* copied[a]: what the copy the agent works on contained, or "nothing"
    outcome,      \* outcome[a]: agentResult.status, or "none"
    removed       \* issues whose workspace was removed

wvars == << setup, dir, localMain, remote, opened, progressOf, copied, outcome, removed >>

WInit ==
    /\ setup \in {"single", "webhooks", "many"}
    /\ dir = [d \in Dirs |-> "none"]
    /\ localMain = [d \in Dirs |-> {}]
    /\ remote = {} /\ opened = {} /\ removed = {}
    /\ progressOf = [a \in Attempts |-> "none"]
    /\ copied = [a \in Attempts |-> {}]
    /\ outcome = [a \in Attempts |-> "none"]

(* workspaceId                                                             *)
DirOf(a) == IF setup = "many" THEN a[1] ELSE SharedDir

Busy == {a \in Attempts : progressOf[a] \notin {"none", "ended"}}

Goes(a, to) == progressOf' = [progressOf EXCEPT ![a] = to]
Fails(a, to) == Goes(a, to) /\ outcome' = [outcome EXCEPT ![a] = "failed"]

-----------------------------------------------------------------------------

(* An attempt starts when the one before has ended, or was given up by the   *)
(* reconciler, and within the slots unless a webhook starts it.              *)
MayStart(a) ==
    /\ progressOf[a] = "none"
    /\ setup = "single" => Busy = {}
    /\ a[2] > 1 => LET before == << a[1], a[2] - 1 >>
                   IN  progressOf[before] = "ended" \/ (progressOf[before] # "none" /\ a[1] \in removed)

(* stat and mkdir; after_create runs only for who made the directory.        *)
ensureWorkspace(a) ==
    /\ MayStart(a)
    /\ IF dir[DirOf(a)] = "none"
       THEN dir' = [dir EXCEPT ![DirOf(a)] = "empty"] /\ Goes(a, "creating")
       ELSE UNCHANGED dir /\ Goes(a, "before")
    /\ UNCHANGED << setup, localMain, remote, opened, copied, outcome, removed >>

CloneBegins(a) ==
    /\ progressOf[a] = "creating" /\ dir[DirOf(a)] = "empty"
    /\ dir' = [dir EXCEPT ![DirOf(a)] = "cloning"]
    /\ Goes(a, "cloning")
    /\ UNCHANGED << setup, localMain, remote, opened, copied, outcome, removed >>

CloneEnds(a) ==
    /\ progressOf[a] = "cloning" /\ dir[DirOf(a)] = "cloning"
    /\ dir' = [dir EXCEPT ![DirOf(a)] = "clone"]
    /\ localMain' = [localMain EXCEPT ![DirOf(a)] = {}]
    /\ Goes(a, "before")
    /\ UNCHANGED << setup, remote, opened, copied, outcome, removed >>

(* The hook fails: executeWorker throws, the directory stays.                *)
AfterCreateFails(a) ==
    /\ progressOf[a] \in {"creating", "cloning"}
    /\ dir' = [dir EXCEPT ![DirOf(a)] = IF progressOf[a] = "cloning" /\ @ = "cloning" THEN "empty" ELSE @]
    /\ Fails(a, "ended")
    /\ UNCHANGED << setup, localMain, remote, opened, copied, removed >>

(* The hook, or its directory that was removed, fails the attempt.           *)
BeforeHookFails(a) ==
    /\ progressOf[a] = "before"
    /\ Fails(a, "reported")
    /\ UNCHANGED << setup, dir, localMain, remote, opened, copied, removed >>

(* A directory without .git is refused; a missing one is not, and fails      *)
(* when it is copied.                                                      *)
PassesPreflight(a) == dir[DirOf(a)] # "empty"

StartAgent(a) ==
    /\ progressOf[a] = "before"
    /\ IF PassesPreflight(a) /\ dir[DirOf(a)] # "none"
       THEN /\ Goes(a, IF dir[DirOf(a)] = "clone" THEN "working" ELSE "astray")
            /\ copied' = [copied EXCEPT ![a] = localMain[DirOf(a)]]
            /\ UNCHANGED outcome
       ELSE Fails(a, "reported") /\ UNCHANGED copied
    /\ UNCHANGED << setup, dir, localMain, remote, opened, removed >>

(* Agent or gates fail, the cost ceiling is exceeded, or the infrastructure  *)
(* fails.                                                                  *)
AgentFails(a) ==
    /\ progressOf[a] \in {"working", "astray"}
    /\ Fails(a, "reported")
    /\ UNCHANGED << setup, dir, localMain, remote, opened, copied, removed >>

(* Fault: main is advanced whether or not the push succeeded.               *)
PushAndAdvanceAlways(a, ok) ==
    /\ remote' = IF ok THEN remote \cup {a} ELSE remote
    /\ localMain' = IF localMain[DirOf(a)] \subseteq copied[a]
                    THEN [localMain EXCEPT ![DirOf(a)] = copied[a] \cup {a}] ELSE localMain

(* The branch is pushed, and main of the workspace advanced if that is a     *)
(* fast-forward; a failed push is logged only.                              *)
PushAndAdvance(a, ok) ==
    /\ remote' = IF ok THEN remote \cup {a} ELSE remote
    /\ localMain' = IF ok /\ localMain[DirOf(a)] \subseteq copied[a]
                    THEN [localMain EXCEPT ![DirOf(a)] = copied[a] \cup {a}] ELSE localMain

(* collectGitOutput with something to commit: fetching the branch into the   *)
(* workspace, the push and the merge are synchronous.                        *)
collectGitOutput(a) ==
    /\ progressOf[a] = "working" /\ dir[DirOf(a)] = "clone"
    /\ \E ok \in BOOLEAN : PushAndAdvance(a, ok)
    /\ Goes(a, "collected") /\ outcome' = [outcome EXCEPT ![a] = "completed"]
    /\ UNCHANGED << setup, dir, opened, copied, removed >>

NothingChanged(a) ==
    /\ progressOf[a] = "working"
    /\ Goes(a, "collected") /\ outcome' = [outcome EXCEPT ![a] = "completed"]
    /\ UNCHANGED << setup, dir, localMain, remote, opened, copied, removed >>

(* The workspace is gone or not a repository any more: the work is lost.     *)
CollectFails(a) ==
    /\ progressOf[a] = "working" /\ dir[DirOf(a)] # "clone"
    /\ Fails(a, "reported")
    /\ UNCHANGED << setup, dir, localMain, remote, opened, copied, removed >>

(* createPRForBranch: the branch is new, so the pull request is; the tracker *)
(* refuses a branch that was not pushed, and the worker ignores that.        *)
createWorkspacePR(a) ==
    /\ progressOf[a] = "collected"
    /\ \E created \in (IF a \in remote THEN BOOLEAN ELSE {FALSE}) :
           opened' = IF created THEN opened \cup {a} ELSE opened
    /\ Goes(a, "reported")
    /\ UNCHANGED << setup, dir, localMain, remote, copied, outcome, removed >>

(* The after hook and the cleanup of the container; the dispatcher takes the *)
(* result.                                                                 *)
WorkerReturns(a) ==
    /\ progressOf[a] = "reported"
    /\ Goes(a, "ended")
    /\ UNCHANGED << setup, dir, localMain, remote, opened, copied, outcome, removed >>

(* The reconciler finds a running issue in a terminal state: its workspace   *)
(* is removed by the identifier of the issue, and its worker goes on.        *)
removeWorkspace(i) ==
    /\ \E a \in Busy : a[1] = i
    /\ i \notin removed
    /\ removed' = removed \cup {i}
    /\ dir' = [dir EXCEPT ![i] = "none"]
    /\ localMain' = [localMain EXCEPT ![i] = {}]
    /\ UNCHANGED << setup, remote, opened, progressOf, copied, outcome >>

WNext ==
    \/ \E a \in Attempts :
          \/ ensureWorkspace(a) \/ CloneBegins(a) \/ CloneEnds(a) \/ AfterCreateFails(a)
          \/ BeforeHookFails(a) \/ StartAgent(a) \/ AgentFails(a)
          \/ collectGitOutput(a) \/ NothingChanged(a) \/ CollectFails(a)
          \/ createWorkspacePR(a) \/ WorkerReturns(a)
    \/ \E i \in WIssues : removeWorkspace(i)

WorkspacesSpec == WInit /\ [][WNext]_wvars

-----------------------------------------------------------------------------

(* "Advance host repo's local main to include this work so subsequent issues *)
(* in the same shared workspace build on accumulated changes": main of a     *)
(* workspace holds only work that was pushed, and with one agent at a time   *)
(* all of it, whichever attempts failed in between.                         *)
WorkspaceMainIsPushed ==
    /\ \A d \in Dirs : localMain[d] \subseteq remote
    /\ setup = "single" => localMain[SharedDir] = remote

(* An agent starts from a complete clone, also after failed attempts to make *)
(* one, unless workers share a directory at the same time or the directory   *)
(* was removed under them.                                                 *)
AgentsStartFromClones ==
    \A a \in Attempts : progressOf[a] = "astray" => setup = "webhooks" \/ a[1] \in removed

(* Both ends of an attempt: what it starts from, and what it leaves behind.  *)
WorkspacesBuildUp == AgentsStartFromClones /\ WorkspaceMainIsPushed
=============================================================================
