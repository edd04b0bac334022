---------------------------- MODULE PullRequests ----------------------------
(***************************************************************************)
(* The pull requests of a repository on GitHub, as the two mergers of the   *)
(* daemon see them: the review and merge daemon (merge-daemon/) and the     *)
(* merge queue of the GitHub tracker (tracker/github.ts). GitHub, its CI    *)
(* and the people and agents who push are external: what a request returns  *)
(* is what the state below allows, or a failure.                            *)
(***************************************************************************)
EXTENDS Naturals, FiniteSets, Sequences

CONSTANTS
    Configs,  \* the deployments to look at
    PRs,      \* pull request numbers, in the order of creation
    MaxHead   \* bound: MaxHead[p] pushes to the branch of p after the first

ASSUME PullRequestsAssumption ==
    /\ PRs \subseteq Nat
    /\ Configs \subseteq [prs : SUBSET PRs, queue : BOOLEAN, poll : BOOLEAN,
                          review : BOOLEAN, buildFix : BOOLEAN, validation : BOOLEAN]
    /\ MaxHead \in [PRs -> Nat]

(* prs: the pull requests the dispatcher creates; queue: the tracker is      *)
(* GitHub's and enqueues them; poll: the review and merge daemon runs, with  *)
(* enable_review, enable_build_fix and any validation_commands.             *)
VARIABLES
    config,    \* the deployment
    head,      \* head[p]: the commit the branch of p is at, counted in pushes
    checks,    \* checks[p][h]: the check runs of commit h, "pending" until all are over
    base,      \* base[p]: how the branch of p stands to main
    prState,   \* prState[p]: "absent" until it is created
    labelled,  \* the pull requests labelled needs-manual-review
    mergedBy   \* mergedBy[p]: who merged p, "nobody" before

githubVars == << config, head, checks, base, prState, labelled, mergedBy >>

Heads(p) == 0..MaxHead[p]

GithubTypeOK ==
    /\ config \in Configs
    /\ head \in [PRs -> Nat] /\ \A p \in PRs : head[p] \in Heads(p)
    /\ \A p \in PRs : checks[p] \in [Heads(p) -> {"pending", "passed", "failed"}]
    /\ base \in [PRs -> {"current", "behind", "conflict"}]
    /\ prState \in [PRs -> {"absent", "open", "merged"}]
    /\ labelled \subseteq PRs
    /\ mergedBy \in [PRs -> {"nobody", "processor", "queue"}]

GithubInit ==
    /\ config \in Configs
    /\ head = [p \in PRs |-> 0]
    /\ checks = [p \in PRs |-> [h \in Heads(p) |-> "pending"]]
    /\ base = [p \in PRs |-> "current"]
    /\ prState = [p \in PRs |-> "absent"]
    /\ labelled = {}
    /\ mergedBy = [p \in PRs |-> "nobody"]

Open(p) == prState[p] = "open"
CanPush(p) == head[p] < MaxHead[p]

(* A forced push: whatever was at the head of the branch is replaced.       *)
push(p) ==
    /\ CanPush(p)
    /\ head' = [head EXCEPT ![p] = @ + 1]

(* The pushed tree has main merged in, unless main moved since the clone.   *)
pushWithMain(p) ==
    /\ push(p)
    /\ \E b \in {"current", base[p]} : base' = [base EXCEPT ![p] = b]

(* Read while pending, there may be no check run yet, or some are running.  *)
Green(p, sha) == checks[p][sha] \in {"pending", "passed"}

(* PUT pulls/<number>/merge names no commit: GitHub merges the head it has. *)
Mergeable(p) == Open(p) /\ base[p] # "conflict"
mergeHead(p, who) ==
    /\ Mergeable(p)
    /\ prState' = [prState EXCEPT ![p] = "merged"]
    /\ mergedBy' = [mergedBy EXCEPT ![p] = who]

-----------------------------------------------------------------------------
(* The outside world *)

(* The author, or an agent dispatched for a failed check, pushes.           *)
AuthorPush(p) ==
    /\ Open(p)
    /\ push(p)
    /\ UNCHANGED << config, checks, base, prState, labelled, mergedBy >>

(* Something else is merged to main; bound: while a push can still answer.  *)
MainMoves(p) ==
    /\ Open(p)
    /\ CanPush(p)
    /\ base[p] = "current"
    /\ \E b \in {"behind", "conflict"} : base' = [base EXCEPT ![p] = b]
    /\ UNCHANGED << config, head, checks, prState, labelled, mergedBy >>

ChecksEnd(p, h) ==
    /\ Open(p)
    /\ h <= head[p]
    /\ checks[p][h] = "pending"
    /\ \E c \in {"passed", "failed"} : checks' = [checks EXCEPT ![p][h] = c]
    /\ UNCHANGED << config, head, base, prState, labelled, mergedBy >>

Outside ==
    \E p \in PRs :
        \/ AuthorPush(p)
        \/ MainMoves(p)
        \/ \E h \in Heads(p) : ChecksEnd(p, h)
=============================================================================
