---------------------------- MODULE ParentRollup ----------------------------
(***************************************************************************)
(* Progress of a parent issue: when the agent of a child returns, a comment   *)
(* on the parent is written anew, and the parent is closed once all children  *)
(* are done (triggerParentRollup in orchestrator/dispatcher.ts,              *)
(* github/sub-issue-rollup.ts).                                             *)
(*                                                                         *)
(* One parent, on GitHub, without a feature branch. A rollup keeps the cache  *)
(* entry it began with; a poll puts a new entry in its place. An entry is its *)
(* number, and 0 stands for none.                                           *)
(***************************************************************************)
EXTENDS Naturals, FiniteSets, FiniteSetsExt

CONSTANTS
    SubIssues,
    MaxReturns,   \* bound: MaxReturns[k] agents of child k return
    MaxEntries,   \* bound: entries polls make
    MaxPosted     \* bound: comments that are created

ASSUME ParentRollupAssumption ==
    MaxReturns \in [SubIssues -> Nat] /\ {MaxEntries, MaxPosted} \subseteq Nat

NoRollup == [at |-> "none", entry |-> 0, shows |-> {}, comment |-> 0]

VARIABLES
    entry,         \* the entry of the parent in the cache
    entries,       \* entries made so far
    childStates,   \* childStates[e]: children that are closed in entry e
    closedInGitHub,
    returns,       \* returns[k]: agents of k that returned
    rollup,        \* rollup[k]: the rollup of child k that is under way
    posted,        \* progress comments created so far
    progress,      \* progress[c]: children that comment c shows as done
    deleted,       \* comments a user deleted
    parentClosed,
    rollupsOverlapped,    \* rollups of two children were under way at the same time
    disturbed      \* a call to GitHub failed, a comment was deleted or an entry replaced

rollupVars == << entry, entries, childStates, closedInGitHub, returns, rollup, posted, progress,
                 deleted, parentClosed, rollupsOverlapped, disturbed >>

RollupInit ==
    /\ entry = 0 /\ entries = 0 /\ posted = 0
    /\ childStates = [e \in 1 .. MaxEntries |-> {}]
    /\ closedInGitHub = {} /\ deleted = {}
    /\ returns = [k \in SubIssues |-> 0]
    /\ rollup = [k \in SubIssues |-> NoRollup]
    /\ progress = [c \in 1 .. MaxPosted |-> {}]
    /\ parentClosed = FALSE /\ rollupsOverlapped = FALSE /\ disturbed = FALSE

-----------------------------------------------------------------------------

(* A poll makes an entry from what GitHub says.                              *)
PollStoresEntry ==
    /\ entries < MaxEntries
    /\ entries' = entries + 1 /\ entry' = entries + 1
    /\ childStates' = [childStates EXCEPT ![entries + 1] = closedInGitHub]
    /\ disturbed' = (disturbed \/ entries > 0)
    /\ UNCHANGED << closedInGitHub, returns, rollup, posted, progress, deleted, parentClosed, rollupsOverlapped >>

EntryExpires ==
    /\ entry # 0
    /\ entry' = 0
    /\ disturbed' = TRUE
    /\ UNCHANGED << entries, childStates, closedInGitHub, returns, rollup, posted, progress,
                    deleted, parentClosed, rollupsOverlapped >>

(* The issue of a child is closed: by auto_close, a merge or a user.          *)
ChildIsClosed(k) ==
    /\ k \notin closedInGitHub
    /\ closedInGitHub' = closedInGitHub \cup {k}
    /\ UNCHANGED << entry, entries, childStates, returns, rollup, posted, progress, deleted,
                    parentClosed, rollupsOverlapped, disturbed >>

(* The children the comment shows as done.                                  *)
buildSubIssueProgressComment(e, k) == childStates[e] \cup {k}

(* The agent of k returns, succeeded or not: the child is marked as closed.   *)
triggerParentRollup(k) ==
    /\ returns[k] < MaxReturns[k] /\ rollup[k] = NoRollup
    /\ returns' = [returns EXCEPT ![k] = @ + 1]
    /\ IF entry = 0 THEN UNCHANGED << childStates, rollup, rollupsOverlapped >>
       ELSE /\ childStates' = [childStates EXCEPT ![entry] = @ \cup {k}]
            /\ rollup' = [rollup EXCEPT ![k] =
                  [at |-> "find", entry |-> entry, comment |-> 0,
                   shows |-> buildSubIssueProgressComment(entry, k)]]
            /\ rollupsOverlapped' = (rollupsOverlapped \/ \E j \in SubIssues : rollup[j] # NoRollup)
    /\ UNCHANGED << entry, entries, closedInGitHub, posted, progress, deleted, parentClosed, disturbed >>

(* A call that fails ends the rollup: the parent is not looked at.            *)
RollupFails(k) ==
    /\ rollup[k] # NoRollup
    /\ rollup' = [rollup EXCEPT ![k] = NoRollup]
    /\ disturbed' = TRUE
    /\ UNCHANGED << entry, entries, childStates, closedInGitHub, returns, posted, progress, deleted,
                    parentClosed, rollupsOverlapped >>

(* Fault: the marker is not found.                                          *)
FoundNever(live) == 0

(* The oldest comment with the marker.                                      *)
Found(live) == IF live = {} THEN 0 ELSE Min(live)

findRollupCommentId(k) ==
    /\ rollup[k].at = "find"
    /\ rollup' = [rollup EXCEPT ![k].at = "write", ![k].comment = Found((1 .. posted) \ deleted)]
    /\ UNCHANGED << entry, entries, childStates, closedInGitHub, returns, posted, progress, deleted,
                    parentClosed, rollupsOverlapped, disturbed >>

allChildrenTerminal(states) == states = SubIssues

(* The comment is updated, or created when none was found; then the parent is *)
(* closed if all children of the rollup's entry are: by the states of now,    *)
(* not those of the comment.                                                *)
upsertRollupComment(k) ==
    LET r == rollup[k]
        c == IF r.comment = 0 THEN posted + 1 ELSE r.comment
    IN  /\ r.at = "write" /\ c \notin deleted /\ c <= MaxPosted
        /\ progress' = [progress EXCEPT ![c] = r.shows]
        /\ posted' = IF r.comment = 0 THEN posted + 1 ELSE posted
        /\ rollup' = [rollup EXCEPT ![k] = NoRollup]
        /\ \E ok \in BOOLEAN :
              parentClosed' = (parentClosed \/ (ok /\ allChildrenTerminal(childStates[r.entry])))
        /\ UNCHANGED << entry, entries, childStates, closedInGitHub, returns, deleted, rollupsOverlapped, disturbed >>

UserDeletesComment ==
    /\ \E c \in (1 .. posted) \ deleted : deleted' = deleted \cup {c}
    /\ disturbed' = TRUE
    /\ UNCHANGED << entry, entries, childStates, closedInGitHub, returns, rollup, posted, progress,
                    parentClosed, rollupsOverlapped >>

RollupNext ==
    \/ PollStoresEntry \/ EntryExpires \/ UserDeletesComment
    \/ \E k \in SubIssues :
          \/ ChildIsClosed(k) \/ triggerParentRollup(k) \/ RollupFails(k)
          \/ findRollupCommentId(k) \/ upsertRollupComment(k)

RollupSpec == RollupInit /\ [][RollupNext]_rollupVars

-----------------------------------------------------------------------------

(* The parent is closed only after the agent of every child has returned, or  *)
(* its issue was closed. That the agents succeeded is not asked: a child that *)
(* failed counts as done and the parent is closed while the child is retried. *)
ParentClosesLast ==
    parentClosed => \A k \in SubIssues : returns[k] > 0 \/ k \in closedInGitHub

(* There is one progress comment, unless rollups overlap: two that find none   *)
(* create one each.                                                         *)
OneProgressComment == Cardinality((1 .. posted) \ deleted) <= 1 \/ rollupsOverlapped

(* When nothing is under way the comment shows the children that are done;    *)
(* rollups that overlap can write in the wrong order.                        *)
ProgressIsShown ==
    (\A k \in SubIssues : rollup[k] = NoRollup) /\ posted > 0 /\ ~rollupsOverlapped /\ ~disturbed
        => progress[posted] = childStates[entry]

(* What a reader of the parent issue can rely on.                            *)
RollupsAreHonest == ParentClosesLast /\ OneProgressComment /\ ProgressIsShown
=============================================================================
