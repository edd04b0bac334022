----------------------------- MODULE HostProofs -----------------------------
(***************************************************************************)
(* The safety of what agents work on, for any constants: the host           *)
(* repository of a pipeline and its lock, the workspaces of the             *)
(* orchestrator, the sessions with an app server, the tokens of the GitHub  *)
(* App, the reload of the workflow file and delegation. Each part has its   *)
(* inductive invariant, one step per action, and its theorem; the parts     *)
(* share no variables.                                                      *)
(***************************************************************************)
EXTENDS HostRepo, Workspaces, AgentSession, Credentials, WorkflowReload, Delegation,
        FiniteSetTheorems, SequenceTheorems, WellFoundedInduction, TLAPS

-----------------------------------------------------------------------------
(* The host repository: the lock has those who want it, in order; a fan-in  *)
(* node has the lock from its branch to its merge, finds its upstream done  *)
(* and has it on its branch; and main comes back.                           *)

NodeStatuses == {"none", "pending", "locking", "ready", "working", "merging", "completed", "failed", "skipped",
                 "hydrated", "lost"}
RunStatuses == {"none", "running", "completed", "failed", "lost"}
Branches == {Main} \cup Nodes

HostRepoTypeOK ==
    /\ head \in Branches
    /\ content \in [Branches -> SUBSET Nodes]
    /\ lockQueue \in Seq(Nodes)
    /\ node \in [Nodes -> NodeStatuses]
    /\ base \in [Nodes -> SUBSET Nodes]
    /\ originalRef \in [Nodes -> Branches]
    /\ checkpoints \in SUBSET Nodes
    /\ run \in [Runs -> RunStatuses]
    /\ source \in [Runs -> Runs \cup {NoRun}]
    /\ runRow \in [Runs -> RunStatuses]
    /\ repoCrashes \in Nat

(* A fan-in node holds the lock from its branch to its merge.               *)
HoldsBranch(n) == node[n] \in {"ready", "working"} /\ IsFanIn(n)

(* n waits for the lock or holds it.                                        *)
Wants(n) == node[n] \in {"locking", "merging"} \/ HoldsBranch(n)

(* Who is in the queue of the lock is so once, and wants it; a fan-in node  *)
(* keeps it until its work is done.                                         *)
LockIsWanted ==
    /\ \A i \in 1..Len(lockQueue), m \in Nodes : lockQueue[i] = m => Wants(m)
    /\ \A i, j \in 1..Len(lockQueue) : lockQueue[i] = lockQueue[j] => i = j
    /\ \A n \in Nodes : HoldsBranch(n) => Owns(n)
    /\ \A n \in Nodes : node[n] = "locking" => IsFanIn(n)
    /\ \A n \in Nodes : node[n] = "merging" => ~IsFanIn(n)

(* The nodes of a run work only while the run is executed.                  *)
OnlyRunningRunsWork ==
    /\ \A n \in Nodes : node[n] \in {"pending", "locking", "ready", "working", "merging"} => run[n[1]] = "running"
    /\ \A n \in Nodes : run[n[1]] = "none" => node[n] = "none"

(* A node has a checkpoint only after its success, and a hydrated one has   *)
(* it from its source.                                                      *)
HydrationHasCheckpoints ==
    /\ \A n \in checkpoints : node[n] \in {"merging", "completed", "failed", "lost"}
    /\ \A n \in Nodes : node[n] = "hydrated" => << source[n[1]], n[2] >> \in checkpoints

(* A node that was started has its upstream done.                           *)
UpstreamIsDone ==
    \A n \in Nodes : node[n] \in {"locking", "ready", "working", "merging", "completed"} =>
        \A u \in UpstreamNodes(n) : node[u] \in {"completed", "hydrated"}

(* The branch of a fan-in node, and later its workspace, contain what its   *)
(* upstream wrote.                                                          *)
BranchHasUpstream ==
    /\ \A n \in Nodes : HoldsBranch(n) /\ node[n] = "ready" => head = n /\ UpstreamOutput(n) \subseteq content[n]
    /\ WorkspaceHasUpstream

(* Without a crash the checked-out branch is main or that of the node that  *)
(* holds the lock, which will return to main; and main has what completed   *)
(* nodes wrote.                                                             *)
MainIsRestored ==
    repoCrashes = 0 =>
        /\ head = Main \/ (head \in Nodes /\ HoldsBranch(head))
        /\ \A n \in Nodes : HoldsBranch(n) => originalRef[n] = Main
        /\ \A n \in Nodes : node[n] = "completed" => base[n] \cup {n} \subseteq content[Main]

(* The inductive invariant of the host repository.                          *)
HostInv == /\ HostRepoTypeOK /\ LockIsWanted /\ OnlyRunningRunsWork /\ HydrationHasCheckpoints
           /\ UpstreamIsDone /\ BranchHasUpstream /\ MainIsRestored

(* A node is a step of a run.                                               *)
LEMMA NodesArePairs ==
    ASSUME NEW n \in Nodes
    PROVE  n[1] \in Runs /\ n[2] \in Steps /\ n = << n[1], n[2] >>
  BY DEF Nodes

(* Upstream nodes are nodes of the same run; whoever has one is a fan-in    *)
(* node.                                                                    *)
LEMMA UpstreamNodesAreNodes ==
    ASSUME NEW n \in Nodes, NEW u \in UpstreamNodes(n)
    PROVE  u \in Nodes /\ u[1] = n[1] /\ UpstreamNodes(n) # {} /\ IsFanIn(n)
<1>1. n[1] \in Runs /\ n[2] \in Steps
  BY NodesArePairs
<1>2. PICK v \in Upstream[n[2]] : u = << n[1], v >>
  BY DEF UpstreamNodes
<1>3. v \in Steps
  BY <1>1, <1>2, HostRepoAssumption
<1> QED
  BY <1>1, <1>2, <1>3 DEF Nodes, IsFanIn

(* A node that is no fan-in node has nothing upstream.                      *)
LEMMA RootsNeedNothing ==
    ASSUME NEW n \in Nodes, ~IsFanIn(n)
    PROVE  UpstreamNodes(n) = {} /\ UpstreamOutput(n) = {}
  BY DEF IsFanIn, UpstreamNodes, UpstreamOutput

(* What the upstream of a node hands down are nodes.                        *)
LEMMA UpstreamIsSomeNodes ==
    ASSUME HostRepoTypeOK, HydrationHasCheckpoints, NEW n \in Nodes,
           \A u \in UpstreamNodes(n) : node[u] \in {"completed", "hydrated"}
    PROVE  UpstreamOutput(n) \in SUBSET Nodes
<1>1. ASSUME NEW u \in UpstreamNodes(n)
      PROVE  OutputOf(u) \in SUBSET Nodes
  <2>1. u \in Nodes
    BY UpstreamNodesAreNodes
  <2>2. CASE node[u] = "hydrated"
    <3>1. << source[u[1]], u[2] >> \in checkpoints
      BY <2>1, <2>2 DEF HydrationHasCheckpoints
    <3>2. << source[u[1]], u[2] >> \in Nodes
      BY <3>1 DEF HostRepoTypeOK
    <3> QED
      BY <2>2, <3>2 DEF OutputOf, HostRepoTypeOK
  <2>3. CASE node[u] # "hydrated"
    BY <2>1, <2>3 DEF OutputOf, HostRepoTypeOK
  <2> QED
    BY <2>2, <2>3
<1> QED
  BY <1>1 DEF UpstreamOutput

(* The outputs a node was started from do not change any more.              *)
LEMMA OutputsAreSettled ==
    ASSUME HydrationHasCheckpoints, UpstreamIsDone, NEW n \in Nodes,
           node[n] \in {"locking", "ready", "working", "merging", "completed"},
           \A m \in Nodes : m[1] = n[1] /\ node[m] \in {"completed", "hydrated"} => node'[m] = node[m],
           \A m \in Nodes : node[m] = "completed" => base'[m] = base[m],
           \A m \in checkpoints : base'[m] = base[m],
           source'[n[1]] = source[n[1]]
    PROVE  /\ UpstreamOutput(n)' = UpstreamOutput(n)
           /\ \A u \in UpstreamNodes(n) : node'[u] \in {"completed", "hydrated"}
<1>1. ASSUME NEW u \in UpstreamNodes(n)
      PROVE  OutputOf(u)' = OutputOf(u) /\ node'[u] \in {"completed", "hydrated"}
  <2>1. u \in Nodes /\ u[1] = n[1]
    BY UpstreamNodesAreNodes
  <2>2. node[u] \in {"completed", "hydrated"} /\ node'[u] = node[u]
    BY <2>1 DEF UpstreamIsDone
  <2>3. CASE node[u] = "hydrated"
    <3>1. << source[u[1]], u[2] >> \in checkpoints
      BY <2>1, <2>3 DEF HydrationHasCheckpoints
    <3> QED
      BY <2>1, <2>2, <2>3, <3>1 DEF OutputOf
  <2>4. CASE node[u] = "completed"
    BY <2>1, <2>2, <2>4 DEF OutputOf
  <2> QED
    BY <2>2, <2>3, <2>4
<1> QED
  BY <1>1 DEF UpstreamOutput, UpstreamNodes

-----------------------------------------------------------------------------
(* The lock                                                                 *)

LEMMA EnqueueKeepsOwner ==
    ASSUME lockQueue \in Seq(Nodes), NEW n \in Nodes, Enqueue(n)
    PROVE  /\ lockQueue' \in Seq(Nodes)
           /\ Len(lockQueue') = Len(lockQueue) + 1
           /\ \A i \in 1..Len(lockQueue) : lockQueue'[i] = lockQueue[i]
           /\ lockQueue'[Len(lockQueue) + 1] = n
           /\ \A m \in Nodes : Owns(m) => Owns(m)'
  BY DEF Enqueue, Owns

(* Releasing the lock serves the next in the queue.                         *)
LEMMA ReleaseServesNext ==
    ASSUME lockQueue \in Seq(Nodes), lockQueue # << >>, Release
    PROVE  /\ lockQueue' \in Seq(Nodes)
           /\ Len(lockQueue') = Len(lockQueue) - 1
           /\ \A i \in 1..Len(lockQueue') : lockQueue'[i] = lockQueue[i + 1]
  BY DEF Release

(* The owner of the lock is the first in the queue.                         *)
LEMMA OwnerIsFirst ==
    ASSUME lockQueue \in Seq(Nodes), NEW n \in Nodes
    PROVE  Owns(n) <=> Len(lockQueue) \in Nat \ {0} /\ lockQueue[1] = n
  BY DEF Owns

(* A node that wants the lock from now on waits behind the others.          *)
LEMMA EnqueueKeepsLockWanted ==
    ASSUME HostRepoTypeOK, LockIsWanted, NEW n \in Nodes, Enqueue(n), ~Wants(n),
           \A m \in Nodes \ {n} : node'[m] = node[m],
           \/ node'[n] = "locking" /\ IsFanIn(n)
           \/ node'[n] = "merging" /\ ~IsFanIn(n)
    PROVE  LockIsWanted'
<1> USE DEF IsFanIn
<1>0. /\ lockQueue \in Seq(Nodes) /\ lockQueue' \in Seq(Nodes)
      /\ Len(lockQueue') = Len(lockQueue) + 1
      /\ \A i \in 1..Len(lockQueue) : lockQueue'[i] = lockQueue[i]
      /\ lockQueue'[Len(lockQueue) + 1] = n
      /\ \A m \in Nodes : Owns(m) => Owns(m)'
  BY EnqueueKeepsOwner DEF HostRepoTypeOK
<1>1. \A m \in Nodes \ {n} : Wants(m)' = Wants(m) /\ HoldsBranch(m)' = HoldsBranch(m)
  BY DEF Wants, HoldsBranch
<1>2. Wants(n)' /\ ~HoldsBranch(n)'
  BY DEF Wants, HoldsBranch
<1>3. \A i \in 1..Len(lockQueue) : \A m \in Nodes : lockQueue[i] = m => m # n /\ Wants(m)
  BY <1>0 DEF LockIsWanted
<1>4. \A i \in 1..Len(lockQueue'), m \in Nodes : lockQueue'[i] = m => Wants(m)'
  <2> TAKE i \in 1..Len(lockQueue'), m \in Nodes
  <2> HAVE lockQueue'[i] = m
  <2>1. CASE i = Len(lockQueue) + 1
    BY <1>0, <1>2, <2>1
  <2>2. CASE i # Len(lockQueue) + 1
    <3>1. i \in 1..Len(lockQueue) /\ lockQueue'[i] = lockQueue[i]
      BY <1>0, <2>2
    <3>2. m \in Nodes \ {n} /\ Wants(m)
      BY <3>1, <1>3
    <3> QED
      BY <3>2, <1>1
  <2> QED
    BY <2>1, <2>2
<1>5. \A i, j \in 1..Len(lockQueue') : lockQueue'[i] = lockQueue'[j] => i = j
  BY <1>0, <1>3 DEF LockIsWanted
<1>6. \A m \in Nodes : HoldsBranch(m)' => Owns(m)'
  BY <1>0, <1>1, <1>2 DEF LockIsWanted
<1>7. \A m \in Nodes : /\ node'[m] = "locking" => IsFanIn(m)
                       /\ node'[m] = "merging" => ~IsFanIn(m)
  BY DEF LockIsWanted
<1> QED
  BY <1>4, <1>5, <1>6, <1>7 DEF LockIsWanted

(* The owner of the lock lets go of it, and nobody else changes.            *)
LEMMA ReleaseKeepsLockWanted ==
    ASSUME HostRepoTypeOK, LockIsWanted, NEW n \in Nodes, Release, Owns(n),
           \A m \in Nodes \ {n} : node'[m] = node[m],
           node'[n] \in {"completed", "failed"}
    PROVE  LockIsWanted'
<1> USE DEF IsFanIn
<1>0. /\ lockQueue \in Seq(Nodes) /\ lockQueue # << >> /\ lockQueue' \in Seq(Nodes)
      /\ Len(lockQueue') = Len(lockQueue) - 1
      /\ \A i \in 1..Len(lockQueue') : lockQueue'[i] = lockQueue[i + 1]
  BY ReleaseServesNext DEF HostRepoTypeOK, Owns
<1>01. Len(lockQueue) \in Nat \ {0} /\ lockQueue[1] = n
  BY <1>0, OwnerIsFirst
<1>1. \A m \in Nodes \ {n} : Wants(m)' = Wants(m) /\ HoldsBranch(m)' = HoldsBranch(m)
  BY DEF Wants, HoldsBranch
<1>2. ~HoldsBranch(n)'
  BY DEF HoldsBranch
<1>3. \A i \in 1..Len(lockQueue') :
         i + 1 \in 1..Len(lockQueue) /\ \A m \in Nodes : lockQueue[i + 1] = m => m # n /\ Wants(m)
  BY <1>0, <1>01 DEF LockIsWanted
<1>4. \A i \in 1..Len(lockQueue'), m \in Nodes : lockQueue'[i] = m => Wants(m)'
  <2> TAKE i \in 1..Len(lockQueue'), m \in Nodes
  <2> HAVE lockQueue'[i] = m
  <2>1. m \in Nodes \ {n} /\ Wants(m)
    BY <1>0, <1>3
  <2> QED
    BY <2>1, <1>1
<1>5. \A i, j \in 1..Len(lockQueue') : lockQueue'[i] = lockQueue'[j] => i = j
  <2> TAKE i, j \in 1..Len(lockQueue')
  <2>1. i + 1 \in 1..Len(lockQueue) /\ j + 1 \in 1..Len(lockQueue)
    BY <1>3
  <2>2. lockQueue[i + 1] = lockQueue[j + 1] => i + 1 = j + 1
    BY <2>1 DEF LockIsWanted
  <2> QED
    BY <2>2, <1>0
<1>6. \A m \in Nodes : ~HoldsBranch(m)'
  <2> TAKE m \in Nodes
  <2>1. CASE m = n
    BY <2>1, <1>2
  <2>2. CASE m # n
    <3>1. ~Owns(m)
      BY <2>2 DEF Owns
    <3> QED
      BY <3>1, <2>2, <1>1 DEF LockIsWanted
  <2> QED
    BY <2>1, <2>2
<1>7. \A m \in Nodes : /\ node'[m] = "locking" => IsFanIn(m)
                       /\ node'[m] = "merging" => ~IsFanIn(m)
  BY DEF LockIsWanted
<1> QED
  BY <1>4, <1>5, <1>6, <1>7 DEF LockIsWanted

(* Nobody joins or leaves the line, and who wanted the lock still does.     *)
LEMMA LockStaysWanted ==
    ASSUME HostRepoTypeOK, LockIsWanted, UNCHANGED lockQueue,
           \A m \in Nodes : Wants(m) => Wants(m)',
           \A m \in Nodes : HoldsBranch(m)' => HoldsBranch(m) \/ Owns(m),
           \A m \in Nodes : node'[m] \in {"locking", "merging"} => node'[m] = node[m]
    PROVE  LockIsWanted'
<1> USE DEF IsFanIn
<1>1. \A i \in 1..Len(lockQueue'), m \in Nodes : lockQueue'[i] = m => Wants(m)'
  BY DEF LockIsWanted
<1>2. \A m \in Nodes : HoldsBranch(m)' => Owns(m)'
  BY DEF LockIsWanted, Owns
<1> QED
  BY <1>1, <1>2 DEF LockIsWanted

(* The lock has one owner.                                                  *)
LEMMA OneOwner ==
    ASSUME NEW n \in Nodes, NEW m \in Nodes, Owns(n), Owns(m)
    PROVE  m = n
  BY DEF Owns

-----------------------------------------------------------------------------
(* Steps                                                                    *)

(* The statuses of a node that was begun and has not ended.                 *)
Engaged == {"pending", "locking", "ready", "working", "merging"}

(* The statuses of a node whose upstream is done.                           *)
Started == {"locking", "ready", "working", "merging", "completed"}

(* What every step of one node keeps.                                      *)
LEMMA NodeMoves ==
    ASSUME HostInv, NEW n \in Nodes, node[n] \in Engaged, NEW x \in NodeStatuses \ {"none", "hydrated"},
           node' = [node EXCEPT ![n] = x],
           \A m \in Nodes : base'[m] = base[m] \/ (m = n /\ node[n] = "ready"),
           UNCHANGED runVars,
           x \in Started => \A u \in UpstreamNodes(n) : node[u] \in {"completed", "hydrated"},
           \/ UNCHANGED checkpoints /\ node[n] # "merging"
           \/ UNCHANGED checkpoints /\ x \in {"completed", "failed"}
           \/ checkpoints' = checkpoints \cup {n} /\ x \in {"merging", "completed", "failed"}
    PROVE  /\ node' \in [Nodes -> NodeStatuses]
           /\ OnlyRunningRunsWork' /\ HydrationHasCheckpoints' /\ UpstreamIsDone'
           /\ \A m \in Nodes : node[m] \in Started => UpstreamOutput(m)' = UpstreamOutput(m)
           /\ x \in Started => UpstreamOutput(n)' = UpstreamOutput(n)
<1> USE DEF HostInv
<1>1. node' \in [Nodes -> NodeStatuses] /\ node'[n] = x /\ \A m \in Nodes \ {n} : node'[m] = node[m]
  BY DEF HostRepoTypeOK
<1>2. OnlyRunningRunsWork'
  <2>1. run' = run /\ run[n[1]] = "running"
    BY DEF OnlyRunningRunsWork, runVars, Engaged
  <2> QED
    BY <1>1, <2>1 DEF OnlyRunningRunsWork
<1>3. HydrationHasCheckpoints'
  <2>1. source' = source /\ checkpoints \subseteq Nodes
    BY DEF runVars, HostRepoTypeOK
  <2>2. \A m \in checkpoints' : node'[m] \in {"merging", "completed", "failed", "lost"}
    BY <1>1, <2>1 DEF HydrationHasCheckpoints, Engaged
  <2>3. \A m \in Nodes : node'[m] = "hydrated" => m # n /\ node[m] = "hydrated"
    BY <1>1
  <2>4. checkpoints \subseteq checkpoints'
    OBVIOUS
  <2> QED
    BY <2>1, <2>2, <2>3, <2>4 DEF HydrationHasCheckpoints
<1>4. \A m \in Nodes : node[m] \in {"completed", "hydrated"} => node'[m] = node[m]
  BY <1>1 DEF Engaged
<1>5. \A m \in Nodes : node[m] = "completed" => base'[m] = base[m]
  BY DEF Engaged
<1>6. \A m \in checkpoints : m \in Nodes /\ base'[m] = base[m]
  BY DEF HydrationHasCheckpoints, HostRepoTypeOK
<1>7. source' = source
  BY DEF runVars
<1>8. ASSUME NEW m \in Nodes, node[m] \in Started
      PROVE  /\ UpstreamOutput(m)' = UpstreamOutput(m)
             /\ \A u \in UpstreamNodes(m) : node'[u] \in {"completed", "hydrated"}
  BY <1>4, <1>5, <1>6, <1>7, <1>8, OutputsAreSettled DEF Started
<1>9. ASSUME x \in Started
      PROVE  /\ UpstreamOutput(n)' = UpstreamOutput(n)
             /\ \A u \in UpstreamNodes(n) : node'[u] \in {"completed", "hydrated"}
  <2>1. ASSUME NEW u \in UpstreamNodes(n)
        PROVE  OutputOf(u)' = OutputOf(u) /\ node'[u] \in {"completed", "hydrated"}
    <3>1. u \in Nodes /\ node[u] \in {"completed", "hydrated"} /\ node'[u] = node[u]
      BY <1>4, <1>9, UpstreamNodesAreNodes
    <3>2. CASE node[u] = "hydrated"
      <4>1. << source[u[1]], u[2] >> \in checkpoints
        BY <3>1, <3>2 DEF HydrationHasCheckpoints
      <4> QED
        BY <3>1, <3>2, <4>1, <1>6, <1>7 DEF OutputOf
    <3>3. CASE node[u] = "completed"
      BY <3>1, <3>3, <1>5 DEF OutputOf
    <3> QED
      BY <3>1, <3>2, <3>3
  <2> QED
    BY <2>1 DEF UpstreamOutput, UpstreamNodes
<1>10. UpstreamIsDone'
  <2>1. \A m \in Nodes : node'[m] \in Started =>
           \A u \in UpstreamNodes(m) : node'[u] \in {"completed", "hydrated"}
    BY <1>1, <1>8, <1>9
  <2> QED
    BY <2>1 DEF UpstreamIsDone, Started, UpstreamNodes
<1> QED
  BY <1>1, <1>2, <1>3, <1>8, <1>9, <1>10

(* What the branch and the workspaces of the others keep.                   *)
LEMMA OthersKeepTheirBranches ==
    ASSUME HostInv, NEW n \in Nodes,
           \A m \in Nodes \ {n} : node'[m] = node[m] /\ base'[m] = base[m],
           \A m \in Nodes : node[m] \in Started => UpstreamOutput(m)' = UpstreamOutput(m),
           \/ UNCHANGED << head, content >>
           \/ \A m \in Nodes \ {n} : ~HoldsBranch(m),
           node'[n] = "ready" /\ IsFanIn(n) => head' = n /\ UpstreamOutput(n)' \subseteq content'[n],
           node'[n] \in {"working", "completed"} => UpstreamOutput(n)' \subseteq base'[n]
    PROVE  BranchHasUpstream'
<1> USE DEF HostInv
<1>1. ASSUME NEW m \in Nodes, HoldsBranch(m)', node'[m] = "ready"
      PROVE  head' = m /\ UpstreamOutput(m)' \subseteq content'[m]
  <2>1. IsFanIn(m)
    BY <1>1 DEF HoldsBranch, IsFanIn
  <2>2. CASE m = n
    BY <1>1, <2>1, <2>2
  <2>3. CASE m # n
    <3>1. HoldsBranch(m) /\ node[m] = "ready"
      BY <2>1, <2>3, <1>1 DEF HoldsBranch
    <3>2. UNCHANGED << head, content >>
      BY <3>1, <2>3
    <3>3. UpstreamOutput(m)' = UpstreamOutput(m)
      BY <3>1 DEF Started
    <3> QED
      BY <3>1, <3>2, <3>3 DEF BranchHasUpstream
  <2> QED
    BY <2>2, <2>3
<1>2. ASSUME NEW m \in Nodes, node'[m] \in {"working", "completed"}
      PROVE  UpstreamOutput(m)' \subseteq base'[m]
  <2>1. CASE m = n
    BY <1>2, <2>1
  <2>2. CASE m # n
    <3>1. node[m] \in {"working", "completed"} /\ base'[m] = base[m]
      BY <1>2, <2>2
    <3>2. UpstreamOutput(m)' = UpstreamOutput(m)
      BY <3>1 DEF Started
    <3> QED
      BY <3>1, <3>2 DEF BranchHasUpstream, WorkspaceHasUpstream
  <2> QED
    BY <2>1, <2>2
<1> QED
  BY <1>1, <1>2 DEF BranchHasUpstream, WorkspaceHasUpstream

(* Only the owner of the lock holds a branch.                               *)
LEMMA OnlyOwnerHoldsBranch ==
    ASSUME HostInv, NEW n \in Nodes, Owns(n)
    PROVE  \A m \in Nodes \ {n} : ~HoldsBranch(m)
  BY OneOwner DEF HostInv, LockIsWanted

LEMMA StartNodeKeeps == ASSUME HostInv, NEW n \in Nodes, StartNode(n) PROVE HostInv'
<1> USE DEF HostInv
<1>0. /\ node[n] = "pending" /\ \A u \in UpstreamNodes(n) : node[u] \in {"completed", "hydrated"}
      /\ node' = [node EXCEPT ![n] = IF IsFanIn(n) THEN "locking" ELSE "ready"]
      /\ UNCHANGED << head, content, originalRef, base, checkpoints, runVars >>
  BY DEF StartNode
<1>1. /\ node' \in [Nodes -> NodeStatuses]
      /\ OnlyRunningRunsWork' /\ HydrationHasCheckpoints' /\ UpstreamIsDone'
      /\ \A m \in Nodes : node[m] \in Started => UpstreamOutput(m)' = UpstreamOutput(m)
  <2> DEFINE x == IF IsFanIn(n) THEN "locking" ELSE "ready"
  <2>1. x \in NodeStatuses \ {"none", "hydrated"}
    BY DEF NodeStatuses
  <2>2. node[n] \in Engaged
    BY <1>0 DEF Engaged
  <2> HIDE DEF x
  <2>3. node' = [node EXCEPT ![n] = x]
    BY <1>0 DEF x
  <2> QED
    BY <1>0, <2>1, <2>2, <2>3, NodeMoves
<1>2. /\ node'[n] = IF IsFanIn(n) THEN "locking" ELSE "ready"
      /\ \A m \in Nodes \ {n} : node'[m] = node[m] /\ base'[m] = base[m]
  BY <1>0 DEF HostRepoTypeOK
<1>3. LockIsWanted'
  <2>1. CASE IsFanIn(n)
    <3>1. Enqueue(n) /\ ~Wants(n)
      BY <2>1, <1>0 DEF StartNode, Wants, HoldsBranch
    <3> QED
      BY <3>1, <2>1, <1>2, EnqueueKeepsLockWanted
  <2>2. CASE ~IsFanIn(n)
    <3>1. UNCHANGED lockQueue
      BY <2>2 DEF StartNode
    <3>2. \A m \in Nodes : Wants(m)' = Wants(m) /\ HoldsBranch(m)' = HoldsBranch(m)
      BY <2>2, <1>0, <1>2 DEF Wants, HoldsBranch, IsFanIn
    <3>3. \A m \in Nodes : node'[m] \in {"locking", "merging"} => node'[m] = node[m]
      BY <2>2, <1>2
    <3> QED
      BY <3>1, <3>2, <3>3, LockStaysWanted
  <2> QED
    BY <2>1, <2>2
<1>4. BranchHasUpstream'
  BY <1>0, <1>1, <1>2, OthersKeepTheirBranches
<1>5. HostRepoTypeOK'
  <2>1. Enqueue(n) \/ UNCHANGED lockQueue
    BY DEF StartNode
  <2>2. lockQueue' \in Seq(Nodes)
    BY <2>1, EnqueueKeepsOwner DEF HostRepoTypeOK
  <2> QED
    BY <2>2, <1>0, <1>1 DEF HostRepoTypeOK, runVars
<1>6. MainIsRestored'
  <2>1. \A m \in Nodes : HoldsBranch(m)' = HoldsBranch(m) /\ (node'[m] = "completed" => node[m] = "completed")
    BY <1>0, <1>2 DEF HoldsBranch, IsFanIn
  <2> QED
    BY <2>1, <1>0 DEF MainIsRestored, runVars, HostRepoTypeOK
<1> QED
  BY <1>1, <1>3, <1>4, <1>5, <1>6

LEMMA PrepareKeeps == ASSUME HostInv, NEW n \in Nodes, prepareFanInBranch(n) PROVE HostInv'
<1> USE DEF HostInv
<1>0. /\ node[n] = "locking" /\ Owns(n) /\ head' = n
      /\ originalRef' = [originalRef EXCEPT ![n] = head]
      /\ content' = [content EXCEPT ![n] = UpstreamOutput(n)]
      /\ node' = [node EXCEPT ![n] = "ready"]
      /\ UNCHANGED << lockQueue, base, checkpoints, runVars >>
  BY DEF prepareFanInBranch
<1>01. IsFanIn(n) /\ \A u \in UpstreamNodes(n) : node[u] \in {"completed", "hydrated"}
  BY <1>0 DEF LockIsWanted, UpstreamIsDone
<1>1. /\ node' \in [Nodes -> NodeStatuses]
      /\ OnlyRunningRunsWork' /\ HydrationHasCheckpoints' /\ UpstreamIsDone'
      /\ \A m \in Nodes : node[m] \in Started => UpstreamOutput(m)' = UpstreamOutput(m)
  <2>1. "ready" \in NodeStatuses \ {"none", "hydrated"} /\ node[n] \in Engaged
    BY <1>0 DEF NodeStatuses, Engaged
  <2> QED
    BY <1>0, <1>01, <2>1, NodeMoves
<1>2. /\ node'[n] = "ready"
      /\ \A m \in Nodes \ {n} : node'[m] = node[m] /\ base'[m] = base[m]
  BY <1>0 DEF HostRepoTypeOK
<1>20. UpstreamOutput(n) \in SUBSET Nodes /\ UpstreamOutput(n)' = UpstreamOutput(n)
  BY <1>0, <1>1, <1>01, UpstreamIsSomeNodes DEF Started
<1>21. n \in Branches /\ Main # n /\ Main \in Branches
  BY HostRepoAssumption DEF Branches
<1>22. content'[n] = UpstreamOutput(n) /\ content'[Main] = content[Main]
  BY <1>0, <1>21 DEF HostRepoTypeOK
<1>3. LockIsWanted'
  <2>1. HoldsBranch(n)' /\ Wants(n)'
    BY <1>2, <1>01 DEF HoldsBranch, Wants, IsFanIn
  <2>2. \A m \in Nodes \ {n} : Wants(m)' = Wants(m) /\ HoldsBranch(m)' = HoldsBranch(m)
    BY <1>2 DEF Wants, HoldsBranch, IsFanIn
  <2> QED
    BY <1>0, <1>2, <2>1, <2>2, LockStaysWanted
<1>4. BranchHasUpstream'
  BY <1>0, <1>1, <1>2, <1>20, <1>22, OnlyOwnerHoldsBranch, OthersKeepTheirBranches
<1>5. HostRepoTypeOK'
  BY <1>0, <1>1, <1>20, <1>21 DEF HostRepoTypeOK, runVars
<1>6. MainIsRestored'
  <2> SUFFICES ASSUME repoCrashes' = 0 PROVE MainIsRestored!2'
    BY DEF MainIsRestored
  <2>0. repoCrashes = 0
    BY <1>0 DEF runVars
  <2>1. HoldsBranch(n)' /\ \A m \in Nodes \ {n} : ~HoldsBranch(m) /\ ~HoldsBranch(m)'
    <3>1. \A m \in Nodes \ {n} : ~HoldsBranch(m)
      BY <1>0, OnlyOwnerHoldsBranch
    <3> QED
      BY <3>1, <1>2, <1>01 DEF HoldsBranch, IsFanIn
  <2>2. head = Main
    BY <2>0, <2>1, <1>0 DEF MainIsRestored, HoldsBranch
  <2>3. originalRef'[n] = Main
    BY <1>0, <2>2 DEF HostRepoTypeOK
  <2>4. \A m \in Nodes : node'[m] = "completed" => node[m] = "completed"
    BY <1>2
  <2> QED
    BY <2>0, <2>1, <2>3, <2>4, <1>0, <1>22 DEF MainIsRestored
<1> QED
  BY <1>1, <1>3, <1>4, <1>5, <1>6

LEMMA ConflictKeeps == ASSUME HostInv, NEW n \in Nodes, FanInConflict(n) PROVE HostInv'
<1> USE DEF HostInv
<1>0. /\ node[n] = "locking" /\ Owns(n) /\ Release
      /\ node' = [node EXCEPT ![n] = "failed"]
      /\ UNCHANGED << head, content, originalRef, base, checkpoints, runVars >>
  BY DEF FanInConflict
<1>1. /\ node' \in [Nodes -> NodeStatuses]
      /\ OnlyRunningRunsWork' /\ HydrationHasCheckpoints' /\ UpstreamIsDone'
      /\ \A m \in Nodes : node[m] \in Started => UpstreamOutput(m)' = UpstreamOutput(m)
  <2>1. "failed" \in NodeStatuses \ {"none", "hydrated"} /\ node[n] \in Engaged /\ "failed" \notin Started
    BY <1>0 DEF NodeStatuses, Engaged, Started
  <2> QED
    BY <1>0, <2>1, NodeMoves
<1>2. /\ node'[n] = "failed"
      /\ \A m \in Nodes \ {n} : node'[m] = node[m] /\ base'[m] = base[m]
  BY <1>0 DEF HostRepoTypeOK
<1>3. LockIsWanted'
  BY <1>0, <1>2, ReleaseKeepsLockWanted
<1>4. BranchHasUpstream'
  BY <1>0, <1>1, <1>2, OthersKeepTheirBranches
<1>5. HostRepoTypeOK'
  <2>1. lockQueue' \in Seq(Nodes)
    BY <1>0, ReleaseServesNext DEF HostRepoTypeOK, Owns
  <2> QED
    BY <2>1, <1>0, <1>1 DEF HostRepoTypeOK, runVars
<1>6. MainIsRestored'
  <2>1. \A m \in Nodes : HoldsBranch(m)' = HoldsBranch(m) /\ (node'[m] = "completed" => node[m] = "completed")
    BY <1>0, <1>2 DEF HoldsBranch, IsFanIn
  <2> QED
    BY <2>1, <1>0 DEF MainIsRestored, runVars, HostRepoTypeOK
<1> QED
  BY <1>1, <1>3, <1>4, <1>5, <1>6

LEMMA CopyKeeps == ASSUME HostInv, NEW n \in Nodes, CopyWorkspace(n) PROVE HostInv'
<1> USE DEF HostInv
<1>0. /\ node[n] = "ready"
      /\ node' = [node EXCEPT ![n] = "working"]
      /\ base' = [base EXCEPT ![n] = content[head]]
      /\ UNCHANGED << head, content, lockQueue, originalRef, checkpoints, runVars >>
  BY DEF CopyWorkspace, repoVars
<1>01. \A u \in UpstreamNodes(n) : node[u] \in {"completed", "hydrated"}
  BY <1>0 DEF UpstreamIsDone
<1>2. /\ node'[n] = "working" /\ base'[n] = content[head]
      /\ \A m \in Nodes \ {n} : node'[m] = node[m] /\ base'[m] = base[m]
  BY <1>0 DEF HostRepoTypeOK
<1>1. /\ node' \in [Nodes -> NodeStatuses]
      /\ OnlyRunningRunsWork' /\ HydrationHasCheckpoints' /\ UpstreamIsDone'
      /\ \A m \in Nodes : node[m] \in Started => UpstreamOutput(m)' = UpstreamOutput(m)
  <2>1. "working" \in NodeStatuses \ {"none", "hydrated"} /\ node[n] \in Engaged
    BY <1>0 DEF NodeStatuses, Engaged
  <2> QED
    BY <1>0, <1>01, <1>2, <2>1, NodeMoves
<1>20. \A m \in Nodes : Wants(m)' = Wants(m) /\ HoldsBranch(m)' = HoldsBranch(m)
  BY <1>0, <1>2 DEF HoldsBranch, Wants, IsFanIn
<1>3. LockIsWanted'
  BY <1>0, <1>2, <1>20, LockStaysWanted
<1>4. BranchHasUpstream'
  <2>1. UpstreamOutput(n)' = UpstreamOutput(n)
    BY <1>0, <1>1 DEF Started
  <2>2. CASE IsFanIn(n)
    <3>1. head = n /\ UpstreamOutput(n) \subseteq content[n]
      BY <2>2, <1>0 DEF BranchHasUpstream, HoldsBranch
    <3> QED
      BY <2>1, <3>1, <1>0, <1>1, <1>2, OthersKeepTheirBranches
  <2>3. CASE ~IsFanIn(n)
    <3>1. UpstreamOutput(n) = {}
      BY <2>3, RootsNeedNothing
    <3> QED
      BY <2>1, <3>1, <1>0, <1>1, <1>2, OthersKeepTheirBranches
  <2> QED
    BY <2>2, <2>3
<1>5. HostRepoTypeOK'
  <2>1. content[head] \in SUBSET Nodes
    BY DEF HostRepoTypeOK
  <2> QED
    BY <2>1, <1>0, <1>1 DEF HostRepoTypeOK, runVars
<1>6. MainIsRestored'
  <2>1. \A m \in Nodes : node'[m] = "completed" => node[m] = "completed" /\ base'[m] = base[m]
    BY <1>2
  <2> QED
    BY <2>1, <1>0, <1>20 DEF MainIsRestored, runVars, HostRepoTypeOK
<1> QED
  BY <1>1, <1>3, <1>4, <1>5, <1>6

(* A node without dependencies gets what it does not hold a branch for.     *)
LEMMA SkipKeeps == ASSUME HostInv, NEW n \in Nodes, SkipNode(n) PROVE HostInv'
<1> USE DEF HostInv
<1>0. /\ node[n] = "pending"
      /\ node' = [node EXCEPT ![n] = "skipped"]
      /\ UNCHANGED << head, content, lockQueue, originalRef, base, checkpoints, runVars >>
  BY DEF SkipNode, repoVars
<1>1. /\ node' \in [Nodes -> NodeStatuses]
      /\ OnlyRunningRunsWork' /\ HydrationHasCheckpoints' /\ UpstreamIsDone'
      /\ \A m \in Nodes : node[m] \in Started => UpstreamOutput(m)' = UpstreamOutput(m)
  <2>1. "skipped" \in NodeStatuses \ {"none", "hydrated"} /\ node[n] \in Engaged /\ "skipped" \notin Started
    BY <1>0 DEF NodeStatuses, Engaged, Started
  <2> QED
    BY <1>0, <2>1, NodeMoves
<1>2. /\ node'[n] = "skipped"
      /\ \A m \in Nodes \ {n} : node'[m] = node[m] /\ base'[m] = base[m]
  BY <1>0 DEF HostRepoTypeOK
<1>20. \A m \in Nodes : Wants(m)' = Wants(m) /\ HoldsBranch(m)' = HoldsBranch(m)
  BY <1>0, <1>2 DEF HoldsBranch, Wants, IsFanIn
<1>3. LockIsWanted'
  BY <1>0, <1>2, <1>20, LockStaysWanted
<1>4. BranchHasUpstream'
  BY <1>0, <1>1, <1>2, OthersKeepTheirBranches
<1>5. HostRepoTypeOK'
  BY <1>0, <1>1 DEF HostRepoTypeOK, runVars
<1>6. MainIsRestored'
  <2>1. \A m \in Nodes : node'[m] = "completed" => node[m] = "completed"
    BY <1>2
  <2> QED
    BY <2>1, <1>0, <1>20 DEF MainIsRestored, runVars, HostRepoTypeOK
<1> QED
  BY <1>1, <1>3, <1>4, <1>5, <1>6

(* The owner of the lock, a fan-in node or one without dependencies, is done. *)
LEMMA OwnerIsDone ==
    ASSUME HostInv, NEW n \in Nodes, Owns(n), Release,
           node[n] \in {"working", "merging"}, node[n] = "working" <=> IsFanIn(n),
           NEW original \in Branches, original = IF IsFanIn(n) THEN originalRef[n] ELSE head,
           head' = original, MergeOutput(n, original),
           \/ checkpoints' = checkpoints /\ node[n] = "merging"
           \/ checkpoints' = checkpoints \cup {n}
           \/ checkpoints' = checkpoints /\ UNCHANGED content /\ node' = [node EXCEPT ![n] = "failed"],
           UNCHANGED << originalRef, base, runVars >>
    PROVE  HostInv'
<1> USE DEF HostInv
<1>0. PICK x \in {"completed", "failed"} :
         /\ node' = [node EXCEPT ![n] = x]
         /\ x = "completed" => content' = [content EXCEPT ![original] = @ \cup base[n] \cup {n}]
         /\ x = "failed" => content' = content
  <2>1. CASE content' = [content EXCEPT ![original] = @ \cup base[n] \cup {n}] /\ node' = [node EXCEPT ![n] = "completed"]
    BY <2>1
  <2>2. CASE UNCHANGED content /\ node' = [node EXCEPT ![n] = "failed"]
    BY <2>2
  <2> QED
    BY <2>1, <2>2 DEF MergeOutput
<1>01. node[n] \in Started /\ \A u \in UpstreamNodes(n) : node[u] \in {"completed", "hydrated"}
  BY DEF UpstreamIsDone, Started
<1>2. /\ node'[n] = x
      /\ \A m \in Nodes \ {n} : node'[m] = node[m] /\ base'[m] = base[m]
  BY <1>0 DEF HostRepoTypeOK
<1>1. /\ node' \in [Nodes -> NodeStatuses]
      /\ OnlyRunningRunsWork' /\ HydrationHasCheckpoints' /\ UpstreamIsDone'
      /\ \A m \in Nodes : node[m] \in Started => UpstreamOutput(m)' = UpstreamOutput(m)
  <2>1. x \in NodeStatuses \ {"none", "hydrated"} /\ node[n] \in Engaged
    BY DEF NodeStatuses, Engaged
  <2>2. \/ UNCHANGED checkpoints /\ x \in {"completed", "failed"}
        \/ checkpoints' = checkpoints \cup {n} /\ x \in {"merging", "completed", "failed"}
    OBVIOUS
  <2> QED
    BY <1>0, <1>01, <2>1, <2>2, NodeMoves
<1>3. LockIsWanted'
  BY <1>2, ReleaseKeepsLockWanted
<1>20. \A m \in Nodes \ {n} : ~HoldsBranch(m) /\ ~HoldsBranch(m)'
  <2>1. \A m \in Nodes \ {n} : ~HoldsBranch(m)
    BY OnlyOwnerHoldsBranch
  <2> QED
    BY <2>1, <1>2 DEF HoldsBranch, IsFanIn
<1>21. ~HoldsBranch(n)'
  BY <1>2 DEF HoldsBranch
<1>4. BranchHasUpstream'
  <2>1. UpstreamOutput(n)' = UpstreamOutput(n)
    BY <1>01, <1>1
  <2>2. UpstreamOutput(n) \subseteq base[n]
    <3>1. CASE IsFanIn(n)
      BY <3>1 DEF BranchHasUpstream, WorkspaceHasUpstream
    <3>2. CASE ~IsFanIn(n)
      BY <3>2, RootsNeedNothing
    <3> QED
      BY <3>1, <3>2
  <2> QED
    BY <2>1, <2>2, <1>1, <1>2, <1>20, OthersKeepTheirBranches
<1>5. HostRepoTypeOK'
  <2>1. lockQueue' \in Seq(Nodes)
    BY ReleaseServesNext DEF HostRepoTypeOK, Owns
  <2>2. content' \in [Branches -> SUBSET Nodes]
    BY <1>0 DEF HostRepoTypeOK
  <2>3. checkpoints' \in SUBSET Nodes
    BY DEF HostRepoTypeOK
  <2> QED
    BY <2>1, <2>2, <2>3, <1>1 DEF HostRepoTypeOK, runVars
<1>6. MainIsRestored'
  <2> SUFFICES ASSUME repoCrashes' = 0 PROVE MainIsRestored!2'
    BY DEF MainIsRestored
  <2>0. repoCrashes = 0
    BY DEF runVars
  <2>1. original = Main
    <3>1. CASE IsFanIn(n)
      <4>1. HoldsBranch(n)
        BY <3>1 DEF HoldsBranch
      <4> QED
        BY <3>1, <4>1, <2>0 DEF MainIsRestored
    <3>2. CASE ~IsFanIn(n)
      <4>1. \A m \in Nodes : ~HoldsBranch(m)
        BY <1>20, <3>2 DEF HoldsBranch
      <4> QED
        BY <3>2, <4>1, <2>0 DEF MainIsRestored
    <3> QED
      BY <3>1, <3>2
  <2>2. \A m \in Nodes : ~HoldsBranch(m)'
    BY <1>20, <1>21
  <2>3. content[Main] \subseteq content'[Main] /\ (x = "completed" => base[n] \cup {n} \subseteq content'[Main])
    BY <1>0, <2>1 DEF HostRepoTypeOK
  <2>4. ASSUME NEW m \in Nodes, node'[m] = "completed"
        PROVE  base'[m] \cup {m} \subseteq content'[Main]
    <3>1. CASE m = n
      BY <3>1, <2>3, <2>4, <1>2
    <3>2. CASE m # n
      BY <3>2, <2>0, <2>3, <2>4, <1>2 DEF MainIsRestored
    <3> QED
      BY <3>1, <3>2
  <2> QED
    BY <2>1, <2>2, <2>4
<1> QED
  BY <1>1, <1>3, <1>4, <1>5, <1>6

LEMMA MergeRootKeeps == ASSUME HostInv, NEW n \in Nodes, MergeRoot(n) PROVE HostInv'
<1>1. /\ node[n] = "merging" /\ Owns(n) /\ MergeOutput(n, head) /\ Release
      /\ UNCHANGED << head, originalRef, base, checkpoints, runVars >>
  BY DEF MergeRoot
<1>2. head \in Branches /\ ~IsFanIn(n)
  BY <1>1 DEF HostInv, HostRepoTypeOK, LockIsWanted
<1> QED
  BY <1>1, <1>2, OwnerIsDone

(* A node that was not a fan-in fails without the lock.                     *)
LEMMA FailureKeeps == ASSUME HostInv, NEW n \in Nodes, NodeFails(n) PROVE HostInv'
<1> USE DEF HostInv
<1>0. /\ node[n] = "working"
      /\ node' = [node EXCEPT ![n] = "failed"]
      /\ UNCHANGED << content, originalRef, base, checkpoints, runVars >>
  BY DEF NodeFails
<1>1. CASE IsFanIn(n)
  <2>1. head' = originalRef[n] /\ Release /\ Owns(n) /\ originalRef[n] \in Branches
    BY <1>0, <1>1 DEF NodeFails, cleanupFanInBranch, LockIsWanted, HoldsBranch, HostRepoTypeOK
  <2>2. MergeOutput(n, originalRef[n])
    BY <1>0 DEF MergeOutput
  <2> QED
    BY <1>0, <1>1, <2>1, <2>2, OwnerIsDone
<1>2. CASE ~IsFanIn(n)
  <2>0. UNCHANGED << head, lockQueue >>
    BY <1>2 DEF NodeFails
  <2>1. /\ node' \in [Nodes -> NodeStatuses]
        /\ OnlyRunningRunsWork' /\ HydrationHasCheckpoints' /\ UpstreamIsDone'
        /\ \A m \in Nodes : node[m] \in Started => UpstreamOutput(m)' = UpstreamOutput(m)
    <3>1. "failed" \in NodeStatuses \ {"none", "hydrated"} /\ node[n] \in Engaged /\ "failed" \notin Started
      BY <1>0 DEF NodeStatuses, Engaged, Started
    <3> QED
      BY <1>0, <3>1, NodeMoves
  <2>2. /\ node'[n] = "failed"
        /\ \A m \in Nodes \ {n} : node'[m] = node[m] /\ base'[m] = base[m]
    BY <1>0 DEF HostRepoTypeOK
  <2>3. \A m \in Nodes : Wants(m)' = Wants(m) /\ HoldsBranch(m)' = HoldsBranch(m)
    BY <1>0, <1>2, <2>2 DEF HoldsBranch, Wants, IsFanIn
  <2>4. LockIsWanted'
    BY <2>0, <2>2, <2>3, LockStaysWanted
  <2>5. BranchHasUpstream'
    BY <1>0, <2>0, <2>1, <2>2, OthersKeepTheirBranches
  <2>6. HostRepoTypeOK'
    BY <1>0, <2>0, <2>1 DEF HostRepoTypeOK, runVars
  <2>7. MainIsRestored'
    <3>1. \A m \in Nodes : node'[m] = "completed" => node[m] = "completed"
      BY <2>2
    <3> QED
      BY <3>1, <1>0, <2>0, <2>3 DEF MainIsRestored, runVars, HostRepoTypeOK
  <2> QED
    BY <2>1, <2>4, <2>5, <2>6, <2>7
<1> QED
  BY <1>1, <1>2

LEMMA SuccessKeeps == ASSUME HostInv, NEW n \in Nodes, NodeSucceeds(n) PROVE HostInv'
<1> USE DEF HostInv
<1>0. /\ node[n] = "working" /\ checkpoints' = checkpoints \cup {n}
      /\ UNCHANGED << originalRef, base, runVars >>
  BY DEF NodeSucceeds, saveCheckpoint
<1>1. CASE IsFanIn(n)
  <2>1. /\ head' = originalRef[n] /\ Release /\ Owns(n) /\ originalRef[n] \in Branches
        /\ MergeOutput(n, originalRef[n])
    BY <1>0, <1>1 DEF NodeSucceeds, cleanupFanInBranch, LockIsWanted, HoldsBranch, HostRepoTypeOK
  <2> QED
    BY <1>0, <1>1, <2>1, OwnerIsDone
<1>2. CASE ~IsFanIn(n)
  <2>0. node' = [node EXCEPT ![n] = "merging"] /\ Enqueue(n) /\ UNCHANGED << head, content >>
    BY <1>2 DEF NodeSucceeds
  <2>1. /\ node' \in [Nodes -> NodeStatuses]
        /\ OnlyRunningRunsWork' /\ HydrationHasCheckpoints' /\ UpstreamIsDone'
        /\ \A m \in Nodes : node[m] \in Started => UpstreamOutput(m)' = UpstreamOutput(m)
    <3>1. "merging" \in NodeStatuses \ {"none", "hydrated"} /\ node[n] \in Engaged
      BY <1>0 DEF NodeStatuses, Engaged
    <3>2. \A u \in UpstreamNodes(n) : node[u] \in {"completed", "hydrated"}
      BY <1>2, RootsNeedNothing
    <3> QED
      BY <1>0, <2>0, <3>1, <3>2, NodeMoves
  <2>2. /\ node'[n] = "merging"
        /\ \A m \in Nodes \ {n} : node'[m] = node[m] /\ base'[m] = base[m]
    BY <1>0, <2>0 DEF HostRepoTypeOK
  <2>3. \A m \in Nodes : HoldsBranch(m)' = HoldsBranch(m)
    BY <1>0, <1>2, <2>2 DEF HoldsBranch, IsFanIn
  <2>4. LockIsWanted'
    <3>1. ~Wants(n)
      BY <1>0, <1>2 DEF Wants, HoldsBranch
    <3> QED
      BY <3>1, <2>0, <2>2, <1>2, EnqueueKeepsLockWanted
  <2>5. BranchHasUpstream'
    BY <1>0, <2>0, <2>1, <2>2, OthersKeepTheirBranches
  <2>6. HostRepoTypeOK'
    <3>1. lockQueue' \in Seq(Nodes) /\ checkpoints' \in SUBSET Nodes
      BY <1>0, <2>0, EnqueueKeepsOwner DEF HostRepoTypeOK
    <3> QED
      BY <3>1, <1>0, <2>0, <2>1 DEF HostRepoTypeOK, runVars
  <2>7. MainIsRestored'
    <3>1. \A m \in Nodes : node'[m] = "completed" => node[m] = "completed"
      BY <2>2
    <3> QED
      BY <3>1, <1>0, <2>0, <2>3 DEF MainIsRestored, runVars, HostRepoTypeOK
  <2> QED
    BY <2>1, <2>4, <2>5, <2>6, <2>7
<1> QED
  BY <1>1, <1>2

(* A run begins: none of its nodes was anything before.                     *)
LEMMA RunBegins ==
    ASSUME HostInv, NEW r \in Runs, run[r] = "none",
           NEW y \in {"running", "failed"}, run' = [run EXCEPT ![r] = y],
           runRow' = [runRow EXCEPT ![r] = y],
           node' \in [Nodes -> NodeStatuses],
           \A m \in Nodes : m[1] # r => node'[m] = node[m],
           \A m \in Nodes : m[1] = r => \/ y = "failed" /\ node'[m] = node[m]
                                        \/ y = "running" /\ node'[m] \in {"pending", "skipped", "hydrated"},
           source' \in [Runs -> Runs \cup {NoRun}],
           \A q \in Runs \ {r} : source'[q] = source[q],
           \A m \in Nodes : m[1] = r /\ node'[m] = "hydrated" => << source'[r], m[2] >> \in checkpoints,
           UNCHANGED << repoVars, base, checkpoints, repoCrashes >>
    PROVE  HostInv'
<1> USE DEF HostInv
<1>0. /\ \A m \in Nodes : m[1] \in Runs /\ m[2] \in Steps
      /\ \A m \in Nodes : m[1] = r => node[m] = "none"
  BY NodesArePairs DEF OnlyRunningRunsWork
<1>1. /\ run' \in [Runs -> RunStatuses] /\ run'[r] = y
      /\ \A q \in Runs \ {r} : run'[q] = run[q]
  BY DEF HostRepoTypeOK, RunStatuses
<1>2. HostRepoTypeOK'
  <2>1. runRow' \in [Runs -> RunStatuses]
    BY DEF HostRepoTypeOK, RunStatuses
  <2> QED
    BY <1>1, <2>1 DEF HostRepoTypeOK, repoVars
<1>3. OnlyRunningRunsWork'
  BY <1>0, <1>1 DEF OnlyRunningRunsWork
<1>4. HydrationHasCheckpoints'
  <2>1. \A m \in checkpoints : m \in Nodes /\ m[1] # r
    BY <1>0 DEF HydrationHasCheckpoints, HostRepoTypeOK
  <2> QED
    BY <2>1, <1>0 DEF HydrationHasCheckpoints
<1>5. ASSUME NEW n \in Nodes, node'[n] \in Started
      PROVE  /\ n[1] # r /\ node[n] = node'[n]
             /\ UpstreamOutput(n)' = UpstreamOutput(n)
             /\ \A u \in UpstreamNodes(n) : node'[u] \in {"completed", "hydrated"}
  <2>1. n[1] # r /\ node'[n] = node[n]
    BY <1>0, <1>5 DEF Started
  <2>2. \A m \in Nodes : m[1] = n[1] => node'[m] = node[m]
    BY <2>1
  <2>3. source'[n[1]] = source[n[1]]
    BY <2>1, <1>0
  <2> QED
    BY <2>1, <2>2, <2>3, <1>5, OutputsAreSettled DEF Started
<1>6. UpstreamIsDone'
  BY <1>5 DEF UpstreamIsDone, Started, UpstreamNodes
<1>7. BranchHasUpstream'
  <2>1. ASSUME NEW n \in Nodes, HoldsBranch(n)', node'[n] = "ready"
        PROVE  head' = n /\ UpstreamOutput(n)' \subseteq content'[n]
    <3>1. node[n] = "ready" /\ HoldsBranch(n) /\ UpstreamOutput(n)' = UpstreamOutput(n)
      BY <2>1, <1>5 DEF HoldsBranch, IsFanIn, Started
    <3> QED
      BY <3>1 DEF BranchHasUpstream, repoVars
  <2>2. ASSUME NEW n \in Nodes, node'[n] \in {"working", "completed"}
        PROVE  UpstreamOutput(n)' \subseteq base'[n]
    <3>1. node[n] \in {"working", "completed"} /\ UpstreamOutput(n)' = UpstreamOutput(n)
      BY <2>2, <1>5 DEF Started
    <3> QED
      BY <3>1 DEF BranchHasUpstream, WorkspaceHasUpstream
  <2> QED
    BY <2>1, <2>2 DEF BranchHasUpstream, WorkspaceHasUpstream
<1>8. LockIsWanted'
  <2>1. \A m \in Nodes : Wants(m) => Wants(m)'
    BY <1>0 DEF Wants, HoldsBranch, IsFanIn
  <2>2. \A m \in Nodes : HoldsBranch(m)' => HoldsBranch(m)
    BY <1>0 DEF HoldsBranch, IsFanIn
  <2>3. \A m \in Nodes : node'[m] \in {"locking", "merging"} => node'[m] = node[m]
    OBVIOUS
  <2> QED
    BY <2>1, <2>2, <2>3, LockStaysWanted DEF repoVars
<1>9. MainIsRestored'
  <2>1. \A m \in Nodes : HoldsBranch(m)' = HoldsBranch(m)
    BY <1>0 DEF HoldsBranch, IsFanIn
  <2>2. \A m \in Nodes : node'[m] = "completed" => node[m] = "completed"
    OBVIOUS
  <2> QED
    BY <2>1, <2>2 DEF MainIsRestored, repoVars, HostRepoTypeOK
<1> QED
  BY <1>2, <1>3, <1>4, <1>6, <1>7, <1>8, <1>9

LEMMA SubmitKeeps == ASSUME HostInv, NEW r \in Runs, submitPipeline(r) PROVE HostInv'
<1>1. /\ run[r] = "none" /\ run' = [run EXCEPT ![r] = "running"] /\ runRow' = [runRow EXCEPT ![r] = "running"]
      /\ node' = [n \in Nodes |-> IF n[1] = r THEN "pending" ELSE node[n]]
      /\ UNCHANGED << repoVars, base, checkpoints, source, repoCrashes >>
  BY DEF submitPipeline
<1>2. /\ node' \in [Nodes -> NodeStatuses]
      /\ \A m \in Nodes : m[1] # r => node'[m] = node[m]
      /\ \A m \in Nodes : m[1] = r => node'[m] = "pending"
  BY <1>1 DEF HostInv, HostRepoTypeOK, NodeStatuses
<1>3. source' \in [Runs -> Runs \cup {NoRun}] /\ \A q \in Runs \ {r} : source'[q] = source[q]
  BY <1>1 DEF HostInv, HostRepoTypeOK
<1> QED
  BY <1>1, <1>2, <1>3, RunBegins

(* A rerun hydrates only what its first step needs.                         *)
LEMMA RerunSelects ==
    ASSUME NEW s \in Steps, NEW from \in Steps
    PROVE  /\ RerunStatus(from, s) \in {"pending", "skipped", "hydrated"}
           /\ RerunStatus(from, s) = "hydrated" => s \in Above(from)
<1>1. /\ Selected(from, s) \in {"pending", "skipped", "hydrated"}
      /\ Selected(from, s) = "hydrated" => s \in Above(from)
  BY DEF Selected
<1> QED
  BY <1>1 DEF RerunStatus

LEMMA RerunKeeps ==
    ASSUME HostInv, NEW r \in Runs, NEW from \in Steps, NEW of \in Runs, rerunPipeline(r, from, of)
    PROVE  HostInv'
<1> DEFINE missing == \E s \in Above(from) : ~loadCheckpoint(of, s)
           y == IF missing THEN "failed" ELSE "running"
<1>1. /\ run[r] = "none" /\ run' = [run EXCEPT ![r] = y] /\ runRow' = [runRow EXCEPT ![r] = y]
      /\ source' = [source EXCEPT ![r] = of]
      /\ node' = [n \in Nodes |-> IF n[1] = r /\ ~missing THEN RerunStatus(from, n[2]) ELSE node[n]]
      /\ UNCHANGED << repoVars, base, checkpoints, repoCrashes >>
  BY DEF rerunPipeline
<1>2. y \in {"running", "failed"} /\ (y = "running" <=> ~missing)
  OBVIOUS
<1>3. /\ \A m \in Nodes : m[1] # r \/ missing => node'[m] = node[m]
      /\ \A m \in Nodes : m[1] = r /\ ~missing => node'[m] = RerunStatus(from, m[2])
  BY <1>1
<1>4. \A m \in Nodes : m[2] \in Steps
  BY NodesArePairs
<1>5. \A m \in Nodes : m[1] = r /\ ~missing => node'[m] \in {"pending", "skipped", "hydrated"}
  BY <1>3, <1>4, RerunSelects
<1>6. node' \in [Nodes -> NodeStatuses]
  <2>1. \A m \in Nodes : node'[m] \in NodeStatuses
    BY <1>3, <1>5 DEF HostInv, HostRepoTypeOK, NodeStatuses
  <2> QED
    BY <2>1, <1>1
<1>7. /\ source' \in [Runs -> Runs \cup {NoRun}] /\ source'[r] = of
      /\ \A q \in Runs \ {r} : source'[q] = source[q]
  BY <1>1 DEF HostInv, HostRepoTypeOK
<1>8. ASSUME NEW m \in Nodes, m[1] = r, node'[m] = "hydrated"
      PROVE  << source'[r], m[2] >> \in checkpoints
  <2>1. ~missing
    <3>1. node[m] = "none"
      BY <1>1, <1>8 DEF HostInv, OnlyRunningRunsWork
    <3> QED
      BY <3>1, <1>3, <1>8
  <2>2. m[2] \in Above(from)
    BY <2>1, <1>3, <1>4, <1>8, RerunSelects
  <2> QED
    BY <2>1, <2>2, <1>7 DEF loadCheckpoint
<1> HIDE DEF missing, y
<1> QED
  BY <1>1, <1>2, <1>3, <1>5, <1>6, <1>7, <1>8, RunBegins

LEMMA ReturnKeeps == ASSUME HostInv, NEW r \in Runs, ExecuteReturns(r) PROVE HostInv'
<1> USE DEF HostInv
<1>0. PICK y \in {"completed", "failed"} : run' = [run EXCEPT ![r] = y] /\ runRow' = [runRow EXCEPT ![r] = y]
  BY DEF ExecuteReturns
<1>1. /\ run[r] = "running"
      /\ \A n \in Nodes : n[1] = r => node[n] \in {"completed", "failed", "skipped", "hydrated"}
      /\ UNCHANGED << head, content, lockQueue, originalRef, node, base, checkpoints, source, repoCrashes >>
  BY DEF ExecuteReturns, repoVars
<1>2. HostRepoTypeOK'
  BY <1>0, <1>1 DEF HostRepoTypeOK, RunStatuses
<1>3. OnlyRunningRunsWork'
  <2>1. \A n \in Nodes : n[1] \in Runs
    BY NodesArePairs
  <2>2. run'[r] = y /\ \A q \in Runs \ {r} : run'[q] = run[q]
    BY <1>0 DEF HostRepoTypeOK
  <2> QED
    BY <2>1, <2>2, <1>1 DEF OnlyRunningRunsWork
<1>4. \A m \in Nodes : HoldsBranch(m)' = HoldsBranch(m) /\ Wants(m)' = Wants(m) /\ Owns(m)' = Owns(m)
  BY <1>1 DEF HoldsBranch, Wants, IsFanIn, Owns
<1>5. LockIsWanted' /\ HydrationHasCheckpoints' /\ UpstreamIsDone' /\ MainIsRestored'
  BY <1>1, <1>4 DEF LockIsWanted, HydrationHasCheckpoints, UpstreamIsDone, MainIsRestored, UpstreamNodes, IsFanIn
<1>6. \A m \in Nodes : UpstreamOutput(m)' = UpstreamOutput(m)
  BY <1>1 DEF UpstreamOutput, OutputOf, UpstreamNodes
<1>7. BranchHasUpstream'
  BY <1>1, <1>4, <1>6 DEF BranchHasUpstream, WorkspaceHasUpstream
<1> QED
  BY <1>2, <1>3, <1>5, <1>7

LEMMA HostCrashKeeps == ASSUME HostInv, HostCrash PROVE HostInv'
<1> USE DEF HostInv
<1>0. /\ repoCrashes' = repoCrashes + 1 /\ lockQueue' = << >>
      /\ run' = [r \in Runs |-> IF run[r] = "running" THEN "lost" ELSE run[r]]
      /\ node' = [n \in Nodes |-> IF run[n[1]] = "running" THEN "lost" ELSE node[n]]
      /\ UNCHANGED << head, content, originalRef, base, checkpoints, source, runRow >>
  BY DEF HostCrash
<1>1. \A n \in Nodes : n[1] \in Runs
  BY NodesArePairs
<1>2. HostRepoTypeOK'
  BY <1>0, <1>1 DEF HostRepoTypeOK, RunStatuses, NodeStatuses
<1>3. \A n \in Nodes : /\ run[n[1]] = "running" => node'[n] = "lost" /\ run'[n[1]] = "lost"
                       /\ run[n[1]] # "running" => node'[n] = node[n] /\ run'[n[1]] = run[n[1]]
  BY <1>0, <1>1
<1>4. \A n \in Nodes : node'[n] \notin Engaged
  BY <1>3 DEF OnlyRunningRunsWork, Engaged
<1>5. OnlyRunningRunsWork'
  BY <1>3, <1>4 DEF OnlyRunningRunsWork, Engaged
<1>6. HydrationHasCheckpoints'
  <2>1. \A m \in checkpoints : m \in Nodes /\ node'[m] \in {"merging", "completed", "failed", "lost"}
    BY <1>3 DEF HydrationHasCheckpoints, HostRepoTypeOK
  <2>2. \A m \in Nodes : node'[m] = "hydrated" => node[m] = "hydrated"
    BY <1>3
  <2> QED
    BY <2>1, <2>2, <1>0 DEF HydrationHasCheckpoints
<1>7. ASSUME NEW n \in Nodes, node'[n] \in Started
      PROVE  /\ node[n] = node'[n]
             /\ UpstreamOutput(n)' = UpstreamOutput(n)
             /\ \A u \in UpstreamNodes(n) : node'[u] \in {"completed", "hydrated"}
  <2>1. run[n[1]] # "running" /\ node'[n] = node[n]
    BY <1>3, <1>7 DEF Started
  <2>2. \A m \in Nodes : m[1] = n[1] => node'[m] = node[m]
    BY <2>1, <1>3
  <2> QED
    BY <2>1, <2>2, <1>0, <1>7, OutputsAreSettled DEF Started
<1>8. UpstreamIsDone'
  BY <1>7 DEF UpstreamIsDone, Started, UpstreamNodes
<1>9. \A n \in Nodes : ~HoldsBranch(n)'
  BY <1>4 DEF HoldsBranch, Engaged
<1>10. LockIsWanted'
  BY <1>0, <1>4, <1>9 DEF LockIsWanted, Engaged, IsFanIn
<1>11. BranchHasUpstream'
  <2>1. ASSUME NEW n \in Nodes, node'[n] \in {"working", "completed"}
        PROVE  UpstreamOutput(n)' \subseteq base'[n]
    <3>1. node[n] \in {"working", "completed"} /\ UpstreamOutput(n)' = UpstreamOutput(n)
      BY <2>1, <1>7 DEF Started
    <3> QED
      BY <3>1, <1>0 DEF BranchHasUpstream, WorkspaceHasUpstream
  <2> QED
    BY <2>1, <1>9 DEF BranchHasUpstream, WorkspaceHasUpstream
<1>12. MainIsRestored'
  BY <1>0 DEF MainIsRestored, HostRepoTypeOK
<1> QED
  BY <1>2, <1>5, <1>6, <1>8, <1>10, <1>11, <1>12

LEMMA HostInvInit == HostRepoInit => HostInv
<1> SUFFICES ASSUME HostRepoInit PROVE HostInv
  OBVIOUS
<1> USE DEF HostRepoInit
<1>1. HostRepoTypeOK
  BY DEF HostRepoTypeOK, Branches, NodeStatuses, RunStatuses
<1>2. \A n \in Nodes : node[n] = "none" /\ ~HoldsBranch(n)
  BY DEF HoldsBranch
<1>3. LockIsWanted /\ OnlyRunningRunsWork
  BY <1>2 DEF LockIsWanted, OnlyRunningRunsWork
<1>4. HydrationHasCheckpoints /\ UpstreamIsDone /\ MainIsRestored
  BY <1>2 DEF HydrationHasCheckpoints, UpstreamIsDone, MainIsRestored
<1>5. BranchHasUpstream
  BY <1>2 DEF BranchHasUpstream, WorkspaceHasUpstream
<1> QED
  BY <1>1, <1>3, <1>4, <1>5 DEF HostInv

LEMMA HostInvStutters == ASSUME HostInv, UNCHANGED hvars PROVE HostInv'
<1> USE DEF HostInv, hvars, repoVars, runVars
<1>1. \A m \in Nodes : /\ HoldsBranch(m)' = HoldsBranch(m) /\ Wants(m)' = Wants(m) /\ Owns(m)' = Owns(m)
                       /\ UpstreamOutput(m)' = UpstreamOutput(m)
  BY DEF HoldsBranch, Wants, IsFanIn, Owns, UpstreamOutput, OutputOf, UpstreamNodes
<1>2. HostRepoTypeOK' /\ OnlyRunningRunsWork'
  BY DEF HostRepoTypeOK, OnlyRunningRunsWork
<1>3. LockIsWanted' /\ HydrationHasCheckpoints' /\ UpstreamIsDone' /\ MainIsRestored'
  BY <1>1 DEF LockIsWanted, HydrationHasCheckpoints, UpstreamIsDone, MainIsRestored, UpstreamNodes, IsFanIn
<1>4. BranchHasUpstream'
  BY <1>1 DEF BranchHasUpstream, WorkspaceHasUpstream
<1> QED
  BY <1>2, <1>3, <1>4

LEMMA HostInvNext == ASSUME HostInv, [HostRepoNext]_hvars PROVE HostInv'
<1>1. CASE HostRepoNext
  BY <1>1, SubmitKeeps, ReturnKeeps, RerunKeeps, StartNodeKeeps, PrepareKeeps, ConflictKeeps, CopyKeeps, FailureKeeps,
     SuccessKeeps, MergeRootKeeps, SkipKeeps, HostCrashKeeps DEF HostRepoNext, NodeStep
<1>2. CASE UNCHANGED hvars
  BY <1>2, HostInvStutters
<1> QED
  BY <1>1, <1>2

(* It holds always.                                                         *)
LEMMA HostRepoAlwaysInv == HostRepoSpec => []HostInv
  BY HostInvInit, HostInvNext, PTL DEF HostRepoSpec

(* The invariant implies what HostRepo promises.                            *)
LEMMA HostInvShares == ASSUME HostInv PROVE HostRepoIsShared
<1> USE DEF HostInv
<1>1. WorkspaceHasUpstream
  BY DEF BranchHasUpstream
<1>2. HostRepoIsRestored
  BY DEF HostRepoIsRestored, MainIsRestored, LockIsWanted
<1>3. ReportedRunsAreOver
  <2> SUFFICES ASSUME NEW r \in Runs, getRun(r) \in {"completed", "failed"}, NEW n \in ToSet(lockQueue), n[1] = r
               PROVE  FALSE
    BY DEF ReportedRunsAreOver
  <2>1. PICK i \in 1..Len(lockQueue) : lockQueue[i] = n
    BY DEF ToSet, HostRepoTypeOK
  <2>2. n \in Nodes
    BY <2>1 DEF HostRepoTypeOK
  <2>3. Wants(n)
    BY <2>1, <2>2 DEF LockIsWanted
  <2>4. run[r] = "running"
    BY <2>2, <2>3 DEF Wants, HoldsBranch, OnlyRunningRunsWork
  <2> QED
    BY <2>4 DEF getRun
<1> QED
  BY <1>1, <1>2, <1>3 DEF HostRepoIsShared

(* For any runs, any dependencies between steps and any crashes: with the   *)
(* repository lock of executor.ts the workspace of a fan-in node contains   *)
(* what everything upstream of it wrote, main is checked out again and has  *)
(* the work of every completed node, and a run reported as over has let go  *)
(* of the repository.                                                       *)
THEOREM HostRepoStaysShared == HostRepoSpec => []HostRepoIsShared
  BY HostRepoAlwaysInv, HostInvShares, PTL

-----------------------------------------------------------------------------
(* The lock implements a serial queue                                       *)

LEMMA EnqueueArrives ==
    ASSUME lockQueue \in Seq(Nodes), NEW n \in Nodes, ~Owns(n), Enqueue(n)
    PROVE  RepoLock!Arrive(n)
<1>1. CASE lockQueue = << >>
  <2>1. lockQueue' = << n >>
    BY <1>1 DEF Enqueue
  <2>2. lockQueue' # << >> /\ Head(lockQueue') = n /\ Tail(lockQueue') = << >>
    BY <2>1
  <2> QED
    BY <1>1, <2>2 DEF RepoLock!Arrive
<1>2. CASE lockQueue # << >>
  <2>1. lockQueue' # << >> /\ Head(lockQueue') = Head(lockQueue) /\ Tail(lockQueue') = Append(Tail(lockQueue), n)
    BY <1>2 DEF Enqueue
  <2> QED
    BY <1>2, <2>1 DEF RepoLock!Arrive, Owns
<1> QED
  BY <1>1, <1>2

(* A release is a customer that leaves.                                     *)
LEMMA ReleaseLeaves ==
    ASSUME lockQueue \in Seq(Nodes), lockQueue # << >>, Release
    PROVE  RepoLock!Leave
<1>1. CASE Tail(lockQueue) = << >>
  BY <1>1 DEF Release, RepoLock!Leave
<1>2. CASE Tail(lockQueue) # << >>
  BY <1>2 DEF Release, RepoLock!Leave
<1> QED
  BY <1>1, <1>2

(* Every step is one of the serial queue or leaves the lock alone.          *)
LEMMA LockSteps ==
    ASSUME HostInv, [HostRepoNext]_hvars
    PROVE  \/ RepoLock!Next
           \/ UNCHANGED lockQueue
<1> USE DEF HostInv
<1>0. lockQueue \in Seq(Nodes)
  BY DEF HostRepoTypeOK
<1>1. ASSUME NEW n \in Nodes, Enqueue(n), ~Wants(n)
      PROVE  RepoLock!Next
  <2>1. ~Owns(n)
    BY <1>0, <1>1, OwnerIsFirst DEF LockIsWanted
  <2> QED
    BY <2>1, <1>0, <1>1, EnqueueArrives DEF RepoLock!Next
<1>2. ASSUME NEW n \in Nodes, Owns(n), Release
      PROVE  RepoLock!Next
  BY <1>0, <1>2, ReleaseLeaves DEF RepoLock!Next, Owns
<1>3. ASSUME NEW r \in Runs, submitPipeline(r) \/ ExecuteReturns(r) \/ \E s \in Steps, of \in Runs : rerunPipeline(r, s, of)
      PROVE  UNCHANGED lockQueue
  BY <1>3 DEF submitPipeline, ExecuteReturns, rerunPipeline, repoVars
<1>4. ASSUME NEW n \in Nodes, NodeStep(n)
      PROVE  RepoLock!Next \/ UNCHANGED lockQueue
  <2>1. CASE StartNode(n)
    BY <2>1, <1>1 DEF StartNode, Wants, HoldsBranch
  <2>2. CASE prepareFanInBranch(n) \/ CopyWorkspace(n) \/ SkipNode(n)
    BY <2>2 DEF prepareFanInBranch, CopyWorkspace, SkipNode, repoVars
  <2>3. CASE FanInConflict(n) \/ MergeRoot(n)
    BY <2>3, <1>2 DEF FanInConflict, MergeRoot
  <2>4. CASE NodeFails(n)
    <3>1. CASE IsFanIn(n)
      <4>1. Owns(n) /\ Release
        BY <2>4, <3>1 DEF NodeFails, cleanupFanInBranch, LockIsWanted, HoldsBranch
      <4> QED
        BY <4>1, <1>2
    <3>2. CASE ~IsFanIn(n)
      BY <2>4, <3>2 DEF NodeFails
    <3> QED
      BY <3>1, <3>2
  <2>5. CASE NodeSucceeds(n)
    <3>1. CASE IsFanIn(n)
      <4>1. Owns(n) /\ Release
        BY <2>5, <3>1 DEF NodeSucceeds, cleanupFanInBranch, LockIsWanted, HoldsBranch
      <4> QED
        BY <4>1, <1>2
    <3>2. CASE ~IsFanIn(n)
      <4>1. Enqueue(n) /\ ~Wants(n)
        BY <2>5, <3>2 DEF NodeSucceeds, Wants, HoldsBranch
      <4> QED
        BY <4>1, <1>1
    <3> QED
      BY <3>1, <3>2
  <2> QED
    BY <1>4, <2>1, <2>2, <2>3, <2>4, <2>5 DEF NodeStep
<1>5. ASSUME HostCrash
      PROVE  RepoLock!Next
  BY <1>5 DEF HostCrash, RepoLock!Next, RepoLock!Crash
<1>6. CASE UNCHANGED hvars
  BY <1>6 DEF hvars, repoVars
<1> QED
  BY <1>3, <1>4, <1>5, <1>6 DEF HostRepoNext

(* The lock of executor.ts is a serial queue: whoever asks is served once,  *)
(* alone, in the order of asking, unless a crash empties the queue.         *)
THEOREM HostRepoImplementsSerialQueue == HostRepoSpec => ImplementsRepoLock
<1>1. HostRepoInit => RepoLock!Init
  BY DEF HostRepoInit, RepoLock!Init
<1>2. HostInv /\ [HostRepoNext]_hvars => [RepoLock!Next]_(RepoLock!lvars)
  BY LockSteps DEF RepoLock!lvars
<1> QED
  BY <1>1, <1>2, HostRepoAlwaysInv, PTL DEF HostRepoSpec, ImplementsRepoLock, RepoLock!Spec

-----------------------------------------------------------------------------
(* Workspaces: workers share a directory only when the property lets them; a  *)
(* directory that is being cloned has its cloner; what a copy contains was  *)
(* pushed; and with one agent at a time nothing was pushed before the clone,  *)
(* and a copy is up to date.                                                *)

WorkspaceTypes ==
    /\ setup \in {"single", "webhooks", "many"}
    /\ removed \subseteq WIssues
    /\ dir \in [Dirs -> {"none", "empty", "cloning", "clone"}]
    /\ localMain \in [Dirs -> SUBSET Attempts]
    /\ copied \in [Attempts -> SUBSET Attempts]
    /\ progressOf \in [Attempts -> {"none", "creating", "cloning", "before", "working", "astray",
                                    "collected", "reported", "ended"}]

(* Attempts that may not share a directory are made one after the other.    *)
AttemptsAreInTurn ==
    /\ setup = "single" => \A a, b \in Busy : a = b
    /\ \A a, b \in Attempts :
          /\ setup = "many" /\ a[1] = b[1] /\ a[2] < b[2] /\ a[1] \notin removed
          /\ progressOf[b] # "none"
          => progressOf[a] = "ended"

(* A directory that is being cloned has an attempt that clones it.          *)
CloningHasItsCloner ==
    setup # "webhooks" =>
       \A d \in Dirs : dir[d] = "cloning" =>
          d \in removed \/ \E a \in Attempts : DirOf(a) = d /\ progressOf[a] = "cloning"

(* A copy contains only what was pushed, and is up to date with one agent   *)
(* at a time.                                                               *)
CopiesWerePushed ==
    /\ \A a \in Attempts : copied[a] \subseteq remote
    /\ setup = "single" =>
          /\ dir[SharedDir] # "clone" => remote = {}
          /\ \A a \in Attempts : progressOf[a] = "working" => copied[a] = localMain[SharedDir]

WorkspaceInv ==
    /\ WorkspaceTypes
    /\ AttemptsAreInTurn
    /\ CloningHasItsCloner
    /\ CopiesWerePushed
    /\ WorkspacesBuildUp

(* An attempt is a pair of an issue and a number, and comes after others.   *)
LEMMA AttemptShape ==
    /\ \A a \in Attempts : /\ a[1] \in WIssues /\ a[2] \in Nat \ {0}
                           /\ a = << a[1], a[2] >>
                           /\ a[2] > 1 => << a[1], a[2] - 1 >> \in Attempts
    /\ SharedDir \notin WIssues
<1> SUFFICES ASSUME NEW a \in Attempts
             PROVE  /\ a[1] \in WIssues /\ a[2] \in Nat \ {0}
                    /\ a = << a[1], a[2] >>
                    /\ a[2] > 1 => << a[1], a[2] - 1 >> \in Attempts
  BY WorkspacesAssumption
<1>1. PICK i \in WIssues : a \in {i} \X (1 .. MaxAttempts[i])
  BY DEF Attempts
<1>2. MaxAttempts[i] \in Nat
  BY WorkspacesAssumption
<1>3. a[1] = i /\ a[2] \in 1 .. MaxAttempts[i] /\ a = << a[1], a[2] >>
  BY <1>1
<1>4. a[2] > 1 => << a[1], a[2] - 1 >> \in {i} \X (1 .. MaxAttempts[i])
  BY <1>2, <1>3
<1> QED
  BY <1>2, <1>3, <1>4 DEF Attempts

(* Every attempt has a directory; with a single agent it is the shared one. *)
LEMMA WorkspaceDirs == \A a \in Attempts : DirOf(a) \in Dirs /\ (setup = "single" => DirOf(a) = SharedDir)
BY AttemptShape DEF DirOf, Dirs

LEMMA WorkspaceStart == WInit => WorkspaceInv
BY AttemptShape
   DEF WInit, WorkspaceInv, WorkspaceTypes, AttemptsAreInTurn, CloningHasItsCloner, CopiesWerePushed,
       WorkspacesBuildUp, AgentsStartFromClones, WorkspaceMainIsPushed, Busy, Dirs

(* A worker that does not start leaves the order of the attempts alone.     *)
LEMMA WorkingKeepsTurns ==
    ASSUME WorkspaceTypes, AttemptsAreInTurn, NEW a \in Attempts, NEW to,
           progressOf[a] \notin {"none", "ended"}, to # "none",
           Goes(a, to), setup' = setup, removed' = removed
    PROVE  AttemptsAreInTurn'
<1>1. \A b \in Attempts : progressOf'[b] = IF b = a THEN to ELSE progressOf[b]
  BY DEF Goes, WorkspaceTypes
<1>2. Busy' \subseteq Busy
  BY <1>1 DEF Busy
<1> QED
  BY <1>1, <1>2 DEF AttemptsAreInTurn, Busy

(* An attempt that may start takes its turn.                                *)
LEMMA StartKeepsTurns ==
    ASSUME WorkspaceTypes, AttemptsAreInTurn, NEW a \in Attempts, NEW to,
           MayStart(a), to \notin {"none", "ended"},
           Goes(a, to), setup' = setup, removed' = removed
    PROVE  AttemptsAreInTurn'
<1>1. \A b \in Attempts : progressOf'[b] = IF b = a THEN to ELSE progressOf[b]
  BY DEF Goes, WorkspaceTypes
<1>2. setup = "single" => Busy' = {a}
  BY <1>1 DEF Busy, MayStart
<1>3. ASSUME NEW b \in Attempts, NEW c \in Attempts,
             setup = "many", b[1] = c[1], b[2] < c[2], b[1] \notin removed, progressOf'[c] # "none"
      PROVE  progressOf'[b] = "ended"
  <2>1. CASE c = a
    <3>1. a[2] > 1 /\ b[2] <= a[2] - 1 /\ b[2] \in Nat /\ a[2] \in Nat /\ b # a
      <4>1. b[2] \in Nat \ {0} /\ a[2] \in Nat /\ b[2] < a[2]
        BY <1>3, <2>1, AttemptShape
      <4> QED
        BY <4>1
    <3>2. << a[1], a[2] - 1 >> \in Attempts /\ progressOf[<< a[1], a[2] - 1 >>] = "ended"
      BY <1>3, <2>1, <3>1, AttemptShape DEF MayStart
    <3>3. CASE b[2] = a[2] - 1
      <4>1. b = << a[1], a[2] - 1 >>
        BY <1>3, <2>1, <3>3, AttemptShape
      <4> QED
        BY <4>1, <3>1, <3>2, <1>1
    <3>4. CASE b[2] < a[2] - 1
      <4>1. PICK before \in Attempts :
              before[1] = a[1] /\ before[2] = a[2] - 1 /\ progressOf[before] = "ended"
        BY <3>2
      <4>2. b[1] = before[1] /\ b[2] < before[2] /\ b[1] \notin removed
        BY <1>3, <2>1, <3>4, <4>1
      <4>3. progressOf[b] = "ended"
        BY <1>3, <4>1, <4>2 DEF AttemptsAreInTurn
      <4> QED
        BY <1>1, <3>1, <4>3
    <3> QED
      BY <3>1, <3>3, <3>4
  <2>2. CASE c # a
    <3>1. progressOf[b] = "ended"
      BY <1>1, <1>3, <2>2 DEF AttemptsAreInTurn
    <3> QED
      BY <1>1, <3>1 DEF MayStart
  <2> QED
    BY <2>1, <2>2
<1> QED
  BY <1>2, <1>3 DEF AttemptsAreInTurn

(* Two workers in one directory, the one cloning it and the other starting  *)
(* its agent there.                                                        *)
LEMMA CloneIsComplete ==
    ASSUME WorkspaceInv, NEW a \in Attempts, progressOf[a] = "before", dir[DirOf(a)] = "cloning"
    PROVE  setup = "webhooks" \/ a[1] \in removed
<1> SUFFICES ASSUME setup # "webhooks", a[1] \notin removed PROVE FALSE
  OBVIOUS
<1>1. DirOf(a) \in Dirs /\ DirOf(a) \notin removed
  BY WorkspaceDirs, AttemptShape DEF DirOf, WorkspaceInv, WorkspaceTypes
<1>2. PICK b \in Attempts : DirOf(b) = DirOf(a) /\ progressOf[b] = "cloning"
  BY <1>1 DEF WorkspaceInv, CloningHasItsCloner
<1>3. a \in Busy /\ b \in Busy /\ a # b
  BY <1>2 DEF Busy
<1>4. setup = "many" /\ b[1] = a[1]
  BY <1>2, <1>3 DEF WorkspaceInv, WorkspaceTypes, AttemptsAreInTurn, DirOf
<1>5. a[2] # b[2] /\ a[2] \in Nat /\ b[2] \in Nat
  BY <1>3, <1>4, AttemptShape
<1>6. a[2] < b[2] \/ b[2] < a[2]
  BY <1>5
<1> QED
  BY <1>2, <1>3, <1>4, <1>6 DEF WorkspaceInv, AttemptsAreInTurn

(* A step that leaves the directories, and of the work only copies, alone.  *)
LEMMA WorkspaceStep == WorkspaceInv /\ [WNext]_wvars => WorkspaceInv'
<1> SUFFICES ASSUME WorkspaceInv, [WNext]_wvars PROVE WorkspaceInv'
  OBVIOUS
<1> USE DEF WorkspaceInv, WorkspaceTypes, CloningHasItsCloner, CopiesWerePushed,
            WorkspacesBuildUp, AgentsStartFromClones, WorkspaceMainIsPushed
<1>1. ASSUME NEW a \in Attempts, ensureWorkspace(a) PROVE WorkspaceInv'
  <2>1. AttemptsAreInTurn'
    BY <1>1, StartKeepsTurns DEF ensureWorkspace
  <2> QED
    BY <1>1, <2>1, WorkspaceDirs DEF ensureWorkspace, Goes, DirOf, MayStart
<1>2. ASSUME NEW a \in Attempts, CloneBegins(a) PROVE WorkspaceInv'
  <2>1. AttemptsAreInTurn'
    BY <1>2, WorkingKeepsTurns DEF CloneBegins
  <2> QED
    BY <1>2, <2>1, WorkspaceDirs DEF CloneBegins, Goes, DirOf
<1>3. ASSUME NEW a \in Attempts, CloneEnds(a) PROVE WorkspaceInv'
  <2>1. AttemptsAreInTurn'
    BY <1>3, WorkingKeepsTurns DEF CloneEnds
  <2> QED
    BY <1>3, <2>1, WorkspaceDirs DEF CloneEnds, Goes, DirOf
<1>4. ASSUME NEW a \in Attempts, AfterCreateFails(a) PROVE WorkspaceInv'
  <2>1. AttemptsAreInTurn'
    BY <1>4, WorkingKeepsTurns DEF AfterCreateFails, Fails
  <2> QED
    BY <1>4, <2>1, WorkspaceDirs DEF AfterCreateFails, Fails, Goes, DirOf
<1>5. ASSUME NEW a \in Attempts, BeforeHookFails(a) PROVE WorkspaceInv'
  <2>1. AttemptsAreInTurn'
    BY <1>5, WorkingKeepsTurns DEF BeforeHookFails, Fails
  <2> QED
    BY <1>5, <2>1 DEF BeforeHookFails, Fails, Goes, DirOf
<1>6. ASSUME NEW a \in Attempts, StartAgent(a) PROVE WorkspaceInv'
  <2>1. AttemptsAreInTurn'
    BY <1>6, WorkingKeepsTurns DEF StartAgent, Fails
  <2> QED
    BY <1>6, <2>1, CloneIsComplete, WorkspaceDirs DEF StartAgent, PassesPreflight, Fails, Goes, DirOf
<1>7. ASSUME NEW a \in Attempts, AgentFails(a) PROVE WorkspaceInv'
  <2>1. AttemptsAreInTurn'
    BY <1>7, WorkingKeepsTurns DEF AgentFails, Fails
  <2> QED
    BY <1>7, <2>1 DEF AgentFails, Fails, Goes, DirOf
<1>8. ASSUME NEW a \in Attempts, collectGitOutput(a) PROVE WorkspaceInv'
  <2>1. AttemptsAreInTurn'
    BY <1>8, WorkingKeepsTurns DEF collectGitOutput
  <2>2. PICK ok \in BOOLEAN : PushAndAdvance(a, ok)
    BY <1>8 DEF collectGitOutput
  <2>3. /\ remote \subseteq remote' /\ (ok => a \in remote')
        /\ setup = "single" => \A b \in Attempts : progressOf[b] = "working" => b = a
    BY <2>2, <1>8 DEF PushAndAdvance, AttemptsAreInTurn, Busy, collectGitOutput
  <2>4. WorkspaceTypes' /\ CloningHasItsCloner' /\ AgentsStartFromClones'
    BY <1>8, <2>2, WorkspaceDirs DEF collectGitOutput, PushAndAdvance, Goes, DirOf
  <2>5. WorkspaceMainIsPushed'
    <3>1. ASSUME localMain' = localMain PROVE \A d \in Dirs : localMain'[d] \subseteq remote'
      BY <2>3, <3>1
    <3>2. ASSUME ok, localMain' = [localMain EXCEPT ![DirOf(a)] = copied[a] \cup {a}]
          PROVE  \A d \in Dirs : localMain'[d] \subseteq remote'
      <4>1. a \in remote' /\ copied[a] \subseteq remote'
        BY <2>3, <3>2
      <4>2. \A d \in Dirs : localMain'[d] = IF d = DirOf(a) THEN copied[a] \cup {a} ELSE localMain[d]
        BY <3>2
      <4> QED
        BY <2>3, <4>1, <4>2
    <3>4. \A d \in Dirs : localMain'[d] \subseteq remote'
      BY <2>2, <2>3, <3>1, <3>2 DEF PushAndAdvance
    <3>3. ASSUME setup = "single" PROVE localMain'[SharedDir] = remote'
      <4>1. /\ DirOf(a) = SharedDir /\ SharedDir \in Dirs
            /\ copied[a] = localMain[SharedDir] /\ localMain[SharedDir] = remote
        BY <1>8, <3>3, WorkspaceDirs DEF collectGitOutput, Dirs
      <4> QED
        BY <2>2, <4>1 DEF PushAndAdvance
    <3> QED
      BY <1>8, <3>4, <3>3 DEF collectGitOutput
  <2>6. CopiesWerePushed'
    BY <1>8, <2>2, <2>3, WorkspaceDirs DEF collectGitOutput, PushAndAdvance, Goes
  <2> QED
    BY <2>1, <2>4, <2>5, <2>6
<1>9. ASSUME NEW a \in Attempts, NothingChanged(a) PROVE WorkspaceInv'
  <2>1. AttemptsAreInTurn'
    BY <1>9, WorkingKeepsTurns DEF NothingChanged
  <2> QED
    BY <1>9, <2>1 DEF NothingChanged, Goes, DirOf
<1>10. ASSUME NEW a \in Attempts, CollectFails(a) PROVE WorkspaceInv'
  <2>1. AttemptsAreInTurn'
    BY <1>10, WorkingKeepsTurns DEF CollectFails, Fails
  <2> QED
    BY <1>10, <2>1 DEF CollectFails, Fails, Goes, DirOf
<1>11. ASSUME NEW a \in Attempts, createWorkspacePR(a) PROVE WorkspaceInv'
  <2>1. AttemptsAreInTurn'
    BY <1>11, WorkingKeepsTurns DEF createWorkspacePR
  <2> QED
    BY <1>11, <2>1 DEF createWorkspacePR, Goes, DirOf
<1>12. ASSUME NEW a \in Attempts, WorkerReturns(a) PROVE WorkspaceInv'
  <2>1. AttemptsAreInTurn'
    BY <1>12, WorkingKeepsTurns DEF WorkerReturns
  <2> QED
    BY <1>12, <2>1 DEF WorkerReturns, Goes, DirOf
<1>13. ASSUME NEW i \in WIssues, removeWorkspace(i) PROVE WorkspaceInv'
  <2>1. AttemptsAreInTurn'
    BY <1>13 DEF removeWorkspace, AttemptsAreInTurn, Busy
  <2> QED
    BY <1>13, <2>1, AttemptShape DEF removeWorkspace, DirOf, Dirs
<1>14. CASE UNCHANGED wvars
  BY <1>14 DEF wvars, AttemptsAreInTurn, Busy, DirOf
<1> QED
  BY <1>1, <1>2, <1>3, <1>4, <1>5, <1>6, <1>7, <1>8, <1>9, <1>10, <1>11, <1>12, <1>13, <1>14 DEF WNext

(* For any issues and numbers of attempts: manager.ts gives an agent a      *)
(* complete clone, also after failed attempts to make one, and the main     *)
(* branch of a workspace contains nothing that was not pushed, and with one *)
(* agent at a time everything that was.                                     *)
THEOREM WorkspacesAreBuiltUpon == WorkspacesSpec => []WorkspacesBuildUp
<1>1. WorkspaceInv => WorkspacesBuildUp
  BY DEF WorkspaceInv
<1> QED
  BY <1>1, WorkspaceStart, WorkspaceStep, PTL DEF WorkspacesSpec

-----------------------------------------------------------------------------
(* Sessions: only the turn that waits has a timer; as long as no turn timed *)
(* out, only it has an end on its way; and no closed session begins a turn, *)
(* except the one that was being spawned.                                   *)

SessionTypes ==
    /\ turnCount \in 0 .. MaxTurns
    /\ invoking \in {"no", "spawn", "initialize", "thread", "turn", "exec"}
    /\ answer \in [Turns -> {"none", "rejected", "completed", "failed", "timeout", "user_input_required"}]
    /\ answeredBy \in [Turns -> Nat]
    /\ server \in Seq(Turns) /\ stream \in Seq(Turns)

(* The turn that waits is the last, and the only one with a timer.          *)
OneTurnAtATime ==
    /\ currentTurn = IF invoking = "turn" THEN turnCount ELSE 0
    /\ invoking # "no" => turnCount > 0 /\ answer[turnCount] = "none"
    /\ \A k \in Turns : k > turnCount => answer[k] = "none"
    /\ turnTimers \subseteq {currentTurn} \ {0}

(* Until a turn times out, an end on its way is that of the turn that       *)
(* waits.                                                                   *)
OnlyTimeoutsLeaveEnds ==
    (\A j \in Turns : answer[j] # "timeout") =>
       /\ Len(stream) + Len(server) <= 1
       /\ stream # << >> => currentTurn # 0 /\ Head(stream) = currentTurn
       /\ server # << >> => currentTurn # 0 /\ Head(server) = currentTurn

(* Only a session that was being spawned when it was closed goes on.        *)
ClosedSessionsRest ==
    closed => lateSpawn \/ invoking \in {"no", "exec"}

SessionInv ==
    /\ SessionTypes
    /\ OneTurnAtATime
    /\ OnlyTimeoutsLeaveEnds
    /\ ClosedSessionsRest
    /\ AnswersAreTheirOwn

LEMMA SessionStart == SessionInit => SessionInv
BY AgentSessionAssumption
   DEF SessionInit, SessionInv, SessionTypes, OneTurnAtATime, OnlyTimeoutsLeaveEnds, ClosedSessionsRest,
       AnswersAreTheirOwn, Turns

(* The answer of the turn that is under way, by itself or after a timeout.  *)
LEMMA AnswersStayTheirOwn ==
    ASSUME SessionInv, NEW status \in {"rejected", "completed", "failed", "timeout", "user_input_required"},
           NEW by \in Turns, invoking # "no", Answer(turnCount, status, by), turnCount' = turnCount,
           by = turnCount \/ \E j \in Turns : answer[j] = "timeout"
    PROVE  /\ AnswersAreTheirOwn'
           /\ answer' \in [Turns -> {"none", "rejected", "completed", "failed", "timeout", "user_input_required"}]
           /\ answeredBy' \in [Turns -> Nat]
           /\ \A k \in Turns : k > turnCount => answer'[k] = "none"
           /\ \A k \in Turns : answer'[k] = IF k = turnCount THEN status ELSE answer[k]
<1>1. turnCount \in Turns /\ answer[turnCount] = "none" /\ turnCount \in Nat /\ Turns \subseteq Nat
  BY AgentSessionAssumption DEF SessionInv, SessionTypes, OneTurnAtATime, Turns
<1>2. /\ \A k \in Turns : answer'[k] = IF k = turnCount THEN status ELSE answer[k]
      /\ \A k \in Turns : answeredBy'[k] = IF k = turnCount THEN by ELSE answeredBy[k]
      /\ answer' \in [Turns -> {"none", "rejected", "completed", "failed", "timeout", "user_input_required"}]
      /\ answeredBy' \in [Turns -> Nat]
  BY <1>1 DEF SessionInv, SessionTypes, Answer
<1>3. ASSUME NEW k \in Turns, answer'[k] # "none"
      PROVE  answeredBy'[k] = k \/ \E j \in 1 .. (k - 1) : answer'[j] = "timeout"
  <2>1. CASE k = turnCount
    <3>1. CASE by = turnCount
      BY <1>2, <2>1, <3>1
    <3>2. CASE \E j \in Turns : answer[j] = "timeout"
      <4>1. PICK j \in Turns : answer[j] = "timeout"
        BY <3>2
      <4>2. j # turnCount /\ j <= turnCount
        BY <1>1, <4>1 DEF SessionInv, OneTurnAtATime, Turns
      <4>3. k \in Nat /\ j \in Nat \ {0} /\ j < k
        BY <1>1, <2>1, <4>1, <4>2 DEF Turns
      <4>4. j \in 1 .. (k - 1) /\ answer'[j] = "timeout"
        BY <1>2, <4>1, <4>2, <4>3
      <4> QED
        BY <4>4
    <3> QED
      BY <1>3, <2>1, <3>1, <3>2
  <2>2. CASE k # turnCount
    <3>1. answer[k] # "none" /\ answeredBy'[k] = answeredBy[k]
      BY <1>2, <1>3, <2>2
    <3>2. CASE \E j \in 1 .. (k - 1) : answer[j] = "timeout"
      <4>1. PICK j \in 1 .. (k - 1) : answer[j] = "timeout"
        BY <3>2
      <4>2. j \in Turns
        BY <4>1, AgentSessionAssumption DEF Turns
      <4>3. answer'[j] = "timeout"
        BY <1>1, <1>2, <4>1, <4>2
      <4> QED
        BY <4>1, <4>3
    <3> QED
      BY <3>1, <3>2 DEF SessionInv, AnswersAreTheirOwn
  <2> QED
    BY <2>1, <2>2
<1> QED
  BY <1>1, <1>2, <1>3 DEF AnswersAreTheirOwn, SessionInv, OneTurnAtATime

(* A turn that begins is the one with a timer, and sees no end but its own  *)
(* unless one timed out.                                                    *)
LEMMA BeginningATurn ==
    ASSUME SessionInv, turnCount' \in Turns, BeginTurn(turnCount'), currentTurn = 0,
           stream' = stream, answer' = answer
    PROVE  /\ server' \in Seq(Turns) /\ turnTimers' \subseteq {currentTurn'} \ {0}
           /\ OnlyTimeoutsLeaveEnds'
<1>1. turnTimers = {} /\ 0 \notin Turns
  BY DEF SessionInv, OneTurnAtATime, Turns
<1>2. turnTimers' = {currentTurn'} /\ server' = Append(server, currentTurn') /\ currentTurn' \in Turns
  BY <1>1 DEF BeginTurn
<1>3. server' \in Seq(Turns) /\ Len(server') = Len(server) + 1
  BY <1>2 DEF SessionInv, SessionTypes
<1>4. ASSUME \A j \in Turns : answer[j] # "timeout"
      PROVE  server = << >> /\ stream = << >>
  BY <1>4 DEF SessionInv, OnlyTimeoutsLeaveEnds
<1>5. server = << >> /\ stream = << >> => Len(stream) + Len(server') <= 1 /\ Head(server') = currentTurn'
  BY <1>2
<1> QED
  BY <1>1, <1>2, <1>3, <1>4, <1>5 DEF OnlyTimeoutsLeaveEnds

LEMMA SessionStep == SessionInv /\ [SessionNext]_svars => SessionInv'
<1> SUFFICES ASSUME SessionInv, [SessionNext]_svars PROVE SessionInv'
  OBVIOUS
<1> USE AgentSessionAssumption DEF SessionInv, SessionTypes, OneTurnAtATime, OnlyTimeoutsLeaveEnds,
       ClosedSessionsRest, AnswersAreTheirOwn
<1>1. CASE invoke
  <2>1. turnCount' = turnCount + 1 /\ turnCount' \in Turns /\ answer[turnCount'] = "none"
    <3>1. turnCount' = turnCount + 1 /\ turnCount < MaxTurns
      BY <1>1 DEF invoke
    <3> QED
      BY <3>1 DEF Turns
  <2>2. /\ stream' = stream /\ answer' = answer /\ answeredBy' = answeredBy
        /\ ~closed' /\ currentTurn = 0
    BY <1>1 DEF invoke
  <2>3. \A k \in Turns : k > turnCount' => answer'[k] = "none"
    BY <2>1, <2>2 DEF Turns
  <2>6. turnCount' \in 0 .. MaxTurns /\ turnCount' > 0
    BY <2>1 DEF Turns
  <2>4. CASE BeginTurn(turnCount')
    <3>1. server' \in Seq(Turns) /\ turnTimers' \subseteq {currentTurn'} \ {0} /\ OnlyTimeoutsLeaveEnds'
      BY <2>1, <2>2, <2>4, BeginningATurn
    <3>2. currentTurn' = turnCount' /\ invoking' = "turn"
      BY <2>4 DEF BeginTurn
    <3> QED
      BY <2>1, <2>2, <2>3, <2>6, <3>1, <3>2
  <2>5. CASE invoking' \in {"exec", "spawn"} /\ UNCHANGED << currentTurn, turnTimers, server >>
    BY <2>1, <2>2, <2>3, <2>5, <2>6
  <2> QED
    BY <1>1, <2>4, <2>5 DEF invoke
<1>2. CASE Spawned
  BY <1>2 DEF Spawned
<1>3. CASE HandshakeAnswered
  <2>1. turnCount' = turnCount /\ turnCount' \in Turns
    BY <1>3 DEF HandshakeAnswered, Turns
  <2>2. CASE invoking = "initialize"
    BY <1>3, <2>2 DEF HandshakeAnswered
  <2>3. CASE invoking = "thread"
    BY <1>3, <2>1, <2>3, BeginningATurn DEF HandshakeAnswered, BeginTurn
  <2> QED
    BY <1>3, <2>2, <2>3 DEF HandshakeAnswered
<1>4. CASE HandshakeFails
  <2>1. turnCount' = turnCount /\ turnCount \in Turns /\ invoking' = "no" /\ currentTurn' = currentTurn
        /\ currentTurn = 0
    BY <1>4 DEF HandshakeFails, Turns, Answer
  <2> QED
    BY <1>4, <2>1, AnswersStayTheirOwn DEF HandshakeFails
<1>5. CASE ServerEndsTurn
  BY <1>5 DEF ServerEndsTurn
<1>6. CASE ServerDies
  BY <1>6 DEF ServerDies
<1>7. CASE handleMessage
  <2>1. CASE currentTurn = 0
    <3>1. \E j \in Turns : answer[j] = "timeout"
      BY <1>7, <2>1 DEF handleMessage
    <3>2. /\ stream' \in Seq(Turns)
          /\ UNCHANGED << turnCount, invoking, currentTurn, turnTimers, answer, answeredBy, server, closed, lateSpawn >>
      BY <1>7, <2>1 DEF handleMessage
    <3> QED
      BY <3>1, <3>2
  <2>2. CASE currentTurn # 0
    <3>1. PICK status \in {"completed", "user_input_required"} : Settle(currentTurn, status, Head(stream))
      BY <1>7, <2>2 DEF handleMessage
    <3>2. /\ turnCount' = turnCount /\ currentTurn = turnCount /\ turnCount \in Turns
          /\ invoking # "no" /\ Head(stream) \in Turns
      <4>1. turnCount' = turnCount /\ stream # << >>
        BY <1>7 DEF handleMessage
      <4>2. Head(stream) \in Turns
        BY <4>1
      <4>3. currentTurn = turnCount /\ turnCount \in Turns /\ invoking # "no"
        BY <2>2 DEF Turns
      <4> QED
        BY <4>1, <4>2, <4>3
    <3>3. Head(stream) = turnCount \/ \E j \in Turns : answer[j] = "timeout"
      BY <1>7, <3>2 DEF handleMessage
    <3>4. /\ AnswersAreTheirOwn'
          /\ answer' \in [Turns -> {"none", "rejected", "completed", "failed", "timeout", "user_input_required"}]
          /\ answeredBy' \in [Turns -> Nat]
          /\ \A k \in Turns : k > turnCount => answer'[k] = "none"
          /\ \A k \in Turns : answer'[k] = IF k = turnCount THEN status ELSE answer[k]
      BY <3>1, <3>2, <3>3, AnswersStayTheirOwn DEF Settle
    <3>5. invoking' = "no" /\ currentTurn' = 0 /\ turnTimers' = {}
      BY <3>1 DEF Settle, Answer
    <3>6. ASSUME \A j \in Turns : answer'[j] # "timeout" PROVE stream' = << >> /\ server' = << >>
      BY <1>7, <3>2, <3>4, <3>6 DEF handleMessage
    <3>7. stream' \in Seq(Turns) /\ server' = server /\ closed' = closed /\ lateSpawn' = lateSpawn
      BY <1>7 DEF handleMessage
    <3> QED
      BY <3>2, <3>4, <3>5, <3>6, <3>7
  <2> QED
    BY <2>1, <2>2
<1>8. CASE ExecEnds
  <2>1. PICK status \in {"completed", "failed", "rejected"} : Answer(turnCount, status, turnCount)
    BY <1>8 DEF ExecEnds
  <2>2. turnCount' = turnCount /\ turnCount \in Turns /\ invoking = "exec"
        /\ UNCHANGED << closed, currentTurn, turnTimers, server, stream, lateSpawn >>
    BY <1>8 DEF ExecEnds, Turns
  <2>3. invoking' = "no" /\ currentTurn = 0
    BY <2>1, <2>2 DEF Answer
  <2> QED
    BY <2>1, <2>2, <2>3, AnswersStayTheirOwn
<1>9. CASE close
  <2>1. /\ turnCount' = turnCount /\ stream' = << >> /\ server' = << >>
        /\ (invoking = "spawn" => lateSpawn')
    BY <1>9, Zenon DEF close
  <2>2. RejectTurn
    BY <1>9 DEF close
  <2>3. CASE currentTurn # 0 \/ invoking \in {"initialize", "thread"}
    <3>1. turnCount \in Turns /\ invoking # "no"
      BY <2>3 DEF Turns
    <3>2. Answer(turnCount, "rejected", turnCount) /\ currentTurn' = 0 /\ turnTimers' = {}
      BY <2>2, <2>3 DEF RejectTurn, Settle
    <3>3. invoking' = "no"
      BY <3>2 DEF Answer
    <3> QED
      BY <2>1, <3>1, <3>2, <3>3, AnswersStayTheirOwn
  <2>4. CASE currentTurn = 0 /\ invoking \notin {"initialize", "thread"}
    <3>1. UNCHANGED << answer, answeredBy, invoking, currentTurn, turnTimers >>
      BY <2>2, <2>4 DEF RejectTurn
    <3> QED
      BY <2>1, <2>4, <3>1 DEF Turns
  <2> QED
    BY <2>3, <2>4
<1>10. ASSUME NEW k \in Turns, TurnTimesOut(k) PROVE SessionInv'
  <2>1. currentTurn = k /\ turnCount = k /\ invoking # "no" /\ currentTurn # 0
    BY <1>10 DEF TurnTimesOut
  <2>2. Settle(currentTurn, "timeout", k) /\ turnCount' = turnCount
    BY <1>10, <2>1 DEF TurnTimesOut
  <2>3. /\ AnswersAreTheirOwn'
        /\ answer' \in [Turns -> {"none", "rejected", "completed", "failed", "timeout", "user_input_required"}]
        /\ answeredBy' \in [Turns -> Nat]
        /\ \A j \in Turns : j > turnCount => answer'[j] = "none"
        /\ answer'[k] = "timeout"
    BY <2>1, <2>2, AnswersStayTheirOwn DEF Settle
  <2> QED
    BY <1>10, <2>1, <2>2, <2>3 DEF TurnTimesOut, Settle, Answer
<1>11. CASE UNCHANGED svars
  BY <1>11 DEF svars
<1> QED
  BY <1>1, <1>2, <1>3, <1>4, <1>5, <1>6, <1>7, <1>8, <1>9, <1>10, <1>11 DEF SessionNext

(* For any number of turns: a turn of appserver-session.ts is ended by its  *)
(* own end, its own timer or a close, until one timed out and left its end  *)
(* behind; and a closed session has no turn that waits, unless its server   *)
(* was being spawned.                                                       *)
THEOREM AnswersStayWithTheirTurns == SessionSpec => []TurnsAreAnsweredByTheirOwn
<1>1. SessionInv => TurnsAreAnsweredByTheirOwn
  BY DEF SessionInv, TurnsAreAnsweredByTheirOwn, ClosedSessionsAreQuiet, ClosedSessionsRest, OneTurnAtATime
<1> QED
  BY <1>1, SessionStart, SessionStep, PTL DEF SessionSpec

-----------------------------------------------------------------------------
(* Credentials: while the last refresh brought a new token, every processor *)
(* sends the token of that refresh, and a poll begins before the refresh    *)
(* after it is due.                                                        *)

TokensAreInStep ==
    /\ now \in Nat /\ pollBegan \in Nat /\ tokenObtainedAt \in Nat
    /\ doubtful \/ processorToken = tokenObtainedAt
    /\ loopAt = "polling" /\ mergerApp => doubtful \/ pollBegan - tokenObtainedAt < RefreshInterval

LEMMA CredentialsStart == CredentialsInit => TokensAreInStep
BY CredentialsAssumption DEF CredentialsInit, TokensAreInStep

LEMMA CredentialsStep == TokensAreInStep /\ [CredentialsNext]_credentialVars => TokensAreInStep'
<1> SUFFICES ASSUME TokensAreInStep, [CredentialsNext]_credentialVars PROVE TokensAreInStep'
  OBVIOUS
<1> USE CredentialsAssumption DEF TokensAreInStep, tokenVars
<1>1. CASE TimePasses
  BY <1>1 DEF TimePasses
<1>2. CASE CheckToken
  BY <1>2 DEF CheckToken, StartPoll, RefreshDue
<1>3. CASE TokenAnswered
  <2>1. doubtful' \/ (processorToken' = now /\ tokenObtainedAt' = now)
    BY <1>3, Zenon DEF TokenAnswered, updateToken
  <2>2. /\ now' = now /\ pollBegan' = now
        /\ tokenObtainedAt' = now \/ tokenObtainedAt' = tokenObtainedAt
    BY <1>3, Zenon DEF TokenAnswered, StartPoll
  <2> QED
    BY <2>1, <2>2
<1>4. CASE PollIsOver
  BY <1>4 DEF PollIsOver
<1>5. CASE IntervalIsOver
  BY <1>5 DEF IntervalIsOver
<1>6. CASE StopMergeDaemon
  BY <1>6 DEF StopMergeDaemon
<1>7. CASE UNCHANGED credentialVars
  BY <1>7 DEF credentialVars
<1> QED
  BY <1>1, <1>2, <1>3, <1>4, <1>5, <1>6, <1>7 DEF CredentialsNext

(* For every lifetime of a token and every shorter refresh interval, a poll *)
(* meets a dead token only when it outlasts the margin between the two or   *)
(* the library gave no new token (server.ts, refreshTokenIfNeeded).         *)
THEOREM DeadTokensAreExplained == CredentialsSpec => []DeadTokensHaveAReason
<1>1. TokensAreInStep => DeadTokensHaveAReason
  BY CredentialsAssumption DEF TokensAreInStep, DeadTokensHaveAReason
<1> QED
  BY <1>1, CredentialsStart, CredentialsStep, PTL DEF CredentialsSpec

-----------------------------------------------------------------------------
(* Reloads: without a child slot too many the manager of the ticks is the only *)
(* one; and a version of the file that was edited since watching began is on   *)
(* its way to the prompt, is the prompt, or was applied by reloads that crossed.*)

ReloadTypes ==
    /\ maxConcurrent \in 1 .. MaxAgents /\ childSlots \in 0 .. MaxChildSlots
    /\ fileVersion \in Versions
    /\ watchedFrom \in Versions \cup {DefaultPrompt}
    /\ reload \in [Reloads -> {"none", "reading", "read"}]
    /\ readVersion \in [Reloads -> Versions]
    /\ job \in [Jobs -> [at : {"idle", "triage", "running"}, manager : Nat]]
    /\ ownManager \in Nat

(* Unless child slots take every slot, every agent is counted by the first  *)
(* manager.                                                                 *)
OneManager == childSlots < maxConcurrent => ownManager = 0 /\ \A j \in Jobs : job[j].manager = 0

(* Until reloads cross, there is one at a time.                             *)
ReloadsTakeTurns ==
    reloadsCrossed \/ \A r, q \in Reloads : reload[r] # "none" /\ reload[q] # "none" => r = q

(* The last edit is noticed, is being read, or was read and is about to be  *)
(* applied.                                                                 *)
EditIsUnderWay ==
    \/ fileEvent \/ debounceTimer
    \/ \E r \in Reloads : reload[r] = "reading" \/ (reload[r] = "read" /\ readVersion[r] = fileVersion)

(* The last edit was applied, and is the prompt unless reloads crossed.     *)
EditIsApplied ==
    /\ fileVersion \in applied
    /\ reloadsCrossed \/
          (promptTemplate = fileVersion /\ \A r \in Reloads : reload[r] = "read" => readVersion[r] = fileVersion)

EditsGetApplied ==
    Watching /\ fileVersion > watchedFrom /\ fileVersion \notin unreadable => EditIsUnderWay \/ EditIsApplied

ReloadInv ==
    /\ ReloadTypes
    /\ OneManager
    /\ ReloadsTakeTurns
    /\ EditsGetApplied

LEMMA MaxOfTwo ==
    ASSUME NEW a \in Int, NEW b \in Int, a <= b
    PROVE  Max({a, b}) = b
BY DEF Max

(* With fewer child slots than agents a reload finds the manager it would   *)
(* make.                                                                    *)
LEMMA SlotsAddUp ==
    ASSUME ReloadTypes, childSlots < maxConcurrent
    PROVE  ~ReplacesManager
<1>1. maxConcurrent \in Nat /\ childSlots \in Nat /\ maxConcurrent - childSlots \in Int /\ 1 <= maxConcurrent - childSlots
  BY ReloadAssumption DEF ReloadTypes
<1>2. topLevelMax = maxConcurrent - childSlots
  BY <1>1, MaxOfTwo DEF topLevelMax
<1> QED
  BY <1>1, <1>2 DEF ReplacesManager, getMax

LEMMA ReloadStart == ReloadInit => ReloadInv
BY ReloadAssumption
   DEF ReloadInit, ReloadInv, ReloadTypes, OneManager, ReloadsTakeTurns, EditsGetApplied, Watching, Versions,
       DefaultPrompt, NotDispatched

(* The agents of a tick or a webhook: nothing else changes.                 *)
LEMMA JobsKeepInv ==
    ASSUME ReloadInv, SlotsOnly,
           job' \in [Jobs -> [at : {"idle", "triage", "running"}, manager : Nat]],
           \A j \in Jobs : job'[j].manager \in {0, ownManager, job[j].manager}
    PROVE  ReloadInv'
BY DEF SlotsOnly, fileVars, watchVars, ReloadInv, ReloadTypes, OneManager, ReloadsTakeTurns, EditsGetApplied, EditIsUnderWay,
       EditIsApplied, Watching

(* A job that changes gets no manager but the first, the own one or the one *)
(* it had.                                                                  *)
LEMMA OneJobChanges ==
    ASSUME ReloadTypes, NEW j \in Jobs, NEW r \in [at : {"idle", "triage", "running"}, manager : Nat],
           r.manager \in {0, ownManager, job[j].manager}, job' = [job EXCEPT ![j] = r]
    PROVE  /\ job' \in [Jobs -> [at : {"idle", "triage", "running"}, manager : Nat]]
           /\ \A i \in Jobs : job'[i].manager \in {0, ownManager, job[i].manager}
BY DEF ReloadTypes

LEMMA EndReloadKeepsInv ==
    ASSUME ReloadInv, NEW r \in Reloads, EndReload(r)
    PROVE  ReloadInv'
<1>1. /\ reload[r] = "read" /\ reload' = [reload EXCEPT ![r] = "none"]
      /\ UNCHANGED << maxConcurrent, childSlots, fileVersion, unreadable, lifecycle, watchedFrom, fileEvent,
                      debounceTimer, readVersion, job, reloadsCrossed >>
  BY DEF EndReload, fileVars, jobVars
<1>2. readVersion[r] \notin unreadable =>
         /\ promptTemplate' = readVersion[r] /\ applied' = applied \cup {readVersion[r]}
         /\ ownManager' = ownManager \/ (ReplacesManager /\ ownManager' = ownManager + 1)
  BY DEF EndReload, applyConfig
<1>3. readVersion[r] \in unreadable => UNCHANGED << promptTemplate, ownManager, applied >>
  BY DEF EndReload
<1>4. ReloadTypes' /\ OneManager'
  BY <1>1, <1>2, <1>3, SlotsAddUp DEF ReloadInv, ReloadTypes, OneManager
<1>5. \A q \in Reloads : reload'[q] = IF q = r THEN "none" ELSE reload[q]
  BY <1>1 DEF ReloadInv, ReloadTypes
<1>6. ReloadsTakeTurns'
  BY <1>1, <1>5 DEF ReloadInv, ReloadsTakeTurns
<1>7. EditsGetApplied'
  <2> SUFFICES ASSUME Watching, fileVersion > watchedFrom, fileVersion \notin unreadable
               PROVE  EditIsUnderWay' \/ EditIsApplied'
    BY <1>1 DEF EditsGetApplied, Watching
  <2>1. CASE readVersion[r] = fileVersion
    <3>1. fileVersion \in applied' /\ promptTemplate' = fileVersion
      BY <1>2, <2>1
    <3>2. reloadsCrossed \/ \A q \in Reloads : reload'[q] = "none"
      BY <1>1, <1>5 DEF ReloadInv, ReloadTypes, ReloadsTakeTurns
    <3> QED
      BY <1>1, <3>1, <3>2 DEF EditIsApplied
  <2>2. CASE readVersion[r] # fileVersion /\ EditIsUnderWay
    BY <1>1, <1>5, <2>2 DEF EditIsUnderWay
  <2>3. CASE readVersion[r] # fileVersion /\ EditIsApplied
    BY <1>1, <1>2, <1>3, <2>3 DEF EditIsApplied
  <2> QED
    BY <2>1, <2>2, <2>3 DEF ReloadInv, EditsGetApplied
<1> QED
  BY <1>4, <1>6, <1>7 DEF ReloadInv

LEMMA ReloadStep == ReloadInv /\ [ReloadNext]_reloadVars => ReloadInv'
<1> SUFFICES ASSUME ReloadInv, [ReloadNext]_reloadVars PROVE ReloadInv'
  OBVIOUS
<1> USE ReloadAssumption DEF fileVars, watchVars, jobVars
<1>1. CASE EditFile
  <2>1. Watching => fileEvent'
    BY <1>1, Zenon DEF EditFile
  <2>2. /\ fileVersion' \in Versions
        /\ UNCHANGED << maxConcurrent, childSlots, lifecycle, promptTemplate, watchedFrom, debounceTimer, reload,
                    readVersion, ownManager, job, applied, reloadsCrossed >>
    BY <1>1 DEF EditFile, ReloadInv, ReloadTypes, Versions
  <2> QED
    BY <2>1, <2>2 DEF ReloadInv, ReloadTypes, OneManager, ReloadsTakeTurns, EditsGetApplied, EditIsUnderWay, Watching
<1>2. CASE LoadAtStartup
  BY <1>2 DEF LoadAtStartup, ReloadInv, ReloadTypes, OneManager, ReloadsTakeTurns, EditsGetApplied, EditIsUnderWay,
     EditIsApplied, Watching
<1>3. CASE StartWatching
  BY <1>3 DEF StartWatching, ReloadInv, ReloadTypes, OneManager, ReloadsTakeTurns, EditsGetApplied, Watching, Versions
<1>4. CASE FileEvent
  BY <1>4 DEF FileEvent, ReloadInv, ReloadTypes, OneManager, ReloadsTakeTurns, EditsGetApplied, EditIsUnderWay, Watching
<1>5. CASE StopWatching
  BY <1>5 DEF StopWatching, ReloadInv, ReloadTypes, OneManager, ReloadsTakeTurns, EditsGetApplied, Watching
<1>6. ASSUME NEW r \in Reloads, BeginReload(r) PROVE ReloadInv'
  <2>1. /\ reloadsCrossed' \/ ~reloadsCrossed
        /\ reloadsCrossed' \/ \A q \in Reloads : reload[q] = "none"
    BY <1>6, Zenon DEF BeginReload
  <2>2. /\ reload' = [reload EXCEPT ![r] = "reading"]
        /\ UNCHANGED << maxConcurrent, childSlots, fileVersion, unreadable, lifecycle, promptTemplate, watchedFrom,
                        fileEvent, readVersion, ownManager, job, applied >>
    BY <1>6 DEF BeginReload
  <2>3. ReloadTypes' /\ EditIsUnderWay'
    BY <2>2 DEF ReloadInv, ReloadTypes, EditIsUnderWay
  <2>4. ReloadsTakeTurns'
    BY <2>1, <2>2 DEF ReloadInv, ReloadTypes, ReloadsTakeTurns
  <2> QED
    BY <2>2, <2>3, <2>4 DEF ReloadInv, OneManager, EditsGetApplied
<1>7. ASSUME NEW r \in Reloads, ReadFile(r) PROVE ReloadInv'
  <2>1. /\ reload[r] = "reading"
        /\ reload' = [reload EXCEPT ![r] = "read"] /\ readVersion' = [readVersion EXCEPT ![r] = fileVersion]
        /\ UNCHANGED << maxConcurrent, childSlots, fileVersion, unreadable, lifecycle, promptTemplate, watchedFrom,
                        fileEvent, debounceTimer, ownManager, job, applied, reloadsCrossed >>
    BY <1>7 DEF ReadFile
  <2>2. ReloadTypes' /\ EditIsUnderWay'
    BY <2>1 DEF ReloadInv, ReloadTypes, EditIsUnderWay
  <2>3. ReloadsTakeTurns'
    BY <2>1 DEF ReloadInv, ReloadTypes, ReloadsTakeTurns
  <2> QED
    BY <2>1, <2>2, <2>3 DEF ReloadInv, OneManager, EditsGetApplied
<1>8. ASSUME NEW r \in Reloads, EndReload(r) PROVE ReloadInv'
  BY <1>8, EndReloadKeepsInv
<1>9. CASE CountSlots \/ EndTick
  BY <1>9, JobsKeepInv DEF CountSlots, EndTick, ReloadInv, ReloadTypes
<1>10. ASSUME NEW j \in Jobs, DispatchByWebhook(j) PROVE ReloadInv'
  <2>1. [at |-> "triage", manager |-> ownManager] \in [at : {"idle", "triage", "running"}, manager : Nat]
    BY DEF ReloadInv, ReloadTypes
  <2> QED
    BY <1>10, <2>1, OneJobChanges, JobsKeepInv DEF DispatchByWebhook, dispatchTo, ReloadInv
<1>11. ASSUME NEW j \in Jobs, DispatchByTick(j) PROVE ReloadInv'
  BY <1>11, OneJobChanges, JobsKeepInv DEF DispatchByTick, dispatchTo, ReloadInv
<1>12. ASSUME NEW j \in Jobs, TriageEnds(j) \/ AgentLeaves(j) PROVE ReloadInv'
  <2> DEFINE r == [job[j] EXCEPT !.at = "running"]
  <2>1. /\ NotDispatched \in [at : {"idle", "triage", "running"}, manager : Nat] /\ NotDispatched.manager = 0
        /\ r \in [at : {"idle", "triage", "running"}, manager : Nat] /\ r.manager = job[j].manager
    BY DEF NotDispatched, ReloadInv, ReloadTypes
  <2>2. job' = [job EXCEPT ![j] = r] \/ job' = [job EXCEPT ![j] = NotDispatched]
    BY <1>12 DEF TriageEnds, AgentLeaves, ReloadInv, ReloadTypes
  <2>3. SlotsOnly
    BY <1>12 DEF TriageEnds, AgentLeaves
  <2> QED
    BY <2>1, <2>2, <2>3, OneJobChanges, JobsKeepInv DEF ReloadInv
<1>13. CASE UNCHANGED reloadVars
  BY <1>13 DEF reloadVars, ReloadInv, ReloadTypes, OneManager, ReloadsTakeTurns, EditsGetApplied, EditIsUnderWay,
     EditIsApplied, Watching
<1> QED
  BY <1>1, <1>2, <1>3, <1>4, <1>5, <1>6, <1>7, <1>8, <1>9, <1>10, <1>11, <1>12, <1>13 DEF ReloadNext

(* For any number of edits, reloads, jobs and slots: watcher.ts and         *)
(* applyConfig lose no edit, unless it cannot be read or reloads crossed,   *)
(* and the slots a tick counts are all in use by agents, unless child slots *)
(* take every slot.                                                         *)
THEOREM ReloadsStayApplied == ReloadSpec => []ReloadsAreApplied
<1>1. ASSUME ReloadInv PROVE TicksCountEveryAgent
  <2>1. childSlots < maxConcurrent => Registered(0) = {j \in Jobs : job[j].at = "running"}
    BY <1>1 DEF ReloadInv, ReloadTypes, OneManager, Registered
  <2> QED
    BY <2>1 DEF TicksCountEveryAgent, availableTopLevelSlots
<1>2. ReloadInv => EditsAreApplied
  BY DEF ReloadInv, EditsGetApplied, EditIsUnderWay, EditIsApplied, EditsAreApplied
<1>3. ReloadInv => ReloadsAreApplied
  BY <1>1, <1>2 DEF ReloadsAreApplied
<1> QED
  BY <1>3, ReloadStart, ReloadStep, PTL DEF ReloadSpec

-----------------------------------------------------------------------------
(* Delegations: a child that works has a pending row of its own, in its     *)
(* parent's name and with its subtask; no child works beyond the fork but   *)
(* the one that is repeated; and no pending row is dropped.                 *)

(* The values of a call and of the rows.                                    *)
Stages == {"none", "children", "rewriting", "retrying", "synthesis", "returned", "rejected"}
Rows == [parent : Parents, spec : Specs, status : {"pending", "completed", "failed"}]
Calls == [stage : Stages, specs : Seq(Specs), row : Seq(Nat),
          result : Seq({"working", "completed", "failed", "rejected"}), turn : Nat]

DelegationTypes ==
    /\ rows \in Seq(Rows) /\ Len(rows) <= MaxRows
    /\ call \in [Parents -> Calls]
    /\ \A p \in Parents : Len(call[p].row) = Len(call[p].specs) /\ Len(call[p].result) = Len(call[p].specs)
    /\ recover \in [Parents -> Seq(Specs)]
    /\ daemon \in {"up", "down"}

(* A call whose children do not work side by side has at most one at work.  *)
CallIsInOrder(p) ==
    /\ call[p].stage = "none" => Children(p) = {}
    /\ call[p].stage \in {"rewriting", "synthesis", "returned", "rejected"} => Working(p) = {}
    /\ call[p].stage = "retrying" => Working(p) = {call[p].turn}
    /\ call[p].stage = "rewriting" => call[p].turn \in Children(p) /\ call[p].result[call[p].turn] = "failed"

WorkHasItsRow(p) ==
    /\ \A i \in Working(p) :
          /\ call[p].row[i] \in DOMAIN rows
          /\ rows[call[p].row[i]].parent = p /\ rows[call[p].row[i]].spec = call[p].specs[i]
    /\ \A i, j \in Working(p) : call[p].row[i] = call[p].row[j] => i = j

(* The inductive invariant of delegation.                                   *)
DelegationInv ==
    /\ DelegationTypes
    /\ \A p \in Parents : CallIsInOrder(p) /\ WorkHasItsRow(p)
    /\ PendingRowsAreTaken

(* Numbers can be put in order: each has its rank.                          *)
LEMMA InOrderIsASequence ==
    ASSUME NEW S \in SUBSET Nat, IsFiniteSet(S)
    PROVE  /\ InOrder(S) \in Seq(S)
           /\ DOMAIN InOrder(S) = 1..Len(InOrder(S))
           /\ \A x \in S : \E n \in 1..Len(InOrder(S)) : InOrder(S)[n] = x
           /\ \A m, n \in 1..Len(InOrder(S)) : InOrder(S)[m] = InOrder(S)[n] => m = n
<1> DEFINE N == Cardinality(S)
           upTo(x) == {y \in S : y <= x}
           rank == [x \in S |-> Cardinality(upTo(x))]
<1>1. N \in Nat /\ Cardinality(1..N) = N /\ IsFiniteSet(1..N)
  <2>1. N \in Nat
    BY FS_CardinalityType
  <2>2. IsFiniteSet(1..N) /\ Cardinality(1..N) = IF 1 > N THEN 0 ELSE N - 1 + 1
    BY <2>1, FS_Interval
  <2> QED
    BY <2>1, <2>2
<1>2. \A x \in S : IsFiniteSet(upTo(x)) /\ rank[x] \in 1..N
  <2> SUFFICES ASSUME NEW x \in S PROVE IsFiniteSet(upTo(x)) /\ rank[x] \in 1..N
    OBVIOUS
  <2>1. upTo(x) \in SUBSET S /\ x \in upTo(x)
    OBVIOUS
  <2> HIDE DEF upTo
  <2>2. IsFiniteSet(upTo(x)) /\ Cardinality(upTo(x)) <= N
    BY <2>1, FS_Subset
  <2>3. Cardinality(upTo(x)) \in Nat /\ Cardinality(upTo(x)) # 0
    BY <2>1, <2>2, FS_CardinalityType, FS_EmptySet
  <2> QED
    BY <1>1, <2>2, <2>3
<1>3. \A x, y \in S : x < y => rank[x] < rank[y]
  <2> SUFFICES ASSUME NEW x \in S, NEW y \in S, x < y PROVE rank[x] < rank[y]
    OBVIOUS
  <2>0. x \in Nat /\ y \in Nat /\ \A z \in S : z \in Nat
    OBVIOUS
  <2>1. y \in upTo(y) /\ y \notin upTo(x) /\ upTo(x) \in SUBSET upTo(y)
    <3>1. ASSUME NEW z \in upTo(x) PROVE z \in upTo(y)
      <4>1. z \in S /\ z <= x /\ z \in Nat
        BY <2>0, <3>1
      <4>2. z <= y
        BY <2>0, <4>1
      <4> QED
        BY <4>1, <4>2
    <3>2. y <= y /\ ~(y <= x)
      BY <2>0
    <3> QED
      BY <3>1, <3>2
  <2> HIDE DEF upTo
  <2>2. Cardinality(upTo(x)) <= Cardinality(upTo(y)) /\ Cardinality(upTo(x)) # Cardinality(upTo(y))
    BY <1>2, <2>1, FS_Subset
  <2>3. rank[x] = Cardinality(upTo(x)) /\ rank[y] = Cardinality(upTo(y)) /\ rank[x] \in Nat /\ rank[y] \in Nat
    BY <1>2
  <2> QED
    BY <2>2, <2>3
<1>4. rank \in Injection(S, 1..N)
  <2>1. rank \in [S -> 1..N]
    BY <1>2
  <2>2. \A x, y \in S : rank[x] = rank[y] => x = y
    BY <1>2, <1>3
  <2> QED
    BY <2>1, <2>2 DEF Injection, IsInjective
<1>5. rank \in Surjection(S, 1..N)
  BY <1>1, <1>4, FS_Injection
<1>6. \A n \in 1..N : \E x \in S : rank[x] = n
  BY <1>5 DEF Surjection
<1> DEFINE s == [n \in 1..N |-> CHOOSE x \in S : rank[x] = n]
<1> HIDE DEF rank
<1>7. \A n \in 1..N : s[n] \in S /\ rank[s[n]] = n
  BY <1>6
<1> HIDE DEF s
<1>8. s \in SetToSeqs(S) /\ \A m, n \in DOMAIN s : m < n => s[m] < s[n]
  <2>1. DOMAIN s = 1..N /\ s \in [1..N -> S]
    BY <1>7 DEF s
  <2>2. \A m, n \in 1..N : m # n => s[m] # s[n]
    BY <1>7
  <2>3. \A m, n \in 1..N : m < n => s[m] < s[n]
    <3> SUFFICES ASSUME NEW m \in 1..N, NEW n \in 1..N, m < n, ~(s[m] < s[n]) PROVE FALSE
      OBVIOUS
    <3>1. s[m] \in S /\ s[n] \in S /\ rank[s[m]] = m /\ rank[s[n]] = n
      BY <1>7
    <3> DEFINE a == s[m]
                b == s[n]
    <3>2. a \in Nat /\ b \in Nat /\ ~(a < b)
      BY <3>1
    <3>4. a \in S /\ b \in S /\ rank[a] = m /\ rank[b] = n /\ m \in Int /\ n \in Int
      BY <1>1, <3>1
    <3> HIDE DEF a, b
    <3>3. b < a \/ b = a
      BY <3>2
    <3> QED
      BY <1>3, <3>3, <3>4
  <2> QED
    BY <2>1, <2>2, <2>3 DEF SetToSeqs
<1> DEFINE o == InOrder(S)
<1>9. o \in SetToSeqs(S)
  BY <1>8 DEF InOrder
<1>10. o \in [1..N -> S] /\ \A i, j \in 1..N : i # j => o[i] # o[j]
  BY <1>9 DEF SetToSeqs
<1> HIDE DEF o, N
<1>11. o \in Injection(1..N, S)
  BY <1>10 DEF Injection, IsInjective
<1>12. o \in Surjection(1..N, S)
  BY <1>1, <1>11, FS_Injection DEF N
<1>13. \A x \in S : \E n \in 1..N : o[n] = x
  BY <1>12 DEF Surjection
<1>14. o \in Seq(S) /\ Len(o) = N /\ DOMAIN o = 1..N
  BY <1>1, <1>10
<1> QED
  BY <1>10, <1>13, <1>14 DEF o

(* Any numbers have a least one: the failed child the loop takes up next.   *)
LEMMA LeastExists ==
    ASSUME NEW T \in SUBSET Nat, T # {}
    PROVE  \E x \in T : \A y \in T : x <= y
<1>1. PICK x \in T : \A y \in T : ~(<< y, x >> \in OpToRel(<, Nat))
  BY NatLessThanWellFounded, WFMin
<1>2. ASSUME NEW y \in T PROVE x <= y
  <2>1. << y, x >> \in Nat \X Nat /\ << y, x >>[1] = y /\ << y, x >>[2] = x
    OBVIOUS
  <2>2. ~(y < x)
    BY <1>1, <2>1 DEF OpToRel
  <2> QED
    BY <2>2
<1> QED
  BY <1>2

-----------------------------------------------------------------------------

(* How a pending row is accounted for.                                      *)
Taken(r) ==
    LET p == rows[r].parent
    IN  \/ \E i \in Working(p) : call[p].row[i] = r
        \/ rows[r].spec \in ToSet(recover[p])
        \/ \E later \in DOMAIN rows :
             later > r /\ rows[later].parent = p /\ rows[later].spec = rows[r].spec
        \/ \E i \in Children(p) : call[p].result[i] = "rejected" /\ call[p].specs[i] = rows[r].spec

(* PendingRowsAreTaken, row by row.                                         *)
LEMMA TakenIsMeant ==
    PendingRowsAreTaken <=> (daemon = "up" => \A r \in DOMAIN rows : rows[r].status = "pending" => Taken(r))
BY DEF PendingRowsAreTaken, Taken

(* Rows are added or settled, and keep their parent and their subtask.      *)
RowsGrow ==
    /\ DOMAIN rows \subseteq DOMAIN rows'
    /\ \A r \in DOMAIN rows :
          /\ rows'[r].parent = rows[r].parent /\ rows'[r].spec = rows[r].spec
          /\ rows'[r].status = "pending" => rows[r].status = "pending"

(* A step of p leaves the calls and lists of the others alone.              *)
OthersRest(p) == \A q \in Parents \ {p} : call'[q] = call[q] /\ recover'[q] = recover[q]

(* What holds of another call and its rows still holds.                     *)
LEMMA RestIsInOrder ==
    ASSUME DelegationInv, NEW p \in Parents, RowsGrow, OthersRest(p), NEW q \in Parents \ {p}
    PROVE  (CallIsInOrder(q) /\ WorkHasItsRow(q))'
<1>1. CallIsInOrder(q) /\ WorkHasItsRow(q) /\ call'[q] = call[q]
  BY DEF DelegationInv, OthersRest
<1>2. Children(q)' = Children(q) /\ Working(q)' = Working(q)
  BY <1>1 DEF Children, Working
<1> QED
  BY <1>1, <1>2 DEF CallIsInOrder, WorkHasItsRow, RowsGrow

(* A row of another parent is still accounted for.                          *)
LEMMA RestStaysTaken ==
    ASSUME DelegationInv, NEW p \in Parents, RowsGrow, OthersRest(p),
           NEW r \in DOMAIN rows, rows[r].parent # p, Taken(r)
    PROVE  Taken(r)'
<1>0. rows[r] \in Rows
  BY DEF DelegationInv, DelegationTypes
<1>1. PICK q \in Parents \ {p} : rows[r].parent = q /\ rows'[r].parent = q /\ rows'[r].spec = rows[r].spec
  BY <1>0 DEF Rows, RowsGrow
<1>2. call'[q] = call[q] /\ recover'[q] = recover[q]
  BY <1>1 DEF OthersRest
<1>3. Children(q)' = Children(q) /\ Working(q)' = Working(q)
  BY <1>2 DEF Children, Working
<1> QED
  BY <1>1, <1>2, <1>3 DEF Taken, RowsGrow

-----------------------------------------------------------------------------

(* What a fork leaves: each child works on a new row of its own, which has  *)
(* its subtask, or is rejected; and each new row has its child.             *)
LEMMA DispatchForks ==
    ASSUME DelegationInv, NEW p \in Parents, NEW specs \in Seq(Specs), Dispatch(p, specs)
    PROVE  /\ rows' \in Seq(Rows) /\ Len(rows') <= MaxRows
           /\ DOMAIN rows \subseteq DOMAIN rows' /\ \A r \in DOMAIN rows : rows'[r] = rows[r]
           /\ \E c \in Calls :
                /\ call' = [call EXCEPT ![p] = c]
                /\ c.stage = "children" /\ c.specs = specs
                /\ Len(c.row) = Len(specs) /\ Len(c.result) = Len(specs)
                /\ \A i \in DOMAIN specs : c.result[i] \in {"working", "rejected"}
                /\ \A i \in DOMAIN specs : c.result[i] = "working" =>
                      /\ c.row[i] \in DOMAIN rows' /\ c.row[i] > Len(rows)
                      /\ rows'[c.row[i]] = PendingRow(p, specs[i])
                /\ \A i, j \in DOMAIN specs :
                      c.result[i] = "working" /\ c.result[j] = "working" /\ c.row[i] = c.row[j] => i = j
                /\ \A r \in DOMAIN rows' : r \notin DOMAIN rows =>
                      \E i \in DOMAIN specs : c.result[i] = "working" /\ c.row[i] = r
<1> DEFINE K(lost) == InOrder(DOMAIN specs \ lost)
           rowOf(lost, i) == IF i \in lost THEN 0
                             ELSE Len(rows) + CHOOSE n \in DOMAIN K(lost) : K(lost)[n] = i
           cc(lost) == [stage |-> "children", specs |-> specs, turn |-> 0,
                    row |-> [i \in DOMAIN specs |-> rowOf(lost, i)],
                    result |-> [i \in DOMAIN specs |-> IF i \in lost THEN "rejected" ELSE "working"]]
<1>1. PICK lost \in SUBSET DOMAIN specs :
        /\ Len(rows) + Len(K(lost)) <= MaxRows
        /\ rows' = rows \o [n \in DOMAIN K(lost) |-> PendingRow(p, specs[K(lost)[n]])]
        /\ call' = [call EXCEPT ![p] = cc(lost)]
  BY DEF Dispatch
<1> DEFINE S == DOMAIN specs \ lost
<1>2. S \in SUBSET Nat /\ IsFiniteSet(S) /\ DOMAIN specs = 1..Len(specs) /\ Len(specs) \in Nat
  <2>1. DOMAIN specs = 1..Len(specs) /\ Len(specs) \in Nat
    OBVIOUS
  <2>2. IsFiniteSet(DOMAIN specs)
    BY <2>1, FS_Interval
  <2> QED
    BY <2>1, <2>2, FS_Subset
<1> DEFINE kept == K(lost)
<1>3. /\ kept \in Seq(S) /\ DOMAIN kept = 1..Len(kept)
      /\ \A x \in S : \E n \in 1..Len(kept) : kept[n] = x
      /\ \A m, n \in 1..Len(kept) : kept[m] = kept[n] => m = n
  BY <1>2, InOrderIsASequence
<1> DEFINE place(i) == CHOOSE n \in DOMAIN kept : kept[n] = i
           new == [n \in DOMAIN kept |-> PendingRow(p, specs[kept[n]])]
<1>4. \A i \in S : place(i) \in 1..Len(kept) /\ kept[place(i)] = i
  BY <1>3
<1>5. \A n \in 1..Len(kept) : kept[n] \in S /\ place(kept[n]) = n
  BY <1>3, <1>4
<1>6. \A n \in 1..Len(kept) : specs[kept[n]] \in Specs
  <2>1. \A x \in DOMAIN specs : specs[x] \in Specs
    OBVIOUS
  <2>2. \A n \in 1..Len(kept) : kept[n] \in DOMAIN specs
    BY <1>5
  <2> QED
    BY <2>1, <2>2
<1>7. new \in Seq(Rows) /\ Len(new) = Len(kept)
  <2>1. \A n \in 1..Len(kept) : PendingRow(p, specs[kept[n]]) \in Rows
    BY <1>6 DEF PendingRow, Rows
  <2>2. Len(kept) \in Nat
    BY <1>3
  <2>3. new = [n \in 1..Len(kept) |-> PendingRow(p, specs[kept[n]])]
    BY <1>3
  <2>4. new \in [1..Len(kept) -> Rows]
    BY <2>1, <2>3
  <2> HIDE DEF new, kept
  <2>5. new \in Seq(Rows) /\ DOMAIN new = 1..Len(kept)
    BY <2>2, <2>4
  <2> QED
    BY <2>2, <2>5
<1> DEFINE c == cc(lost)
<1>8. rows \in Seq(Rows) /\ rows' = rows \o new /\ call' = [call EXCEPT ![p] = c] /\ Len(rows) + Len(kept) <= MaxRows
  BY <1>1 DEF DelegationInv, DelegationTypes
<1>9. /\ c.stage = "children" /\ c.specs = specs
      /\ \A i \in DOMAIN specs : /\ i \in lost => c.result[i] = "rejected" /\ c.row[i] = 0
                                 /\ i \notin lost => c.result[i] = "working" /\ c.row[i] = Len(rows) + place(i)
      /\ DOMAIN c.row = DOMAIN specs /\ DOMAIN c.result = DOMAIN specs
  OBVIOUS
<1>15. c = [stage |-> "children", specs |-> specs, turn |-> 0, row |-> c.row, result |-> c.result]
       /\ c.row = [i \in DOMAIN specs |-> c.row[i]] /\ c.result = [i \in DOMAIN specs |-> c.result[i]]
  OBVIOUS
<1> HIDE DEF c, cc, K, kept, place, S
<1>10. \A i \in DOMAIN specs : i \notin lost => i \in S /\ place(i) \in 1..Len(kept) /\ kept[place(i)] = i
  BY <1>4 DEF S
<1>16. \A n \in 1..Len(kept) : new[n] = PendingRow(p, specs[kept[n]])
  BY <1>3
<1> HIDE DEF new
<1>11. Len(kept) \in Nat /\ Len(rows) \in Nat /\ DOMAIN rows = 1..Len(rows) /\ DOMAIN rows' = 1..(Len(rows) + Len(kept))
       /\ Len(rows') = Len(rows) + Len(kept) /\ rows' \in Seq(Rows)
  <2>1. Len(kept) \in Nat
    BY <1>3
  <2>2. rows \in Seq(Rows) /\ new \in Seq(Rows) /\ rows' = rows \o new /\ Len(new) = Len(kept)
    BY <1>7, <1>8
  <2>3. rows' \in Seq(Rows) /\ Len(rows') = Len(rows) + Len(new)
    BY <2>2, ConcatProperties
  <2>4. Len(rows) \in Nat /\ DOMAIN rows = 1..Len(rows) /\ DOMAIN rows' = 1..Len(rows')
    BY <2>2, <2>3
  <2> QED
    BY <2>1, <2>2, <2>3, <2>4
<1>12. /\ \A r \in DOMAIN rows : rows'[r] = rows[r]
       /\ \A n \in 1..Len(kept) : rows'[Len(rows) + n] = PendingRow(p, specs[kept[n]])
  BY <1>7, <1>8, <1>11, <1>16
<1>13. \A i \in DOMAIN specs : c.row[i] \in Nat /\ c.result[i] \in {"working", "completed", "failed", "rejected"}
  BY <1>9, <1>10, <1>11
<1>14. c \in Calls /\ Len(c.row) = Len(specs) /\ Len(c.result) = Len(specs)
  <2>1. c.row \in [1..Len(specs) -> Nat]
        /\ c.result \in [1..Len(specs) -> {"working", "completed", "failed", "rejected"}]
    BY <1>2, <1>13, <1>15
  <2>2. c.row \in Seq(Nat) /\ c.result \in Seq({"working", "completed", "failed", "rejected"})
    BY <1>2, <2>1
  <2>3. Len(c.row) = Len(specs) /\ Len(c.result) = Len(specs)
    BY <1>2, <2>1
  <2> DEFINE R == c.row
             T == c.result
  <2>4. c = [stage |-> "children", specs |-> specs, turn |-> 0, row |-> R, result |-> T]
        /\ R \in Seq(Nat) /\ T \in Seq({"working", "completed", "failed", "rejected"})
    BY <1>15, <2>2
  <2> HIDE DEF R, T
  <2>5. c \in Calls
    BY <2>4 DEF Calls, Stages
  <2> QED
    BY <2>3, <2>5
<1>17. \A i \in DOMAIN specs : c.result[i] \in {"working", "rejected"}
  BY <1>9
<1>18. \A i \in DOMAIN specs : c.result[i] = "working" =>
                      /\ c.row[i] \in DOMAIN rows' /\ c.row[i] > Len(rows)
                      /\ rows'[c.row[i]] = PendingRow(p, specs[i])
  BY <1>9, <1>10, <1>11, <1>12
<1>19. \A i, j \in DOMAIN specs :
                      c.result[i] = "working" /\ c.result[j] = "working" /\ c.row[i] = c.row[j] => i = j
  <2> SUFFICES ASSUME NEW i \in DOMAIN specs, NEW j \in DOMAIN specs,
                      c.result[i] = "working" /\ c.result[j] = "working" /\ c.row[i] = c.row[j]
               PROVE  i = j
    OBVIOUS
  <2>1. i \notin lost /\ j \notin lost /\ Len(rows) + place(i) = Len(rows) + place(j)
    BY <1>9
  <2>2. place(i) = place(j)
    BY <1>10, <1>11, <2>1
  <2> QED
    BY <1>10, <2>1, <2>2
<1>20. \A r \in DOMAIN rows' : r \notin DOMAIN rows =>
                      \E i \in DOMAIN specs : c.result[i] = "working" /\ c.row[i] = r
  <2> SUFFICES ASSUME NEW r \in DOMAIN rows', r \notin DOMAIN rows
               PROVE  \E i \in DOMAIN specs : c.result[i] = "working" /\ c.row[i] = r
    OBVIOUS
  <2>1. PICK n \in 1..Len(kept) : r = Len(rows) + n
    <3>1. r - Len(rows) \in 1..Len(kept) /\ r = Len(rows) + (r - Len(rows))
      BY <1>11
    <3> QED
      BY <3>1
  <2>2. kept[n] \in DOMAIN specs /\ kept[n] \notin lost /\ place(kept[n]) = n
    BY <1>5 DEF S
  <2> QED
    BY <1>9, <2>1, <2>2
<1>21. Len(rows') <= MaxRows /\ DOMAIN rows \subseteq DOMAIN rows'
  BY <1>8, <1>11
<1>22. c \in Calls /\ call' = [call EXCEPT ![p] = c] /\ c.stage = "children" /\ c.specs = specs
  BY <1>8, <1>9, <1>14
<1> QED
  BY <1>11, <1>12, <1>14, <1>17, <1>18, <1>19, <1>20, <1>21, <1>22, Zenon

(* A step of one call keeps the invariant when that call and its rows do.   *)
LEMMA OneCallMoves ==
    ASSUME DelegationInv, NEW p \in Parents, RowsGrow, OthersRest(p), daemon' = daemon,
           rows' \in Seq(Rows), Len(rows') <= MaxRows,
           NEW c \in Calls, call' = [call EXCEPT ![p] = c],
           Len(c.row) = Len(c.specs), Len(c.result) = Len(c.specs),
           recover' \in [Parents -> Seq(Specs)],
           CallIsInOrder(p)', WorkHasItsRow(p)',
           daemon = "up" =>
               \A r \in DOMAIN rows' : rows'[r].parent = p /\ rows'[r].status = "pending" => Taken(r)',
           \A r \in DOMAIN rows' : r \notin DOMAIN rows => rows'[r].parent = p
    PROVE  DelegationInv'
<1>1. call \in [Parents -> Calls] /\ daemon \in {"up", "down"}
      /\ \A q \in Parents : Len(call[q].row) = Len(call[q].specs) /\ Len(call[q].result) = Len(call[q].specs)
  BY DEF DelegationInv, DelegationTypes
<1>2. call' \in [Parents -> Calls] /\ call'[p] = c /\ \A q \in Parents : q # p => call'[q] = call[q]
  BY <1>1
<1>3. DelegationTypes'
  <2>1. \A q \in Parents : Len(call'[q].row) = Len(call'[q].specs) /\ Len(call'[q].result) = Len(call'[q].specs)
    BY <1>1, <1>2
  <2> QED
    BY <1>1, <1>2, <2>1 DEF DelegationTypes
<1>4. \A q \in Parents : (CallIsInOrder(q) /\ WorkHasItsRow(q))'
  BY RestIsInOrder
<1>5. daemon' = "up" => \A r \in DOMAIN rows' : rows'[r].status = "pending" => Taken(r)'
  <2> SUFFICES ASSUME daemon = "up", NEW r \in DOMAIN rows', rows'[r].status = "pending"
               PROVE  Taken(r)'
    OBVIOUS
  <2>1. CASE rows'[r].parent = p
    BY <2>1
  <2>2. CASE rows'[r].parent # p
    <3>1. r \in DOMAIN rows
      BY <2>2
    <3>2. rows[r].parent # p /\ rows[r].status = "pending"
      BY <2>2, <3>1 DEF RowsGrow
    <3>3. Taken(r)
      BY <3>1, <3>2, TakenIsMeant DEF DelegationInv
    <3> QED
      BY <3>1, <3>2, <3>3, RestStaysTaken
  <2> QED
    BY <2>1, <2>2
<1>6. PendingRowsAreTaken'
  BY <1>5 DEF PendingRowsAreTaken, Taken
<1> QED
  BY <1>3, <1>4, <1>6 DEF DelegationInv

(* The call of p goes to another stage.                                     *)
LEMMA QuietMove ==
    ASSUME DelegationInv, NEW p \in Parents, UNCHANGED << rows, recover, daemon >>,
           NEW c \in Calls, call' = [call EXCEPT ![p] = c],
           c.specs = call[p].specs, c.row = call[p].row, c.result = call[p].result,
           CallIsInOrder(p)'
    PROVE  DelegationInv'
<1>0. call \in [Parents -> Calls] /\ rows \in Seq(Rows) /\ Len(rows) <= MaxRows
      /\ recover \in [Parents -> Seq(Specs)]
      /\ Len(call[p].row) = Len(call[p].specs) /\ Len(call[p].result) = Len(call[p].specs)
  BY DEF DelegationInv, DelegationTypes
<1>1. call'[p] = c /\ \A q \in Parents \ {p} : call'[q] = call[q]
  BY <1>0
<1>2. Children(p)' = Children(p) /\ Working(p)' = Working(p)
  BY <1>1 DEF Children, Working
<1>3. RowsGrow /\ OthersRest(p)
  BY <1>1 DEF RowsGrow, OthersRest
<1>4. WorkHasItsRow(p)'
  BY <1>1, <1>2 DEF WorkHasItsRow, DelegationInv
<1>5. daemon = "up" =>
        \A r \in DOMAIN rows' : rows'[r].parent = p /\ rows'[r].status = "pending" => Taken(r)'
  <2> SUFFICES ASSUME daemon = "up", NEW r \in DOMAIN rows, rows[r].parent = p, rows[r].status = "pending"
               PROVE  Taken(r)'
    OBVIOUS
  <2>1. Taken(r)
    BY TakenIsMeant DEF DelegationInv
  <2> QED
    BY <1>1, <1>2, <2>1 DEF Taken
<1> HIDE DEF RowsGrow, OthersRest, WorkHasItsRow, CallIsInOrder, Taken
<1> QED
  BY <1>0, <1>3, <1>4, <1>5, OneCallMoves

(* Child i has ended, and its row with it unless its statement threw.       *)
LEMMA SettleMove ==
    ASSUME DelegationInv, NEW p \in Parents, UNCHANGED << recover, daemon >>,
           NEW i \in Working(p), NEW result \in {"completed", "failed", "rejected"},
           IF result = "rejected" THEN UNCHANGED rows ELSE SettleRow(call[p].row[i], result),
           NEW c \in Calls, call' = [call EXCEPT ![p] = c],
           c.specs = call[p].specs, c.row = call[p].row, c.result = [call[p].result EXCEPT ![i] = result],
           Working(p)' = Working(p) \ {i} => CallIsInOrder(p)'
    PROVE  DelegationInv' /\ RowsGrow /\ Working(p)' = Working(p) \ {i}
<1>0. call \in [Parents -> Calls] /\ rows \in Seq(Rows) /\ Len(rows) <= MaxRows
      /\ recover \in [Parents -> Seq(Specs)]
      /\ Len(call[p].row) = Len(call[p].specs) /\ Len(call[p].result) = Len(call[p].specs)
  BY DEF DelegationInv, DelegationTypes
<1>1. call'[p] = c /\ \A q \in Parents \ {p} : call'[q] = call[q]
  BY <1>0
<1>2. DOMAIN call[p].result = Children(p) /\ i \in Children(p)
  <2>1. call[p].result \in Seq({"working", "completed", "failed", "rejected"}) /\ call[p].specs \in Seq(Specs)
    BY <1>0 DEF Calls
  <2>2. DOMAIN call[p].result = 1..Len(call[p].result) /\ DOMAIN call[p].specs = 1..Len(call[p].specs)
    BY <2>1
  <2> QED
    BY <1>0, <2>2 DEF Children, Working
<1>3. Children(p)' = Children(p)
  BY <1>1 DEF Children
<1>4. \A j \in Children(p) : c.result[j] = IF j = i THEN result ELSE call[p].result[j]
  BY <1>2
<1>5. Working(p)' = Working(p) \ {i}
  <2>1. Working(p)' = {j \in Children(p) : c.result[j] = "working"}
    BY <1>1, <1>3 DEF Working
  <2> QED
    BY <1>4, <2>1 DEF Working
<1>6. /\ \A j \in Working(p) : call[p].row[j] \in DOMAIN rows
                               /\ rows[call[p].row[j]].parent = p /\ rows[call[p].row[j]].spec = call[p].specs[j]
      /\ \A j, k \in Working(p) : call[p].row[j] = call[p].row[k] => j = k
  BY DEF DelegationInv, WorkHasItsRow
<1> DEFINE row == call[p].row[i]
<1>7. /\ rows' \in Seq(Rows) /\ Len(rows') = Len(rows) /\ DOMAIN rows' = DOMAIN rows
      /\ \A r \in DOMAIN rows : /\ rows'[r].parent = rows[r].parent /\ rows'[r].spec = rows[r].spec
                                /\ rows'[r].status = "pending" => rows[r].status = "pending"
      /\ result # "rejected" => rows'[row].status = result
  <2>1. CASE result = "rejected"
    BY <1>0, <2>1
  <2>2. CASE result # "rejected"
    <3>1. rows' = [rows EXCEPT ![row].status = result] /\ row \in DOMAIN rows /\ result \in {"completed", "failed"}
      BY <1>6, <2>2 DEF SettleRow
    <3> HIDE DEF row
    <3>2. \A r \in DOMAIN rows : rows[r] \in Rows
      BY <1>0
    <3>3. DOMAIN rows' = DOMAIN rows /\ rows'[row] = [rows[row] EXCEPT !.status = result]
          /\ \A r \in DOMAIN rows : r # row => rows'[r] = rows[r]
      BY <3>1
    <3>4. rows[row] \in Rows /\ rows'[row] \in Rows /\ rows'[row].status = result /\ rows'[row].parent = rows[row].parent
          /\ rows'[row].spec = rows[row].spec
      <4>1. rows[row] \in Rows
        BY <3>1, <3>2
      <4> DEFINE x == rows[row]
      <4>2. x \in Rows /\ [x EXCEPT !.status = result] \in Rows /\ [x EXCEPT !.status = result].status = result
            /\ [x EXCEPT !.status = result].parent = x.parent /\ [x EXCEPT !.status = result].spec = x.spec
        <5> HIDE DEF x
        <5> QED
          BY <3>1, <4>1 DEF Rows, x
      <4> QED
        BY <3>3, <4>1, <4>2
    <3>5. \A r \in DOMAIN rows : rows'[r] \in Rows
      BY <3>2, <3>3, <3>4
    <3>6. rows' \in Seq(Rows) /\ Len(rows') = Len(rows)
      <4>1. DOMAIN rows = 1..Len(rows) /\ Len(rows) \in Nat
        BY <1>0
      <4>2. rows' \in [1..Len(rows) -> Rows]
        BY <3>1, <3>3, <3>5, <4>1
      <4> QED
        BY <4>1, <4>2
    <3> QED
      BY <3>1, <3>3, <3>4, <3>6
  <2> QED
    BY <2>1, <2>2
<1>8. RowsGrow /\ OthersRest(p)
  BY <1>1, <1>7 DEF RowsGrow, OthersRest
<1>9. WorkHasItsRow(p)'
  BY <1>1, <1>5, <1>6, <1>7 DEF WorkHasItsRow
<1>10. daemon = "up" =>
        \A r \in DOMAIN rows' : rows'[r].parent = p /\ rows'[r].status = "pending" => Taken(r)'
  <2> SUFFICES ASSUME daemon = "up", NEW r \in DOMAIN rows', rows'[r].parent = p, rows'[r].status = "pending"
               PROVE  Taken(r)'
    OBVIOUS
  <2>1. r \in DOMAIN rows /\ rows[r].parent = p /\ rows[r].status = "pending"
    BY <1>7
  <2>2. Taken(r)
    BY <2>1, TakenIsMeant DEF DelegationInv
  <2>3. CASE \E j \in Working(p) : call[p].row[j] = r
    <3>1. PICK j \in Working(p) : call[p].row[j] = r
      BY <2>3
    <3>2. CASE j # i
      BY <1>1, <1>5, <1>7, <3>1, <3>2 DEF Taken
    <3>3. CASE j = i
      <4>1. result = "rejected"
        BY <1>7, <3>1, <3>3
      <4>2. c.result[i] = "rejected" /\ c.specs[i] = rows[r].spec
        BY <1>2, <1>4, <1>6, <3>1, <3>3, <4>1
      <4> QED
        BY <1>1, <1>2, <1>3, <1>7, <2>1, <4>2 DEF Taken
    <3> QED
      BY <3>2, <3>3
  <2>4. CASE rows[r].spec \in ToSet(recover[p])
    BY <1>7, <2>1, <2>4 DEF Taken
  <2>5. CASE \E later \in DOMAIN rows : later > r /\ rows[later].parent = p /\ rows[later].spec = rows[r].spec
    BY <1>7, <2>1, <2>5 DEF Taken
  <2>6. CASE \E j \in Children(p) : call[p].result[j] = "rejected" /\ call[p].specs[j] = rows[r].spec
    <3>1. PICK j \in Children(p) : call[p].result[j] = "rejected" /\ call[p].specs[j] = rows[r].spec
      BY <2>6
    <3>2. j # i
      BY <3>1 DEF Working
    <3>3. c.result[j] = "rejected"
      BY <1>4, <3>1, <3>2
    <3>4. j \in Children(p)' /\ call'[p].result[j] = "rejected" /\ call'[p].specs[j] = rows'[r].spec
      <4>1. rows'[r].spec = rows[r].spec
        BY <1>7, <2>1
      <4> QED
        BY <1>1, <1>3, <3>1, <3>3, <4>1
    <3> QED
      BY <2>1, <3>4 DEF Taken
  <2> QED
    BY <2>1, <2>2, <2>3, <2>4, <2>5, <2>6 DEF Taken
<1>11. Len(c.result) = Len(call[p].result)
  <2>1. call[p].result \in Seq({"working", "completed", "failed", "rejected"})
    BY <1>0 DEF Calls
  <2> QED
    BY <1>2, <2>1
<1>12. DelegationInv'
  <2>1. Len(c.row) = Len(c.specs) /\ Len(c.result) = Len(c.specs) /\ Len(rows') <= MaxRows /\ daemon' = daemon
        /\ recover' \in [Parents -> Seq(Specs)] /\ rows' \in Seq(Rows)
        /\ \A r \in DOMAIN rows' : r \notin DOMAIN rows => rows'[r].parent = p
    BY <1>0, <1>7, <1>11
  <2>2. CallIsInOrder(p)'
    BY <1>5
  <2> QED
    BY <1>8, <1>9, <1>10, <2>1, <2>2, OneCallMoves
<1> QED
  BY <1>5, <1>8, <1>12

(* Behind child n the loop is at a later failed child, or at the synthesis. *)
LEMMA TheLoopGoesOn ==
    ASSUME DelegationInv, NEW p \in Parents, NEW n \in Nat
    PROVE  \E c \in Calls :
             /\ c = ContinueBehind(p, n)
             /\ c.specs = call[p].specs /\ c.row = call[p].row /\ c.result = call[p].result
             /\ \/ c.stage = "synthesis"
                \/ c.stage = "rewriting" /\ c.turn \in Children(p) /\ c.turn > n /\ call[p].result[c.turn] = "failed"
<1> DEFINE failed == FailedFrom(p, n + 1)
           least == CHOOSE i \in failed : \A j \in failed : i <= j
<1>1. call[p] \in Calls
  BY DEF DelegationInv, DelegationTypes
<1>2. Children(p) \subseteq Nat
  BY <1>1 DEF Children, Calls
<1>3. CASE failed = {}
  <2> DEFINE c == [call[p] EXCEPT !.stage = "synthesis", !.turn = 0]
  <2>1. c \in Calls /\ c.stage = "synthesis" /\ c.specs = call[p].specs /\ c.row = call[p].row /\ c.result = call[p].result
    BY <1>1 DEF Calls, Stages
  <2> HIDE DEF failed
  <2>2. ContinueBehind(p, n) = c
    BY <1>3 DEF ContinueBehind, failed
  <2> QED
    BY <2>1, <2>2
<1>4. CASE failed # {}
  <2>1. \E i \in failed : \A j \in failed : i <= j
    BY <1>2, <1>4, LeastExists DEF FailedFrom
  <2>2. least \in failed
    BY <2>1
  <2>3. least \in Children(p) /\ least \in Nat /\ least > n /\ call[p].result[least] = "failed"
    BY <1>2, <2>2 DEF FailedFrom
  <2> DEFINE c == [call[p] EXCEPT !.stage = "rewriting", !.turn = least]
  <2>4. ContinueBehind(p, n) = c
    BY <1>4 DEF ContinueBehind
  <2> HIDE DEF least
  <2>5. c \in Calls /\ c.stage = "rewriting" /\ c.turn = least
        /\ c.specs = call[p].specs /\ c.row = call[p].row /\ c.result = call[p].result
    BY <1>1, <2>3 DEF Calls, Stages
  <2> QED
    BY <2>3, <2>4, <2>5
<1> QED
  BY <1>3, <1>4

(* The stage alone goes on.                                                 *)
LEMMA AStageFollows ==
    ASSUME DelegationInv, NEW p \in Parents, NEW stage \in Stages
    PROVE  \E c \in Calls :
             /\ c = [call[p] EXCEPT !.stage = stage]
             /\ c.stage = stage /\ c.specs = call[p].specs /\ c.row = call[p].row /\ c.result = call[p].result
             /\ c.turn = call[p].turn
<1>1. call[p] \in Calls
  BY DEF DelegationInv, DelegationTypes
<1>2. [call[p] EXCEPT !.stage = stage] \in Calls
  BY <1>1 DEF Calls
<1> QED
  BY <1>1, <1>2 DEF Calls

(* One call changes.                                                        *)
LEMMA CallsChange ==
    ASSUME DelegationInv, NEW p \in Parents, NEW c, call' = [call EXCEPT ![p] = c]
    PROVE  call'[p] = c /\ \A q \in Parents \ {p} : call'[q] = call[q]
BY DEF DelegationInv, DelegationTypes

(* One lemma per action: it keeps the invariant, and what of it the fork    *)
(* sees.                                                                    *)
LEMMA ReviewKeeps ==
    ASSUME DelegationInv, NEW p \in Parents, ReviewChildren(p)
    PROVE  /\ DelegationInv'
           /\ Working(p) = {} /\ Working(p)' = {} /\ call[p].stage = "children"
           /\ \A q \in Parents \ {p} : call'[q] = call[q]
<1>1. PICK c \in Calls :
         /\ c = ContinueBehind(p, 0)
         /\ c.specs = call[p].specs /\ c.row = call[p].row /\ c.result = call[p].result
         /\ \/ c.stage = "synthesis"
            \/ c.stage = "rewriting" /\ c.turn \in Children(p) /\ c.turn > 0 /\ call[p].result[c.turn] = "failed"
  BY TheLoopGoesOn
<1>2. call' = [call EXCEPT ![p] = c] /\ UNCHANGED << rows, recover, daemon >> /\ Working(p) = {}
  BY <1>1 DEF ReviewChildren, AllSettled
<1>3. call'[p] = c /\ \A q \in Parents \ {p} : call'[q] = call[q]
  BY <1>2, CallsChange
<1>4. Children(p)' = Children(p) /\ Working(p)' = {}
  BY <1>1, <1>2, <1>3 DEF Children, Working
<1>5. CallIsInOrder(p)'
  BY <1>1, <1>3, <1>4 DEF CallIsInOrder
<1>6. DelegationInv'
  BY <1>1, <1>2, <1>5, QuietMove
<1>7. call[p].stage = "children"
  BY DEF ReviewChildren, AllSettled
<1> QED
  BY <1>2, <1>3, <1>4, <1>6, <1>7

LEMMA SynthesisKeeps ==
    ASSUME DelegationInv, NEW p \in Parents, SynthesisEnds(p)
    PROVE  /\ DelegationInv'
           /\ Working(p) = {} /\ Working(p)' = {} /\ call[p].stage = "synthesis" /\ call'[p].stage = "returned"
           /\ \A q \in Parents \ {p} : call'[q] = call[q]
<1>1. PICK c \in Calls :
         /\ c = [call[p] EXCEPT !.stage = "returned"]
         /\ c.stage = "returned" /\ c.specs = call[p].specs /\ c.row = call[p].row /\ c.result = call[p].result
  BY AStageFollows DEF Stages
<1>2. call' = [call EXCEPT ![p] = c] /\ UNCHANGED << rows, recover, daemon >> /\ Working(p) = {}
  BY <1>1 DEF SynthesisEnds, DelegationInv, CallIsInOrder, DelegationTypes
<1>3. call'[p] = c /\ \A q \in Parents \ {p} : call'[q] = call[q]
  BY <1>2, CallsChange
<1>4. Children(p)' = Children(p) /\ Working(p)' = {}
  BY <1>1, <1>2, <1>3 DEF Children, Working
<1>5. CallIsInOrder(p)'
  BY <1>1, <1>3, <1>4 DEF CallIsInOrder
<1>6. DelegationInv'
  BY <1>1, <1>2, <1>5, QuietMove
<1>7. call[p].stage = "synthesis"
  BY DEF SynthesisEnds
<1> QED
  BY <1>1, <1>2, <1>3, <1>4, <1>6, <1>7

LEMMA ChildKeeps ==
    ASSUME DelegationInv, NEW p \in Parents, NEW i \in Children(p), ChildEnds(p, i)
    PROVE  DelegationInv' /\ RowsGrow /\ Working(p)' = Working(p) \ {i}
           /\ i \in Working(p) /\ call[p].stage = "children"
           /\ call'[p].stage = "children" /\ call'[p].row = call[p].row
           /\ \A q \in Parents \ {p} : call'[q] = call[q]
<1>1. /\ i \in Working(p) /\ call[p].stage = "children" /\ UNCHANGED << recover, daemon >>
      /\ \E result \in {"completed", "failed", "rejected"} :
           /\ IF result = "rejected" THEN UNCHANGED rows ELSE SettleRow(call[p].row[i], result)
           /\ call' = [call EXCEPT ![p].result[i] = result]
  BY DEF ChildEnds
<1>2. PICK result \in {"completed", "failed", "rejected"} :
           /\ IF result = "rejected" THEN UNCHANGED rows ELSE SettleRow(call[p].row[i], result)
           /\ call' = [call EXCEPT ![p].result[i] = result]
  BY <1>1
<1>3. call[p] \in Calls
  BY DEF DelegationInv, DelegationTypes
<1> DEFINE c == [call[p] EXCEPT !.result[i] = result]
<1>4. call' = [call EXCEPT ![p] = c]
  BY <1>2
<1>5. c \in Calls /\ c.stage = call[p].stage /\ c.specs = call[p].specs /\ c.row = call[p].row
      /\ c.result = [call[p].result EXCEPT ![i] = result]
  <2> DEFINE R == [call[p].result EXCEPT ![i] = result]
  <2>1. R \in Seq({"working", "completed", "failed", "rejected"})
    <3>1. call[p].result \in Seq({"working", "completed", "failed", "rejected"})
      BY <1>3 DEF Calls
    <3>2. i \in 1..Len(call[p].result)
      <4>1. i \in Children(p) /\ Len(call[p].result) = Len(call[p].specs) /\ call[p].specs \in Seq(Specs)
        BY <1>1, <1>3 DEF Working, Calls, DelegationInv, DelegationTypes
      <4> QED
        BY <4>1 DEF Children
    <3> QED
      BY <3>1, <3>2, ExceptSeq
  <2> HIDE DEF R
  <2>2. c = [call[p] EXCEPT !.result = R]
    BY DEF R
  <2> QED
    BY <1>3, <2>1, <2>2 DEF Calls, R
<1> HIDE DEF c
<1>6. call'[p] = c /\ \A q \in Parents \ {p} : call'[q] = call[q]
  BY <1>4, CallsChange
<1>7. CallIsInOrder(p)'
  BY <1>1, <1>5, <1>6 DEF CallIsInOrder
<1>8. DelegationInv' /\ RowsGrow /\ Working(p)' = Working(p) \ {i}
  <2>1. UNCHANGED << recover, daemon >> /\ i \in Working(p)
    BY <1>1
  <2>2. IF result = "rejected" THEN UNCHANGED rows ELSE SettleRow(call[p].row[i], result)
    BY <1>2
  <2> HIDE DEF CallIsInOrder, Working, SettleRow, Children, DelegationInv
  <2> QED
    BY <1>4, <1>5, <1>7, <2>1, <2>2, SettleMove
<1> QED
  BY <1>1, <1>5, <1>6, <1>8

Results == {"working", "completed", "failed", "rejected"}

(* One entry of a child is replaced.                                        *)
LEMMA ResultsChange ==
    ASSUME NEW b \in Calls, Len(b.result) = Len(b.specs), NEW i \in DOMAIN b.specs, NEW result \in Results
    PROVE  \E c \in Calls :
             /\ c = [b EXCEPT !.result[i] = result]
             /\ c.stage = b.stage /\ c.specs = b.specs /\ c.row = b.row /\ c.turn = b.turn
             /\ c.result = [b.result EXCEPT ![i] = result]
<1> DEFINE R == [b.result EXCEPT ![i] = result]
           c == [b EXCEPT !.result = R]
<1>1. b.result \in Seq(Results) /\ i \in 1..Len(b.result)
  BY DEF Calls, Results
<1>2. R \in Seq(Results)
  BY <1>1, ExceptSeq
<1>3. c = [b EXCEPT !.result[i] = result]
  OBVIOUS
<1> HIDE DEF R
<1>4. c \in Calls /\ c.stage = b.stage /\ c.specs = b.specs /\ c.row = b.row /\ c.turn = b.turn /\ c.result = R
  BY <1>2 DEF Calls, Results
<1> HIDE DEF c
<1> QED
  BY <1>3, <1>4 DEF R

LEMMA RetryKeeps ==
    ASSUME DelegationInv, NEW p \in Parents, RetryEnds(p)
    PROVE  /\ DelegationInv' /\ RowsGrow
           /\ Working(p) = {call[p].turn} /\ Working(p)' = {}
           /\ \A q \in Parents \ {p} : call'[q] = call[q]
           /\ call[p].stage = "retrying"
<1> DEFINE i == call[p].turn
<1>1. /\ call[p].stage = "retrying" /\ UNCHANGED << recover, daemon >>
      /\ call[p] \in Calls /\ Len(call[p].result) = Len(call[p].specs) /\ Len(call[p].row) = Len(call[p].specs)
      /\ call[p].specs \in Seq(Specs)
  BY DEF RetryEnds, DelegationInv, DelegationTypes, Calls
<1>2. Working(p) = {i} /\ i \in Children(p) /\ i \in DOMAIN call[p].specs /\ i \in Nat
  <2>1. Working(p) = {i}
    BY <1>1 DEF DelegationInv, CallIsInOrder
  <2>2. i \in DOMAIN call[p].specs
    BY <2>1 DEF Working, Children
  <2> QED
    BY <1>1, <2>1, <2>2 DEF Children
<1>3. PICK b \in Calls, result \in {"completed", "failed", "rejected"} :
        /\ IF result = "rejected" THEN UNCHANGED rows ELSE SettleRow(call[p].row[i], result)
        /\ call' = [call EXCEPT ![p] = [b EXCEPT !.result[i] = result]]
        /\ b.specs = call[p].specs /\ b.row = call[p].row /\ b.result = call[p].result
        /\ \/ b.stage \in {"synthesis", "rejected"}
           \/ b.stage = "rewriting" /\ b.turn \in Children(p) /\ b.turn > i /\ call[p].result[b.turn] = "failed"
  <2>1. CASE \E result \in {"completed", "failed"} :
                /\ SettleRow(call[p].row[i], result)
                /\ call' = [call EXCEPT ![p] = [ContinueBehind(p, i) EXCEPT !.result[i] = result]]
    <3>1. PICK result \in {"completed", "failed"} :
                /\ SettleRow(call[p].row[i], result)
                /\ call' = [call EXCEPT ![p] = [ContinueBehind(p, i) EXCEPT !.result[i] = result]]
      BY <2>1
    <3>2. PICK b \in Calls :
             /\ b = ContinueBehind(p, i)
             /\ b.specs = call[p].specs /\ b.row = call[p].row /\ b.result = call[p].result
             /\ \/ b.stage = "synthesis"
                \/ b.stage = "rewriting" /\ b.turn \in Children(p) /\ b.turn > i /\ call[p].result[b.turn] = "failed"
      BY <1>2, TheLoopGoesOn
    <3>3. call' = [call EXCEPT ![p] = [b EXCEPT !.result[i] = result]]
          /\ (IF result = "rejected" THEN UNCHANGED rows ELSE SettleRow(call[p].row[i], result))
      BY <3>1, <3>2
    <3> QED
      BY <3>2, <3>3
  <2>2. CASE call' = [call EXCEPT ![p].stage = "rejected", ![p].result[i] = "rejected"] /\ UNCHANGED rows
    <3>1. PICK b \in Calls :
             /\ b = [call[p] EXCEPT !.stage = "rejected"]
             /\ b.stage = "rejected" /\ b.specs = call[p].specs /\ b.row = call[p].row /\ b.result = call[p].result
      BY AStageFollows DEF Stages
    <3>2. call' = [call EXCEPT ![p] = [b EXCEPT !.result[i] = "rejected"]]
      <4>1. [call EXCEPT ![p].stage = "rejected", ![p].result[i] = "rejected"]
            = [call EXCEPT ![p] = [[call[p] EXCEPT !.stage = "rejected"] EXCEPT !.result[i] = "rejected"]]
        BY DEF DelegationInv, DelegationTypes
      <4> QED
        BY <2>2, <3>1, <4>1
    <3> QED
      BY <2>2, <3>1, <3>2
  <2> QED
    BY <2>1, <2>2 DEF RetryEnds
<1>4. PICK c \in Calls :
             /\ c = [b EXCEPT !.result[i] = result]
             /\ c.stage = b.stage /\ c.specs = b.specs /\ c.row = b.row /\ c.turn = b.turn
             /\ c.result = [b.result EXCEPT ![i] = result]
  <2>1. b \in Calls /\ Len(b.result) = Len(b.specs) /\ i \in DOMAIN b.specs
    BY <1>1, <1>2, <1>3
  <2>2. result \in Results
    BY DEF Results
  <2> HIDE DEF i
  <2> QED
    BY <2>1, <2>2, ResultsChange
<1>5. call' = [call EXCEPT ![p] = c]
  BY <1>3, <1>4
<1>6. call'[p] = c /\ \A q \in Parents \ {p} : call'[q] = call[q]
  BY <1>5, CallsChange
<1>7. ASSUME Working(p)' = Working(p) \ {i} PROVE CallIsInOrder(p)'
  <2>1. Working(p)' = {}
    BY <1>2, <1>7
  <2>2. CASE c.stage \in {"synthesis", "rejected"}
    BY <1>6, <2>1, <2>2 DEF CallIsInOrder
  <2>3. CASE c.stage = "rewriting"
    <3>1. b.turn \in Children(p) /\ b.turn # i /\ call[p].result[b.turn] = "failed"
      BY <1>2, <1>3, <1>4, <2>3
    <3>2. c.turn \in Children(p)' /\ c.result[c.turn] = "failed"
      <4>1. Children(p)' = Children(p)
        BY <1>3, <1>4, <1>6 DEF Children
      <4>2. c.result[b.turn] = b.result[b.turn]
        <5>1. DOMAIN b.result = Children(p)
          <6>1. call[p].result \in Seq(Results)
            BY <1>1 DEF Calls, Results
          <6> QED
            BY <1>1, <1>3, <6>1 DEF Children
        <5> QED
          BY <1>4, <3>1, <5>1
      <4> QED
        BY <1>3, <1>4, <3>1, <4>1, <4>2
    <3> QED
      BY <1>6, <2>1, <2>3, <3>2 DEF CallIsInOrder
  <2> QED
    BY <1>3, <1>4, <2>2, <2>3
<1>8. DelegationInv' /\ RowsGrow /\ Working(p)' = Working(p) \ {i}
  <2>1. c.specs = call[p].specs /\ c.row = call[p].row /\ c.result = [call[p].result EXCEPT ![i] = result]
    BY <1>3, <1>4
  <2>2. IF result = "rejected" THEN UNCHANGED rows ELSE SettleRow(call[p].row[i], result)
    BY <1>3
  <2>3. UNCHANGED << recover, daemon >> /\ i \in Working(p)
    BY <1>1, <1>2
  <2> HIDE DEF i, CallIsInOrder, Working, SettleRow, Children, DelegationInv
  <2> QED
    BY <1>5, <1>7, <2>1, <2>2, <2>3, SettleMove
<1> QED
  BY <1>1, <1>2, <1>6, <1>8

LEMMA RewriteKeeps ==
    ASSUME DelegationInv, NEW p \in Parents, RewriteEnds(p)
    PROVE  /\ DelegationInv' /\ RowsGrow
           /\ Working(p) = {} /\ call[p].stage = "rewriting"
           /\ \/ Working(p)' = {}
              \/ /\ call'[p].stage = "retrying"
                 /\ \E b \in 1..MaxRows : \E i \in Children(p)' : Working(p)' = {i} /\ call'[p].row[i] = b
           /\ \A q \in Parents \ {p} : call'[q] = call[q]
<1> DEFINE i == call[p].turn
<1>1. /\ call[p].stage = "rewriting" /\ UNCHANGED << recover, daemon >>
      /\ call[p] \in Calls /\ Len(call[p].result) = Len(call[p].specs) /\ Len(call[p].row) = Len(call[p].specs)
      /\ call[p].specs \in Seq(Specs) /\ call \in [Parents -> Calls]
      /\ rows \in Seq(Rows) /\ Len(rows) \in Nat /\ Len(rows) <= MaxRows /\ recover \in [Parents -> Seq(Specs)]
  <2>1. call[p].stage = "rewriting" /\ UNCHANGED << recover, daemon >>
    BY DEF RewriteEnds
  <2>2. /\ call \in [Parents -> Calls] /\ rows \in Seq(Rows) /\ Len(rows) <= MaxRows
        /\ recover \in [Parents -> Seq(Specs)]
        /\ Len(call[p].result) = Len(call[p].specs) /\ Len(call[p].row) = Len(call[p].specs)
    BY DEF DelegationInv, DelegationTypes
  <2>3. call[p] \in Calls /\ call[p].specs \in Seq(Specs)
    BY <2>2 DEF Calls
  <2> HIDE DEF Rows
  <2> QED
    BY <2>1, <2>2, <2>3
<1>2. Working(p) = {} /\ i \in Children(p) /\ call[p].result[i] = "failed" /\ i \in 1..Len(call[p].specs) /\ i \in Nat
  <2>1. Working(p) = {} /\ i \in Children(p) /\ call[p].result[i] = "failed"
    BY <1>1 DEF DelegationInv, CallIsInOrder
  <2> QED
    BY <1>1, <2>1 DEF Children
<1>3. CASE /\ UNCHANGED rows
           /\ \/ call' = [call EXCEPT ![p] = ContinueBehind(p, i)]
              \/ call' = [call EXCEPT ![p].stage = "rejected"]
  <2>1. PICK c \in Calls :
         /\ call' = [call EXCEPT ![p] = c]
         /\ c.specs = call[p].specs /\ c.row = call[p].row /\ c.result = call[p].result
         /\ \/ c.stage \in {"synthesis", "rejected"}
            \/ c.stage = "rewriting" /\ c.turn \in Children(p) /\ c.turn > i /\ call[p].result[c.turn] = "failed"
    <3>1. CASE call' = [call EXCEPT ![p] = ContinueBehind(p, i)]
      BY <1>2, <3>1, TheLoopGoesOn
    <3>2. CASE call' = [call EXCEPT ![p].stage = "rejected"]
      <4>1. PICK b \in Calls :
             /\ b = [call[p] EXCEPT !.stage = "rejected"]
             /\ b.stage = "rejected" /\ b.specs = call[p].specs /\ b.row = call[p].row /\ b.result = call[p].result
        BY AStageFollows DEF Stages
      <4>2. call' = [call EXCEPT ![p] = b]
        BY <3>2, <4>1
      <4> QED
        BY <4>1, <4>2
    <3> QED
      BY <1>3, <3>1, <3>2
  <2>2. call'[p] = c /\ \A q \in Parents \ {p} : call'[q] = call[q]
    BY <2>1, CallsChange
  <2>3. Children(p)' = Children(p) /\ Working(p)' = {}
    BY <1>2, <2>1, <2>2 DEF Children, Working
  <2>4. CallIsInOrder(p)'
    BY <2>1, <2>2, <2>3 DEF CallIsInOrder
  <2>5. DelegationInv'
    BY <1>1, <1>3, <2>1, <2>4, QuietMove
  <2>6. RowsGrow
    BY <1>3 DEF RowsGrow
  <2> QED
    BY <1>1, <1>2, <2>2, <2>3, <2>5, <2>6
<1>4. CASE /\ Len(rows) < MaxRows
           /\ \E s \in Specs :
                /\ rows' = Append(rows, PendingRow(p, s))
                /\ call' = [call EXCEPT ![p].stage = "retrying", ![p].row[i] = Len(rows) + 1,
                                        ![p].specs[i] = s, ![p].result[i] = "working"]
  <2>1. PICK s \in Specs :
                /\ rows' = Append(rows, PendingRow(p, s))
                /\ call' = [call EXCEPT ![p].stage = "retrying", ![p].row[i] = Len(rows) + 1,
                                        ![p].specs[i] = s, ![p].result[i] = "working"]
    BY <1>4
  <2> DEFINE old == call[p]
             c == [[[[old EXCEPT !.stage = "retrying"] EXCEPT !.row[i] = Len(rows) + 1]
                         EXCEPT !.specs[i] = s] EXCEPT !.result[i] = "working"]
             RR == [old.row EXCEPT ![i] = Len(rows) + 1]
             SS == [old.specs EXCEPT ![i] = s]
             TT == [old.result EXCEPT ![i] = "working"]
  <2>2. call' = [call EXCEPT ![p] = c]
    BY <1>1, <2>1
  <2>3. /\ RR \in Seq(Nat) /\ Len(RR) = Len(old.row)
        /\ SS \in Seq(Specs) /\ Len(SS) = Len(old.specs)
        /\ TT \in Seq(Results) /\ Len(TT) = Len(old.result)
        /\ \A j \in 1..Len(old.specs) : /\ RR[j] = IF j = i THEN Len(rows) + 1 ELSE old.row[j]
                                        /\ SS[j] = IF j = i THEN s ELSE old.specs[j]
                                        /\ TT[j] = IF j = i THEN "working" ELSE old.result[j]
    <3>1. old.row \in Seq(Nat) /\ old.specs \in Seq(Specs) /\ old.result \in Seq(Results)
          /\ i \in 1..Len(old.row) /\ i \in 1..Len(old.specs) /\ i \in 1..Len(old.result)
          /\ Len(rows) + 1 \in Nat /\ "working" \in Results /\ Len(old.row) = Len(old.specs)
          /\ Len(old.result) = Len(old.specs)
      BY <1>1, <1>2 DEF Calls, Results
    <3> HIDE DEF old, i
    <3>2. /\ RR \in Seq(Nat) /\ Len(RR) = Len(old.row)
          /\ \A j \in 1..Len(old.row) : RR[j] = IF j = i THEN Len(rows) + 1 ELSE old.row[j]
      BY <3>1, ExceptSeq
    <3>3. /\ SS \in Seq(Specs) /\ Len(SS) = Len(old.specs)
          /\ \A j \in 1..Len(old.specs) : SS[j] = IF j = i THEN s ELSE old.specs[j]
      BY <3>1, ExceptSeq
    <3>4. /\ TT \in Seq(Results) /\ Len(TT) = Len(old.result)
          /\ \A j \in 1..Len(old.result) : TT[j] = IF j = i THEN "working" ELSE old.result[j]
      BY <3>1, ExceptSeq
    <3> QED
      BY <3>1, <3>2, <3>3, <3>4
  <2>4. c \in Calls /\ c.stage = "retrying" /\ c.specs = SS /\ c.row = RR /\ c.result = TT /\ c.turn = i
    <3>1. old = [stage |-> old.stage, specs |-> old.specs, row |-> old.row, result |-> old.result, turn |-> old.turn]
          /\ old.turn \in Nat
      BY <1>1 DEF Calls
    <3>2. c = [stage |-> "retrying", specs |-> SS, row |-> RR, result |-> TT, turn |-> old.turn]
      <4> DEFINE a == old.specs
                 b == old.row
                 d == old.result
                 t == old.turn
                 x == [stage |-> old.stage, specs |-> a, row |-> b, result |-> d, turn |-> t]
      <4>1. old = x
        BY <3>1
      <4>2. [[[[x EXCEPT !.stage = "retrying"] EXCEPT !.row[i] = Len(rows) + 1]
                    EXCEPT !.specs[i] = s] EXCEPT !.result[i] = "working"]
            = [stage |-> "retrying", specs |-> [a EXCEPT ![i] = s], row |-> [b EXCEPT ![i] = Len(rows) + 1],
               result |-> [d EXCEPT ![i] = "working"], turn |-> t]
        <5> DEFINE n == Len(rows) + 1
                   x1 == [x EXCEPT !.stage = "retrying"]
                   x2 == [x1 EXCEPT !.row[i] = n]
                   x3 == [x2 EXCEPT !.specs[i] = s]
                   bb == [b EXCEPT ![i] = n]
                   aa == [a EXCEPT ![i] = s]
        <5> HIDE DEF a, b, d, t, i, n
        <5>1. x1 = [stage |-> "retrying", specs |-> a, row |-> b, result |-> d, turn |-> t]
          OBVIOUS
        <5> HIDE DEF x1
        <5>2. x2 = [stage |-> "retrying", specs |-> a, row |-> bb, result |-> d, turn |-> t]
          BY <5>1
        <5> HIDE DEF x2, bb
        <5>3. x3 = [stage |-> "retrying", specs |-> aa, row |-> bb, result |-> d, turn |-> t]
          BY <5>2
        <5> HIDE DEF x3, aa
        <5>4. [x3 EXCEPT !.result[i] = "working"]
              = [stage |-> "retrying", specs |-> aa, row |-> bb, result |-> [d EXCEPT ![i] = "working"], turn |-> t]
          BY <5>3
        <5> QED
          BY <5>4 DEF aa, bb, x3, x2, x1, n
      <4> QED
        BY <4>1, <4>2
    <3> HIDE DEF c, SS, RR, TT
    <3>3. c \in Calls
      BY <2>3, <3>1, <3>2 DEF Calls, Stages, Results
    <3> QED
      BY <3>2, <3>3
  <2>5. call'[p] = c /\ \A q \in Parents \ {p} : call'[q] = call[q]
    BY <2>2, CallsChange
  <2> HIDE DEF c, SS, RR, TT, i
  <2>6. Children(p) = 1..Len(call[p].specs) /\ Children(p)' = Children(p)
    BY <1>1, <2>3, <2>4, <2>5 DEF Children
  <2>7. Working(p)' = {i}
    <3>1. Working(p)' = {j \in Children(p) : TT[j] = "working"}
      BY <2>4, <2>5, <2>6 DEF Working
    <3> QED
      BY <1>2, <2>3, <2>6, <3>1 DEF Working
  <2>8. /\ rows' \in Seq(Rows) /\ Len(rows') = Len(rows) + 1 /\ DOMAIN rows' = 1..(Len(rows) + 1)
        /\ DOMAIN rows = 1..Len(rows) /\ \A r \in 1..Len(rows) : rows'[r] = rows[r]
        /\ rows'[Len(rows) + 1] = PendingRow(p, s)
    <3>1. PendingRow(p, s) \in Rows
      BY DEF PendingRow, Rows
    <3> HIDE DEF Rows
    <3>2. rows \in Seq(Rows)
      BY <1>1
    <3> QED
      BY <2>1, <3>1, <3>2, AppendProperties
  <2>9. RowsGrow /\ OthersRest(p)
    BY <1>1, <2>5, <2>8 DEF RowsGrow, OthersRest
  <2>10. CallIsInOrder(p)'
    BY <2>4, <2>5, <2>7 DEF CallIsInOrder
  <2>11. call'[p].row[i] = Len(rows) + 1 /\ call'[p].specs[i] = s
    BY <1>2, <2>3, <2>4, <2>5
  <2>12. WorkHasItsRow(p)'
    BY <1>1, <2>7, <2>8, <2>11 DEF WorkHasItsRow, PendingRow
  <2>13. daemon = "up" =>
        \A r \in DOMAIN rows' : rows'[r].parent = p /\ rows'[r].status = "pending" => Taken(r)'
    <3> SUFFICES ASSUME daemon = "up", NEW r \in DOMAIN rows', rows'[r].parent = p, rows'[r].status = "pending"
                 PROVE  Taken(r)'
      OBVIOUS
    <3>1. CASE r = Len(rows) + 1
      BY <2>7, <2>11, <3>1 DEF Taken
    <3>2. CASE r # Len(rows) + 1
      <4>1. r \in DOMAIN rows /\ rows'[r] = rows[r] /\ rows[r].parent = p /\ rows[r].status = "pending"
        BY <1>1, <2>8, <3>2
      <4>2. Taken(r)
        BY <4>1, TakenIsMeant DEF DelegationInv
      <4>3. CASE rows[r].spec \in ToSet(recover[p])
        BY <1>1, <4>1, <4>3 DEF Taken
      <4>4. CASE \E later \in DOMAIN rows : later > r /\ rows[later].parent = p /\ rows[later].spec = rows[r].spec
        <5>1. PICK later \in DOMAIN rows : later > r /\ rows[later].parent = p /\ rows[later].spec = rows[r].spec
          BY <4>4
        <5>2. later \in DOMAIN rows' /\ rows'[later] = rows[later]
          BY <1>1, <2>8
        <5> QED
          BY <4>1, <5>1, <5>2 DEF Taken
      <4>5. CASE \E j \in Children(p) : call[p].result[j] = "rejected" /\ call[p].specs[j] = rows[r].spec
        <5>1. PICK j \in Children(p) : call[p].result[j] = "rejected" /\ call[p].specs[j] = rows[r].spec
          BY <4>5
        <5>2. j # i
          BY <1>2, <5>1
        <5>3. j \in Children(p)' /\ call'[p].result[j] = "rejected" /\ call'[p].specs[j] = rows[r].spec
          BY <2>3, <2>4, <2>5, <2>6, <5>1, <5>2
        <5> QED
          BY <4>1, <5>3 DEF Taken
      <4> QED
        BY <1>2, <4>1, <4>2, <4>3, <4>4, <4>5 DEF Taken
    <3> QED
      BY <3>1, <3>2
  <2>14. DelegationInv'
    <3>1. Len(c.row) = Len(c.specs) /\ Len(c.result) = Len(c.specs) /\ Len(rows') <= MaxRows /\ daemon' = daemon
        /\ recover' \in [Parents -> Seq(Specs)] /\ rows' \in Seq(Rows)
      BY <1>1, <1>4, <2>3, <2>4, <2>8, DelegationAssumption
    <3>2. \A r \in DOMAIN rows' : r \notin DOMAIN rows => rows'[r].parent = p
      BY <1>1, <2>8 DEF PendingRow
    <3> QED
      BY <2>2, <2>4, <2>9, <2>10, <2>12, <2>13, <3>1, <3>2, OneCallMoves
  <2>15. Len(rows) + 1 \in 1..MaxRows
    BY <1>1, <1>4, DelegationAssumption
  <2>16. i \in Children(p)'
    BY <1>2, <2>6
  <2> QED
    BY <1>1, <1>2, <2>4, <2>5, <2>7, <2>9, <2>11, <2>14, <2>15, <2>16
<1> QED
  BY <1>3, <1>4 DEF RewriteEnds

(* A fork keeps the invariant when its specs are those the startup has found *)
(* for p, or when p has no rows yet.                                        *)
LEMMA ForkMove ==
    ASSUME DelegationInv, NEW p \in Parents, NEW specs \in Seq(Specs), Dispatch(p, specs),
           call[p].stage = "none", daemon' = daemon, recover' \in [Parents -> Seq(Specs)],
           \A q \in Parents \ {p} : recover'[q] = recover[q],
           recover'[p] = recover[p] \/ ToSet(recover[p]) \subseteq ToSet(specs)
    PROVE  /\ DelegationInv' /\ RowsGrow
           /\ Working(p) = {} /\ call'[p].stage = "children"
           /\ \A i \in Working(p)' : call'[p].row[i] \in 1..MaxRows
           /\ \A q \in Parents \ {p} : call'[q] = call[q]
<1>1. PICK c \in Calls :
                /\ call' = [call EXCEPT ![p] = c]
                /\ c.stage = "children" /\ c.specs = specs
                /\ Len(c.row) = Len(specs) /\ Len(c.result) = Len(specs)
                /\ \A i \in DOMAIN specs : c.result[i] \in {"working", "rejected"}
                /\ \A i \in DOMAIN specs : c.result[i] = "working" =>
                      /\ c.row[i] \in DOMAIN rows' /\ c.row[i] > Len(rows)
                      /\ rows'[c.row[i]] = PendingRow(p, specs[i])
                /\ \A i, j \in DOMAIN specs :
                      c.result[i] = "working" /\ c.result[j] = "working" /\ c.row[i] = c.row[j] => i = j
                /\ \A r \in DOMAIN rows' : r \notin DOMAIN rows =>
                      \E i \in DOMAIN specs : c.result[i] = "working" /\ c.row[i] = r
  BY DispatchForks
<1>2. /\ rows' \in Seq(Rows) /\ Len(rows') <= MaxRows
      /\ DOMAIN rows \subseteq DOMAIN rows' /\ \A r \in DOMAIN rows : rows'[r] = rows[r]
  BY DispatchForks
<1>3. call'[p] = c /\ \A q \in Parents \ {p} : call'[q] = call[q]
  BY <1>1, CallsChange
<1>4. Children(p) = {} /\ Working(p) = {}
  BY DEF DelegationInv, CallIsInOrder, Working
<1>5. Children(p)' = DOMAIN specs /\ Working(p)' = {i \in DOMAIN specs : c.result[i] = "working"}
  BY <1>1, <1>3 DEF Children, Working
<1>6. RowsGrow /\ OthersRest(p)
  BY <1>2, <1>3 DEF RowsGrow, OthersRest
<1>7. CallIsInOrder(p)'
  BY <1>1, <1>3 DEF CallIsInOrder
<1>8. WorkHasItsRow(p)'
  <2>1. \A i \in Working(p)' : call'[p].row[i] \in DOMAIN rows' /\ rows'[call'[p].row[i]] = PendingRow(p, call'[p].specs[i])
    BY <1>1, <1>3, <1>5
  <2>2. \A i, j \in Working(p)' : call'[p].row[i] = call'[p].row[j] => i = j
    BY <1>1, <1>3, <1>5
  <2>3. \A s : PendingRow(p, s).parent = p /\ PendingRow(p, s).spec = s
    BY DEF PendingRow
  <2> QED
    BY <2>1, <2>2, <2>3 DEF WorkHasItsRow
<1>9. DOMAIN rows = 1..Len(rows) /\ DOMAIN rows' = 1..Len(rows') /\ Len(rows) \in Nat /\ Len(rows') \in Nat
  BY <1>2 DEF DelegationInv, DelegationTypes
<1>10. \A r \in DOMAIN rows' : r \notin DOMAIN rows => rows'[r].parent = p
  <2> SUFFICES ASSUME NEW r \in DOMAIN rows', r \notin DOMAIN rows PROVE rows'[r].parent = p
    OBVIOUS
  <2>1. PICK i \in DOMAIN specs : c.result[i] = "working" /\ c.row[i] = r
    BY <1>1
  <2>2. rows'[r] = PendingRow(p, specs[i])
    BY <1>1, <2>1
  <2> QED
    BY <2>2 DEF PendingRow
<1>11. daemon = "up" =>
        \A r \in DOMAIN rows' : rows'[r].parent = p /\ rows'[r].status = "pending" => Taken(r)'
  <2> SUFFICES ASSUME daemon = "up", NEW r \in DOMAIN rows', rows'[r].parent = p, rows'[r].status = "pending"
               PROVE  Taken(r)'
    OBVIOUS
  <2>1. CASE r \notin DOMAIN rows
    <3>1. \E i \in Working(p)' : call'[p].row[i] = r
      BY <1>1, <1>3, <1>5, <2>1
    <3> QED
      BY <3>1 DEF Taken
  <2>2. CASE r \in DOMAIN rows
    <3>1. rows'[r] = rows[r] /\ rows[r].parent = p /\ rows[r].status = "pending"
      BY <1>2, <2>2
    <3>2. Taken(r)
      BY <2>2, <3>1, TakenIsMeant DEF DelegationInv
    <3>3. CASE rows[r].spec \in ToSet(recover[p]) /\ recover'[p] = recover[p]
      BY <3>1, <3>3 DEF Taken
    <3>4. CASE rows[r].spec \in ToSet(specs)
      <4>1. PICK i \in DOMAIN specs : specs[i] = rows[r].spec
        BY <3>4 DEF ToSet
      <4>2. CASE c.result[i] = "rejected"
        <5>1. i \in Children(p)' /\ call'[p].result[i] = "rejected" /\ call'[p].specs[i] = rows'[r].spec
          BY <1>1, <1>3, <1>5, <3>1, <4>1, <4>2
        <5> QED
          BY <3>1, <5>1 DEF Taken
      <4>3. CASE c.result[i] = "working"
        <5> DEFINE later == c.row[i]
        <5>1. later \in DOMAIN rows' /\ later > Len(rows) /\ rows'[later] = PendingRow(p, specs[i])
          BY <1>1, <4>3
        <5>2. later > r /\ rows'[later].parent = p /\ rows'[later].spec = rows'[r].spec
          BY <1>9, <2>2, <3>1, <4>1, <5>1 DEF PendingRow
        <5> QED
          BY <3>1, <5>1, <5>2 DEF Taken
      <4> QED
        BY <1>1, <4>2, <4>3
    <3>5. CASE \E later \in DOMAIN rows : later > r /\ rows[later].parent = p /\ rows[later].spec = rows[r].spec
      <4>1. PICK later \in DOMAIN rows : later > r /\ rows[later].parent = p /\ rows[later].spec = rows[r].spec
        BY <3>5
      <4>2. later \in DOMAIN rows' /\ rows'[later] = rows[later]
        BY <1>2
      <4> QED
        BY <3>1, <4>1, <4>2 DEF Taken
    <3> QED
      BY <1>4, <3>1, <3>2, <3>3, <3>4, <3>5 DEF Taken
  <2> QED
    BY <2>1, <2>2
<1>12. DelegationInv'
  <2>1. Len(c.row) = Len(c.specs) /\ Len(c.result) = Len(c.specs)
    BY <1>1
  <2> QED
    BY <1>1, <1>2, <1>6, <1>7, <1>8, <1>10, <1>11, <2>1, OneCallMoves
<1>13. \A i \in Working(p)' : call'[p].row[i] \in 1..MaxRows
  BY <1>1, <1>2, <1>3, <1>5, <1>9, DelegationAssumption
<1> QED
  BY <1>1, <1>3, <1>4, <1>6, <1>12, <1>13

(* The specs that are dispatched are specs; all of them, when there are not *)
(* too many.                                                                *)
LEMMA FirstOfIsASequence ==
    ASSUME NEW s \in Seq(Specs), NEW max \in Nat
    PROVE  /\ SubSeq(s, 1, IF Len(s) > max THEN max ELSE Len(s)) \in Seq(Specs)
           /\ Len(s) <= max => SubSeq(s, 1, IF Len(s) > max THEN max ELSE Len(s)) = s
<1> DEFINE m == IF Len(s) > max THEN max ELSE Len(s)
<1>1. m \in 0..Len(s) /\ m \in Nat /\ (Len(s) <= max => m = Len(s)) /\ Len(s) \in Nat
  OBVIOUS
<1> HIDE DEF m
<1>2. SubSeq(s, 1, m) \in Seq(Specs) /\ Len(SubSeq(s, 1, m)) = m /\ \A n \in 1..m : SubSeq(s, 1, m)[n] = s[n]
  BY <1>1
<1>3. Len(s) <= max => SubSeq(s, 1, m) = s
  BY <1>1, <1>2, SeqEqual
<1> QED
  BY <1>2, <1>3 DEF m

LEMMA DelegateKeeps ==
    ASSUME DelegationInv, NEW p \in Parents, Delegate(p)
    PROVE  /\ DelegationInv' /\ RowsGrow
           /\ Working(p) = {} /\ call[p].stage = "none" /\ call'[p].stage = "children"
           /\ \A i \in Working(p)' : call'[p].row[i] \in 1..MaxRows
           /\ \A q \in Parents \ {p} : call'[q] = call[q]
<1>1. PICK manifest \in Manifests[p] :
        /\ call[p].stage = "none"
        /\ Dispatch(p, SubSeq(manifest, 1, IF Len(manifest) > MaxChildren THEN MaxChildren ELSE Len(manifest)))
  BY DEF Delegate, runDelegation
<1>2. manifest \in Seq(Specs) /\ MaxChildren \in Nat
  BY DelegationAssumption
<1>3. SubSeq(manifest, 1, IF Len(manifest) > MaxChildren THEN MaxChildren ELSE Len(manifest)) \in Seq(Specs)
  BY <1>2, FirstOfIsASequence
<1>4. UNCHANGED << recover, daemon >> /\ recover \in [Parents -> Seq(Specs)]
  BY DEF Delegate, DelegationInv, DelegationTypes
<1> QED
  BY <1>1, <1>3, <1>4, ForkMove

LEMMA RecoverKeeps ==
    ASSUME DelegationInv, NEW p \in Parents, RecoverNext(p)
    PROVE  /\ DelegationInv' /\ RowsGrow
           /\ Working(p) = {} /\ call[p].stage = "none" /\ call'[p].stage = "children"
           /\ \A i \in Working(p)' : call'[p].row[i] \in 1..MaxRows
           /\ \A q \in Parents \ {p} : call'[q] = call[q]
<1>1. recover \in [Parents -> Seq(Specs)] /\ recover[p] \in Seq(Specs) /\ Len(recover[p]) \in Nat
  BY DEF DelegationInv, DelegationTypes
<1>2. SubSeq(recover[p], 1, IF Len(recover[p]) > Len(recover[p]) THEN Len(recover[p]) ELSE Len(recover[p])) = recover[p]
  BY <1>1, FirstOfIsASequence
<1>3. call[p].stage = "none" /\ Dispatch(p, recover[p])
  BY <1>2 DEF RecoverNext, runDelegation
<1>4. recover' = [recover EXCEPT ![p] = << >>] /\ daemon' = daemon
  BY DEF RecoverNext
<1>5. recover' \in [Parents -> Seq(Specs)] /\ \A q \in Parents \ {p} : recover'[q] = recover[q]
  BY <1>1, <1>4
<1> QED
  BY <1>1, <1>3, <1>4, <1>5, ForkMove

(* The startup's list has the subtask of every pending row.                 *)
LEMMA RestartKeeps ==
    ASSUME DelegationInv, Restart
    PROVE  DelegationInv' /\ UNCHANGED << rows, call >>
<1>1. UNCHANGED << rows, call >> /\ recover' = [p \in Parents |-> PendingSpecs(p)] /\ daemon' = "up"
  BY DEF Restart, recoverDelegations
<1>2. rows \in Seq(Rows) /\ DOMAIN rows = 1..Len(rows) /\ Len(rows) \in Nat /\ \A r \in DOMAIN rows : rows[r] \in Rows
  BY DEF DelegationInv, DelegationTypes
<1>3. \A p \in Parents :
        /\ PendingSpecs(p) \in Seq(Specs)
        /\ \A r \in DOMAIN rows : rows[r].parent = p /\ rows[r].status = "pending" =>
              rows[r].spec \in ToSet(PendingSpecs(p))
  <2> SUFFICES ASSUME NEW p \in Parents
               PROVE  /\ PendingSpecs(p) \in Seq(Specs)
                      /\ \A r \in DOMAIN rows : rows[r].parent = p /\ rows[r].status = "pending" =>
                            rows[r].spec \in ToSet(PendingSpecs(p))
    OBVIOUS
  <2> DEFINE S == {r \in DOMAIN rows : rows[r].parent = p /\ rows[r].status = "pending"}
             o == InOrder(S)
             found == [n \in DOMAIN o |-> rows[o[n]].spec]
  <2>1. S \in SUBSET Nat /\ IsFiniteSet(S) /\ S \subseteq DOMAIN rows
    <3>1. IsFiniteSet(DOMAIN rows)
      BY <1>2, FS_Interval
    <3> QED
      BY <1>2, <3>1, FS_Subset
  <2>2. PendingSpecs(p) = found
    BY DEF PendingSpecs
  <2> HIDE DEF S
  <2>3. o \in Seq(S) /\ DOMAIN o = 1..Len(o) /\ \A x \in S : \E n \in 1..Len(o) : o[n] = x
    BY <2>1, InOrderIsASequence
  <2> HIDE DEF o
  <2>4. Len(o) \in Nat /\ \A n \in 1..Len(o) : rows[o[n]].spec \in Specs
    <3>1. \A n \in 1..Len(o) : o[n] \in S
      BY <2>3
    <3>2. \A r \in S : rows[r].spec \in Specs
      BY <1>2, <2>1 DEF Rows
    <3> QED
      BY <2>3, <3>1, <3>2
  <2>5. found \in [1..Len(o) -> Specs]
    BY <2>3, <2>4
  <2>6. found \in Seq(Specs) /\ DOMAIN found = 1..Len(o)
    BY <2>4, <2>5
  <2>7. ASSUME NEW r \in S PROVE rows[r].spec \in ToSet(found)
    <3>1. PICK n \in 1..Len(o) : o[n] = r
      BY <2>3
    <3>2. n \in DOMAIN found /\ found[n] = rows[r].spec
      BY <2>3, <3>1
    <3> HIDE DEF found
    <3> QED
      BY <3>2 DEF ToSet
  <2> QED
    BY <2>2, <2>6, <2>7 DEF S
<1>4. DelegationTypes'
  BY <1>1, <1>3 DEF DelegationInv, DelegationTypes
<1>5. \A p \in Parents : (CallIsInOrder(p) /\ WorkHasItsRow(p))'
  BY <1>1 DEF DelegationInv, CallIsInOrder, WorkHasItsRow, Children, Working
<1>6. \A r \in DOMAIN rows : rows[r].status = "pending" => rows[r].spec \in ToSet(recover'[rows[r].parent])
  BY <1>1, <1>2, <1>3 DEF Rows
<1>7. PendingRowsAreTaken'
  BY <1>1, <1>6 DEF PendingRowsAreTaken
<1> QED
  BY <1>1, <1>4, <1>5, <1>7 DEF DelegationInv

LEMMA CrashKeeps ==
    ASSUME DelegationInv, Crash
    PROVE  DelegationInv' /\ \A p \in Parents : Working(p)' = {} /\ call'[p].stage = "none"
<1>1. /\ call' = [p \in Parents |-> NoCall] /\ recover' = [p \in Parents |-> << >>]
      /\ UNCHANGED rows /\ daemon' = "down"
  BY DEF Crash
<1>2. NoCall \in Calls /\ Len(NoCall.row) = Len(NoCall.specs) /\ Len(NoCall.result) = Len(NoCall.specs)
      /\ NoCall.stage = "none" /\ DOMAIN NoCall.specs = {}
  BY DEF NoCall, Calls, Stages
<1>3. \A p \in Parents : call'[p] = NoCall /\ Children(p)' = {} /\ Working(p)' = {}
  BY <1>1, <1>2 DEF Children, Working
<1>4. DelegationTypes'
  <2>1. call' \in [Parents -> Calls] /\ recover' \in [Parents -> Seq(Specs)]
    BY <1>1, <1>2
  <2>2. \A p \in Parents : Len(call'[p].row) = Len(call'[p].specs) /\ Len(call'[p].result) = Len(call'[p].specs)
    BY <1>2, <1>3
  <2> QED
    BY <1>1, <2>1, <2>2 DEF DelegationInv, DelegationTypes
<1>5. \A p \in Parents : (CallIsInOrder(p) /\ WorkHasItsRow(p))'
  BY <1>2, <1>3 DEF CallIsInOrder, WorkHasItsRow
<1>6. PendingRowsAreTaken'
  BY <1>1 DEF PendingRowsAreTaken
<1> QED
  BY <1>2, <1>3, <1>4, <1>5, <1>6 DEF DelegationInv

(* The invariant speaks of the table, the calls, the lists and the daemon   *)
(* only.                                                                    *)
LEMMA DelegationRests ==
    ASSUME DelegationInv, UNCHANGED << rows, call, recover, daemon >>
    PROVE  DelegationInv'
BY DEF DelegationInv, DelegationTypes, CallIsInOrder, WorkHasItsRow, Children, Working, PendingRowsAreTaken

(* It holds always.                                                         *)
LEMMA DelegationIsKept == DelegationSpec => []DelegationInv
<1>1. DelegationInit => DelegationInv
  <2> SUFFICES ASSUME DelegationInit PROVE DelegationInv
    OBVIOUS
  <2>1. /\ rows = << >> /\ call = [p \in Parents |-> NoCall] /\ recover = [p \in Parents |-> << >>] /\ daemon = "up"
    BY DEF DelegationInit
  <2>2. NoCall \in Calls /\ Len(NoCall.row) = Len(NoCall.specs) /\ Len(NoCall.result) = Len(NoCall.specs)
        /\ NoCall.stage = "none" /\ DOMAIN NoCall.specs = {}
    BY DEF NoCall, Calls, Stages
  <2>3. \A p \in Parents : call[p] = NoCall /\ Children(p) = {} /\ Working(p) = {}
    BY <2>1, <2>2 DEF Children, Working
  <2>4. DelegationTypes
    <3>1. call \in [Parents -> Calls] /\ recover \in [Parents -> Seq(Specs)] /\ rows \in Seq(Rows) /\ Len(rows) <= MaxRows
      BY <2>1, <2>2, DelegationAssumption
    <3> QED
      BY <2>1, <2>2, <2>3, <3>1 DEF DelegationTypes
  <2>5. \A p \in Parents : CallIsInOrder(p) /\ WorkHasItsRow(p)
    BY <2>2, <2>3 DEF CallIsInOrder, WorkHasItsRow
  <2>6. PendingRowsAreTaken
    BY <2>1 DEF PendingRowsAreTaken
  <2> QED
    BY <2>4, <2>5, <2>6 DEF DelegationInv
<1>2. DelegationInv /\ [DelegationNext]_dvars => DelegationInv'
  <2> SUFFICES ASSUME DelegationInv, [DelegationNext]_dvars PROVE DelegationInv'
    OBVIOUS
  <2>1. CASE \E p \in Parents : Delegate(p) \/ Advance(p)
    BY <2>1, DelegateKeeps, ChildKeeps, ReviewKeeps, RewriteKeeps, RetryKeeps, SynthesisKeeps, RecoverKeeps DEF Advance
  <2>2. CASE RecoveryReturns
    BY <2>2, DelegationRests DEF RecoveryReturns
  <2>3. CASE Crash
    BY <2>3, CrashKeeps
  <2>4. CASE Restart
    BY <2>4, RestartKeeps
  <2>5. CASE UNCHANGED dvars
    BY <2>5, DelegationRests DEF dvars
  <2> QED
    BY <2>1, <2>2, <2>3, <2>4, <2>5 DEF DelegationNext
<1> QED
  BY <1>1, <1>2, PTL DEF DelegationSpec

(* No subtask is dropped: while the daemon is up each pending row has its   *)
(* child, is on the startup's list, was repeated by a later row, or its     *)
(* statement threw.                                                         *)
THEOREM PendingRowsStayTaken == DelegationSpec => []PendingRowsAreTaken
<1>1. DelegationInv => PendingRowsAreTaken
  BY DEF DelegationInv
<1> QED
  BY <1>1, DelegationIsKept, PTL

-----------------------------------------------------------------------------
(* The fork and its join                                                    *)

(* What the fork sees of a delegation.                                      *)
WorkOf(p) == {call[p].row[i] : i \in Working(p)}
Joining == {p \in Parents : call[p].stage = "synthesis"}

(* The fork sees a step of p alone.                                         *)
LEMMA WorkOfOthersRests ==
    ASSUME NEW p \in Parents, \A q \in Parents \ {p} : call'[q] = call[q]
    PROVE  \A q \in Parents \ {p} : WorkOf(q)' = WorkOf(q) /\ (q \in Joining' <=> q \in Joining)
<1> SUFFICES ASSUME NEW q \in Parents \ {p}
             PROVE  WorkOf(q)' = WorkOf(q) /\ (q \in Joining' <=> q \in Joining)
  OBVIOUS
<1>1. call'[q] = call[q]
  OBVIOUS
<1>2. Children(q)' = Children(q)
  BY <1>1 DEF Children
<1>3. Working(q)' = Working(q)
  BY <1>1, <1>2 DEF Working
<1> QED
  BY <1>1, <1>3 DEF WorkOf, Joining

LEMMA NoWorkNoBranch ==
    ASSUME NEW p \in Parents
    PROVE  Working(p) = {} => WorkOf(p) = {}
BY DEF WorkOf

(* One lemma per step of the fork.                                          *)
LEMMA ForkStep ==
    ASSUME NEW p \in Parents, \A q \in Parents \ {p} : call'[q] = call[q],
           WorkOf(p) = {}, p \notin Joining, WorkOf(p)' \subseteq 1..MaxRows, p \notin Joining'
    PROVE  Forked!Fork(p)
<1>1. \A q \in Parents \ {p} : WorkOf(q)' = WorkOf(q) /\ (q \in Joining' <=> q \in Joining)
  BY WorkOfOthersRests
<1>2. Joining' = Joining
  BY <1>1 DEF Joining
<1> QED
  BY <1>1, <1>2 DEF Forked!Fork, WorkOf, Joining

LEMMA SettleStep ==
    ASSUME NEW p \in Parents, \A q \in Parents \ {p} : call'[q] = call[q],
           NEW b \in WorkOf(p), WorkOf(p)' = WorkOf(p) \ {b}, p \notin Joining, p \in Joining' => WorkOf(p)' = {}
    PROVE  Forked!Settle(p)
<1>1. \A q \in Parents \ {p} : WorkOf(q)' = WorkOf(q) /\ (q \in Joining' <=> q \in Joining)
  BY WorkOfOthersRests
<1>2. Joining' = Joining \/ (WorkOf(p)' = {} /\ Joining' = Joining \cup {p})
  BY <1>1 DEF Joining
<1>3. PICK w, ww : /\ w = [q \in Parents |-> WorkOf(q)] /\ ww = [q \in Parents |-> WorkOf(q)']
  OBVIOUS
<1>4. ww = [w EXCEPT ![p] = @ \ {b}] /\ b \in w[p] /\ (WorkOf(p)' = {} => ww[p] = {})
  BY <1>1, <1>3
<1> QED
  BY <1>2, <1>3, <1>4 DEF Forked!Settle, WorkOf, Joining

LEMMA RepeatStep ==
    ASSUME NEW p \in Parents, \A q \in Parents \ {p} : call'[q] = call[q],
           WorkOf(p) = {}, p \notin Joining, NEW b \in 1..MaxRows, WorkOf(p)' = {b}, p \notin Joining'
    PROVE  Forked!Repeat(p)
<1>1. \A q \in Parents \ {p} : WorkOf(q)' = WorkOf(q) /\ (q \in Joining' <=> q \in Joining)
  BY WorkOfOthersRests
<1>2. Joining' = Joining
  BY <1>1 DEF Joining
<1>3. PICK w, ww : /\ w = [q \in Parents |-> WorkOf(q)] /\ ww = [q \in Parents |-> WorkOf(q)']
  OBVIOUS
<1>4. ww = [w EXCEPT ![p] = {b}] /\ w[p] = {}
  BY <1>1, <1>3
<1> QED
  BY <1>2, <1>3, <1>4 DEF Forked!Repeat, WorkOf, Joining

LEMMA JoinStep ==
    ASSUME NEW p \in Parents, \A q \in Parents \ {p} : call'[q] = call[q],
           WorkOf(p) = {}, WorkOf(p)' = {}, p \notin Joining
    PROVE  Forked!Join(p) \/ UNCHANGED Forked!fvars
<1>1. \A q \in Parents \ {p} : WorkOf(q)' = WorkOf(q) /\ (q \in Joining' <=> q \in Joining)
  BY WorkOfOthersRests
<1>2. Joining' = Joining \/ Joining' = Joining \cup {p}
  BY <1>1 DEF Joining
<1>3. PICK w, ww : /\ w = [q \in Parents |-> WorkOf(q)] /\ ww = [q \in Parents |-> WorkOf(q)']
  OBVIOUS
<1>4. ww = w /\ w[p] = {}
  BY <1>1, <1>3
<1> QED
  BY <1>2, <1>3, <1>4 DEF Forked!Join, Forked!fvars, WorkOf, Joining

LEMMA JoinedStep ==
    ASSUME NEW p \in Parents, \A q \in Parents \ {p} : call'[q] = call[q],
           WorkOf(p) = {}, WorkOf(p)' = {}, p \in Joining, p \notin Joining'
    PROVE  Forked!Joined(p)
<1>1. \A q \in Parents \ {p} : WorkOf(q)' = WorkOf(q) /\ (q \in Joining' <=> q \in Joining)
  BY WorkOfOthersRests
<1>2. Joining' = Joining \ {p}
  BY <1>1 DEF Joining
<1>3. PICK w, ww : /\ w = [q \in Parents |-> WorkOf(q)] /\ ww = [q \in Parents |-> WorkOf(q)']
  OBVIOUS
<1>4. ww = w
  BY <1>1, <1>3
<1> QED
  BY <1>2, <1>3, <1>4 DEF Forked!Joined, WorkOf, Joining

LEMMA StillStep ==
    ASSUME call' = call
    PROVE  UNCHANGED Forked!fvars
BY DEF Forked!fvars, Working, Children

LEMMA ForgetStep ==
    ASSUME \A p \in Parents : Working(p)' = {} /\ call'[p].stage = "none"
    PROVE  Forked!Crash
<1>1. \A p \in Parents : WorkOf(p)' = {}
  BY DEF WorkOf
<1>2. Joining' = {}
  BY DEF Joining
<1> QED
  BY <1>1, <1>2 DEF Forked!Crash, WorkOf, Joining

(* Every step of a delegation is one of its fork's, or none of them.        *)
LEMMA DelegationForks ==
    ASSUME DelegationInv, [DelegationNext]_dvars
    PROVE  [Forked!ForkNext]_(Forked!fvars)
<1> USE DEF Forked!ForkNext
<1>1. ASSUME NEW p \in Parents, Delegate(p) \/ RecoverNext(p) PROVE Forked!Fork(p)
  <2>1. /\ Working(p) = {} /\ call[p].stage = "none" /\ call'[p].stage = "children"
        /\ \A i \in Working(p)' : call'[p].row[i] \in 1..MaxRows
        /\ \A q \in Parents \ {p} : call'[q] = call[q]
    BY <1>1, DelegateKeeps, RecoverKeeps
  <2>2. WorkOf(p) = {} /\ WorkOf(p)' \subseteq 1..MaxRows /\ p \notin Joining /\ p \notin Joining'
    BY <2>1 DEF WorkOf, Joining
  <2> QED
    BY <2>1, <2>2, ForkStep
<1>2. ASSUME NEW p \in Parents, NEW i \in Children(p), ChildEnds(p, i) PROVE Forked!Settle(p)
  <2>1. /\ Working(p)' = Working(p) \ {i} /\ i \in Working(p) /\ call[p].stage = "children"
        /\ call'[p].stage = "children" /\ call'[p].row = call[p].row
        /\ \A q \in Parents \ {p} : call'[q] = call[q]
    BY <1>2, ChildKeeps
  <2>2. \A j, k \in Working(p) : call[p].row[j] = call[p].row[k] => j = k
    BY DEF DelegationInv, WorkHasItsRow
  <2>3. call[p].row[i] \in WorkOf(p) /\ WorkOf(p)' = WorkOf(p) \ {call[p].row[i]}
    BY <2>1, <2>2 DEF WorkOf
  <2>4. p \notin Joining /\ p \notin Joining'
    BY <2>1 DEF Joining
  <2> QED
    BY <2>1, <2>3, <2>4, SettleStep
<1>3. ASSUME NEW p \in Parents, ReviewChildren(p) PROVE Forked!Join(p) \/ UNCHANGED Forked!fvars
  <2>1. /\ Working(p) = {} /\ Working(p)' = {} /\ call[p].stage = "children"
        /\ \A q \in Parents \ {p} : call'[q] = call[q]
    BY <1>3, ReviewKeeps
  <2>2. WorkOf(p) = {} /\ WorkOf(p)' = {} /\ p \notin Joining
    BY <2>1 DEF WorkOf, Joining
  <2> QED
    BY <2>1, <2>2, JoinStep
<1>4. ASSUME NEW p \in Parents, RewriteEnds(p)
      PROVE  Forked!Join(p) \/ Forked!Repeat(p) \/ UNCHANGED Forked!fvars
  <2>1. /\ Working(p) = {} /\ call[p].stage = "rewriting"
        /\ \/ Working(p)' = {}
           \/ /\ call'[p].stage = "retrying"
              /\ \E b \in 1..MaxRows : \E i \in Children(p)' : Working(p)' = {i} /\ call'[p].row[i] = b
        /\ \A q \in Parents \ {p} : call'[q] = call[q]
    BY <1>4, RewriteKeeps
  <2>2. WorkOf(p) = {} /\ p \notin Joining
    BY <2>1 DEF WorkOf, Joining
  <2>3. CASE Working(p)' = {}
    <3>1. WorkOf(p)' = {}
      BY <2>3 DEF WorkOf
    <3> QED
      BY <2>1, <2>2, <3>1, JoinStep
  <2>4. CASE /\ call'[p].stage = "retrying"
             /\ \E b \in 1..MaxRows : \E i \in Children(p)' : Working(p)' = {i} /\ call'[p].row[i] = b
    <3>1. PICK b \in 1..MaxRows : \E i \in Children(p)' : Working(p)' = {i} /\ call'[p].row[i] = b
      BY <2>4
    <3>2. WorkOf(p)' = {b} /\ p \notin Joining'
      BY <2>4, <3>1 DEF WorkOf, Joining
    <3> QED
      BY <2>1, <2>2, <3>2, RepeatStep
  <2> QED
    BY <2>1, <2>3, <2>4
<1>5. ASSUME NEW p \in Parents, RetryEnds(p) PROVE Forked!Settle(p)
  <2>1. /\ Working(p) = {call[p].turn} /\ Working(p)' = {} /\ call[p].stage = "retrying"
        /\ \A q \in Parents \ {p} : call'[q] = call[q]
    BY <1>5, RetryKeeps
  <2>2. WorkOf(p) = {call[p].row[call[p].turn]} /\ WorkOf(p)' = {} /\ p \notin Joining
    BY <2>1 DEF WorkOf, Joining
  <2> QED
    BY <2>1, <2>2, SettleStep
<1>6. ASSUME NEW p \in Parents, SynthesisEnds(p) PROVE Forked!Joined(p)
  <2>1. /\ Working(p) = {} /\ Working(p)' = {} /\ call[p].stage = "synthesis" /\ call'[p].stage = "returned"
        /\ \A q \in Parents \ {p} : call'[q] = call[q]
    BY <1>6, SynthesisKeeps
  <2>2. WorkOf(p) = {} /\ WorkOf(p)' = {} /\ p \in Joining /\ p \notin Joining'
    BY <2>1 DEF WorkOf, Joining
  <2> QED
    BY <2>1, <2>2, JoinedStep
<1>7. CASE Crash
  BY <1>7, CrashKeeps, ForgetStep
<1>8. CASE RecoveryReturns \/ Restart \/ UNCHANGED dvars
  <2>1. call' = call
    BY <1>8 DEF RecoveryReturns, Restart, dvars
  <2> QED
    BY <2>1, StillStep
<1> QED
  BY <1>1, <1>2, <1>3, <1>4, <1>5, <1>6, <1>7, <1>8 DEF DelegationNext, Advance

(* A delegation is a fork whose join runs when nobody works for it any more. *)
THEOREM DelegationImplementsForkJoin == DelegationSpec => ImplementsForkJoin
<1>1. DelegationInit => Forked!ForkInit
  <2> SUFFICES ASSUME DelegationInit PROVE Forked!ForkInit
    OBVIOUS
  <2>1. call = [p \in Parents |-> NoCall]
    BY DEF DelegationInit
  <2>2. \A p \in Parents : Working(p) = {} /\ call[p].stage # "synthesis"
    BY <2>1 DEF Working, Children, NoCall
  <2> QED
    BY <2>2 DEF Forked!ForkInit
<1>2. DelegationInv /\ [DelegationNext]_dvars => [Forked!ForkNext]_(Forked!fvars)
  BY DelegationForks
<1>3. DelegationSpec => []DelegationInv
  BY DelegationIsKept
<1> QED
  BY <1>1, <1>2, <1>3, PTL DEF DelegationSpec, ImplementsForkJoin, Forked!ForkSpec

=============================================================================
