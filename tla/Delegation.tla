----------------------------- MODULE Delegation -----------------------------
(***************************************************************************)
(* An issue's agent that delegates: one row and one child agent per subtask *)
(* of its manifest, one rewritten retry per failed child, a synthesis at    *)
(* the end, and after a restart a second attempt at every pending row       *)
(* (orchestrator/delegation.ts, orchestrator/reconciler.ts,                 *)
(* storage/repositories/delegations.ts).                                   *)
(*                                                                         *)
(* Rows are written before their child starts and when it has ended; none   *)
(* is ever "running". What agents answer is open, and so is whether a       *)
(* statement on the table throws.                                          *)
(***************************************************************************)
EXTENDS Naturals, SequencesExt

CONSTANTS
    Parents,      \* runs that delegate; a recovered one keeps its id
    Specs,        \* subtask specs
    Manifests,    \* Manifests[p]: the lists of specs the agent of p may ask for
    MaxChildren,  \* orchestrator.max_children
    MaxRows,      \* bound: rows ever inserted
    MaxDaemonCrashes    \* bound: crashes of the daemon

ASSUME DelegationAssumption ==
    /\ MaxChildren \in Nat \ {0} /\ MaxRows \in Nat
    /\ \A p \in Parents : Manifests[p] \subseteq Seq(Specs) \ {<< >>}

VARIABLES
    rows,         \* the delegations table, by id
    call,         \* call[p]: the runDelegation of p
    recover,      \* recover[p]: the specs the startup has found pending
    recovering,   \* the parent whose recovery is awaited, or "none"
    daemon,       \* "up" or "down"
    crashes

dvars == << rows, call, recover, recovering, daemon, crashes >>

NoCall == [stage |-> "none", specs |-> << >>, row |-> << >>, result |-> << >>, turn |-> 0]

DelegationInit ==
    /\ rows = << >>
    /\ call = [p \in Parents |-> NoCall]
    /\ recover = [p \in Parents |-> << >>]
    /\ recovering = "none"
    /\ daemon = "up"
    /\ crashes = 0

Children(p) == DOMAIN call[p].specs
Working(p) == {i \in Children(p) : call[p].result[i] = "working"}
CallEnded(p) == call[p].stage \in {"returned", "rejected"}

-----------------------------------------------------------------------------
(* dispatchChild, runDelegation *)

PendingRow(p, s) == [parent |-> p, spec |-> s, status |-> "pending"]

(* The numbers in S from the least to the greatest.                         *)
InOrder(S) == CHOOSE s \in SetToSeqs(S) : \A m, n \in DOMAIN s : m < n => s[m] < s[n]

(* All children are dispatched in one go, up to their first await. Those in *)
(* lost could not be inserted.                                             *)
Dispatch(p, specs) ==
    \E lost \in SUBSET DOMAIN specs :
        LET kept == InOrder(DOMAIN specs \ lost)
            rowOf(i) == IF i \in lost THEN 0
                        ELSE Len(rows) + CHOOSE n \in DOMAIN kept : kept[n] = i
        IN  /\ Len(rows) + Len(kept) <= MaxRows
            /\ rows' = rows \o [n \in DOMAIN kept |-> PendingRow(p, specs[kept[n]])]
            /\ call' = [call EXCEPT ![p] =
                   [stage |-> "children", specs |-> specs, turn |-> 0,
                    row |-> [i \in DOMAIN specs |-> rowOf(i)],
                    result |-> [i \in DOMAIN specs |-> IF i \in lost THEN "rejected" ELSE "working"]]]

runDelegation(p, specs, depth, max) ==
    /\ call[p].stage = "none"
    /\ depth = 0
    /\ Dispatch(p, SubSeq(specs, 1, IF Len(specs) > max THEN max ELSE Len(specs)))

(* An agent's manifest; p is a run of its own.                              *)
Delegate(p) ==
    /\ daemon = "up"
    /\ \A r \in DOMAIN rows : rows[r].parent # p
    /\ \E manifest \in Manifests[p] : runDelegation(p, manifest, 0, MaxChildren)
    /\ UNCHANGED << recover, recovering, daemon, crashes >>

(* A child's row is settled with it, unless that statement throws.          *)
SettleRow(r, result) == rows' = [rows EXCEPT ![r].status = result]

ChildEnds(p, i) ==
    /\ call[p].stage = "children" /\ i \in Working(p)
    /\ \/ \E result \in {"completed", "failed"} :
            /\ SettleRow(call[p].row[i], result)
            /\ call' = [call EXCEPT ![p].result[i] = result]
       \/ call' = [call EXCEPT ![p].result[i] = "rejected"] /\ UNCHANGED rows
    /\ UNCHANGED << recover, recovering, daemon, crashes >>

-----------------------------------------------------------------------------
(* The loop over the settled children, rewriteFailedSubtask, synthesize *)

FailedFrom(p, n) == {i \in Children(p) : i >= n /\ call[p].result[i] = "failed"}

(* The loop goes on behind child n: to the next failed one, or to the       *)
(* synthesis.                                                              *)
ContinueBehind(p, n) ==
    LET failed == FailedFrom(p, n + 1)
    IN  IF failed = {} THEN [call[p] EXCEPT !.stage = "synthesis", !.turn = 0]
        ELSE [call[p] EXCEPT !.stage = "rewriting",
                             !.turn = CHOOSE i \in failed : \A j \in failed : i <= j]

(* Fault: Promise.race in place of Promise.allSettled.                      *)
FirstSettled(p) == call[p].stage = "children" /\ (Working(p) # Children(p) \/ Working(p) = {})

(* Promise.allSettled has its results.                                     *)
AllSettled(p) == call[p].stage = "children" /\ Working(p) = {}

ReviewChildren(p) ==
    /\ AllSettled(p)
    /\ call' = [call EXCEPT ![p] = ContinueBehind(p, 0)]
    /\ UNCHANGED << rows, recover, recovering, daemon, crashes >>

(* The parent's agent gives no usable manifest, or one whose first spec is  *)
(* tried instead, whatever its id. An exception of that dispatch ends the   *)
(* call, where one of the first dispatch does not.                          *)
RewriteEnds(p) ==
    LET i == call[p].turn
    IN  /\ call[p].stage = "rewriting"
        /\ \/ /\ call' = [call EXCEPT ![p] = ContinueBehind(p, i)]
              /\ UNCHANGED rows
           \/ /\ Len(rows) < MaxRows
              /\ \E s \in Specs :
                   /\ rows' = Append(rows, PendingRow(p, s))
                   /\ call' = [call EXCEPT ![p].stage = "retrying", ![p].row[i] = Len(rows) + 1,
                                           ![p].specs[i] = s, ![p].result[i] = "working"]
           \/ call' = [call EXCEPT ![p].stage = "rejected"] /\ UNCHANGED rows
    /\ UNCHANGED << recover, recovering, daemon, crashes >>

RetryEnds(p) ==
    LET i == call[p].turn
    IN  /\ call[p].stage = "retrying"
        /\ \/ \E result \in {"completed", "failed"} :
                /\ SettleRow(call[p].row[i], result)
                /\ call' = [call EXCEPT ![p] = [ContinueBehind(p, i) EXCEPT !.result[i] = result]]
           \/ /\ call' = [call EXCEPT ![p].stage = "rejected", ![p].result[i] = "rejected"]
              /\ UNCHANGED rows
    /\ UNCHANGED << recover, recovering, daemon, crashes >>

(* The synthesis agent and its comment; neither can fail the call.          *)
SynthesisEnds(p) ==
    /\ call[p].stage = "synthesis"
    /\ call' = [call EXCEPT ![p].stage = "returned"]
    /\ UNCHANGED << rows, recover, recovering, daemon, crashes >>

-----------------------------------------------------------------------------
(* The daemon *)

Crash ==
    /\ daemon = "up" /\ crashes < MaxDaemonCrashes
    /\ daemon' = "down"
    /\ crashes' = crashes + 1
    /\ call' = [p \in Parents |-> NoCall]
    /\ recover' = [p \in Parents |-> << >>]
    /\ recovering' = "none"
    /\ UNCHANGED rows

PendingSpecs(p) ==
    LET pending == InOrder({r \in DOMAIN rows : rows[r].parent = p /\ rows[r].status = "pending"})
    IN  [n \in DOMAIN pending |-> rows[pending[n]].spec]

(* Fault: only the last pending row of a parent is kept.                    *)
lastPendingSpec(p) ==
    IF PendingSpecs(p) = << >> THEN << >> ELSE << PendingSpecs(p)[Len(PendingSpecs(p))] >>

(* recoverDelegations reads the table once, and leaves the rows it repeats  *)
(* as they are.                                                            *)
recoverDelegations(p) == PendingSpecs(p)

Restart ==
    /\ daemon = "down"
    /\ daemon' = "up"
    /\ recover' = [p \in Parents |-> recoverDelegations(p)]
    /\ UNCHANGED << rows, call, recovering, crashes >>

(* One parent after the other, each with all its specs.                    *)
RecoverNext(p) ==
    /\ daemon = "up" /\ recovering = "none" /\ recover[p] # << >>
    /\ runDelegation(p, recover[p], 0, Len(recover[p]))
    /\ recover' = [recover EXCEPT ![p] = << >>]
    /\ recovering' = p
    /\ UNCHANGED << daemon, crashes >>

RecoveryReturns ==
    /\ recovering # "none" /\ CallEnded(recovering)
    /\ recovering' = "none"
    /\ UNCHANGED << rows, call, recover, daemon, crashes >>

Advance(p) ==
    \/ \E i \in Children(p) : ChildEnds(p, i)
    \/ ReviewChildren(p)
    \/ RewriteEnds(p)
    \/ RetryEnds(p)
    \/ SynthesisEnds(p)
    \/ RecoverNext(p)

DelegationNext ==
    \/ \E p \in Parents : Delegate(p) \/ Advance(p)
    \/ RecoveryReturns
    \/ Crash
    \/ Restart

DelegationSpec == DelegationInit /\ [][DelegationNext]_dvars

(* Agents run under the timeout of their session; a recovery awaits only    *)
(* the calls it makes. Nothing makes a daemon crash or restart.            *)
DelegationGoesOn == (\E p \in Parents : Advance(p)) \/ RecoveryReturns

-----------------------------------------------------------------------------

(* No subtask is dropped: a row that is still pending is worked on, or the  *)
(* startup has it on its list, or it has been repeated since by a row of    *)
(* the same subtask, or the statement that should write its row threw.      *)
PendingRowsAreTaken ==
    daemon = "up" =>
        \A r \in DOMAIN rows :
            LET p == rows[r].parent
            IN  rows[r].status = "pending" =>
                    \/ \E i \in Working(p) : call[p].row[i] = r
                    \/ rows[r].spec \in ToSet(recover[p])
                    \/ \E later \in DOMAIN rows :
                         later > r /\ rows[later].parent = p /\ rows[later].spec = rows[r].spec
                    \/ \E i \in Children(p) :
                         call[p].result[i] = "rejected" /\ call[p].specs[i] = rows[r].spec

(* "Collect first-pass outcomes and retry failed ones": the children are a  *)
(* fork, their retries single repetitions and the synthesis its join.       *)
Forked == INSTANCE ForkJoin WITH
    Forks <- Parents,
    Branches <- 1..MaxRows,
    atWork <- [p \in Parents |-> {call[p].row[i] : i \in Working(p)}],
    joining <- {p \in Parents : call[p].stage = "synthesis"}
ImplementsForkJoin == Forked!ForkSpec

(* In the end every pending row the startup found has been tried, unless    *)
(* the daemon crashed again, and every call has ended.                     *)
NoCallIsOpen == \A p \in Parents : recover[p] = << >> /\ (call[p].stage = "none" \/ CallEnded(p))
=============================================================================
