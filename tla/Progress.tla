------------------------------ MODULE Progress ------------------------------
(***************************************************************************)
(* The leader's view of how far each node has replicated its chain:        *)
(* raft/progress.rs.                                                       *)
(*                                                                         *)
(* The fields `paused`, `active` and `inflight` are left out: nothing in   *)
(* the program ever sets paused or pushes to inflight, so is_active() is   *)
(* constantly true, and nothing reads `active` of these two states.  The   *)
(* Snapshot state is never constructed.                                    *)
(***************************************************************************)
EXTENDS Naturals, FiniteSets, RaftConfig

CONSTANT MAX_INFLIGHT   \* blocks in one AppendEntries to a replicating node

ASSUME InflightAssumption == MAX_INFLIGHT \in Nat \ {0}

NodeProgress == [state : {"Probe", "Replicate"}, head : Nat]

ReplicationProgress == [Node -> NodeProgress]

ReplicationProgress_new == [p \in Node |-> [state |-> "Probe", head |-> 0]]

\* Mutant: the next index to send is taken for the last one stored.
NodeProgress_advance_next(p, block_id) ==
  IF p.head < block_id
  THEN [state |-> "Replicate", head |-> block_id + 1]
  ELSE [state |-> "Probe", head |-> p.head]

\* NodeProgress::advance with Progress::increment: the head only grows; an
\* acknowledgement that does not move it puts the node back to probing.
NodeProgress_advance(p, block_id) ==
  IF p.head < block_id
  THEN [state |-> "Replicate", head |-> block_id]
  ELSE [state |-> "Probe", head |-> p.head]

advance(progress, node_id, block_id) ==
  [progress EXCEPT ![node_id] = NodeProgress_advance(@, block_id)]

\* Mutant: indices[indices.len() / 2 - 1].
committed_index_early(progress) ==
  LET heads == {progress[p].head : p \in Node}
      half == Cardinality(Node) \div 2
  IN CHOOSE h \in heads :
       /\ Cardinality({p \in Node : progress[p].head > h}) <= half - 1
       /\ Cardinality({p \in Node : progress[p].head >= h}) > half - 1

\* indices.sort_by(|a, b| b.cmp(a)); indices[indices.len() / 2]: the entry of
\* a descending sort that has at most len/2 larger ones before it and more
\* than len/2 entries that are not smaller.
committed_index(progress) ==
  LET heads == {progress[p].head : p \in Node}
      half == Cardinality(Node) \div 2
  IN CHOOSE h \in heads :
       /\ Cardinality({p \in Node : progress[p].head > h}) <= half
       /\ Cardinality({p \in Node : progress[p].head >= h}) > half

\* Mutant: a probe asks for the block at the head and not after it.
batch_limit_no_probe(p) == IF p.state = "Probe" THEN 0 ELSE MAX_INFLIGHT

\* How many blocks replicate() puts in one message to a node in this state.
batch_limit(p) == IF p.state = "Probe" THEN 1 ELSE MAX_INFLIGHT
=============================================================================
