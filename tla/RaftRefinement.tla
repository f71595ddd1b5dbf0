--------------------------- MODULE RaftRefinement ---------------------------
(***************************************************************************)
(* Raft, while servers that stop stay down, implements ReplicatedLog: the  *)
(* log is what some node has committed, and the state machine of a node    *)
(* has what its driver has been told to execute.                           *)
(***************************************************************************)
EXTENDS RaftProperties

Abstract == INSTANCE ReplicatedLog WITH
  proposed <- submitted,
  log <- CommittedLog,
  machine <- [n \in Node |-> Executed(n)]

\* Elections, proxied requests, batches sent twice and lost connections are
\* steps of the replicated log or invisible in it: a commit (leader.rs:commit)
\* only lengthens the log by new proposals and hands the leader's state machine
\* exactly that log; a heartbeat (follower.rs:apply_heartbeat) only moves a
\* follower's state machine along it.
ImplementsReplicatedLog == Abstract!Spec
=============================================================================
