----------------------------- MODULE RaftConfig -----------------------------
(***************************************************************************)
(* The nodes of a cluster: `id` and the ids of `nodes` of raft/config.rs.  *)
(***************************************************************************)
EXTENDS FiniteSets

CONSTANT Node   \* the ids of all nodes
CONSTANT None   \* the value None of an Option<NodeId>

ASSUME NodeAssumption == Node # {} /\ IsFiniteSet(Node) /\ None \notin Node
=============================================================================
