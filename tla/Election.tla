------------------------------ MODULE Election ------------------------------
(***************************************************************************)
(* The vote counting of a candidate: raft/election.rs.                     *)
(*                                                                         *)
(* An election is the map `votes` of the struct Election, made total: a    *)
(* voter that has not answered is "absent".  voter_ids is every node of    *)
(* the cluster (raft/follower.rs pushes the node's own id to its peers').  *)
(***************************************************************************)
EXTENDS Naturals, FiniteSets, RaftConfig

Votes == [Node -> {"absent", "granted", "refused"}]

\* A fresh election, and what reset() leaves of an old one.
Election_new == [v \in Node |-> "absent"]

\* A later answer of the same voter replaces the earlier one.
vote(votes, id, granted) ==
  [votes EXCEPT ![id] = IF granted THEN "granted" ELSE "refused"]

Granted(votes) == {v \in Node : votes[v] = "granted"}
Refused(votes) == {v \in Node : votes[v] = "refused"}

\* Mutant: half of the nodes is a quorum.
quorum_size_half == Cardinality(Node) \div 2

\* The single node of a cluster of one needs no vote at all.
quorum_size == IF Cardinality(Node) = 1 THEN 0 ELSE (Cardinality(Node) \div 2) + 1

election_status(votes) ==
  IF Cardinality(Granted(votes)) >= quorum_size THEN "Elected"
  ELSE IF Cardinality(Refused(votes)) = quorum_size THEN "Defeated"
  ELSE "Voting"
=============================================================================
