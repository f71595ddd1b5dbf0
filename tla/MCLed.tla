------------------------------- MODULE MCLed -------------------------------
(***************************************************************************)
(* The state in which the instances with a leader start.                   *)
(***************************************************************************)
EXTENDS RaftProperties

CONSTANT First   \* the node that leads

\* The state after an undisturbed election of First in term 1: its heartbeat has
\* reached every node and all answers have been received.
Elected(quorum) ==
  [n \in Node |->
     IF n = First
     THEN [Follower_new EXCEPT !.role = "Leader", !.current_term = 1, !.voted_for = First,
             !.votes = [v \in Node |-> IF v \in quorum THEN "granted" ELSE "absent"]]
     ELSE [Follower_new EXCEPT !.current_term = 1, !.voted_for = First, !.leader_id = First]]

LedLinks ==
  /\ up = [n \in Node |-> TRUE]
  /\ failures = 0
  /\ net = [s \in Node |-> [d \in Node |-> <<>>]]
  /\ link = [s \in Node |-> [d \in Node |->
       IF s # d /\ First \in {s, d} THEN "connected" ELSE "connecting"]]

Quorums == {Q \in SUBSET Node : First \in Q /\ Cardinality(Q) = Cardinality(Node) \div 2 + 1}

LedInit ==
  /\ raft \in {Elected(Q) : Q \in Quorums}
  /\ chain = [n \in Node |-> Chain_new({}, 0)]
  /\ fsm = [n \in Node |-> <<>>]
  /\ submitted = {}
  /\ LedLinks
=============================================================================
