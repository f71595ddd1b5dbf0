------------------------------- MODULE MCRaft -------------------------------
EXTENDS RaftRefinement, MCLed, TLC, FiniteSetsExt

CONSTANT MaxInFlight   \* bound on the messages on all links together

Symmetry == Permutations(Node) \cup Permutations(Data)
FollowerSymmetry == Permutations(Node \ {First}) \cup Permutations(Data)

InFlight ==
  MapThenSumSet(LAMBDA p : Len(net[p[1]][p[2]]), Node \X Node) <= MaxInFlight

LedSpec == LedInit /\ [][Next]_vars

\* The state in which First has then committed one request that its
\* voters have acknowledged and the other nodes have not received.
CommittedInit ==
  \E req \in Data, Q \in Quorums :
    LET genesis == Chain_new({}, 0)
        stored == Chain_append(genesis, req)
        block == CHOOSE b \in stored.db : b.id = 1
        acked == [p \in Node |-> IF p \in Q THEN [state |-> "Replicate", head |-> 1]
                              ELSE ReplicationProgress_new[p]]
    IN /\ raft = [Elected(Q) EXCEPT ![First].progress = acked]
       /\ chain = [n \in Node |->
            CASE n = First -> Chain_commit(stored, 1)
              [] n \in Q \ {First} -> Chain_extend(genesis, {block})
              [] OTHER -> genesis]
       /\ fsm = [n \in Node |->
            IF n = First
            THEN <<[type |-> "Notify", id |-> req, block_id |-> 1, address |-> Client],
                   [type |-> "Apply", blocks |-> {block}]>>
            ELSE <<>>]
       /\ submitted = {req}
       /\ LedLinks

CommittedSpecRestart == CommittedInit /\ [][NextRestart]_vars
\* The state in which First leads and the nodes that have not voted for it stood
\* for election at the same time and have been defeated.
DividedInit ==
  /\ \E Q \in Quorums :
       raft = [n \in Node |-> IF n \in Q THEN Elected(Q)[n]
                              ELSE [Follower_new EXCEPT !.current_term = 1]]
  /\ chain = [n \in Node |-> Chain_new({}, 0)]
  /\ fsm = [n \in Node |-> <<>>]
  /\ submitted = {}
  /\ LedLinks

DividedSpecRestart == DividedInit /\ [][NextRestart]_vars
=============================================================================
