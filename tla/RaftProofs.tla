----------------------------- MODULE RaftProofs -----------------------------
(***************************************************************************)
(* The theorems about a cluster of any size.  With restarts it is type     *)
(* correct: SpecRestart => []TypeOK, by the inductive invariant TypeInv    *)
(* (TypeOK with finite stores and finite batches, RaftLemmas).  Without    *)
(* restarts it has one leader: Spec => []AtMostOneLeader, by the inductive *)
(* invariant ElectionInv (RaftProperties).  With restarts the stores stay  *)
(* closed under parents, committed ids never go back, and no candidacy     *)
(* outlives its decision: each is a property of one server, so each step   *)
(* is shown to keep it at the server that takes the step.                  *)
(*                                                                         *)
(* While servers that stop stay down, Spec => []ReplicationInv, and from   *)
(* it chains agree, the leader's view of its followers is true, and what   *)
(* is committed is stored by a majority.  With restarts none of this holds *)
(* (a restarted leader draws ids again that it has given out).             *)
(***************************************************************************)
EXTENDS RaftStepProofs
-----------------------------------------------------------------------------
(* Types and leaders *)

\* Every routine step is well typed and has no part in an election.
LEMMA RoutineType ==
  ASSUME TypeInv, NEW s \in Node, NEW n \in Node, Routine(s, n)
  PROVE  TypeInv' /\ Uninvolved(n)
BY FollowerAppendEntriesType, FollowerHeartbeatType, LeaderAppendResponseType,
   LeaderHeartbeatResponseType, LeaderAppendEntriesType, IgnoreType,
   FollowerClientRequestType, CandidateClientRequestType, LeaderClientRequestType,
   LeaderTickType, FailureType, ZenonT(30)
   DEF Routine, Propose

\* A step that has.
Electoral(s, n) ==
  \/ Follower_apply_tick(n)
  \/ Candidate_apply_tick(n)
  \/ Follower_apply_vote_request(s, n)
  \/ Candidate_apply_vote_request(s, n)
  \/ Candidate_apply_vote_response(s, n)
  \/ Candidate_apply_append_entries(s, n)
  \/ Candidate_apply_heartbeat(s, n)

\* Every step of an election is well typed.
LEMMA ElectoralType ==
  ASSUME TypeInv, NEW s \in Node, NEW n \in Node, Electoral(s, n)
  PROVE  TypeInv'
<1>1. CASE Follower_apply_tick(n) \/ Candidate_apply_tick(n)
  <2>1. seek_election(n) BY <1>1 DEF Follower_apply_tick, Candidate_apply_tick
  <2> QED BY <2>1, SeekElectionType, ZenonT(30)
<1>2. CASE Follower_apply_vote_request(s, n) BY <1>2, FollowerVoteRequestType, ZenonT(30)
<1>3. CASE Candidate_apply_vote_request(s, n) BY <1>3, CandidateVoteRequestType, ZenonT(30)
<1>4. CASE Candidate_apply_vote_response(s, n) BY <1>4, CandidateVoteResponseType
<1>5. CASE Candidate_apply_append_entries(s, n) BY <1>5, CandidateAppendEntriesType
<1>6. CASE Candidate_apply_heartbeat(s, n) BY <1>6, CandidateHeartbeatType
<1> QED BY <1>1, <1>2, <1>3, <1>4, <1>5, <1>6, SMTT(30) DEF Electoral

\* A node that keeps its role and its votes gives no vote.
LEMMA KeepsVotesConstant ==
  ASSUME TypeInv, ElectionInv, NEW n \in Node, NEW q, KeepsVotes(n, q),
         raft' = [raft EXCEPT ![n] = q]
  PROVE  Constant(n, q)
<1>1. \A v \in Node : q.votes[v] = "granted" => HasGranted(v, n)
  BY DEF KeepsVotes, HasGranted
<1>2. q.votes[n] = "granted" => q.role # "Follower"
  BY <1>1 DEF KeepsVotes, ElectionInv, VotesAreFinal
<1>3. q.role = "Leader" => election_status(q.votes) = "Elected"
  BY ZenonT(30) DEF KeepsVotes, ElectionInv, LeaderHasQuorum, Leaders
<1> QED BY <1>1, <1>2, <1>3 DEF Constant, KeepsVotes

\* Replication, client requests and failures have no part in an election.
LEMMA RoutineStep ==
  ASSUME TypeInv, ElectionInv, NEW n \in Node, Uninvolved(n)
  PROVE  ElectionInv'
<1>1. PICK q : KeepsVotes(n, q) /\ raft' = [raft EXCEPT ![n] = q] BY ZenonT(30) DEF Uninvolved
<1>2. Constant(n, q) BY <1>1, KeepsVotesConstant, ZenonT(30)
<1>3. SendsFresh(n)
  <2> SUFFICES ASSUME NEW s \in Node, NEW d \in Node, NEW m \in Messages(s, d)', m \notin Messages(s, d)
               PROVE  s = n /\ Fresh(n, d, m)
    BY DEF SendsFresh
  <2>1. s = n /\ Harmless(n, d, m) BY DEF Uninvolved
  <2>2. raft[n].role = "Leader" => n \in Leaders'
    BY <1>1 DEF KeepsVotes, Leaders, TypeInv
  <2>3. CASE m.type \in {"HeartbeatResponse", "ClientRequest", "AppendResponse"} BY <2>1, <2>3 DEF Fresh
  <2>4. CASE raft[n].role = "Leader" /\ (m = Heartbeat(n, raft[n]) \/ m = AppendEntries(n, d))
    <3>1. m.type \in {"Heartbeat", "AppendEntries"} /\ m.leader_id = n
      BY <2>4 DEF Heartbeat, AppendEntries
    <3> QED BY <2>1, <2>2, <2>4, <3>1 DEF Fresh
  <2> QED BY <2>1, <2>3, <2>4 DEF Harmless, Acknowledges
<1> QED BY <1>1, <1>2, <1>3, NoVoteGiven DEF KeepsVotes

\* Every step of an election keeps the invariant.
LEMMA ElectoralStep ==
  ASSUME TypeInv, ElectionInv, NEW s \in Node, NEW n \in Node, Electoral(s, n)
  PROVE  ElectionInv'
<1>1. CASE Follower_apply_tick(n)
  BY <1>1, SeekElectionStep DEF Follower_apply_tick, Is
<1>2. CASE Candidate_apply_tick(n)
  BY <1>2, SeekElectionStep DEF Candidate_apply_tick, Is
<1>3. CASE Follower_apply_vote_request(s, n) BY <1>3, VoteRequestStep
<1>4. CASE Candidate_apply_vote_response(s, n) BY <1>4, VoteResponseStep, ZenonT(30)
<1>5. CASE Candidate_apply_vote_request(s, n)
  <2> DEFINE response == [type |-> "VoteResponse", from |-> n, granted |-> FALSE]
             m == Head(net[s][n])
  <2>1. raft[n].role = "Candidate" BY <1>5, SMTT(30) DEF Candidate_apply_vote_request, Is
  <2>2. \/ /\ Delivered(n, Nothing)
           /\ \E q \in RaftState : /\ raft' = [raft EXCEPT ![n] = q]
                                   /\ q.role = "Follower"
                                   /\ q.votes = Election_new
        \/ raft' = raft /\ Delivered(n, To(m.candidate_id, <<response>>))
    BY <1>5, CandidateVoteRequestType, ZenonT(30)
  <2>3. m.candidate_id = s /\ s # n
    <3>1. Receives(s, n, "VoteRequest") BY <1>5, Zenon DEF Candidate_apply_vote_request
    <3>2. s # n /\ m \in Messages(s, n) /\ m.type = "VoteRequest" BY <3>1, ReceivesFields, ZenonT(30)
    <3> QED BY <3>2, ZenonT(30) DEF ElectionInv, Addressed
  <2>4. CASE \E q \in RaftState : /\ raft' = [raft EXCEPT ![n] = q]
                                  /\ q.role = "Follower"
                                  /\ q.votes = Election_new
                                  /\ Delivered(n, Nothing)
    BY <2>1, <2>4, NothingFresh, StepDown, ZenonT(30)
  <2>5. CASE raft' = raft /\ Delivered(n, To(m.candidate_id, <<response>>))
    <3>1. response \in FiniteCommand /\ Fresh(n, s, response) BY <2>3, CommandTypes, ZenonT(30) DEF Fresh
    <3> HIDE DEF response, m
    <3>2. SendsFresh(n) BY <2>3, <2>5, <3>1, OneFresh, ZenonT(30)
    <3>3. raft[n] \in RaftState BY DEF TypeInv
    <3>4. Constant(n, raft[n])
      <4>1. raft' = raft BY <2>5
      <4> QED BY <2>1, <4>1, ZenonT(30) DEF TypeInv, Constant, HasGranted
    <3> QED BY <3>2, <3>3, <3>4, NoVoteGiven
  <2> QED BY <2>2, <2>4, <2>5, SMTT(30)
<1>6. CASE Candidate_apply_append_entries(s, n)
  <2>1. raft[n].role = "Candidate" BY <1>6 DEF Candidate_apply_append_entries, Is
  <2>2. SendsFresh(n) BY <1>6, CandidateAppendEntriesType, NothingFresh, ZenonT(30)
  <2>3. CASE raft' = raft
    <3>1. Constant(n, raft[n]) /\ raft[n] \in RaftState
      BY <2>1, <2>3 DEF TypeInv, Constant, HasGranted
    <3> QED BY <2>2, <3>1, NoVoteGiven
  <2>4. CASE \E q \in RaftState : /\ raft' = [raft EXCEPT ![n] = q]
                                  /\ q.role = "Follower"
                                  /\ q.votes = Election_new
    BY <2>1, <2>2, <2>4, StepDown, ZenonT(30)
  <2> QED BY <1>6, <2>3, <2>4, CandidateAppendEntriesType, ZenonT(30)
<1>7. CASE Candidate_apply_heartbeat(s, n)
  <2>1. raft[n].role = "Candidate" BY <1>7 DEF Candidate_apply_heartbeat, Is
  <2>2. PICK q \in RaftState : /\ raft' = [raft EXCEPT ![n] = q]
                               /\ q.role = "Follower"
                               /\ q.votes = Election_new
    BY <1>7, CandidateHeartbeatType
  <2>3. PICK out \in Outbox : /\ Delivered(n, out)
                              /\ \A d \in Node : \A j \in DOMAIN out[d] : Harmless(n, d, out[d][j])
    BY <1>7, CandidateHeartbeatType, SMTT(30)
  <2>4. \A d \in Node : \A j \in DOMAIN out[d] : Fresh(n, d, out[d][j])
    BY <2>1, <2>3, ZenonT(30) DEF Harmless, Acknowledges, Fresh
  <2>5. SendsFresh(n) BY <2>3, <2>4, DeliveredFresh, SMTT(30)
  <2> QED BY <2>1, <2>2, <2>5, StepDown, ZenonT(30)
<1> QED BY <1>1, <1>2, <1>3, <1>4, <1>5, <1>6, <1>7, ZenonT(30) DEF Electoral

\* Every step of a cluster whose servers stay down is one or the other.
LEMMA NextSplits ==
  ASSUME Next
  PROVE  \E s, n \in Node : Routine(s, n) \/ Electoral(s, n)
BY NodeAssumption DEF Next, Apply, Tick, Propose, Routine, Electoral

\* A server that starts again is well typed over any store (Chain::new).
LEMMA RestartType ==
  ASSUME TypeInv, NEW n \in Node, Restart(n)
  PROVE  TypeInv'
<1>1. up' \in [Node -> BOOLEAN] /\ failures' \in Nat /\ submitted' \subseteq Request
  BY DEF Restart, TypeInv
<1>2. raft' \in [Node -> RaftState] BY NewTypes DEF Restart, TypeInv
<1>3. chain' \in [Node -> FiniteChain]
  <2> DEFINE c == Chain_new(chain[n].db, chain[n].commit)
  <2>1. c \in FiniteChain BY ChainNewType, ZenonT(30) DEF TypeInv, FiniteChain, ChainState
  <2>2. chain' = [chain EXCEPT ![n] = c] BY DEF Restart
  <2> HIDE DEF c
  <2> QED BY <2>1, <2>2 DEF TypeInv
<1>4. fsm' \in [Node -> Seq(Instruction)]
  <2>1. <<>> \in Seq(Instruction) BY SMTT(30)
  <2> QED BY <2>1 DEF Restart, TypeInv
<1>5. link' \in [Node -> [Node -> LinkState]] BY SMTT(30) DEF Restart, Tcp_restart, TypeInv, LinkState
<1>6. net' \in [Node -> [Node -> Seq(FiniteCommand)]]
  <2>1. <<>> \in Seq(FiniteCommand) OBVIOUS
  <2> QED BY <2>1 DEF Restart, Tcp_restart, TypeInv
<1> QED BY <1>1, <1>2, <1>3, <1>4, <1>5, <1>6, ZenonT(30) DEF TypeInv

\* So are the servers that start first.
LEMMA InitType == Init => TypeInv
<1> SUFFICES ASSUME Init PROVE TypeInv
  OBVIOUS
<1>1. Chain_new({}, 0) \in FiniteChain BY ChainNewType, FS_EmptySet
<1>2. <<>> \in Seq(Instruction) /\ <<>> \in Seq(FiniteCommand) OBVIOUS
<1> QED BY <1>1, <1>2, NewTypes, ZenonT(30) DEF Init, Tcp_Init, TypeInv, LinkState

\* The inductive type invariant implies the one the runs check.
LEMMA TypeInvTypeOK == TypeInv => TypeOK
<1> SUFFICES ASSUME TypeInv PROVE TypeOK
  OBVIOUS
<1>1. chain \in [Node -> ChainState] BY DEF TypeInv, FiniteChain
<1>2. net \in [Node -> [Node -> Seq(Command)]]
  <2>1. FiniteCommand \subseteq Command BY DEF FiniteCommand
  <2>2. Seq(FiniteCommand) \subseteq Seq(Command) BY <2>1, SeqSubset
  <2> QED BY <2>2 DEF TypeInv
<1> QED BY <1>1, <1>2 DEF TypeInv, TypeOK

\* TypeInv is inductive.
LEMMA TypeStep == TypeInv /\ [NextRestart]_vars => TypeInv'
<1> SUFFICES ASSUME TypeInv, [NextRestart]_vars PROVE TypeInv'
  OBVIOUS
<1>1. CASE Next BY <1>1, NextSplits, RoutineType, ElectoralType, SMTT(30)
<1>2. CASE \E n \in Node : Restart(n) BY <1>2, RestartType, SMTT(30)
<1>3. CASE UNCHANGED vars BY <1>3 DEF vars, TypeInv
<1> QED BY <1>1, <1>2, <1>3, ZenonT(30) DEF NextRestart

\* The cluster stays well formed.
LEMMA TypeInvariant == SpecRestart => []TypeInv
BY TypeStep, InitType, PTL DEF SpecRestart

\* The state of a cluster of any size stays well formed through any elections,
\* replication, failures and restarts; in particular a follower's head is always
\* an id, whatever batches extend its chain.
THEOREM TypeCorrect == SpecRestart => []TypeOK
BY TypeInvariant, TypeInvTypeOK, PTL

\* A run without restarts is a run.
LEMMA SpecIsSpecRestart == Spec => SpecRestart
<1>1. [Next]_vars => [NextRestart]_vars BY DEF NextRestart
<1> QED BY <1>1, PTL DEF Spec, SpecRestart

\* A step keeps ElectionInv.
LEMMA ElectionStep == TypeInv /\ ElectionInv /\ [Next]_vars => ElectionInv'
<1> SUFFICES ASSUME TypeInv, ElectionInv, [Next]_vars PROVE ElectionInv'
  OBVIOUS
<1>1. CASE Next
  <2>1. PICK s, n \in Node : Routine(s, n) \/ Electoral(s, n) BY <1>1, NextSplits
  <2>2. CASE Routine(s, n) BY <2>2, RoutineType, RoutineStep
  <2>3. CASE Electoral(s, n) BY <2>3, ElectoralStep, ZenonT(30)
  <2> QED BY <2>1, <2>2, <2>3
<1>2. CASE UNCHANGED vars BY <1>2, NothingHappens DEF vars
<1> QED BY <1>1, <1>2

\* ElectionInv is inductive: every vote is given once, and given for good.
THEOREM VotesAreGivenOnce == Spec => []ElectionInv
BY ElectionStep, InitElection, TypeInvariant, SpecIsSpecRestart, PTL DEF Spec

\* From the first election on a cluster of any size has one leader, across all
\* terms, whatever crashes and whatever messages are lost, as long as servers
\* that stop stay down (candidate.rs:elect, follower.rs:can_vote,
\* election.rs:quorum_size).
THEOREM OneLeader == Spec => []AtMostOneLeader
BY TypeInvariant, SpecIsSpecRestart, VotesAreGivenOnce, QuorumsIntersect, PTL
-----------------------------------------------------------------------------
(* Chains *)

\* The parent of every stored block is stored, and so are the head and the
\* committed block.
Closed(c) ==
  /\ \A b \in c.db : Chain_has(c, b.next)
  /\ Chain_has(c, c.head)
  /\ Chain_has(c, c.commit)

\* Storing a block stores its id and keeps all other ids.
LEMMA InsertIds ==
  ASSUME NEW db, NEW b
  PROVE  /\ b \in Insert(db, b)
         /\ \A x \in db : \E y \in Insert(db, b) : y.id = x.id
         /\ \A x \in Insert(db, b) : x \in db \/ x = b
BY DEF Insert

\* A store that is opened is closed if it was when it was left, and its commit
\* is the stored one (chain.rs:new, init).
LEMMA NewIsClosed ==
  ASSUME NEW db, NEW commit \in Nat,
         \A b \in db : \E x \in db : x.id = b.next,
         commit > 0 => \E x \in db : x.id = commit
  PROVE  Closed(Chain_new(db, commit)) /\ Chain_new(db, commit).commit = commit
<1>1. CASE commit = 0
  <2> DEFINE c == Chain_new(db, commit)
  <2>1. c.db = Insert(db, GenesisBlock) /\ c.head = 0 /\ c.commit = 0 BY <1>1 DEF Chain_new
  <2> HIDE DEF c
  <2>2. GenesisBlock.id = 0 /\ GenesisBlock.next = 0 BY DEF GenesisBlock
  <2>3. Chain_has(c, 0) BY <2>1, <2>2, InsertIds DEF Chain_has
  <2>4. ASSUME NEW b \in c.db PROVE Chain_has(c, b.next)
    <3>1. CASE b = GenesisBlock BY <2>2, <2>3, <3>1
    <3>2. CASE b \in db
      <4>1. PICK x \in db : x.id = b.next BY <3>2
      <4> QED BY <2>1, <4>1, InsertIds DEF Chain_has
    <3> QED BY <2>1, <3>1, <3>2, InsertIds
  <2> QED BY <1>1, <2>1, <2>3, <2>4 DEF Closed, c
<1>2. CASE commit > 0 BY <1>2 DEF Chain_new, Closed, Chain_has
<1> QED BY <1>1, <1>2

\* append stores the block over its parent, the head (chain.rs:append).
LEMMA AppendIsClosed ==
  ASSUME NEW c \in FiniteChain, NEW data \in Data, Closed(c)
  PROVE  Closed(Chain_append(c, data))
<1> DEFINE a == Chain_append(c, data)
           b == [id |-> c.id_gen, next |-> c.head, data |-> data]
<1>1. a.db = Insert(c.db, b) /\ a.head = c.id_gen /\ a.commit = c.commit BY AppendFields
<1>2. b.id = c.id_gen /\ b.next = c.head OBVIOUS
<1> HIDE DEF a, b
<1>3. ASSUME NEW i, Chain_has(c, i) PROVE Chain_has(a, i)
  BY <1>1, <1>3, InsertIds DEF Chain_has
<1>4. \A x \in a.db : x \in c.db \/ x = b BY <1>1, InsertIds
<1>5. Chain_has(a, a.head) BY <1>1, <1>2, InsertIds DEF Chain_has
<1> QED BY <1>1, <1>2, <1>3, <1>4, <1>5 DEF Closed, a

\* extend stores blocks whose parents are stored, or among those stored before
\* them (chain.rs:extend).
LEMMA ExtendIsClosed ==
  ASSUME NEW c \in FiniteChain, NEW blocks \in SUBSET Block, IsFiniteSet(blocks), Closed(c)
  PROVE  Closed(Chain_extend(c, Extendable(c, blocks)))
<1> DEFINE stored == Extendable(c, blocks)
           e == Chain_extend(c, stored)
<1>1. stored \in SUBSET blocks BY DEF Extendable
<1>2. IsFiniteSet(stored) BY <1>1, FS_Subset
<1>3. CASE stored = {}
  <2>1. e = c BY <1>3 DEF Chain_extend
  <2> QED BY <2>1
<1>4. CASE stored # {}
  <2>0. \A x \in stored : x.id \in Nat BY <1>1 DEF Block
  <2>1. ASSUME NEW x \in stored
        PROVE  Chain_has(c, x.next) \/ \E y \in stored : y.id = x.next
    <3>1. \/ Chain_has(c, x.next)
          \/ \E y \in blocks : y.id = x.next /\ y.id < x.id
      BY <2>0 DEF Extendable
    <3>2. ASSUME NEW y \in blocks, y.id < x.id PROVE y \in stored
      <4>1. y.id \in Nat /\ \A z \in blocks : z.id \in Nat BY DEF Block
      <4>2. \A z \in blocks : z.id <= y.id => z.id <= x.id BY <2>0, <3>2, <4>1
      <4> QED BY <4>2 DEF Extendable
    <3> QED BY <3>1, <3>2
  <2> HIDE DEF stored
  <2>2. /\ e.db = {b \in c.db : b.id \notin Ids(stored)} \cup stored
        /\ e.commit = c.commit
        /\ \E b \in stored : e.head = b.id
    BY <1>1, <1>2, <1>4, ExtendFields
  <2> HIDE DEF e
  <2>3. ASSUME NEW i, Chain_has(c, i) PROVE Chain_has(e, i)
    BY <2>2, <2>3 DEF Chain_has, Ids
  <2>4. \A y \in stored : Chain_has(e, y.id) BY <2>2 DEF Chain_has
  <2>5. \A x \in e.db : x \in c.db \/ x \in stored BY <2>2
  <2>6. ASSUME NEW x \in e.db PROVE Chain_has(e, x.next)
    BY <2>1, <2>3, <2>4, <2>5 DEF Closed
  <2>7. Chain_has(e, e.head) BY <2>2, <2>4
  <2>8. Chain_has(e, e.commit) BY <2>2, <2>3 DEF Closed
  <2>9. Closed(e) BY <2>6, <2>7, <2>8 DEF Closed
  <2> QED BY <2>9 DEF e, stored
<1> QED BY <1>3, <1>4

\* commit checks that the block is stored (chain.rs:commit).
LEMMA CommitIsClosed ==
  ASSUME NEW c \in FiniteChain, NEW block_id, Closed(c)
  PROVE  Closed(Chain_commit(c, block_id))
<1> DEFINE k == Chain_commit(c, block_id)
<1>1. /\ k.db = c.db /\ k.head = c.head
      /\ (k.commit = block_id /\ Chain_has(c, block_id)) \/ k.commit = c.commit
  BY CommitFields
<1> HIDE DEF k
<1>2. \A i : Chain_has(k, i) <=> Chain_has(c, i) BY <1>1 DEF Chain_has
<1> QED BY <1>1, <1>2 DEF Closed, k

\* A step changes no other chain than that of n, keeps it closed, and does not
\* take its commit back.
KeepsChain(n) ==
  \E c : /\ chain' = [chain EXCEPT ![n] = c]
         /\ Closed(chain[n]) => Closed(c)
         /\ c.commit >= chain[n].commit

\* A step that leaves all chains alone.
LEMMA ChainStays ==
  ASSUME TypeInv, NEW n \in Node, UNCHANGED chain
  PROVE  KeepsChain(n)
<1>1. chain' = [chain EXCEPT ![n] = chain[n]] /\ chain[n].commit \in Nat
  BY DEF TypeInv, FiniteChain, ChainState
<1>2. chain[n].commit >= chain[n].commit BY <1>1
<1> QED BY <1>1, <1>2, ZenonT(30) DEF KeepsChain

\* follower.rs:apply_append_entries stores what it can.
LEMMA FollowerAppendKeepsChain ==
  ASSUME TypeInv, NEW s \in Node, NEW n \in Node, Follower_apply_append_entries(s, n)
  PROVE  KeepsChain(n)
<1> DEFINE blocks == Head(net[s][n]).blocks
<1>1. blocks \in SUBSET Block /\ IsFiniteSet(blocks)
  BY ReceivesFields, CommandFields, ZenonT(30) DEF Follower_apply_append_entries
<1>2. \/ chain' = [chain EXCEPT ![n] = Chain_extend(chain[n], Extendable(chain[n], blocks))]
      \/ chain' = [chain EXCEPT ![n] = Chain_extend(chain[n], {})]
  BY ZenonT(30) DEF Follower_apply_append_entries
<1> HIDE DEF blocks
<1>3. chain[n] \in FiniteChain /\ chain[n].commit \in Nat BY DEF TypeInv, FiniteChain, ChainState
<1>4. CASE chain' = [chain EXCEPT ![n] = Chain_extend(chain[n], {})]
  <2>1. Chain_extend(chain[n], {}) = chain[n] BY DEF Chain_extend
  <2>2. chain[n].commit >= chain[n].commit BY <1>3
  <2> QED BY <1>4, <2>1, <2>2, ZenonT(30) DEF KeepsChain
<1>5. CASE chain' = [chain EXCEPT ![n] = Chain_extend(chain[n], Extendable(chain[n], blocks))]
  <2> DEFINE c == Chain_extend(chain[n], Extendable(chain[n], blocks))
  <2>1. Closed(chain[n]) => Closed(c) BY <1>1, <1>3, ExtendIsClosed
  <2>2. c.commit = chain[n].commit BY <1>1, <1>3, ExtendCommit
  <2> HIDE DEF c
  <2>3. c.commit >= chain[n].commit BY <1>3, <2>2
  <2> QED BY <1>5, <2>1, <2>3, ZenonT(30) DEF KeepsChain, c
<1> QED BY <1>2, <1>4, <1>5

\* follower.rs:apply_heartbeat commits what it has and what is new.
LEMMA FollowerHeartbeatKeepsChain ==
  ASSUME TypeInv, NEW s \in Node, NEW n \in Node, Follower_apply_heartbeat(s, n)
  PROVE  KeepsChain(n)
<1> DEFINE commit == Head(net[s][n]).commit
<1>1. \/ chain' = [chain EXCEPT ![n] = chain[n]]
      \/ /\ chain' = [chain EXCEPT ![n] = Chain_commit(chain[n], commit)]
         /\ Chain_has(chain[n], commit)
         /\ commit > chain[n].commit
  BY ZenonT(30) DEF Follower_apply_heartbeat
<1>2. commit \in Nat BY ReceivesFields, CommandFields, ZenonT(30) DEF Follower_apply_heartbeat
<1> HIDE DEF commit
<1>3. chain[n] \in FiniteChain /\ chain[n].commit \in Nat BY DEF TypeInv, FiniteChain, ChainState
<1>4. CASE chain' = [chain EXCEPT ![n] = chain[n]]
  <2>1. chain[n].commit >= chain[n].commit BY <1>3
  <2> QED BY <1>4, <2>1, ZenonT(30) DEF KeepsChain
<1>5. CASE /\ chain' = [chain EXCEPT ![n] = Chain_commit(chain[n], commit)]
           /\ Chain_has(chain[n], commit)
           /\ commit > chain[n].commit
  <2> DEFINE c == Chain_commit(chain[n], commit)
  <2>1. Closed(chain[n]) => Closed(c) BY <1>3, CommitIsClosed
  <2>2. c.commit = commit BY <1>3, <1>5, CommitFields
  <2> HIDE DEF c
  <2>3. c.commit >= chain[n].commit BY <1>2, <1>3, <1>5, <2>2
  <2> QED BY <1>5, <2>1, <2>3, ZenonT(30) DEF KeepsChain, c
<1> QED BY <1>1, <1>4, <1>5

\* leader.rs:commit stores the committed id only when it is larger.
LEMMA AcknowledgeKeepsChain ==
  ASSUME TypeInv, NEW n \in Node, NEW a \in FiniteChain, NEW sent, NEW node_id, NEW head,
         Closed(chain[n]) => Closed(a), a.commit = chain[n].commit,
         Leader_acknowledge(n, a, sent, node_id, head)
  PROVE  KeepsChain(n)
<1> DEFINE k == committed_index(advance(raft[n].progress, node_id, head))
<1>1. \/ chain' = [chain EXCEPT ![n] = a]
      \/ chain' = [chain EXCEPT ![n] = Chain_commit(a, k)] /\ k > a.commit
  BY ZenonT(30) DEF Leader_acknowledge
<1> HIDE DEF k
<1>2. a.commit \in Nat BY DEF FiniteChain, ChainState
<1>3. CASE chain' = [chain EXCEPT ![n] = a]
  <2>1. a.commit >= chain[n].commit BY <1>2
  <2> QED BY <1>3, <2>1, ZenonT(30) DEF KeepsChain
<1>4. CASE chain' = [chain EXCEPT ![n] = Chain_commit(a, k)] /\ k > a.commit
  <2> DEFINE c == Chain_commit(a, k)
  <2>1. Closed(chain[n]) => Closed(c) BY CommitIsClosed
  <2>2. (c.commit = k /\ Chain_has(a, k)) \/ c.commit = a.commit BY CommitFields
  <2>3. Chain_has(a, k) => k \in Nat BY DEF Chain_has, FiniteChain, ChainState, Block
  <2> HIDE DEF c
  <2>4. c.commit >= chain[n].commit BY <1>2, <1>4, <2>2, <2>3
  <2> QED BY <1>4, <2>1, <2>4, ZenonT(30) DEF KeepsChain, c
<1> QED BY <1>1, <1>3, <1>4

\* leader.rs:apply_append_response and apply_client_request.
LEMMA LeaderKeepsChain ==
  ASSUME TypeInv, NEW s \in Node, NEW n \in Node,
         \/ Leader_apply_append_response(s, n)
         \/ \E req \in ClientRequest : Leader_apply_client_request(s, n, req)
  PROVE  KeepsChain(n)
<1>1. chain[n] \in FiniteChain BY DEF TypeInv
<1>2. CASE Leader_apply_append_response(s, n)
  <2>1. \E node_id, head : Leader_acknowledge(n, chain[n], <<>>, node_id, head)
    BY <1>2 DEF Leader_apply_append_response
  <2> QED BY <1>1, <2>1, AcknowledgeKeepsChain
<1>3. ASSUME NEW req \in ClientRequest, Leader_apply_client_request(s, n, req)
      PROVE  KeepsChain(n)
  <2> DEFINE a == Chain_append(chain[n], req.id)
  <2>1. \/ UNCHANGED chain
        \/ \E sent : Leader_acknowledge(n, a, sent, n, a.head)
    BY <1>3, ZenonT(30) DEF Leader_apply_client_request
  <2>2. req.id \in Data BY DEF ClientRequest, Request
  <2>3. /\ a \in FiniteChain
        /\ Closed(chain[n]) => Closed(a)
        /\ a.commit = chain[n].commit
    BY <1>1, <2>2, ChainAppendType, AppendIsClosed, AppendFields, ZenonT(30)
  <2> HIDE DEF a
  <2> QED BY <2>1, <2>3, ChainStays, AcknowledgeKeepsChain, ZenonT(30)
<1> QED BY <1>2, <1>3

\* Chain::new over the store of a closed chain.
LEMMA RestartKeepsChain ==
  ASSUME TypeInv, NEW n \in Node, Restart(n)
  PROVE  KeepsChain(n)
<1> DEFINE c == Chain_new(chain[n].db, chain[n].commit)
<1>1. chain' = [chain EXCEPT ![n] = c] BY DEF Restart
<1>2. chain[n].commit \in Nat BY DEF TypeInv, FiniteChain, ChainState
<1>3. Closed(chain[n]) => Closed(c) BY <1>2, NewIsClosed DEF Closed, Chain_has
<1>4. c.commit = chain[n].commit BY <1>2 DEF Chain_new
<1> HIDE DEF c
<1>5. c.commit >= chain[n].commit BY <1>2, <1>4
<1> QED BY <1>1, <1>3, <1>5, ZenonT(30) DEF KeepsChain

\* Every step keeps the chain of the server that takes it.
LEMMA StepKeepsChain ==
  ASSUME TypeInv, NextRestart
  PROVE  \E n \in Node : KeepsChain(n)
<1>1. ASSUME NEW s \in Node, NEW n \in Node, Routine(s, n) PROVE KeepsChain(n)
  <2>1. \/ Follower_apply_append_entries(s, n)
        \/ Follower_apply_heartbeat(s, n)
        \/ Leader_apply_append_response(s, n)
        \/ \E req \in ClientRequest : Leader_apply_client_request(s, n, req)
        \/ UNCHANGED chain
    BY <1>1, ZenonT(30)
       DEF Routine, Propose, Leader_apply_heartbeat_response, Leader_apply_append_entries, Ignore,
           Follower_apply_client_request, Candidate_apply_client_request, Leader_apply_tick,
           Crash, send_task_fails, Disconnect
  <2> QED BY <2>1, FollowerAppendKeepsChain, FollowerHeartbeatKeepsChain, LeaderKeepsChain,
             ChainStays, ZenonT(30)
<1>2. ASSUME NEW s \in Node, NEW n \in Node, Electoral(s, n) PROVE KeepsChain(n)
  <2>1. UNCHANGED chain
    BY <1>2, ZenonT(30)
       DEF Electoral, Follower_apply_tick, Candidate_apply_tick, seek_election,
           Follower_apply_vote_request, Candidate_apply_vote_request,
           Candidate_apply_vote_response, Candidate_apply_append_entries,
           Candidate_apply_heartbeat
  <2> QED BY <2>1, ChainStays
<1> QED BY <1>1, <1>2, NextSplits, RestartKeepsChain, ZenonT(30) DEF NextRestart

\* The store of a server that starts first is closed.
LEMMA InitClosed == Init => ChainIsClosed
<1>1. Closed(Chain_new({}, 0)) BY NewIsClosed
<1> QED BY <1>1 DEF Init, ChainIsClosed, Closed

\* A step keeps the stores closed.
LEMMA ClosedStep == TypeInv /\ ChainIsClosed /\ [NextRestart]_vars => ChainIsClosed'
<1> SUFFICES ASSUME TypeInv, ChainIsClosed, [NextRestart]_vars,
                    NEW p \in Node
             PROVE  Closed(chain'[p])
  BY DEF ChainIsClosed, Closed, Chain_has
<1>1. Closed(chain[p]) BY DEF ChainIsClosed, Closed
<1>2. CASE NextRestart
  <2>1. PICK n \in Node : KeepsChain(n) BY <1>2, StepKeepsChain
  <2>2. PICK c : chain' = [chain EXCEPT ![n] = c] /\ (Closed(chain[n]) => Closed(c))
    BY <2>1, ZenonT(30) DEF KeepsChain
  <2>3. chain'[p] = chain[p] \/ (p = n /\ chain'[p] = c) BY <2>2 DEF TypeInv
  <2> QED BY <1>1, <2>2, <2>3
<1>3. CASE UNCHANGED vars
  <2>1. chain'[p] = chain[p] BY <1>3 DEF vars
  <2> QED BY <1>1, <2>1
<1> QED BY <1>2, <1>3

\* In a cluster of any size, over any restarts, the store of every server holds
\* the parent of every block it holds, its head and its committed block
\* (chain.rs:new, append, extend, commit).
THEOREM StoresAreClosed == SpecRestart => []ChainIsClosed
BY InitClosed, ClosedStep, TypeInvariant, PTL DEF SpecRestart

\* The committed id of a server never goes back, whatever heartbeats and
\* acknowledgements come late and however often it restarts.
THEOREM CommitsOnlyGrow == SpecRestart => CommitNeverRegresses
<1>1. TypeInv /\ [NextRestart]_vars => [\A n \in Node : chain'[n].commit >= chain[n].commit]_vars
  <2> SUFFICES ASSUME TypeInv, NextRestart, NEW p \in Node
               PROVE  chain'[p].commit >= chain[p].commit
    OBVIOUS
  <2>1. PICK n \in Node : KeepsChain(n) BY StepKeepsChain
  <2>2. PICK c : chain' = [chain EXCEPT ![n] = c] /\ c.commit >= chain[n].commit
    BY <2>1, ZenonT(30) DEF KeepsChain
  <2>3. chain[p].commit \in Nat BY DEF TypeInv, FiniteChain, ChainState
  <2>4. chain'[p] = chain[p] \/ (p = n /\ chain'[p] = c) BY <2>2 DEF TypeInv
  <2> QED BY <2>2, <2>3, <2>4
<1> QED BY <1>1, TypeInvariant, PTL DEF SpecRestart, CommitNeverRegresses
-----------------------------------------------------------------------------
(* Candidacies *)

\* What CandidateIsUndecided says of one server.
Undecided(r) == r.role = "Candidate" => election_status(r.votes) = "Voting"

\* A step changes no other server than n, and if it leaves n a candidate, its
\* votes have decided nothing.
KeepsUndecided(n) ==
  \E q : raft' = [raft EXCEPT ![n] = q] /\ (Undecided(raft[n]) => Undecided(q))

\* Standing for election: a server's own vote can decide it (candidate.rs:seek_election).
LEMMA SeekElectionUndecided ==
  ASSUME TypeInv, NEW n \in Node, seek_election(n)
  PROVE  KeepsUndecided(n)
<1> DEFINE c == Standing(n)
           q == apply_vote_response(c, n, TRUE)
<1>1. /\ c \in RaftState /\ c.role = "Candidate"
      /\ raft' = [raft EXCEPT ![n] = q]
  BY SeekElectionType, ZenonT(30)
<1> HIDE DEF c
<1>2. q.role = "Candidate" => election_status(q.votes) = "Voting"
  BY <1>1, VoteResponseFields, ZenonT(30)
<1> HIDE DEF q
<1> QED BY <1>1, <1>2, ZenonT(30) DEF KeepsUndecided, Undecided

\* Counting an answer (candidate.rs:apply_vote_response).
LEMMA VoteResponseUndecided ==
  ASSUME TypeInv, NEW s \in Node, NEW n \in Node, Candidate_apply_vote_response(s, n)
  PROVE  KeepsUndecided(n)
<1> DEFINE m == Head(net[s][n])
           q == apply_vote_response(raft[n], m.from, m.granted)
<1>1. m.from \in Node /\ m.granted \in BOOLEAN /\ raft' = [raft EXCEPT ![n] = q]
  BY CandidateVoteResponseType, ZenonT(30)
<1>2. raft[n] \in RaftState /\ raft[n].role = "Candidate"
  BY DEF TypeInv, Candidate_apply_vote_response, Is
<1> HIDE DEF m
<1>3. q.role = "Candidate" => election_status(q.votes) = "Voting"
  BY <1>1, <1>2, VoteResponseFields, ZenonT(30)
<1> HIDE DEF q
<1> QED BY <1>1, <1>3, ZenonT(30) DEF KeepsUndecided, Undecided

\* The other steps of an election leave n as it is, or make it a follower, or
\* change a follower's vote.
LEMMA ElectoralUndecided ==
  ASSUME TypeInv, NEW s \in Node, NEW n \in Node, Electoral(s, n)
  PROVE  KeepsUndecided(n)
<1>1. CASE Follower_apply_tick(n) \/ Candidate_apply_tick(n)
  <2>1. seek_election(n) BY <1>1 DEF Follower_apply_tick, Candidate_apply_tick
  <2> QED BY <2>1, SeekElectionUndecided
<1>2. CASE Candidate_apply_vote_response(s, n) BY <1>2, VoteResponseUndecided
<1>3. CASE Follower_apply_vote_request(s, n)
  <2> DEFINE m == Head(net[s][n])
             q == [raft[n] EXCEPT !.voted_for = IF can_vote(n, m.last_term, m.head)
                                               THEN m.candidate_id ELSE @]
  <2>1. raft' = [raft EXCEPT ![n] = q] BY <1>3, FollowerVoteRequestType, ZenonT(30)
  <2>2. raft[n] \in RaftState /\ raft[n].role = "Follower"
    BY <1>3 DEF TypeInv, Follower_apply_vote_request, Is
  <2>3. q.role = "Follower" BY <2>2 DEF RaftState
  <2> HIDE DEF q
  <2> QED BY <2>1, <2>3, ZenonT(30) DEF KeepsUndecided, Undecided
<1>4. ASSUME \/ raft' = raft
             \/ \E q \in RaftState : raft' = [raft EXCEPT ![n] = q] /\ q.role = "Follower"
      PROVE  KeepsUndecided(n)
  <2>1. CASE raft' = raft
    <3>1. raft' = [raft EXCEPT ![n] = raft[n]] BY <2>1 DEF TypeInv
    <3> QED BY <3>1, ZenonT(30) DEF KeepsUndecided
  <2>2. CASE \E q \in RaftState : raft' = [raft EXCEPT ![n] = q] /\ q.role = "Follower"
    BY <2>2, ZenonT(30) DEF KeepsUndecided, Undecided
  <2> QED BY <1>4, <2>1, <2>2
<1>5. CASE Candidate_apply_vote_request(s, n) BY <1>4, <1>5, CandidateVoteRequestType, ZenonT(30)
<1>6. CASE Candidate_apply_append_entries(s, n) BY <1>4, <1>6, CandidateAppendEntriesType, ZenonT(30)
<1>7. CASE Candidate_apply_heartbeat(s, n) BY <1>4, <1>7, CandidateHeartbeatType, ZenonT(30)
<1> QED BY <1>1, <1>2, <1>3, <1>5, <1>6, <1>7, ZenonT(30) DEF Electoral

\* Every step keeps the candidacy of the server that takes it undecided.
LEMMA StepUndecided ==
  ASSUME TypeInv, NextRestart
  PROVE  \E n \in Node : KeepsUndecided(n)
<1>1. ASSUME NEW s \in Node, NEW n \in Node, Routine(s, n) PROVE KeepsUndecided(n)
  <2>1. PICK q : KeepsVotes(n, q) /\ raft' = [raft EXCEPT ![n] = q]
    BY <1>1, RoutineType, ZenonT(30) DEF Uninvolved
  <2>2. q.role = raft[n].role /\ (q.role = "Candidate" => q.votes = raft[n].votes)
    BY <2>1 DEF KeepsVotes
  <2> QED BY <2>1, <2>2, ZenonT(30) DEF KeepsUndecided, Undecided
<1>2. ASSUME NEW n \in Node, Restart(n) PROVE KeepsUndecided(n)
  <2>1. raft' = [raft EXCEPT ![n] = Follower_new] /\ Follower_new.role = "Follower"
    BY <1>2 DEF Restart, Follower_new
  <2> QED BY <2>1, ZenonT(30) DEF KeepsUndecided, Undecided
<1> QED BY <1>1, <1>2, NextSplits, ElectoralUndecided, ZenonT(30) DEF NextRestart

\* In a cluster of any size, over any restarts and with answers of any age, the
\* tick of a candidate never meets an election that is already decided: the
\* panic of candidate.rs:63 is not reachable.
THEOREM NoDecidedCandidate == SpecRestart => []CandidateIsUndecided
<1>1. Init => CandidateIsUndecided BY DEF Init, Follower_new, CandidateIsUndecided
<1>2. TypeInv /\ CandidateIsUndecided /\ [NextRestart]_vars => CandidateIsUndecided'
  <2> SUFFICES ASSUME TypeInv, CandidateIsUndecided, [NextRestart]_vars,
                      NEW p \in Node
               PROVE  Undecided(raft'[p])
    BY DEF CandidateIsUndecided, Undecided
  <2>1. Undecided(raft[p]) BY DEF CandidateIsUndecided, Undecided
  <2>2. CASE NextRestart
    <3>1. PICK n \in Node : KeepsUndecided(n) BY <2>2, StepUndecided
    <3>2. PICK q : raft' = [raft EXCEPT ![n] = q] /\ (Undecided(raft[n]) => Undecided(q))
      BY <3>1, ZenonT(30) DEF KeepsUndecided
    <3>3. raft'[p] = raft[p] \/ (p = n /\ raft'[p] = q) BY <3>2 DEF TypeInv
    <3> QED BY <2>1, <3>2, <3>3
  <2>3. CASE UNCHANGED vars
    <3>1. raft'[p] = raft[p] BY <2>3 DEF vars
    <3> QED BY <2>1, <3>1
  <2> QED BY <2>2, <2>3
<1> QED BY <1>1, <1>2, TypeInvariant, PTL DEF SpecRestart
-----------------------------------------------------------------------------
(* Replication: every step is of one of the four kinds *)

\* The heartbeat of the leader n, or of a new leader.
LEMMA HeartbeatIsTruthful ==
  ASSUME NEW n, NEW d, NEW r
  PROVE  Truthful(n, d, Heartbeat(n, r))
BY DEF Heartbeat, Truthful

\* What n sends outside elections.
LEMMA HarmlessTruth ==
  ASSUME NEW n \in Node, NEW d \in Node, NEW m, Harmless(n, d, m)
  PROVE  Truthful(n, d, m)
<1>1. CASE raft[n].role = "Leader" /\ m = Heartbeat(n, raft[n]) BY <1>1, HeartbeatIsTruthful
<1>2. CASE raft[n].role = "Leader" /\ m = AppendEntries(n, d) BY <1>2 DEF Truthful, Leaders
<1>3. CASE m.type \in {"HeartbeatResponse", "ClientRequest"} \/ Acknowledges(n, m)
  BY <1>3, ZenonT(30) DEF Truthful
<1> QED BY <1>1, <1>2, <1>3 DEF Harmless

\* A step sends what is in its outbox.
LEMMA DeliveredTruth ==
  ASSUME NEW n \in Node, NEW out, Delivered(n, out),
         \A d \in Node : \A j \in DOMAIN out[d] : Truthful(n, d, out[d][j])
  PROVE  SendsTruth(n)
<1> SUFFICES ASSUME NEW s \in Node, NEW d \in Node, NEW m \in Messages(s, d)', m \notin Messages(s, d)
             PROVE  s = n /\ Truthful(n, d, m)
  BY DEF SendsTruth
<1>1. s = n /\ \E j \in DOMAIN out[d] : m = out[d][j] BY DEF Delivered
<1> QED BY <1>1

\* What an outbox holds when it sends the same messages to all it sends any to.
LEMMA OutboxTruth ==
  ASSUME NEW n \in Node, NEW p, NEW ms, NEW out,
         out = To(p, ms) \/ out = ToPeers(p, ms), Delivered(n, out),
         \A d \in Node : \A i \in DOMAIN ms : Truthful(n, d, ms[i])
  PROVE  SendsTruth(n)
<1>1. \A d \in Node : out[d] = ms \/ out[d] = <<>> BY DEF To, ToPeers
<1>2. DOMAIN <<>> = {} OBVIOUS
<1>3. ASSUME NEW d \in Node, NEW j \in DOMAIN out[d] PROVE Truthful(n, d, out[d][j])
  BY <1>1, <1>2, <1>3, ZenonT(30)
<1> QED BY <1>3, DeliveredTruth

\* A handler that sends nothing.
LEMMA NothingTruth ==
  ASSUME NEW n \in Node, Delivered(n, Nothing)
  PROVE  SendsTruth(n)
<1>1. \A d \in Node : Nothing[d] = <<>> BY DEF Nothing
<1>2. DOMAIN <<>> = {} OBVIOUS
<1>3. \A d \in Node : DOMAIN Nothing[d] = {} BY <1>1, <1>2
<1> QED BY <1>3, DeliveredTruth, ZenonT(30)

\* A handler that sends one vote.
LEMMA VoteTruth ==
  ASSUME NEW n \in Node, NEW p, NEW m, m.type = "VoteResponse", Delivered(n, To(p, <<m>>))
  PROVE  SendsTruth(n)
<1>1. \A d \in Node : Truthful(n, d, m) BY ZenonT(30) DEF Truthful
<1> DEFINE ms == <<m>>
<1>2. \A i \in DOMAIN ms : ms[i] = m OBVIOUS
<1> HIDE DEF ms
<1>3. \A d \in Node : \A i \in DOMAIN ms : Truthful(n, d, ms[i]) BY <1>1, <1>2
<1>4. Delivered(n, To(p, ms)) BY DEF ms
<1> QED BY <1>3, <1>4, OutboxTruth, ZenonT(30)

\* The heartbeat of a candidate that is elected.
LEMMA ElectTruth ==
  ASSUME NEW n \in Node, NEW r, NEW d \in Node, NEW i \in DOMAIN elect(n, r)
  PROVE  Truthful(n, d, elect(n, r)[i])
<1>1. CASE r.role = "Leader"
  <2>1. elect(n, r) = <<Heartbeat(n, r)>> BY <1>1 DEF elect
  <2>2. elect(n, r)[i] = Heartbeat(n, r) BY <2>1
  <2> QED BY <2>2, HeartbeatIsTruthful
<1>2. CASE r.role # "Leader"
  <2>1. elect(n, r) = <<>> BY <1>2 DEF elect
  <2> QED BY <2>1
<1> QED BY <1>1, <1>2

\* What a step of an election does to n: it may make a leader with no progress.
Elects(n) ==
  /\ raft[n].role # "Leader"
  /\ \E q \in RaftState : /\ raft' = [raft EXCEPT ![n] = q]
                          /\ q.role = "Leader" => q.progress = ReplicationProgress_new
  /\ SendsTruth(n)

\* candidate.rs:seek_election.
LEMMA SeekElects ==
  ASSUME TypeInv, NEW n \in Node, seek_election(n), raft[n].role # "Leader"
  PROVE  Elects(n)
<1> DEFINE c == Standing(n)
           q == apply_vote_response(c, n, TRUE)
<1>1. /\ c \in RaftState /\ c.role = "Candidate"
      /\ raft' = [raft EXCEPT ![n] = q]
      /\ Delivered(n, ToPeers(n, Campaign(n, q)))
  BY SeekElectionType, ZenonT(30)
<1> HIDE DEF c
<1>2. q \in RaftState /\ (q.role = "Leader" => q.progress = ReplicationProgress_new)
  BY <1>1, VoteResponseFields, ZenonT(30)
<1> HIDE DEF q
<1>3. ASSUME NEW d \in Node, NEW j \in DOMAIN Campaign(n, q) PROVE Truthful(n, d, Campaign(n, q)[j])
  <2>1. \/ Campaign(n, q)[j].type = "VoteRequest"
        \/ \E i \in DOMAIN elect(n, q) : Campaign(n, q)[j] = elect(n, q)[i]
    BY <1>2, <1>3, CampaignElements, ZenonT(30)
  <2>2. CASE Campaign(n, q)[j].type = "VoteRequest" BY <2>2, ZenonT(30) DEF Truthful
  <2>3. CASE \E i \in DOMAIN elect(n, q) : Campaign(n, q)[j] = elect(n, q)[i]
    BY <2>3, ElectTruth, ZenonT(30)
  <2> QED BY <2>1, <2>2, <2>3
<1>4. SendsTruth(n) BY <1>1, <1>3, OutboxTruth, ZenonT(30)
<1> QED BY <1>1, <1>2, <1>4, ZenonT(30) DEF Elects

\* candidate.rs:apply_vote_response.
LEMMA VoteResponseElects ==
  ASSUME TypeInv, NEW s \in Node, NEW n \in Node, Candidate_apply_vote_response(s, n)
  PROVE  Elects(n)
<1> DEFINE m == Head(net[s][n])
           q == apply_vote_response(raft[n], m.from, m.granted)
<1>1. /\ m.from \in Node /\ m.granted \in BOOLEAN
      /\ raft' = [raft EXCEPT ![n] = q]
      /\ Delivered(n, ToPeers(n, elect(n, q)))
  BY CandidateVoteResponseType, ZenonT(30)
<1>2. raft[n] \in RaftState /\ raft[n].role = "Candidate"
  BY ZenonT(30) DEF TypeInv, Candidate_apply_vote_response, Is
<1> HIDE DEF m
<1>3. q \in RaftState /\ (q.role = "Leader" => q.progress = ReplicationProgress_new)
  BY <1>1, <1>2, VoteResponseFields, ZenonT(30)
<1> HIDE DEF q
<1>4. SendsTruth(n) BY <1>1, ElectTruth, OutboxTruth, ZenonT(30)
<1>5. raft[n].role # "Leader" BY <1>2
<1> QED BY <1>1, <1>3, <1>4, <1>5, ZenonT(30) DEF Elects

\* The steps of an election.
LEMMA ElectoralElects ==
  ASSUME TypeInv, NEW s \in Node, NEW n \in Node, Electoral(s, n)
  PROVE  Elects(n) /\ UNCHANGED <<chain, fsm, submitted>>
<1>1. UNCHANGED <<chain, fsm, submitted>>
  BY ZenonT(30)
     DEF Electoral, Follower_apply_tick, Candidate_apply_tick, seek_election,
         Follower_apply_vote_request, Candidate_apply_vote_request,
         Candidate_apply_vote_response, Candidate_apply_append_entries,
         Candidate_apply_heartbeat
<1>2. raft[n].role # "Leader"
  BY ZenonT(30) DEF Electoral, Follower_apply_tick, Candidate_apply_tick,
         Follower_apply_vote_request, Candidate_apply_vote_request,
         Candidate_apply_vote_response, Candidate_apply_append_entries,
         Candidate_apply_heartbeat, Is
<1>3. CASE Follower_apply_tick(n) \/ Candidate_apply_tick(n)
  <2>1. seek_election(n) BY <1>3 DEF Follower_apply_tick, Candidate_apply_tick
  <2> QED BY <1>1, <1>2, <2>1, SeekElects
<1>4. CASE Candidate_apply_vote_response(s, n) BY <1>1, <1>4, VoteResponseElects
<1>5. CASE Follower_apply_vote_request(s, n)
  <2> DEFINE m == Head(net[s][n])
             granted == can_vote(n, m.last_term, m.head)
             q == [raft[n] EXCEPT !.voted_for = IF granted THEN m.candidate_id ELSE @]
             response == [type |-> "VoteResponse", from |-> n, granted |-> granted]
  <2>1. /\ q \in RaftState /\ raft' = [raft EXCEPT ![n] = q]
        /\ Delivered(n, To(m.candidate_id, <<response>>))
    BY <1>5, FollowerVoteRequestType, ZenonT(30)
  <2>2. response.type = "VoteResponse" OBVIOUS
  <2> HIDE DEF response
  <2>3. SendsTruth(n) BY <2>1, <2>2, VoteTruth
  <2>4. q.role # "Leader" BY <1>2 DEF TypeInv, RaftState
  <2> HIDE DEF q
  <2> QED BY <1>1, <1>2, <2>1, <2>3, <2>4, ZenonT(30) DEF Elects
<1>6. ASSUME SendsTruth(n),
             \/ raft' = raft
             \/ \E q \in RaftState : raft' = [raft EXCEPT ![n] = q] /\ q.role = "Follower"
      PROVE  Elects(n)
  <2>1. CASE raft' = raft
    <3>1. raft' = [raft EXCEPT ![n] = raft[n]] /\ raft[n] \in RaftState BY <2>1 DEF TypeInv
    <3> QED BY <1>2, <1>6, <3>1, ZenonT(30) DEF Elects
  <2>2. CASE \E q \in RaftState : raft' = [raft EXCEPT ![n] = q] /\ q.role = "Follower"
    <3>1. PICK q \in RaftState : raft' = [raft EXCEPT ![n] = q] /\ q.role = "Follower" BY <2>2, ZenonT(30)
    <3>2. q.role # "Leader" BY <3>1
    <3> QED BY <1>2, <1>6, <3>1, <3>2, ZenonT(30) DEF Elects
  <2> QED BY <1>6, <2>1, <2>2
<1>7. CASE Candidate_apply_vote_request(s, n)
  <2> DEFINE response == [type |-> "VoteResponse", from |-> n, granted |-> FALSE]
  <2>1. response.type = "VoteResponse" OBVIOUS
  <2>2. \/ /\ Delivered(n, Nothing)
           /\ \E q \in RaftState : raft' = [raft EXCEPT ![n] = q] /\ q.role = "Follower"
        \/ raft' = raft /\ Delivered(n, To(Head(net[s][n]).candidate_id, <<response>>))
    BY <1>7, CandidateVoteRequestType, ZenonT(30)
  <2> HIDE DEF response
  <2>3. SendsTruth(n) BY <2>1, <2>2, NothingTruth, VoteTruth
  <2> QED BY <1>1, <1>6, <2>2, <2>3, ZenonT(30)
<1>8. CASE Candidate_apply_append_entries(s, n)
  <2>1. SendsTruth(n) BY <1>8, CandidateAppendEntriesType, NothingTruth, ZenonT(30)
  <2> QED BY <1>1, <1>6, <1>8, <2>1, CandidateAppendEntriesType, ZenonT(30)
<1>9. CASE Candidate_apply_heartbeat(s, n)
  <2>1. PICK out \in Outbox : /\ Delivered(n, out)
                              /\ \A d \in Node : \A j \in DOMAIN out[d] : Harmless(n, d, out[d][j])
    BY <1>9, CandidateHeartbeatType, ZenonT(30)
  <2>2. \A d \in Node : \A j \in DOMAIN out[d] : Truthful(n, d, out[d][j])
    BY <2>1, HarmlessTruth, ZenonT(30)
  <2>3. SendsTruth(n) BY <2>1, <2>2, DeliveredTruth
  <2> QED BY <1>1, <1>6, <1>9, <2>3, CandidateHeartbeatType, ZenonT(30)
<1> QED BY <1>3, <1>4, <1>5, <1>7, <1>8, <1>9, ZenonT(30) DEF Electoral

\* A step of an election.
LEMMA ElectoralReplicates ==
  ASSUME TypeInv, TypeInv', ElectionInv, AtMostOneLeader, AtMostOneLeader', ReplicationInv,
         NEW s \in Node, NEW n \in Node, Electoral(s, n)
  PROVE  ReplicationInv'
<1>1. Elects(n) /\ chain' = chain BY ElectoralElects
<1>2. PICK q \in RaftState : /\ raft' = [raft EXCEPT ![n] = q]
                             /\ q.role = "Leader" => q.progress = ReplicationProgress_new
  BY <1>1, ZenonT(30) DEF Elects
<1>3. raft'[n] = q /\ \A p \in Node \ {n} : raft'[p] = raft[p] BY <1>2 DEF TypeInv
<1>4. raft[n].role # "Leader" /\ SendsTruth(n) BY <1>1 DEF Elects
<1>5. Leaders \subseteq Leaders' BY <1>3, <1>4 DEF Leaders
<1>6. ProgressStays
  <2> SUFFICES ASSUME NEW l \in Leaders'
               PROVE  \/ raft'[l].progress = ReplicationProgress_new
                      \/ l \in Leaders /\ raft'[l].progress = raft[l].progress
    BY DEF ProgressStays
  <2>1. l \in Node /\ raft'[l].role = "Leader" BY DEF Leaders
  <2>2. CASE l = n BY <1>2, <1>3, <2>1, <2>2
  <2>3. CASE l # n BY <1>3, <2>1, <2>3 DEF Leaders
  <2> QED BY <2>2, <2>3
<1>7. Before(n) BY <1>4, <1>5, TruthIsTold DEF Before
<1> QED BY <1>1, <1>6, <1>7, StillStep

\* Outside elections, leaders stay leaders, and only a leader's own step changes
\* its progress.
LEMMA RoutineLeaders ==
  ASSUME TypeInv, NEW n \in Node, Uninvolved(n)
  PROVE  /\ Leaders' = Leaders
         /\ n \notin Leaders \/ raft' = raft => ProgressStays
<1>1. PICK q : KeepsVotes(n, q) /\ raft' = [raft EXCEPT ![n] = q] BY ZenonT(30) DEF Uninvolved
<1>2. q.role = raft[n].role BY <1>1 DEF KeepsVotes
<1>3. raft'[n] = q /\ \A p \in Node \ {n} : raft'[p] = raft[p] BY <1>1 DEF TypeInv
<1>4. Leaders' = Leaders BY <1>2, <1>3 DEF Leaders
<1>5. ASSUME n \notin Leaders \/ raft' = raft PROVE ProgressStays
  <2>1. ASSUME NEW l \in Leaders' PROVE l \in Leaders /\ raft'[l].progress = raft[l].progress
    <3>1. l \in Leaders /\ l \in Node BY <1>4 DEF Leaders
    <3> QED BY <1>3, <1>5, <3>1
  <2> QED BY <2>1 DEF ProgressStays
<1> QED BY <1>4, <1>5

\* Outside elections n sends the truth.
LEMMA RoutineTruth ==
  ASSUME NEW n \in Node, Uninvolved(n)
  PROVE  SendsTruth(n)
<1> SUFFICES ASSUME NEW t \in Node, NEW d \in Node, NEW m \in Messages(t, d)', m \notin Messages(t, d)
             PROVE  t = n /\ Truthful(n, d, m)
  BY DEF SendsTruth
<1>1. t = n /\ Harmless(n, d, m) BY DEF Uninvolved
<1> QED BY <1>1, HarmlessTruth

\* A step outside elections.
LEMMA RoutineReplicates ==
  ASSUME TypeInv, TypeInv', ElectionInv, AtMostOneLeader, AtMostOneLeader', ReplicationInv,
         NEW s \in Node, NEW n \in Node, Routine(s, n)
  PROVE  ReplicationInv'
<1>1. Uninvolved(n) BY RoutineType
<1>2. Tells(n) BY <1>1, RoutineTruth, TruthIsTold
<1>3. /\ Leaders' = Leaders
      /\ n \notin Leaders \/ raft' = raft => ProgressStays
  BY <1>1, RoutineLeaders
<1>4. Before(n) BY <1>2, <1>3 DEF Before
<1>5. \/ chain' = chain /\ fsm' = fsm /\ (n \notin Leaders \/ raft' = raft)
      \/ Stores(n)
      \/ Commits(n)
      \/ Counts(n)
  BY RoutineKinds
<1>6. CASE chain' = chain /\ fsm' = fsm /\ (n \notin Leaders \/ raft' = raft)
  BY <1>3, <1>4, <1>6, StillStep
<1>7. CASE Stores(n)
  <2>1. n \notin Leaders BY <1>7 DEF Stores
  <2> QED BY <1>3, <1>4, <1>7, <2>1, StoreStep
<1>8. CASE Commits(n)
  <2>1. n \notin Leaders BY <1>8 DEF Commits
  <2> QED BY <1>3, <1>4, <1>8, <2>1, CommitStep
<1>9. CASE Counts(n) BY <1>4, <1>9, CountStep
<1> QED BY <1>5, <1>6, <1>7, <1>8, <1>9

\* A step is a step of an election or one of the four kinds.
LEMMA StepKinds ==
  ASSUME TypeInv, ReplicationInv, [Next]_vars
  PROVE  \/ Leaders \subseteq Leaders' /\ chain' = chain /\ fsm' = fsm
         \/ /\ Leaders' = Leaders
            /\ \E n \in Node : Stores(n) \/ Commits(n) \/ Counts(n)
<1>1. CASE UNCHANGED vars
  <2>1. UNCHANGED <<raft, chain, fsm>> BY <1>1 DEF vars
  <2> QED BY <2>1 DEF Leaders
<1>2. CASE Next
  <2>1. PICK s, n \in Node : Routine(s, n) \/ Electoral(s, n) BY <1>2, NextSplits, ZenonT(30)
  <2>2. CASE Routine(s, n)
    <3>1. Leaders' = Leaders BY <2>2, RoutineType, RoutineLeaders, ZenonT(30)
    <3> QED BY <2>2, <3>1, RoutineKinds, ZenonT(30)
  <2>3. CASE Electoral(s, n)
    <3>1. Elects(n) /\ UNCHANGED <<chain, fsm, submitted>> BY <2>3, ElectoralElects, ZenonT(30)
    <3>2. Leaders \subseteq Leaders' BY <3>1 DEF Elects, Leaders, TypeInv
    <3> QED BY <3>1, <3>2
  <2> QED BY <2>1, <2>2, <2>3
<1> QED BY <1>1, <1>2

\* No step of Raft sends an answer to a client's request.
LEMMA NoAnswerIsSent ==
  ASSUME TypeInv, [Next]_vars, NEW t \in Node, NEW d \in Node, NEW m \in Messages(t, d)',
         m.type = "ClientResponse"
  PROVE  m \in Messages(t, d)
<1>1. CASE UNCHANGED vars BY <1>1 DEF vars, Messages
<1>2. CASE Next
  <2>1. PICK s, n \in Node : Routine(s, n) \/ Electoral(s, n) BY <1>2, NextSplits, ZenonT(30)
  <2>2. SendsTruth(n)
    <3>1. CASE Routine(s, n) BY <3>1, RoutineType, RoutineTruth, ZenonT(30)
    <3>2. CASE Electoral(s, n) BY <3>2, ElectoralElects, ZenonT(30) DEF Elects
    <3> QED BY <2>1, <3>1, <3>2
  <2>3. ~Truthful(n, d, m)
    <3>1. AppendEntries(n, d).type = "AppendEntries" BY DEF AppendEntries
    <3> QED BY <3>1 DEF Truthful, Acknowledges
  <2> QED BY <2>2, <2>3 DEF SendsTruth
<1> QED BY <1>1, <1>2

\* A step makes at most one proposal, and a new one.
LEMMA ProposesOnce ==
  ASSUME [Next]_vars
  PROVE  submitted' = submitted \/ \E d \in Data \ submitted : submitted' = submitted \cup {d}
<1>1. ASSUME NEW s, NEW n, NEW req \in ClientRequest, Propose(s, n, req)
      PROVE  submitted' = submitted \/ \E d \in Data \ submitted : submitted' = submitted \cup {d}
  <2>1. Arrives(s, n, req)
    BY <1>1, ZenonT(30) DEF Propose, Follower_apply_client_request, Candidate_apply_client_request,
                            Leader_apply_client_request
  <2>2. req.id \in Data BY DEF ClientRequest, Request
  <2> QED BY <2>1, <2>2, ZenonT(30) DEF Arrives
<1>2. CASE UNCHANGED vars BY <1>2 DEF vars
<1>3. ASSUME Next, ~(\E s, n \in Node : \E req \in ClientRequest : Propose(s, n, req))
      PROVE  submitted' = submitted
  <2>1. PICK s, n \in Node : Routine(s, n) \/ Electoral(s, n) BY <1>3, NextSplits, ZenonT(30)
  <2>2. CASE Electoral(s, n)
    BY <2>2, ZenonT(30)
       DEF Electoral, Follower_apply_tick, Candidate_apply_tick, seek_election,
           Follower_apply_vote_request, Candidate_apply_vote_request,
           Candidate_apply_vote_response, Candidate_apply_append_entries,
           Candidate_apply_heartbeat
  <2>3. CASE Routine(s, n)
    BY <1>3, <2>3, ZenonT(30)
       DEF Routine, Follower_apply_append_entries, Follower_apply_heartbeat,
           Leader_apply_append_response, Leader_apply_heartbeat_response,
           Leader_apply_append_entries, Ignore, Leader_apply_tick, Crash, send_task_fails,
           Disconnect
  <2> QED BY <2>1, <2>2, <2>3
<1> QED BY <1>1, <1>2, <1>3
-----------------------------------------------------------------------------
(* Replication: theorems *)

\* Servers start with one block each and nothing on its way.
LEMMA InitReplication == Init => ReplicationInv
<1> SUFFICES ASSUME Init PROVE ReplicationInv
  OBVIOUS
<1>1. \A n \in Node : /\ chain[n].db = {GenesisBlock}
                      /\ chain[n].id_gen = 1 /\ chain[n].head = 0 /\ chain[n].commit = 0
  BY DEF Init, Chain_new, Insert
<1>2. \A n \in Node : raft[n].role = "Follower" BY DEF Init, Follower_new
<1>3. Leaders = {} BY <1>2 DEF Leaders
<1>4. \A s, d \in Node : Messages(s, d) = {}
  <2>1. DOMAIN <<>> = {} OBVIOUS
  <2>2. \A s, d \in Node : net[s][d] = <<>> BY DEF Init, Tcp_Init
  <2> QED BY <2>1, <2>2 DEF Messages
<1>5. ASSUME NEW n \in Node PROVE Unbroken(chain[n])
  <2>a. GenesisBlock.id = 0 BY DEF GenesisBlock
  <2>1. Ids(chain[n].db) = {0} BY <1>1, <2>a DEF Ids
  <2>2. 0..0 = {0} OBVIOUS
  <2> QED BY <1>1, <2>1, <2>2 DEF Unbroken
<1>6. ChainsAreLeaders
  <2> SUFFICES ASSUME NEW n \in Node
               PROVE  /\ GenesisBlock \in chain[n].db
                      /\ \A x, y \in chain[n].db : x.id = y.id => x = y
                      /\ \A b \in chain[n].db : b = GenesisBlock \/ \E l \in Leaders : b \in chain[l].db
                      /\ Follows(n) \/ Unbroken(chain[n])
    BY ZenonT(30) DEF ChainsAreLeaders
  <2> QED BY <1>1, <1>5
<1>7. MessagesAreTrue BY <1>4 DEF MessagesAreTrue
<1>8. ProgressIsStored BY <1>3 DEF ProgressIsStored
<1>9. CommittedByMajority
  <2>1. \A n \in Node : ~(chain[n].commit > 0) BY <1>1
  <2> QED BY <2>1 DEF CommittedByMajority
<1> QED BY <1>6, <1>7, <1>8, <1>9 DEF ReplicationInv

\* A step keeps ReplicationInv.
LEMMA ReplicationStep ==
  /\ TypeInv /\ TypeInv' /\ ElectionInv /\ AtMostOneLeader /\ AtMostOneLeader'
  /\ ReplicationInv /\ [Next]_vars
  => ReplicationInv'
<1> SUFFICES ASSUME TypeInv, TypeInv', ElectionInv, AtMostOneLeader, AtMostOneLeader',
                    ReplicationInv, [Next]_vars
             PROVE  ReplicationInv'
  OBVIOUS
<1>1. CASE Next
  <2>1. PICK s, n \in Node : Routine(s, n) \/ Electoral(s, n) BY <1>1, NextSplits, ZenonT(30)
  <2> QED BY <2>1, RoutineReplicates, ElectoralReplicates, ZenonT(30)
<1>2. CASE UNCHANGED vars
  <2>1. UNCHANGED <<raft, chain, net>> BY <1>2 DEF vars
  <2>2. PICK n \in Node : TRUE BY NodeAssumption
  <2>3. Leaders' = Leaders BY <2>1 DEF Leaders
  <2>4. Tells(n) BY <2>1 DEF Tells, Messages
  <2>5. ProgressStays BY <2>1, <2>3 DEF ProgressStays
  <2> QED BY <2>1, <2>2, <2>3, <2>4, <2>5, StillStep DEF Before
<1> QED BY <1>1, <1>2

\* In a cluster of any size, as long as servers that stop stay down, every chain
\* is a part of the leader's and every message about chains is true of them
\* (leader.rs:replicate, commit; follower.rs:apply_append_entries,
\* apply_heartbeat; progress.rs:advance, committed_index).
THEOREM ChainsFollowTheLeader == Spec => []ReplicationInv
BY ReplicationStep, InitReplication, TypeInvariant, SpecIsSpecRestart, VotesAreGivenOnce, OneLeader,
   PTL DEF Spec

\* Two servers never store different blocks under one id (chain.rs:extend).
THEOREM ChainsNeverConflict == Spec => []ChainsAgree
<1>1. AtMostOneLeader /\ ReplicationInv => ChainsAgree
  <2> SUFFICES ASSUME AtMostOneLeader, ChainsAreLeaders, NEW a \in Node, NEW b \in Node,
                      NEW x \in chain[a].db, NEW y \in chain[b].db, x.id = y.id
               PROVE  x = y
    BY DEF ReplicationInv, ChainsAgree
  <2>1. CASE Leaders = {}
    <3>1. x = GenesisBlock /\ y = GenesisBlock BY <2>1 DEF ChainsAreLeaders
    <3> QED BY <3>1
  <2>2. CASE Leaders # {}
    <3>1. PICK l \in Leaders : l \in Node BY <2>2 DEF Leaders
    <3>2. x \in chain[l].db /\ y \in chain[l].db BY LeaderHasAll
    <3> QED BY <3>1, <3>2 DEF ChainsAreLeaders
  <2> QED BY <2>1, <2>2
<1> QED BY <1>1, ChainsFollowTheLeader, OneLeader, PTL

\* The assertion of Chain::append never fails (chain.rs:163).
THEOREM AppendNeverAsserts == Spec => []LeaderCanAppend
<1>1. TypeInv /\ AtMostOneLeader /\ ReplicationInv => LeaderCanAppend
  <2> SUFFICES ASSUME TypeInv, AtMostOneLeader, ChainsAreLeaders, NEW n \in Leaders
               PROVE  Chain_can_append(chain[n])
    BY DEF ReplicationInv, LeaderCanAppend
  <2>1. n \in Node /\ Unbroken(chain[n]) BY LeaderUnbroken
  <2>2. chain[n].head \in Nat BY <2>1 DEF TypeInv, FiniteChain, ChainState
  <2> QED BY <2>1, <2>2 DEF Unbroken, Chain_can_append
<1> QED BY <1>1, ChainsFollowTheLeader, OneLeader, TypeInvariant, SpecIsSpecRestart, PTL

\* What the leader takes as replicated to a server is stored there, whatever
\* acknowledgements are lost or late (progress.rs:advance).
THEOREM ProgressIsTrue == Spec => []ProgressIsStored
<1>1. ReplicationInv => ProgressIsStored BY DEF ReplicationInv
<1> QED BY <1>1, ChainsFollowTheLeader, PTL

\* What any server has committed the leader has, and a majority stores it
\* (progress.rs:committed_index, follower.rs:apply_heartbeat).
THEOREM CommitsAreStored == Spec => []CommittedByMajority
<1>1. ReplicationInv => CommittedByMajority BY DEF ReplicationInv
<1> QED BY <1>1, ChainsFollowTheLeader, PTL
=============================================================================
