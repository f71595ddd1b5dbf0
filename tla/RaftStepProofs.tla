--------------------------- MODULE RaftStepProofs ---------------------------
(***************************************************************************)
(* The steps of a node.  Those that have no part in an election are well   *)
(* typed: one lemma for each action says so, and what the action sends.    *)
(* Those of an election (a node stands, answers a vote request or counts   *)
(* an answer) are well typed and keep ElectionInv, most of them because    *)
(* nobody is given a vote, and two quorums have a voter in common.         *)
(***************************************************************************)
EXTENDS RaftLemmas
-----------------------------------------------------------------------------
(* Chains *)

\* Opening a store gives a chain (chain.rs:new).
LEMMA ChainNewType ==
  ASSUME NEW db \in SUBSET Block, IsFiniteSet(db), NEW commit \in Nat
  PROVE  Chain_new(db, commit) \in FiniteChain
<1>1. GenesisBlock \in Block BY DEF GenesisBlock, Block
<1>2. Insert(db, GenesisBlock) \in SUBSET Block /\ IsFiniteSet(Insert(db, GenesisBlock))
  BY <1>1, InsertType
<1> QED BY <1>2 DEF Chain_new, FiniteChain, ChainState

\* Extending a chain by finitely many blocks gives a chain (chain.rs:extend).
LEMMA ChainExtendType ==
  ASSUME NEW c \in FiniteChain, NEW blocks \in SUBSET Block, IsFiniteSet(blocks)
  PROVE  Chain_extend(c, blocks) \in FiniteChain
<1> SUFFICES ASSUME blocks # {} PROVE Chain_extend(c, blocks) \in FiniteChain
  BY DEF Chain_extend
<1> DEFINE ids == Ids(blocks)
           last == CHOOSE h \in ids : \A i \in ids : i <= h
           db == {b \in c.db : b.id \notin ids} \cup blocks
<1>1. c \in ChainState /\ c.db \in SUBSET Block /\ IsFiniteSet(c.db) BY DEF FiniteChain, ChainState
<1>2. ids \in SUBSET Nat /\ ids # {} BY DEF Ids, Block
<1>3. IsFiniteSet(ids)
  <2> DEFINE f == [b \in blocks |-> b.id]
  <2>1. f \in Surjection(blocks, ids) BY DEF Surjection, Ids
  <2> QED BY <2>1, FS_Surjection
<1>4. last \in Nat
  <2>1. \E h \in ids : \A i \in ids : i <= h
    <3> HIDE DEF ids
    <3> QED BY <1>2, <1>3, FiniteHasLargest
  <2>2. last \in ids BY <2>1
  <2> QED BY <1>2, <2>2
<1>5. db \in SUBSET Block /\ IsFiniteSet(db)
  <2>1. {b \in c.db : b.id \notin ids} \in SUBSET c.db OBVIOUS
  <2>2. IsFiniteSet({b \in c.db : b.id \notin ids}) BY <1>1, <2>1, FS_Subset
  <2> QED BY <1>1, <2>2, FS_Union, ZenonT(30)
<1>6. Chain_extend(c, blocks) = [c EXCEPT !.db = db, !.head = last]
  BY DEF Chain_extend
<1> HIDE DEF db, last
<1> QED BY <1>1, <1>4, <1>5, <1>6, ZenonT(30) DEF FiniteChain, ChainState

\* Committing a block gives a chain: an id that is stored is a number, and one
\* that is not changes nothing (chain.rs:commit).
LEMMA ChainCommitType ==
  ASSUME NEW c \in FiniteChain, NEW block_id
  PROVE  Chain_commit(c, block_id) \in FiniteChain
BY DEF FiniteChain, ChainState, Chain_commit, Chain_has, Block
-----------------------------------------------------------------------------
(* The role changes keep a node's state well formed *)

\* From<Raft<Candidate>> for Raft<Follower>: the vote is kept.
LEMMA ToFollowerFields ==
  ASSUME NEW r \in RaftState
  PROVE  LET f == Candidate_to_Follower(r)
         IN /\ f \in RaftState
            /\ f.role = "Follower"
            /\ f.votes = Election_new
            /\ f.voted_for = r.voted_for
<1>1. Election_new \in Votes BY NewTypes
<1> QED BY <1>1, ZenonT(30) DEF Candidate_to_Follower, RaftState

\* From<Raft<Candidate>> for Raft<Leader>: the votes stay on record, and nothing
\* is known of the other nodes.
LEMMA ToLeaderFields ==
  ASSUME NEW r \in RaftState
  PROVE  LET l == Candidate_to_Leader(r)
         IN /\ l \in RaftState
            /\ l.role = "Leader"
            /\ l.votes = r.votes
            /\ l.progress = ReplicationProgress_new
<1>1. ReplicationProgress_new \in ReplicationProgress BY NewTypes
<1>2. <<>> \in Seq(ClientRequest) OBVIOUS
<1> QED BY <1>1, <1>2, ZenonT(30) DEF Candidate_to_Leader, RaftState

\* Counting a vote: a node that is elected keeps the votes that elect it, one
\* that is defeated forgets them, and one that stays a candidate is neither
\* (candidate.rs:apply_vote_response).
LEMMA VoteResponseFields ==
  ASSUME NEW r \in RaftState, r.role = "Candidate", NEW from \in Node, NEW granted \in BOOLEAN
  PROVE  LET q == apply_vote_response(r, from, granted)
         IN /\ q \in RaftState
            /\ q.role # "Follower" => q.votes = vote(r.votes, from, granted)
            /\ q.role = "Follower" => q.votes = Election_new
            /\ q.role = "Leader" => election_status(q.votes) = "Elected"
            /\ q.role = "Leader" => q.progress = ReplicationProgress_new
            /\ q.role = "Candidate" => election_status(q.votes) = "Voting"
<1> DEFINE e == [r EXCEPT !.votes = vote(@, from, granted)]
           d == [e EXCEPT !.voted_for = None]
           status == election_status(e.votes)
<1>1. e \in RaftState /\ e.role = "Candidate" /\ e.votes = vote(r.votes, from, granted)
  <2>1. vote(r.votes, from, granted) \in Votes BY VoteType DEF RaftState
  <2> QED BY <2>1 DEF RaftState
<1>2. d \in RaftState
  <2> HIDE DEF e
  <2> QED BY <1>1 DEF RaftState
<1>3. apply_vote_response(r, from, granted) =
        CASE status = "Elected"  -> Candidate_to_Leader(e)
          [] status = "Defeated" -> Candidate_to_Follower(d)
          [] OTHER               -> e
  BY DEF apply_vote_response
<1> HIDE DEF e, d, status
<1>4. CASE status = "Elected"
  <2>1. apply_vote_response(r, from, granted) = Candidate_to_Leader(e) BY <1>3, <1>4
  <2> QED BY <1>1, <1>4, <2>1, ToLeaderFields DEF status
<1>5. CASE status = "Defeated"
  <2>1. apply_vote_response(r, from, granted) = Candidate_to_Follower(d) BY <1>3, <1>5
  <2> QED BY <1>2, <2>1, ToFollowerFields
<1>6. CASE status # "Elected" /\ status # "Defeated"
  <2>1. apply_vote_response(r, from, granted) = e BY <1>3, <1>6
  <2>2. status = "Voting" BY <1>6 DEF status, election_status
  <2> QED BY <1>1, <2>1, <2>2 DEF status
<1> QED BY <1>4, <1>5, <1>6
-----------------------------------------------------------------------------
(* Commands *)

\* leader.rs:heartbeat and the one of candidate.rs:elect.
LEMMA HeartbeatType ==
  ASSUME TypeInv, NEW n \in Node, NEW r \in RaftState
  PROVE  Heartbeat(n, r) \in FiniteCommand /\ elect(n, r) \in Seq(FiniteCommand)
<1>1. r.current_term \in Nat /\ chain[n].commit \in Nat BY DEF TypeInv, FiniteChain, ChainState, RaftState
<1>2. Heartbeat(n, r) \in FiniteCommand BY <1>1, CommandTypes DEF Heartbeat
<1> QED BY <1>2 DEF elect
-----------------------------------------------------------------------------
(* Steps *)

\* A step of n that has no part in an election.
Uninvolved(n) ==
  /\ \E q : KeepsVotes(n, q) /\ raft' = [raft EXCEPT ![n] = q]
  /\ \A s, d \in Node : \A m \in Messages(s, d)' :
       m \in Messages(s, d) \/ (s = n /\ Harmless(n, d, m))

\* A handler that keeps the votes and sends harmless commands.
LEMMA UninvolvedStep ==
  ASSUME TypeInv, NEW n \in Node, NEW q, KeepsVotes(n, q), raft' = [raft EXCEPT ![n] = q],
         NEW out \in Outbox, Delivered(n, out),
         \A d \in Node : \A j \in DOMAIN out[d] : Harmless(n, d, out[d][j])
  PROVE  Uninvolved(n)
<1>1. \A s, d \in Node : \A m \in Messages(s, d)' :
        m \in Messages(s, d) \/ (s = n /\ Harmless(n, d, m))
  <2> SUFFICES ASSUME NEW s \in Node, NEW d \in Node, NEW m \in Messages(s, d)',
                      m \notin Messages(s, d)
               PROVE  s = n /\ Harmless(n, d, m)
    OBVIOUS
  <2>1. s = n /\ \E j \in DOMAIN out[d] : m = out[d][j] BY DEF Delivered
  <2> QED BY <2>1
<1> QED BY <1>1, ZenonT(30) DEF Uninvolved

\* election.rs:reset leaves no vote.
LEMMA ResetVotes ==
  ASSUME NEW v \in Node
  PROVE  Election_new[v] # "granted"
BY DEF Election_new

\* A node that keeps its role and its votes, and sends one message.
LEMMA OneMessage ==
  ASSUME NEW n \in Node, NEW p, NEW m \in FiniteCommand, Harmless(n, p, m)
  PROVE  /\ To(p, <<m>>) \in Outbox
         /\ \A d \in Node : \A j \in DOMAIN To(p, <<m>>)[d] : Harmless(n, d, To(p, <<m>>)[d][j])
<1>1. <<m>> \in Seq(FiniteCommand) OBVIOUS
<1>2. ASSUME NEW d \in Node, NEW j \in DOMAIN To(p, <<m>>)[d] PROVE d = p /\ To(p, <<m>>)[d][j] = m
  <2>1. (d # p /\ To(p, <<m>>)[d] = <<>>) \/ (d = p /\ To(p, <<m>>)[d] = <<m>>) BY DEF To
  <2> QED BY <2>1
<1>3. To(p, <<m>>) \in Outbox BY <1>1, OutboxTypes, ZenonT(30)
<1> QED BY <1>2, <1>3

\* A request from a client or from a peer (server.rs:event_loop).
LEMMA HandProperties ==
  ASSUME TypeInv, NEW s \in Node, NEW n \in Node, NEW req \in ClientRequest, NEW out \in Outbox,
         Arrives(s, n, req), Hand(s, n, out)
  PROVE  /\ net' \in [Node -> [Node -> Seq(FiniteCommand)]]
         /\ link' \in [Node -> [Node -> LinkState]]
         /\ submitted' \subseteq Request
         /\ Delivered(n, out)
<1>1. submitted' \subseteq Request BY DEF Arrives, TypeInv, ClientRequest
<1>2. CASE s = n
  <2>1. Transmit(n, out) BY <1>2 DEF Hand
  <2> QED BY <1>1, <2>1, TransmitProperties
<1>3. CASE s # n
  <2>1. Receives(s, n, "ClientRequest") BY <1>3 DEF Arrives
  <2>2. Exchange(s, n, out) BY <1>3 DEF Hand
  <2>3. net[s][n] # <<>> BY <2>1, ReceivesFields
  <2> QED BY <1>1, <1>3, <2>2, <2>3, ExchangeProperties
<1> QED BY <1>2, <1>3

\* A step that changes the raft of n as KeepsVotes allows, and is well typed in
\* everything else.
LEMMA QuietStep ==
  ASSUME TypeInv, NEW n \in Node,
         up' \in [Node -> BOOLEAN],
         \E q : KeepsVotes(n, q) /\ raft' = [raft EXCEPT ![n] = q],
         chain' \in [Node -> FiniteChain],
         fsm' \in [Node -> Seq(Instruction)],
         submitted' \subseteq Request,
         failures' \in Nat,
         net' \in [Node -> [Node -> Seq(FiniteCommand)]],
         link' \in [Node -> [Node -> LinkState]],
         NEW out \in Outbox, Delivered(n, out),
         \A d \in Node : \A j \in DOMAIN out[d] : Harmless(n, d, out[d][j])
  PROVE  TypeInv' /\ Uninvolved(n)
<1>1. PICK q : KeepsVotes(n, q) /\ raft' = [raft EXCEPT ![n] = q] BY ZenonT(30)
<1>2. raft' \in [Node -> RaftState] BY <1>1, ZenonT(30) DEF TypeInv, KeepsVotes
<1>3. TypeInv' BY <1>2 DEF TypeInv
<1> QED BY <1>1, <1>3, UninvolvedStep, ZenonT(30)

\* Elements of the sequences that messages are put together from.
LEMMA ConcatElements ==
  ASSUME NEW S, NEW xs \in Seq(S), NEW ys \in Seq(S)
  PROVE  /\ xs \o ys \in Seq(S)
         /\ \A j \in DOMAIN (xs \o ys) :
              \/ \E i \in DOMAIN xs : (xs \o ys)[j] = xs[i]
              \/ \E i \in DOMAIN ys : (xs \o ys)[j] = ys[i]
OBVIOUS

\* A sequence over a set is one over any larger set.
LEMMA SeqSubset ==
  ASSUME NEW S, NEW T, S \subseteq T
  PROVE  Seq(S) \subseteq Seq(T)
OBVIOUS

\* A sequence whose elements are in a set is one over that set.
LEMMA SeqElements ==
  ASSUME NEW S, NEW T, NEW xs \in Seq(S), \A j \in DOMAIN xs : xs[j] \in T
  PROVE  xs \in Seq(T)
OBVIOUS

\* A sequence of at most one message.
LEMMA OptionalElements ==
  ASSUME NEW S, NEW m \in S, NEW ms, ms = <<>> \/ ms = <<m>>
  PROVE  /\ ms \in Seq(S)
         /\ \A j \in DOMAIN ms : ms[j] = m
<1>1. CASE ms = <<>> BY <1>1
<1>2. CASE ms = <<m>> BY <1>2, SMTT(30)
<1> QED BY <1>1, <1>2
-----------------------------------------------------------------------------
(* Routine *)

\* A follower's answers to its leader.
LEMMA FollowerAppendEntriesType ==
  ASSUME TypeInv, NEW s \in Node, NEW n \in Node, Follower_apply_append_entries(s, n)
  PROVE  TypeInv' /\ Uninvolved(n)
<1> DEFINE m == Head(net[s][n])
           adopts == raft[n].voted_for = None /\ m.term >= raft[n].current_term
           t == term(raft[n], m.term)
           t1 == [t EXCEPT !.leader_id = m.leader_id]
           t2 == [t1 EXCEPT !.voted_for = m.leader_id]
           r == IF adopts THEN t2 ELSE raft[n]
           asserts == r.voted_for \in {None, m.leader_id} \/ m.term >= r.current_term
           stored == IF asserts THEN Extendable(chain[n], m.blocks) ELSE {}
           c == Chain_extend(chain[n], stored)
           ok == asserts /\ stored = m.blocks
           response == [type |-> "AppendResponse", node_id |-> n, head |-> c.head]
           out == IF ok /\ m.blocks # {} THEN To(m.leader_id, <<response>>) ELSE Nothing
<1>1. /\ s # n /\ net[s][n] # <<>> /\ m \in FiniteCommand /\ m.type = "AppendEntries"
      /\ m.term \in Nat /\ m.leader_id \in Node
      /\ m.blocks \in SUBSET Block /\ IsFiniteSet(m.blocks)
  BY ReceivesFields, CommandFields, ZenonT(30) DEF Follower_apply_append_entries
<1>2. /\ up' = [up EXCEPT ![n] = ok]
      /\ raft' = [raft EXCEPT ![n] = r]
      /\ chain' = [chain EXCEPT ![n] = c]
      /\ Exchange(s, n, out)
      /\ UNCHANGED <<fsm, submitted, failures>>
      /\ raft[n].role = "Follower"
  BY ZenonT(30) DEF Follower_apply_append_entries, Is
<1>3. raft[n] \in RaftState /\ chain[n] \in FiniteChain BY DEF TypeInv
<1> HIDE DEF m
<1>4. KeepsVotes(n, r)
  <2>1. t \in RaftState /\ t.role = raft[n].role /\ t.votes = Election_new
    BY <1>1, <1>3, TermFields, ZenonT(30)
  <2> HIDE DEF t
  <2>2. t1 \in RaftState /\ t1.role = raft[n].role /\ t1.votes = Election_new
    BY <1>1, <2>1 DEF RaftState
  <2> HIDE DEF t1
  <2>3. /\ t2 \in RaftState /\ t2.role = raft[n].role /\ t2.votes = Election_new
        /\ t2.voted_for = m.leader_id
    BY <1>1, <2>2 DEF RaftState
  <2> HIDE DEF t2
  <2>4. m.leader_id # None BY <1>1, NodeAssumption, SMTT(30)
  <2>5. KeepsVotes(n, t2) BY <1>2, <2>3, <2>4, ResetVotes, ZenonT(30) DEF KeepsVotes
  <2>6. KeepsVotes(n, raft[n]) BY <1>3 DEF KeepsVotes
  <2> QED BY <2>5, <2>6
<1> HIDE DEF r
<1>5. c \in FiniteChain /\ c.head \in Nat
  <2>1. stored \in SUBSET m.blocks BY DEF Extendable
  <2>2. IsFiniteSet(stored) BY <1>1, <2>1, FS_Subset, SMTT(30)
  <2>3. stored \in SUBSET Block BY <1>1, <2>1
  <2> HIDE DEF stored
  <2>4. c \in FiniteChain BY <1>3, <2>2, <2>3, ChainExtendType, SMTT(30)
  <2> QED BY <2>4 DEF FiniteChain, ChainState
<1>6. out \in Outbox /\ \A d \in Node : \A j \in DOMAIN out[d] : Harmless(n, d, out[d][j])
  <2>1. CASE ok /\ m.blocks # {}
    <3>1. c = Chain_extend(chain[n], m.blocks) BY <2>1
    <3>2. m \in Messages(s, n)
      BY ReceivesFields, ZenonT(30) DEF Follower_apply_append_entries, m
    <3> HIDE DEF c, ok
    <3>3. response \in FiniteCommand BY <1>5, CommandTypes
    <3>4. response.type = "AppendResponse" /\ response.node_id = n /\ response.head = c.head
      OBVIOUS
    <3>5. out = To(m.leader_id, <<response>>) BY <2>1
    <3> HIDE DEF response, out
    <3>6. Acknowledges(n, response)
      BY <1>1, <1>2, <2>1, <3>1, <3>2, <3>4, ZenonT(30) DEF Acknowledges
    <3>7. Harmless(n, m.leader_id, response) BY <3>6 DEF Harmless
    <3> QED BY <3>3, <3>5, <3>7, OneMessage, ZenonT(30)
  <2>2. CASE ~(ok /\ m.blocks # {})
    <3>1. out = Nothing BY <2>2, ZenonT(30)
    <3> HIDE DEF out
    <3> QED BY <3>1, NothingIsHarmless, ZenonT(30)
  <2> QED BY <2>1, <2>2, ZenonT(30)
<1> HIDE DEF out, c
<1>7. /\ net' \in [Node -> [Node -> Seq(FiniteCommand)]]
      /\ link' \in [Node -> [Node -> LinkState]]
      /\ Delivered(n, out)
  BY <1>1, <1>2, <1>6, ExchangeProperties, ZenonT(30) DEF m
<1>8. ok \in BOOLEAN BY SMTT(30)
<1> HIDE DEF ok
<1>9. TypeInv' BY <1>2, <1>4, <1>5, <1>7, <1>8, ZenonT(30) DEF TypeInv, KeepsVotes
<1>10. Uninvolved(n) BY <1>2, <1>4, <1>6, <1>7, UninvolvedStep, ZenonT(30)
<1> QED BY <1>9, <1>10, SMTT(30)

\* follower.rs:apply_heartbeat, with the queued requests it flushes.
LEMMA FollowerHeartbeatType ==
  ASSUME TypeInv, NEW s \in Node, NEW n \in Node, Follower_apply_heartbeat(s, n)
  PROVE  TypeInv' /\ Uninvolved(n)
<1> DEFINE m == Head(net[s][n])
           queued == raft[n].queued_reqs
           has_committed == Chain_has(chain[n], m.commit)
           advances == has_committed /\ m.commit > chain[n].commit
           c == IF advances THEN Chain_commit(chain[n], m.commit) ELSE chain[n]
           applied == [type |-> "Apply", blocks |-> Range_excl(c, chain[n].commit, m.commit)]
           response == [type |-> "HeartbeatResponse", commit |-> c.commit,
                        has_committed |-> has_committed]
           out == To(m.leader_id, Append(queued, response))
           t == term(raft[n], m.term)
           t1 == [t EXCEPT !.leader_id = m.leader_id]
           t2 == [t1 EXCEPT !.voted_for = m.leader_id]
           t3 == [t2 EXCEPT !.queued_reqs = <<>>]
           r == [t3 EXCEPT !.proxied_reqs = @ \cup {queued[i].id : i \in DOMAIN queued}]
<1>1. /\ s # n /\ net[s][n] # <<>> /\ m \in FiniteCommand /\ m.type = "Heartbeat"
      /\ m.term \in Nat /\ m.leader_id \in Node /\ m.commit \in Nat
  BY ReceivesFields, CommandFields, ZenonT(30) DEF Follower_apply_heartbeat
<1>2. /\ raft' = [raft EXCEPT ![n] = r]
      /\ chain' = [chain EXCEPT ![n] = c]
      /\ fsm' = [fsm EXCEPT ![n] = IF advances THEN Append(@, applied) ELSE @]
      /\ Exchange(s, n, out)
      /\ UNCHANGED <<up, submitted, failures>>
      /\ raft[n].role = "Follower"
  BY ZenonT(30) DEF Follower_apply_heartbeat, Is
<1>3. raft[n] \in RaftState /\ chain[n] \in FiniteChain /\ queued \in Seq(ClientRequest)
  BY SMTT(30) DEF TypeInv, RaftState
<1> HIDE DEF m
<1>4. KeepsVotes(n, r)
  <2> HIDE DEF queued
  <2>0. {queued[i].id : i \in DOMAIN queued} \in SUBSET Request
    <3>1. ASSUME NEW i \in DOMAIN queued PROVE queued[i] \in ClientRequest BY <1>3
    <3> QED BY <3>1 DEF ClientRequest
  <2>1. t \in RaftState /\ t.role = raft[n].role /\ t.votes = Election_new
    BY <1>1, <1>3, TermFields, ZenonT(30)
  <2> HIDE DEF t
  <2>2. t1 \in RaftState /\ t1.role = raft[n].role /\ t1.votes = Election_new
    BY <1>1, <2>1 DEF RaftState
  <2> HIDE DEF t1
  <2>3. /\ t2 \in RaftState /\ t2.role = raft[n].role /\ t2.votes = Election_new
        /\ t2.voted_for = m.leader_id
    BY <1>1, <2>2 DEF RaftState
  <2> HIDE DEF t2
  <2>4. /\ t3 \in RaftState /\ t3.role = raft[n].role /\ t3.votes = Election_new
        /\ t3.voted_for = m.leader_id
    <3>1. <<>> \in Seq(ClientRequest) OBVIOUS
    <3> QED BY <2>3, <3>1, ZenonT(30) DEF RaftState
  <2> HIDE DEF t3
  <2>5. /\ r \in RaftState /\ r.role = raft[n].role /\ r.votes = Election_new
        /\ r.voted_for = m.leader_id
    BY <2>0, <2>4 DEF RaftState
  <2> HIDE DEF r
  <2>6. m.leader_id # None BY <1>1, NodeAssumption
  <2> QED BY <1>2, <2>5, <2>6, ResetVotes DEF KeepsVotes
<1> HIDE DEF r
<1>5. c \in FiniteChain /\ c.commit \in Nat
  <2>1. c \in FiniteChain BY <1>3, ChainCommitType
  <2> QED BY <2>1 DEF FiniteChain, ChainState
<1>6. out \in Outbox /\ \A d \in Node : \A j \in DOMAIN out[d] : Harmless(n, d, out[d][j])
  <2> DEFINE ms == Append(queued, response)
  <2>1. has_committed \in BOOLEAN BY SMTT(30) DEF Chain_has
  <2> HIDE DEF has_committed, c
  <2>2. response \in FiniteCommand /\ response.type = "HeartbeatResponse" BY <1>5, <2>1, CommandTypes
  <2> HIDE DEF response
  <2> HIDE DEF queued
  <2>3. queued \in Seq(FiniteCommand) /\ \A j \in DOMAIN queued : queued[j].type = "ClientRequest"
    <3>1. queued \in Seq(FiniteCommand) BY <1>3, CommandTypes, SeqSubset
    <3>2. ASSUME NEW j \in DOMAIN queued PROVE queued[j] \in ClientRequest BY <1>3
    <3> QED BY <3>1, <3>2, SMTT(30) DEF ClientRequest
  <2>4. ms \in Seq(FiniteCommand) BY <2>2, <2>3
  <2>5. \A j \in DOMAIN ms : ms[j].type \in {"ClientRequest", "HeartbeatResponse"}
    BY <2>2, <2>3
  <2> HIDE DEF ms
  <2>6. out \in Outbox BY <2>4, OutboxTypes, ZenonT(30) DEF ms
  <2>7. \A d \in Node : out[d] \in {<<>>, ms} BY DEF To, ms
  <2> QED BY <2>5, <2>6, <2>7 DEF Harmless
<1>7. /\ net' \in [Node -> [Node -> Seq(FiniteCommand)]]
      /\ link' \in [Node -> [Node -> LinkState]]
      /\ Delivered(n, out)
  <2> HIDE DEF out
  <2> QED BY <1>1, <1>2, <1>6, ExchangeProperties, ZenonT(30) DEF m
<1>8. fsm' \in [Node -> Seq(Instruction)]
  <2>1. applied \in Instruction
    <3>1. Range_excl(c, chain[n].commit, m.commit) \in SUBSET Block
      BY <1>5, SMTT(30) DEF Range_excl, FiniteChain, ChainState
    <3> QED BY <3>1 DEF Instruction
  <2> HIDE DEF applied, advances
  <2> QED BY <1>2, <2>1 DEF TypeInv
<1> HIDE DEF out, c
<1>9. TypeInv' BY <1>2, <1>4, <1>5, <1>7, <1>8, ZenonT(30) DEF TypeInv, KeepsVotes
<1>10. Uninvolved(n) BY <1>2, <1>4, <1>6, <1>7, UninvolvedStep, ZenonT(30)
<1> QED BY <1>9, <1>10

\* follower.rs:apply_client_request.
LEMMA FollowerClientRequestType ==
  ASSUME TypeInv, NEW s \in Node, NEW n \in Node, NEW req \in ClientRequest,
         Follower_apply_client_request(s, n, req)
  PROVE  TypeInv' /\ Uninvolved(n)
<1> DEFINE mine == [req EXCEPT !.address = n]
           leader == raft[n].leader_id
           proxied == [raft[n] EXCEPT !.proxied_reqs = @ \cup {req.id}]
           queued == [raft[n] EXCEPT !.queued_reqs = Append(@, mine)]
<1>1. /\ raft[n] \in RaftState
      /\ raft[n].queued_reqs \in Seq(ClientRequest)
      /\ raft[n].proxied_reqs \in SUBSET Request
      /\ req.id \in Request
  BY ZenonT(30) DEF TypeInv, RaftState, ClientRequest
<1>2. mine \in ClientRequest /\ mine \in FiniteCommand /\ Harmless(n, leader, mine)
  <2>1. mine \in ClientRequest /\ mine.type = "ClientRequest" BY DEF ClientRequest
  <2> HIDE DEF mine
  <2> QED BY <2>1, CommandTypes DEF Harmless
<1>3. /\ Arrives(s, n, req)
      /\ UNCHANGED <<up, chain, fsm, failures>>
      /\ \/ raft' = [raft EXCEPT ![n] = proxied] /\ Hand(s, n, To(leader, <<mine>>))
         \/ raft' = [raft EXCEPT ![n] = queued] /\ Hand(s, n, Nothing)
  BY DEF Follower_apply_client_request
<1> HIDE DEF mine
<1>4. KeepsVotes(n, proxied) BY <1>1 DEF KeepsVotes, RaftState
<1>5. KeepsVotes(n, queued)
  <2>1. Append(raft[n].queued_reqs, mine) \in Seq(ClientRequest) BY <1>1, <1>2
  <2> QED BY <1>1, <2>1, ZenonT(30) DEF KeepsVotes, RaftState
<1> HIDE DEF proxied, queued
<1>6. CASE raft' = [raft EXCEPT ![n] = proxied] /\ Hand(s, n, To(leader, <<mine>>))
  <2> DEFINE out == To(leader, <<mine>>)
  <2>1. out \in Outbox /\ \A d \in Node : \A j \in DOMAIN out[d] : Harmless(n, d, out[d][j])
    BY <1>2, OneMessage
  <2> HIDE DEF out
  <2>2. Hand(s, n, out) BY <1>6 DEF out
  <2>3. Delivered(n, out) BY <1>3, <2>1, <2>2, HandProperties, SMTT(30)
  <2>4. TypeInv' BY <1>3, <1>4, <1>6, <2>1, <2>2, HandProperties, ZenonT(30) DEF TypeInv, KeepsVotes
  <2> QED BY <1>4, <1>6, <2>1, <2>3, <2>4, UninvolvedStep, ZenonT(30)
<1>7. CASE raft' = [raft EXCEPT ![n] = queued] /\ Hand(s, n, Nothing)
  <2>1. Delivered(n, Nothing) BY <1>3, <1>7, NothingIsHarmless, HandProperties
  <2>2. TypeInv' BY <1>3, <1>5, <1>7, NothingIsHarmless, HandProperties, ZenonT(30) DEF TypeInv, KeepsVotes
  <2> QED BY <1>5, <1>7, <2>1, <2>2, NothingIsHarmless, UninvolvedStep, ZenonT(30)
<1> QED BY <1>3, <1>6, <1>7, SMTT(30)

\* The request a candidate queues (candidate.rs:apply).
LEMMA CandidateClientRequestType ==
  ASSUME TypeInv, NEW s \in Node, NEW n \in Node, NEW req \in ClientRequest,
         Candidate_apply_client_request(s, n, req)
  PROVE  TypeInv' /\ Uninvolved(n)
<1> DEFINE queued == [raft[n] EXCEPT !.queued_reqs = Append(@, req)]
<1>1. raft[n] \in RaftState /\ Append(raft[n].queued_reqs, req) \in Seq(ClientRequest)
  <2>1. raft[n] \in RaftState /\ raft[n].queued_reqs \in Seq(ClientRequest) BY DEF TypeInv, RaftState
  <2> QED BY <2>1
<1>2. /\ Arrives(s, n, req)
      /\ Hand(s, n, Nothing)
      /\ raft' = [raft EXCEPT ![n] = queued]
      /\ UNCHANGED <<up, chain, fsm, failures>>
  BY DEF Candidate_apply_client_request
<1>3. KeepsVotes(n, queued) BY <1>1, ZenonT(30) DEF KeepsVotes, RaftState
<1> HIDE DEF queued
<1>4. Delivered(n, Nothing) BY <1>2, NothingIsHarmless, HandProperties
<1>5. TypeInv' BY <1>2, <1>3, NothingIsHarmless, HandProperties, ZenonT(30) DEF TypeInv, KeepsVotes
<1> QED BY <1>2, <1>3, <1>4, <1>5, NothingIsHarmless, UninvolvedStep, ZenonT(30)

\* leader.rs:apply_append_response and commit.
LEMMA AcknowledgeType ==
  ASSUME TypeInv, NEW n \in Node, NEW c \in FiniteChain, NEW sent \in Seq(Instruction),
         NEW node_id \in Node, NEW head \in Nat, Leader_acknowledge(n, c, sent, node_id, head)
  PROVE  /\ up' \in [Node -> BOOLEAN]
         /\ \E q : KeepsVotes(n, q) /\ raft' = [raft EXCEPT ![n] = q]
         /\ chain' \in [Node -> FiniteChain]
         /\ fsm' \in [Node -> Seq(Instruction)]
<1> DEFINE progress == advance(raft[n].progress, node_id, head)
           quorum_idx == committed_index(progress)
           commits == quorum_idx > c.commit
           new == IF commits THEN Chain_commit(c, quorum_idx) ELSE c
           ok == commits => Chain_has(c, quorum_idx)
           applied == [type |-> "Apply", blocks |-> Skip1(Range_incl(c, c.commit, quorum_idx))]
           told == IF commits /\ ok THEN <<applied>> ELSE <<>>
           q == [raft[n] EXCEPT !.progress = progress]
<1>1. /\ up' = [up EXCEPT ![n] = ok]
      /\ raft' = [raft EXCEPT ![n] = q]
      /\ chain' = [chain EXCEPT ![n] = new]
      /\ fsm' = [fsm EXCEPT ![n] = @ \o sent \o told]
  BY DEF Leader_acknowledge
<1>2. KeepsVotes(n, q)
  <2>1. raft[n] \in RaftState /\ raft[n].progress \in ReplicationProgress BY DEF TypeInv, RaftState
  <2>2. progress \in ReplicationProgress BY <2>1, AdvanceType
  <2> HIDE DEF progress
  <2> QED BY <2>1, <2>2, ZenonT(30) DEF KeepsVotes, RaftState
<1>3. ok \in BOOLEAN BY DEF Chain_has
<1>4. told \in Seq(Instruction)
  <2>1. applied.blocks \in SUBSET Block BY SMTT(30) DEF Skip1, Range_incl, FiniteChain, ChainState
  <2>2. applied \in Instruction BY <2>1 DEF Instruction
  <2> HIDE DEF applied
  <2> QED BY <2>2
<1> HIDE DEF q, ok, told, quorum_idx
<1>5. new \in FiniteChain BY ChainCommitType
<1> HIDE DEF new
<1>6. fsm' \in [Node -> Seq(Instruction)]
  <2>1. fsm[n] \in Seq(Instruction) BY DEF TypeInv
  <2>2. fsm[n] \o sent \o told \in Seq(Instruction) BY <1>4, <2>1
  <2> QED BY <1>1, <2>2 DEF TypeInv
<1> QED BY <1>1, <1>2, <1>3, <1>5, <1>6, ZenonT(30) DEF TypeInv

\* leader.rs:apply_append_response.
LEMMA LeaderAppendResponseType ==
  ASSUME TypeInv, NEW s \in Node, NEW n \in Node, Leader_apply_append_response(s, n)
  PROVE  TypeInv' /\ Uninvolved(n)
<1> DEFINE m == Head(net[s][n])
<1>1. s # n /\ net[s][n] # <<>> /\ m.node_id \in Node /\ m.head \in Nat
  BY ReceivesFields, CommandFields, ZenonT(30) DEF Leader_apply_append_response
<1>2. /\ Leader_acknowledge(n, chain[n], <<>>, m.node_id, m.head)
      /\ Exchange(s, n, Nothing)
      /\ UNCHANGED <<submitted, failures>>
  BY DEF Leader_apply_append_response
<1>3. chain[n] \in FiniteChain /\ <<>> \in Seq(Instruction) BY DEF TypeInv
<1> HIDE DEF m
<1>4. /\ net' \in [Node -> [Node -> Seq(FiniteCommand)]]
      /\ link' \in [Node -> [Node -> LinkState]]
      /\ Delivered(n, Nothing)
  BY <1>1, <1>2, NothingIsHarmless, ExchangeProperties, ZenonT(30)
<1>5. /\ up' \in [Node -> BOOLEAN]
      /\ \E q : KeepsVotes(n, q) /\ raft' = [raft EXCEPT ![n] = q]
      /\ chain' \in [Node -> FiniteChain]
      /\ fsm' \in [Node -> Seq(Instruction)]
  BY <1>1, <1>2, <1>3, AcknowledgeType, ZenonT(30)
<1>6. submitted' \subseteq Request /\ failures' \in Nat BY <1>2, SMTT(30) DEF TypeInv
<1> QED BY <1>4, <1>5, <1>6, NothingIsHarmless, QuietStep, ZenonT(30)

\* leader.rs:apply_client_request, with the acknowledgement of its own block.
LEMMA LeaderClientRequestType ==
  ASSUME TypeInv, NEW s \in Node, NEW n \in Node, NEW req \in ClientRequest,
         Leader_apply_client_request(s, n, req)
  PROVE  TypeInv' /\ Uninvolved(n)
<1> DEFINE c == Chain_append(chain[n], req.id)
           notice == [type |-> "Notify", id |-> req.id, block_id |-> c.head, address |-> req.address]
<1>1. /\ Arrives(s, n, req)
      /\ Hand(s, n, Nothing)
      /\ UNCHANGED failures
      /\ \/ Leader_acknowledge(n, c, <<notice>>, n, c.head)
         \/ up' = [up EXCEPT ![n] = FALSE] /\ UNCHANGED <<raft, chain, fsm>>
  BY DEF Leader_apply_client_request
<1>2. /\ net' \in [Node -> [Node -> Seq(FiniteCommand)]]
      /\ link' \in [Node -> [Node -> LinkState]]
      /\ submitted' \subseteq Request
      /\ Delivered(n, Nothing)
  BY <1>1, NothingIsHarmless, HandProperties, ZenonT(30)
<1>3. failures' \in Nat BY <1>1, SMTT(30) DEF TypeInv
<1>4. /\ up' \in [Node -> BOOLEAN]
      /\ \E q : KeepsVotes(n, q) /\ raft' = [raft EXCEPT ![n] = q]
      /\ chain' \in [Node -> FiniteChain]
      /\ fsm' \in [Node -> Seq(Instruction)]
  <2>1. CASE Leader_acknowledge(n, c, <<notice>>, n, c.head)
    <3>1. req.id \in Data /\ req.address \in Node \cup {Client} BY DEF ClientRequest, Request
    <3>2. chain[n] \in FiniteChain BY DEF TypeInv
    <3>3. c \in FiniteChain BY <3>1, <3>2, ChainAppendType
    <3> HIDE DEF c
    <3>4. c.head \in Nat BY <3>3 DEF FiniteChain, ChainState
    <3>5. notice \in Instruction BY <3>1, <3>4 DEF Instruction, Request
    <3> HIDE DEF notice
    <3>6. <<notice>> \in Seq(Instruction) BY <3>5
    <3> QED BY <2>1, <3>3, <3>4, <3>6, AcknowledgeType, ZenonT(30)
  <2>2. CASE up' = [up EXCEPT ![n] = FALSE] /\ UNCHANGED <<raft, chain, fsm>>
    BY <2>2, KeepsItsVotes DEF TypeInv
  <2> QED BY <1>1, <2>1, <2>2, SMTT(30)
<1> QED BY <1>2, <1>3, <1>4, NothingIsHarmless, QuietStep, ZenonT(30)

\* leader.rs:replicate sends a finite vector of blocks to every peer.
LEMMA ReplicateType ==
  ASSUME TypeInv, NEW n \in Node, raft[n].role = "Leader", NEW d \in Node
  PROVE  replicate(n)[d] \in Seq(FiniteCommand)
         /\ \A j \in DOMAIN replicate(n)[d] : Harmless(n, d, replicate(n)[d][j])
<1> DEFINE blocks == AppendEntries(n, d).blocks
<1>1. blocks \in SUBSET chain[n].db BY DEF AppendEntries, Skip1Take, RangeFrom
<1>2. chain[n].db \in SUBSET Block /\ IsFiniteSet(chain[n].db)
  BY DEF TypeInv, FiniteChain, ChainState
<1>3. blocks \in SUBSET Block /\ IsFiniteSet(blocks) BY <1>1, <1>2, FS_Subset, ZenonT(30)
<1>4. /\ AppendEntries(n, d) =
           [type |-> "AppendEntries", term |-> raft[n].current_term, leader_id |-> n, blocks |-> blocks]
      /\ raft[n].current_term \in Nat
  BY SMTT(30) DEF AppendEntries, TypeInv, RaftState
<1> HIDE DEF blocks
<1>5. AppendEntries(n, d) \in FiniteCommand BY <1>3, <1>4, CommandTypes, ZenonT(30)
<1>6. Harmless(n, d, AppendEntries(n, d)) BY DEF Harmless
<1>7. replicate(n)[d] = <<>> \/ replicate(n)[d] = <<AppendEntries(n, d)>> BY DEF replicate
<1> QED BY <1>5, <1>6, <1>7, OptionalElements, ZenonT(30)

\* leader.rs:apply_tick.
LEMMA LeaderTickType ==
  ASSUME TypeInv, NEW n \in Node, NEW due \in BOOLEAN, Leader_apply_tick(n, due)
  PROVE  TypeInv' /\ Uninvolved(n)
<1> DEFINE hb == IF due THEN <<Heartbeat(n, raft[n])>> ELSE <<>>
           beat == ToPeers(n, hb)
           out == [p \in Node |-> beat[p] \o replicate(n)[p]]
<1>1. /\ raft[n].role = "Leader"
      /\ UNCHANGED <<raft, chain, fsm, submitted, failures>>
      /\ \/ Transmit(n, out) /\ UNCHANGED up
         \/ Stops(n) /\ UNCHANGED <<net, link>>
  BY DEF Leader_apply_tick, Is
<1>2. hb \in Seq(FiniteCommand) /\ \A d \in Node : \A j \in DOMAIN hb : Harmless(n, d, hb[j])
  <2>1. raft[n] \in RaftState BY DEF TypeInv
  <2>2. Heartbeat(n, raft[n]) \in FiniteCommand BY <2>1, HeartbeatType, SMTT(30)
  <2>3. \A d \in Node : Harmless(n, d, Heartbeat(n, raft[n])) BY <1>1, ZenonT(30) DEF Harmless
  <2> QED BY <2>2, <2>3, OptionalElements
<1> HIDE DEF hb
<1>3. out \in Outbox /\ \A d \in Node : \A j \in DOMAIN out[d] : Harmless(n, d, out[d][j])
  <2> SUFFICES ASSUME NEW d \in Node
               PROVE  out[d] \in Seq(FiniteCommand) /\ \A j \in DOMAIN out[d] : Harmless(n, d, out[d][j])
    BY ZenonT(30) DEF Outbox
  <2>1. beat[d] \in Seq(FiniteCommand) /\ \A j \in DOMAIN beat[d] : Harmless(n, d, beat[d][j])
    <3>1. beat[d] = <<>> \/ beat[d] = hb BY DEF ToPeers
    <3>2. <<>> \in Seq(FiniteCommand) /\ DOMAIN <<>> = {} OBVIOUS
    <3> QED BY <1>2, <3>1, <3>2, ZenonT(30)
  <2>2. out[d] = beat[d] \o replicate(n)[d] BY ZenonT(30)
  <2> HIDE DEF out, beat
  <2>3. /\ replicate(n)[d] \in Seq(FiniteCommand)
        /\ \A j \in DOMAIN replicate(n)[d] : Harmless(n, d, replicate(n)[d][j])
    BY <1>1, ReplicateType
  <2> DEFINE xs == beat[d]
             ys == replicate(n)[d]
  <2>4. out[d] = xs \o ys /\ xs \in Seq(FiniteCommand) /\ ys \in Seq(FiniteCommand)
    BY <2>1, <2>2, <2>3
  <2> DEFINE H == {m \in FiniteCommand : Harmless(n, d, m)}
  <2>5. xs \in Seq(H)
    <3>1. \A j \in DOMAIN xs : xs[j] \in H BY <2>1, <2>4
    <3> HIDE DEF xs, H
    <3> QED BY <2>4, <3>1, SeqElements
  <2>6. ys \in Seq(H)
    <3>1. \A j \in DOMAIN ys : ys[j] \in H BY <2>3, <2>4
    <3> HIDE DEF ys, H
    <3> QED BY <2>4, <3>1, SeqElements, ZenonT(30)
  <2> HIDE DEF xs, ys, H
  <2>7. out[d] \in Seq(H) BY <2>4, <2>5, <2>6
  <2>8. out[d] \in Seq(FiniteCommand) BY <2>7, SeqSubset DEF H
  <2>9. \A j \in DOMAIN out[d] : out[d][j] \in H BY <2>7
  <2> QED BY <2>8, <2>9 DEF H
<1> HIDE DEF out
<1>4. /\ submitted' \subseteq Request /\ failures' \in Nat /\ chain' \in [Node -> FiniteChain]
      /\ fsm' \in [Node -> Seq(Instruction)]
      /\ \E q : KeepsVotes(n, q) /\ raft' = [raft EXCEPT ![n] = q]
  BY <1>1, KeepsItsVotes, ZenonT(30) DEF TypeInv
<1>5. /\ up' \in [Node -> BOOLEAN]
      /\ net' \in [Node -> [Node -> Seq(FiniteCommand)]]
      /\ link' \in [Node -> [Node -> LinkState]]
      /\ Delivered(n, out)
  <2>1. CASE Transmit(n, out) /\ UNCHANGED up BY <1>3, <2>1, TransmitProperties, SMTT(30) DEF TypeInv
  <2>2. CASE Stops(n) /\ UNCHANGED <<net, link>>
    BY <2>2, ZenonT(30) DEF TypeInv, Stops, Delivered, Messages
  <2> QED BY <1>1, <2>1, <2>2, ZenonT(30)
<1> QED BY <1>3, <1>4, <1>5, QuietStep, ZenonT(30)

\* leader.rs:apply_heartbeat_response.
LEMMA LeaderHeartbeatResponseType ==
  ASSUME TypeInv, NEW s \in Node, NEW n \in Node, Leader_apply_heartbeat_response(s, n)
  PROVE  TypeInv' /\ Uninvolved(n)
<1> DEFINE m == Head(net[s][n])
           replicates == ~m.has_committed /\ m.commit > 0
           panics == replicates /\ replicate_panics(n)
           out == IF replicates /\ ~panics THEN replicate(n) ELSE Nothing
<1>1. s # n /\ net[s][n] # <<>> BY ReceivesFields, ZenonT(30) DEF Leader_apply_heartbeat_response
<1>2. /\ raft[n].role = "Leader"
      /\ up' = [up EXCEPT ![n] = ~panics]
      /\ Exchange(s, n, out)
      /\ UNCHANGED <<raft, chain, fsm, submitted, failures>>
  BY DEF Leader_apply_heartbeat_response, Is
<1> HIDE DEF replicates, panics
<1>3. out \in Outbox /\ \A d \in Node : \A j \in DOMAIN out[d] : Harmless(n, d, out[d][j])
  <2>1. replicate(n) \in Outbox BY <1>2, ReplicateType, ZenonT(30) DEF Outbox, replicate
  <2>2. \A d \in Node : \A j \in DOMAIN replicate(n)[d] : Harmless(n, d, replicate(n)[d][j])
    BY <1>2, ReplicateType, SMTT(30)
  <2> QED BY <2>1, <2>2, NothingIsHarmless, ZenonT(30)
<1> HIDE DEF out
<1>4. /\ net' \in [Node -> [Node -> Seq(FiniteCommand)]]
      /\ link' \in [Node -> [Node -> LinkState]]
      /\ Delivered(n, out)
  BY <1>1, <1>2, <1>3, ExchangeProperties, ZenonT(30)
<1>5. /\ submitted' \subseteq Request /\ failures' \in Nat /\ chain' \in [Node -> FiniteChain]
      /\ fsm' \in [Node -> Seq(Instruction)] /\ up' \in [Node -> BOOLEAN]
      /\ \E q : KeepsVotes(n, q) /\ raft' = [raft EXCEPT ![n] = q]
  BY <1>2, KeepsItsVotes, SMTT(30) DEF TypeInv
<1> QED BY <1>3, <1>4, <1>5, QuietStep, ZenonT(30)

\* A command that is received and changes nothing but `up`.
LEMMA ReceivedOnly ==
  ASSUME TypeInv, NEW s \in Node, NEW n \in Node, s # n, net[s][n] # <<>>, Exchange(s, n, Nothing),
         up' \in [Node -> BOOLEAN], UNCHANGED <<raft, chain, fsm, submitted, failures>>
  PROVE  TypeInv' /\ Uninvolved(n)
<1>1. /\ net' \in [Node -> [Node -> Seq(FiniteCommand)]]
      /\ link' \in [Node -> [Node -> LinkState]]
      /\ Delivered(n, Nothing)
  BY NothingIsHarmless, ExchangeProperties, ZenonT(30)
<1>2. /\ submitted' \subseteq Request /\ failures' \in Nat /\ chain' \in [Node -> FiniteChain]
      /\ fsm' \in [Node -> Seq(Instruction)]
      /\ \E q : KeepsVotes(n, q) /\ raft' = [raft EXCEPT ![n] = q]
  BY KeepsItsVotes, ZenonT(30) DEF TypeInv
<1> QED BY <1>1, <1>2, NothingIsHarmless, QuietStep, ZenonT(30)

\* leader.rs:apply_append_entries.
LEMMA LeaderAppendEntriesType ==
  ASSUME TypeInv, NEW s \in Node, NEW n \in Node, Leader_apply_append_entries(s, n)
  PROVE  TypeInv' /\ Uninvolved(n)
<1>1. s # n /\ net[s][n] # <<>> BY ReceivesFields DEF Leader_apply_append_entries
<1>2. /\ up' \in [Node -> BOOLEAN]
      /\ Exchange(s, n, Nothing)
      /\ UNCHANGED <<raft, chain, fsm, submitted, failures>>
  BY SMTT(30) DEF Leader_apply_append_entries, TypeInv
<1> QED BY <1>1, <1>2, ReceivedOnly, ZenonT(30)

\* A command that the role passes over.
LEMMA IgnoreType ==
  ASSUME TypeInv, NEW s \in Node, NEW n \in Node, Ignore(s, n)
  PROVE  TypeInv' /\ Uninvolved(n)
<1>1. s # n /\ net[s][n] # <<>> BY ZenonT(30) DEF Ignore, Receives, Deliverable
<1>2. /\ up' \in [Node -> BOOLEAN]
      /\ Exchange(s, n, Nothing)
      /\ UNCHANGED <<raft, chain, fsm, submitted, failures>>
  BY DEF Ignore, TypeInv
<1> QED BY <1>1, <1>2, ReceivedOnly

\* A failure sends nothing.
LEMMA FailureType ==
  ASSUME TypeInv, NEW n \in Node, NEW d \in Node,
         Crash(n) \/ send_task_fails(n) \/ Disconnect(n, d)
  PROVE  TypeInv' /\ Uninvolved(n)
<1>1. /\ up' \in [Node -> BOOLEAN] /\ failures' \in Nat
      /\ UNCHANGED <<raft, chain, fsm, submitted>>
      /\ link' \in [Node -> [Node -> LinkState]]
  <2>1. CASE Crash(n)
    <3>1. failures' = failures + 1 /\ Stops(n) /\ UNCHANGED <<raft, chain, fsm, submitted, link>>
      BY <2>1 DEF Crash
    <3> QED BY <3>1 DEF TypeInv, Stops
  <2>2. CASE send_task_fails(n)
    <3>1. Stops(n) /\ UNCHANGED <<raft, chain, fsm, submitted, failures, link>>
      BY <2>2 DEF send_task_fails
    <3> QED BY <3>1 DEF TypeInv, Stops
  <2>3. CASE Disconnect(n, d)
    <3>1. failures' \in Nat BY <2>3, SMTT(30) DEF TypeInv, Disconnect
    <3>2. link' = [link EXCEPT ![n][d] = "dead"] /\ UNCHANGED <<up, raft, chain, fsm, submitted>>
      BY <2>3 DEF Disconnect, Link_fails
    <3> QED BY <3>1, <3>2, ZenonT(30) DEF TypeInv, LinkState
  <2> QED BY <2>1, <2>2, <2>3, ZenonT(30)
<1>2. net' = net \/ net' = [net EXCEPT ![n][d] = <<>>]
  BY DEF Crash, send_task_fails, Disconnect, Link_fails
<1>3. net' \in [Node -> [Node -> Seq(FiniteCommand)]] /\ Delivered(n, Nothing)
  <2>1. CASE net' = net BY <2>1 DEF TypeInv, Delivered, Messages
  <2>2. CASE net' = [net EXCEPT ![n][d] = <<>>]
    <3>1. <<>> \in Seq(FiniteCommand) /\ DOMAIN <<>> = {} OBVIOUS
    <3>2. net' \in [Node -> [Node -> Seq(FiniteCommand)]] BY <2>2, <3>1 DEF TypeInv
    <3>3. \A s, e \in Node : net'[s][e] = net[s][e] \/ net'[s][e] = <<>> BY <2>2, ZenonT(30) DEF TypeInv
    <3>4. \A s, e \in Node : Messages(s, e)' = Messages(s, e) \/ Messages(s, e)' = {}
      BY <3>1, <3>3, ZenonT(30) DEF Messages
    <3> QED BY <3>2, <3>4, ZenonT(30) DEF Delivered
  <2> QED BY <1>2, <2>1, <2>2, ZenonT(30)
<1>4. /\ submitted' \subseteq Request /\ chain' \in [Node -> FiniteChain]
      /\ fsm' \in [Node -> Seq(Instruction)]
      /\ \E q : KeepsVotes(n, q) /\ raft' = [raft EXCEPT ![n] = q]
  BY <1>1, KeepsItsVotes, ZenonT(30) DEF TypeInv
<1> QED BY <1>1, <1>3, <1>4, NothingIsHarmless, QuietStep, ZenonT(30)
-----------------------------------------------------------------------------
(* Elections *)

\* What a step of n may send without giving a vote.
Fresh(n, d, m) ==
  /\ m.type = "VoteRequest" => m.candidate_id = n
  /\ m.type = "VoteResponse" => m.from = n /\ n # d /\ ~m.granted
  /\ m.type \in {"Heartbeat", "AppendEntries"} => m.leader_id = n /\ n \in Leaders'

\* The new state q of n: a leader stays one, a follower that has voted stays one,
\* and only votes given to n and its own are counted.
Constant(n, q) ==
  /\ raft' = [raft EXCEPT ![n] = q]
  /\ raft[n].role = "Leader" => q.role = "Leader"
  /\ raft[n].role = "Follower" /\ raft[n].voted_for # None =>
       q.role = "Follower" /\ q.voted_for # None
  /\ \A v \in Node \ {n} : q.votes[v] = "granted" => HasGranted(v, n)
  /\ q.votes[n] = "granted" => q.role # "Follower"
  /\ q.role = "Leader" => election_status(q.votes) = "Elected"

\* All that n sends is of that kind.
SendsFresh(n) ==
  \A s, d \in Node : \A m \in Messages(s, d)' :
     m \in Messages(s, d) \/ (s = n /\ Fresh(n, d, m))

\* A step in which n gives nobody a vote keeps the invariant.
LEMMA NoVoteGiven ==
  ASSUME TypeInv, ElectionInv, NEW n \in Node, NEW q \in RaftState, Constant(n, q), SendsFresh(n)
  PROVE  ElectionInv'
<1>1. /\ raft'[n] = q
      /\ \A p \in Node \ {n} : raft'[p] = raft[p]
  BY DEF Constant, TypeInv
<1>2. Leaders \subseteq Leaders' BY <1>1 DEF Leaders, Constant
<1>3. Addressed'
  <2> SUFFICES ASSUME NEW s \in Node, NEW d \in Node, NEW m \in Messages(s, d)'
               PROVE  /\ m.type = "VoteRequest" => m.candidate_id = s
                      /\ m.type = "VoteResponse" => m.from = s /\ s # d
                      /\ m.type \in {"Heartbeat", "AppendEntries"} => m.leader_id = s /\ s \in Leaders'
    BY DEF Addressed
  <2>1. CASE m \in Messages(s, d) BY <1>2, <2>1 DEF ElectionInv, Addressed
  <2>2. CASE s = n /\ Fresh(n, d, m) BY <2>2 DEF Fresh
  <2> QED BY <2>1, <2>2 DEF SendsFresh
<1>4. ASSUME NEW v \in Node, NEW c \in Node, HasGranted(v, c)'
      PROVE  HasGranted(v, c) \/ (v = n /\ c = n /\ q.votes[n] = "granted")
  <2>1. CASE raft'[c].votes[v] = "granted"
    <3>1. CASE c = n BY <1>1, <2>1, <3>1 DEF Constant
    <3>2. CASE c # n BY <1>1, <2>1, <3>2 DEF HasGranted
    <3> QED BY <3>1, <3>2
  <2>2. CASE \E m \in Messages(v, c)' : m.type = "VoteResponse" /\ m.granted
    <3>1. PICK m \in Messages(v, c)' : m.type = "VoteResponse" /\ m.granted BY <2>2
    <3>2. ~Fresh(n, c, m) BY <3>1 DEF Fresh
    <3>3. m \in Messages(v, c) BY <3>2 DEF SendsFresh
    <3> QED BY <3>1, <3>3 DEF HasGranted
  <2> QED BY <1>4, <2>1, <2>2 DEF HasGranted
<1>5. VotesAreFinal'
  <2> SUFFICES ASSUME NEW v \in Node, NEW c \in Node, HasGranted(v, c)'
               PROVE  /\ v # c => raft'[v].role = "Follower" /\ raft'[v].voted_for # None
                      /\ v = c => raft'[v].role # "Follower"
                      /\ \A d \in Node : HasGranted(v, d)' => c = d
    BY DEF VotesAreFinal
  <2>1. v # c => raft'[v].role = "Follower" /\ raft'[v].voted_for # None
    <3> SUFFICES ASSUME v # c PROVE raft'[v].role = "Follower" /\ raft'[v].voted_for # None
      OBVIOUS
    <3>1. raft[v].role = "Follower" /\ raft[v].voted_for # None
      BY <1>4 DEF ElectionInv, VotesAreFinal
    <3> QED BY <1>1, <3>1 DEF Constant
  <2>2. v = c => raft'[v].role # "Follower"
    <3> SUFFICES ASSUME v = c PROVE raft'[v].role # "Follower"
      OBVIOUS
    <3>1. raft'[v].votes[v] = "granted" BY <1>3 DEF HasGranted, Addressed
    <3>2. CASE v = n BY <1>1, <3>1, <3>2 DEF Constant
    <3>3. CASE v # n
      <4>1. HasGranted(v, v) BY <1>1, <3>1, <3>3 DEF HasGranted
      <4> QED BY <1>1, <3>3, <4>1 DEF ElectionInv, VotesAreFinal
    <3> QED BY <3>2, <3>3
  <2>3. ASSUME NEW d \in Node, HasGranted(v, d)' PROVE c = d
    <3>1. CASE HasGranted(v, c) /\ HasGranted(v, d) BY <3>1 DEF ElectionInv, VotesAreFinal
    <3>2. CASE v = n /\ q.votes[n] = "granted" /\ (c = n \/ d = n)
      <4>1. q.role # "Follower" BY <3>2 DEF Constant
      <4>2. \A e \in Node \ {n} : ~HasGranted(n, e)
        BY <4>1 DEF Constant, ElectionInv, VotesAreFinal
      <4> QED BY <1>4, <2>3, <3>2, <4>2, SMTT(30)
    <3> QED BY <1>4, <2>3, <3>1, <3>2, SMTT(30)
  <2> QED BY <2>1, <2>2, <2>3
<1>6. LeaderHasQuorum'
  <2> SUFFICES ASSUME NEW p \in Node, raft'[p].role = "Leader"
               PROVE  election_status(raft'[p].votes) = "Elected"
    BY DEF LeaderHasQuorum, Leaders
  <2>1. CASE p = n BY <1>1, <2>1 DEF Constant
  <2>2. CASE p # n BY <1>1, <2>2 DEF ElectionInv, LeaderHasQuorum, Leaders
  <2> QED BY <2>1, <2>2
<1> QED BY <1>3, <1>5, <1>6 DEF ElectionInv

\* A candidate that steps down forgets the votes it counted (Candidate -> Follower).
LEMMA StepDown ==
  ASSUME TypeInv, ElectionInv, NEW n \in Node, raft[n].role = "Candidate",
         NEW q \in RaftState, raft' = [raft EXCEPT ![n] = q],
         q.role = "Follower", q.votes = Election_new, SendsFresh(n)
  PROVE  ElectionInv'
<1>1. Constant(n, q) BY ResetVotes DEF Constant
<1> QED BY <1>1, NoVoteGiven

\* What a handler sends is fresh when every message of its outbox is.
LEMMA DeliveredFresh ==
  ASSUME NEW n \in Node, NEW out \in Outbox, Delivered(n, out),
         \A d \in Node : \A j \in DOMAIN out[d] : Fresh(n, d, out[d][j])
  PROVE  SendsFresh(n)
<1> SUFFICES ASSUME NEW s \in Node, NEW d \in Node, NEW m \in Messages(s, d)', m \notin Messages(s, d)
             PROVE  s = n /\ Fresh(n, d, m)
  BY DEF SendsFresh
<1>1. s = n /\ \E j \in DOMAIN out[d] : m = out[d][j] BY DEF Delivered
<1> QED BY <1>1

\* The heartbeat of a new leader.
LEMMA ElectFresh ==
  ASSUME NEW n \in Node, NEW r, r.role = "Leader" => n \in Leaders', NEW d \in Node,
         NEW j \in DOMAIN elect(n, r)
  PROVE  Fresh(n, d, elect(n, r)[j])
<1>1. CASE r.role = "Leader"
  <2>1. elect(n, r) = <<Heartbeat(n, r)>> BY <1>1 DEF elect
  <2>2. elect(n, r)[j] = Heartbeat(n, r) BY <2>1
  <2> QED BY <1>1, <2>2 DEF Heartbeat, Fresh
<1>2. CASE r.role # "Leader"
  <2>1. elect(n, r) = <<>> BY <1>2 DEF elect
  <2> QED BY <2>1
<1> QED BY <1>1, <1>2

\* An outbox with at most one message, to p.
LEMMA OneFresh ==
  ASSUME NEW n \in Node, NEW p \in Node, NEW m \in FiniteCommand, Fresh(n, p, m),
         Delivered(n, To(p, <<m>>))
  PROVE  SendsFresh(n)
<1>1. <<m>> \in Seq(FiniteCommand) OBVIOUS
<1>2. To(p, <<m>>) \in Outbox BY <1>1, OutboxTypes, ZenonT(30)
<1>3. ASSUME NEW d \in Node, NEW j \in DOMAIN To(p, <<m>>)[d] PROVE Fresh(n, d, To(p, <<m>>)[d][j])
  <2>1. CASE d = p
    <3>1. To(p, <<m>>)[d] = <<m>> BY <2>1 DEF To
    <3>2. To(p, <<m>>)[d][j] = m BY <1>3, <3>1
    <3> QED BY <2>1, <3>2
  <2>2. CASE d # p
    <3>1. To(p, <<m>>)[d] = <<>> BY <2>2 DEF To
    <3> QED BY <1>3, <3>1
  <2> QED BY <2>1, <2>2
<1> QED BY <1>2, <1>3, DeliveredFresh

\* A handler that sends nothing.
LEMMA NothingFresh ==
  ASSUME NEW n \in Node, Delivered(n, Nothing)
  PROVE  SendsFresh(n)
<1>1. \A d \in Node : Nothing[d] = <<>> BY DEF Nothing
<1>2. DOMAIN <<>> = {} OBVIOUS
<1> QED BY <1>1, <1>2, OutboxTypes, DeliveredFresh

\* Nobody has voted and nothing is on its way when the servers start.
LEMMA InitElection == Init => ElectionInv
<1> SUFFICES ASSUME Init PROVE ElectionInv
  OBVIOUS
<1>1. \A n \in Node : raft[n].role = "Follower" /\ raft[n].votes = Election_new
  BY DEF Init, Follower_new
<1>2. \A s, d \in Node : Messages(s, d) = {}
  <2>1. DOMAIN <<>> = {} OBVIOUS
  <2>2. \A s, d \in Node : net[s][d] = <<>> BY DEF Init, Tcp_Init
  <2> QED BY <2>1, <2>2 DEF Messages
<1>3. Leaders = {} BY <1>1 DEF Leaders
<1>4. \A v, c \in Node : ~HasGranted(v, c) BY <1>1, <1>2, ResetVotes DEF HasGranted
<1> QED BY <1>2, <1>3, <1>4, SMTT(30) DEF ElectionInv, Addressed, VotesAreFinal, LeaderHasQuorum

\* Two quorums of voters have a voter in common, and a voter votes for one node.
LEMMA QuorumsIntersect == TypeInv /\ ElectionInv => AtMostOneLeader
<1> SUFFICES ASSUME TypeInv, ElectionInv, NEW a \in Leaders, NEW b \in Leaders
             PROVE  a = b
  BY DEF AtMostOneLeader
<1> DEFINE A == Granted(raft[a].votes)
           B == Granted(raft[b].votes)
           N == Cardinality(Node)
<1>1. a \in Node /\ b \in Node BY DEF Leaders
<1>2. N \in Nat /\ IsFiniteSet(Node) BY NodeAssumption, FS_CardinalityType
<1>3. A \subseteq Node /\ B \subseteq Node BY DEF Granted
<1>4. Cardinality(A) \in Nat /\ Cardinality(B) \in Nat
  BY <1>2, <1>3, FS_Subset, FS_CardinalityType
<1>5. Cardinality(A) >= quorum_size /\ Cardinality(B) >= quorum_size
  BY DEF ElectionInv, LeaderHasQuorum, election_status
<1>6. CASE N = 1
  <2>1. \E x : Node = {x} BY <1>2, <1>6, FS_Singleton
  <2> QED BY <1>1, <2>1
<1>7. CASE N # 1
  <2>1. quorum_size = (N \div 2) + 1 BY <1>7 DEF quorum_size
  <2> HIDE DEF N, A, B
  <2>2. 2 * ((N \div 2) + 1) > N BY <1>2
  <2>3. Cardinality(A) + Cardinality(B) > N BY <1>2, <1>4, <1>5, <2>1, <2>2, SMTT(30)
  <2>4. A \cap B # {} BY <1>2, <1>3, <2>3, FS_MajoritiesIntersect, SMTT(30) DEF N
  <2>5. PICK v : v \in A /\ v \in B BY <2>4
  <2>6. v \in Node /\ HasGranted(v, a) /\ HasGranted(v, b) BY <2>5 DEF A, B, Granted, HasGranted
  <2> QED BY <1>1, <2>6 DEF ElectionInv, VotesAreFinal
<1> QED BY <1>6, <1>7

\* ElectionInv says nothing of the stored state: a step that changes neither the
\* servers nor the links keeps it.
LEMMA NothingHappens ==
  ASSUME ElectionInv, UNCHANGED <<raft, net>>
  PROVE  ElectionInv'
<1>1. Leaders' = Leaders BY DEF Leaders
<1>2. \A s, d \in Node : Messages(s, d)' = Messages(s, d) BY DEF Messages
<1>3. \A v, c \in Node : HasGranted(v, c)' = HasGranted(v, c)
  BY <1>2, ZenonT(30) DEF HasGranted
<1>4. Addressed' BY <1>1, <1>2 DEF ElectionInv, Addressed
<1>5. VotesAreFinal' BY <1>3 DEF ElectionInv, VotesAreFinal
<1>6. LeaderHasQuorum' BY <1>1 DEF ElectionInv, LeaderHasQuorum
<1> QED BY <1>4, <1>5, <1>6 DEF ElectionInv
-----------------------------------------------------------------------------
(* Types *)

\* The requests and the heartbeat of seek_election.
Campaign(n, r) ==
  [i \in 1..(Cardinality(Node) - 1) |->
     [type |-> "VoteRequest", term |-> raft[n].current_term + 1, candidate_id |-> n,
      last_term |-> raft[n].current_term + 1, head |-> chain[n].head]] \o elect(n, r)

\* The candidate that seek_election makes of n, before it counts its own vote.
Standing(n) == [[Follower_to_Candidate(raft[n]) EXCEPT !.voted_for = n] EXCEPT !.current_term = @ + 1]

\* candidate.rs:seek_election: the state it leads to and what it sends.
LEMMA SeekElectionType ==
  ASSUME TypeInv, NEW n \in Node, seek_election(n)
  PROVE  LET r == apply_vote_response(Standing(n), n, TRUE)
         IN /\ Standing(n) \in RaftState
            /\ Standing(n).role = "Candidate"
            /\ Standing(n).votes = Election_new
            /\ raft' = [raft EXCEPT ![n] = r]
            /\ Campaign(n, r) \in Seq(FiniteCommand)
            /\ Delivered(n, ToPeers(n, Campaign(n, r)))
            /\ TypeInv'
<1> DEFINE c == Standing(n)
           r == apply_vote_response(c, n, TRUE)
<1>1. raft[n] \in RaftState /\ raft[n].current_term \in Nat /\ chain[n].head \in Nat
  BY ZenonT(30) DEF TypeInv, RaftState, FiniteChain, ChainState
<1>2. /\ c \in RaftState /\ c.role = "Candidate" /\ c.votes = Election_new
      /\ c.current_term = raft[n].current_term + 1
  <2> DEFINE f == Follower_to_Candidate(raft[n])
  <2>1. f \in RaftState /\ f.role = "Candidate" /\ f.votes = Election_new BY <1>1, ToCandidateFields
  <2>2. f.current_term = raft[n].current_term BY <1>1 DEF Follower_to_Candidate, RaftState
  <2> DEFINE g == [f EXCEPT !.voted_for = n]
  <2>3. c = [g EXCEPT !.current_term = g.current_term + 1] BY DEF Standing
  <2> HIDE DEF f, c
  <2>4. /\ g \in RaftState /\ g.role = "Candidate" /\ g.votes = Election_new
        /\ g.current_term = raft[n].current_term
    BY <2>1, <2>2 DEF RaftState
  <2> HIDE DEF g
  <2> QED BY <1>1, <2>3, <2>4 DEF RaftState
<1>3. r \in RaftState
  <2> HIDE DEF c
  <2> QED BY <1>2, VoteResponseFields, ZenonT(30)
<1>4. /\ raft' = [raft EXCEPT ![n] = r]
      /\ Transmit(n, ToPeers(n, Campaign(n, r)))
      /\ UNCHANGED <<up, chain, fsm, submitted, failures>>
  BY <1>2, ZenonT(30) DEF seek_election, Standing, Campaign
<1> HIDE DEF r, c
<1>5. Campaign(n, r) \in Seq(FiniteCommand)
  <2> DEFINE k == Cardinality(Node) - 1
             q == [type |-> "VoteRequest", term |-> raft[n].current_term + 1, candidate_id |-> n,
                   last_term |-> raft[n].current_term + 1, head |-> chain[n].head]
  <2>1. q \in FiniteCommand
    <3>1. raft[n].current_term + 1 \in Nat /\ chain[n].head \in Nat BY <1>1
    <3> QED BY <3>1, CommandTypes, ZenonT(30)
  <2>2. k \in Nat
    <3>1. IsFiniteSet(Node) /\ Node # {} BY NodeAssumption
    <3>2. Cardinality(Node) \in Nat /\ Cardinality(Node) # 0 BY <3>1, FS_CardinalityType, FS_EmptySet
    <3> QED BY <3>2
  <2>3. [i \in 1..k |-> q] \in Seq(FiniteCommand)
    <3> HIDE DEF q, k
    <3> QED BY <2>1, <2>2
  <2>4. elect(n, r) \in Seq(FiniteCommand) BY <1>3, HeartbeatType
  <2> QED BY <2>3, <2>4 DEF Campaign
<1>6. /\ net' \in [Node -> [Node -> Seq(FiniteCommand)]]
      /\ link' \in [Node -> [Node -> LinkState]]
      /\ Delivered(n, ToPeers(n, Campaign(n, r)))
  BY <1>4, <1>5, OutboxTypes, TransmitProperties
<1>7. TypeInv' BY <1>3, <1>4, <1>6, ZenonT(30) DEF TypeInv
<1> QED BY <1>2, <1>4, <1>5, <1>6, <1>7, ZenonT(30) DEF r, c

\* A campaign is made of vote requests and, for who wins at once, a heartbeat.
LEMMA CampaignElements ==
  ASSUME TypeInv, NEW n \in Node, NEW r \in RaftState, NEW j \in DOMAIN Campaign(n, r)
  PROVE  \/ Campaign(n, r)[j].type = "VoteRequest" /\ Campaign(n, r)[j].candidate_id = n
         \/ \E i \in DOMAIN elect(n, r) : Campaign(n, r)[j] = elect(n, r)[i]
<1> DEFINE request == [type |-> "VoteRequest", term |-> raft[n].current_term + 1,
                       candidate_id |-> n, last_term |-> raft[n].current_term + 1,
                       head |-> chain[n].head]
           xs == [i \in 1..(Cardinality(Node) - 1) |-> request]
           ys == elect(n, r)
<1>1. Campaign(n, r) = xs \o ys BY DEF Campaign
<1>2. \A i \in DOMAIN xs : xs[i].type = "VoteRequest" /\ xs[i].candidate_id = n OBVIOUS
<1>3. xs \in Seq(FiniteCommand)
  <2>1. raft[n].current_term \in Nat /\ chain[n].head \in Nat
    BY ZenonT(30) DEF TypeInv, RaftState, FiniteChain, ChainState
  <2>a. raft[n].current_term + 1 \in Nat BY <2>1
  <2>2. request \in FiniteCommand BY <2>1, <2>a, CommandTypes, ZenonT(30)
  <2>3. Cardinality(Node) - 1 \in Nat
    <3>1. Cardinality(Node) \in Nat /\ Cardinality(Node) # 0
      BY NodeAssumption, FS_CardinalityType, FS_EmptySet, ZenonT(30)
    <3> QED BY <3>1
  <2> HIDE DEF request
  <2> QED BY <2>2, <2>3
<1>4. ys \in Seq(FiniteCommand) BY HeartbeatType
<1> HIDE DEF xs, ys
<1>5. j \in DOMAIN (xs \o ys) BY <1>1
<1>6. \/ \E i \in DOMAIN xs : (xs \o ys)[j] = xs[i]
      \/ \E i \in DOMAIN ys : (xs \o ys)[j] = ys[i]
  BY <1>3, <1>4, <1>5, ConcatElements
<1> QED BY <1>1, <1>2, <1>6, ZenonT(30) DEF ys

\* follower.rs:apply_vote_request: one answer, to the candidate.
LEMMA FollowerVoteRequestType ==
  ASSUME TypeInv, NEW s \in Node, NEW n \in Node, Follower_apply_vote_request(s, n)
  PROVE  LET m == Head(net[s][n])
             granted == can_vote(n, m.last_term, m.head)
             q == [raft[n] EXCEPT !.voted_for = IF granted THEN m.candidate_id ELSE @]
             response == [type |-> "VoteResponse", from |-> n, granted |-> granted]
         IN /\ TypeInv'
            /\ q \in RaftState
            /\ m.candidate_id \in Node
            /\ granted \in BOOLEAN
            /\ raft' = [raft EXCEPT ![n] = q]
            /\ Delivered(n, To(m.candidate_id, <<response>>))
<1> DEFINE m == Head(net[s][n])
           granted == can_vote(n, m.last_term, m.head)
           q == [raft[n] EXCEPT !.voted_for = IF granted THEN m.candidate_id ELSE @]
           response == [type |-> "VoteResponse", from |-> n, granted |-> granted]
<1>1. s # n /\ net[s][n] # <<>> /\ m.candidate_id \in Node
  BY ReceivesFields, CommandFields DEF Follower_apply_vote_request
<1>2. /\ raft' = [raft EXCEPT ![n] = q]
      /\ Exchange(s, n, To(m.candidate_id, <<response>>))
      /\ UNCHANGED <<up, chain, fsm, submitted, failures>>
  BY DEF Follower_apply_vote_request
<1>3. granted \in BOOLEAN BY DEF can_vote
<1> HIDE DEF granted, m
<1>4. q \in RaftState
  <2> DEFINE w == IF granted THEN m.candidate_id ELSE raft[n].voted_for
  <2>1. raft[n] \in RaftState /\ w \in Node \cup {None} BY <1>1, ZenonT(30) DEF TypeInv, RaftState
  <2>2. q = [raft[n] EXCEPT !.voted_for = w] OBVIOUS
  <2> HIDE DEF w, q
  <2> QED BY <2>1, <2>2, ZenonT(30) DEF RaftState
<1>5. To(m.candidate_id, <<response>>) \in Outbox
  <2>1. response \in FiniteCommand BY <1>3, CommandTypes, ZenonT(30)
  <2> HIDE DEF response
  <2>2. <<response>> \in Seq(FiniteCommand) BY <2>1
  <2> QED BY <2>2, OutboxTypes, ZenonT(30)
<1> HIDE DEF q, response
<1>6. TypeInv' /\ Delivered(n, To(m.candidate_id, <<response>>))
  BY <1>1, <1>2, <1>4, <1>5, ExchangeType, ZenonT(30)
<1> QED BY <1>1, <1>2, <1>3, <1>4, <1>6, ZenonT(30) DEF m, granted, q, response

\* A candidate steps down without a vote, or refuses.
LEMMA CandidateVoteRequestType ==
  ASSUME TypeInv, NEW s \in Node, NEW n \in Node, Candidate_apply_vote_request(s, n)
  PROVE  LET response == [type |-> "VoteResponse", from |-> n, granted |-> FALSE]
         IN /\ TypeInv'
            /\ \/ /\ Delivered(n, Nothing)
                  /\ \E q \in RaftState : /\ raft' = [raft EXCEPT ![n] = q]
                                          /\ q.role = "Follower"
                                          /\ q.votes = Election_new
               \/ /\ raft' = raft
                  /\ Delivered(n, To(Head(net[s][n]).candidate_id, <<response>>))
<1> DEFINE m == Head(net[s][n])
           response == [type |-> "VoteResponse", from |-> n, granted |-> FALSE]
           t == term(raft[n], m.term)
           q == Candidate_to_Follower(t)
<1>1. s # n /\ net[s][n] # <<>> /\ m.candidate_id \in Node /\ m.term \in Nat
  BY ReceivesFields, CommandFields, ZenonT(30) DEF Candidate_apply_vote_request
<1>2. /\ UNCHANGED <<up, chain, fsm, submitted, failures>>
      /\ \/ raft' = [raft EXCEPT ![n] = q] /\ Exchange(s, n, Nothing)
         \/ raft' = raft /\ Exchange(s, n, To(m.candidate_id, <<response>>))
  BY ZenonT(30) DEF Candidate_apply_vote_request
<1> HIDE DEF m
<1>3. q \in RaftState /\ q.role = "Follower" /\ q.votes = Election_new
  <2>1. t \in RaftState BY <1>1, TermFields, ZenonT(30) DEF TypeInv
  <2> HIDE DEF t
  <2> QED BY <2>1, ToFollowerFields
<1> HIDE DEF q
<1>4. CASE raft' = [raft EXCEPT ![n] = q] /\ Exchange(s, n, Nothing)
  <2>1. TypeInv' /\ Delivered(n, Nothing) BY <1>1, <1>2, <1>3, <1>4, OutboxTypes, ExchangeType, ZenonT(30)
  <2> QED BY <1>3, <1>4, <2>1, ZenonT(30)
<1>5. CASE raft' = raft /\ Exchange(s, n, To(m.candidate_id, <<response>>))
  <2>1. To(m.candidate_id, <<response>>) \in Outbox
    <3>1. response \in FiniteCommand BY CommandTypes, ZenonT(30)
    <3> HIDE DEF response
    <3>2. <<response>> \in Seq(FiniteCommand) BY <3>1
    <3> QED BY <3>2, OutboxTypes, ZenonT(30)
  <2>2. raft' = [raft EXCEPT ![n] = raft[n]] /\ raft[n] \in RaftState BY <1>5 DEF TypeInv
  <2> HIDE DEF response
  <2>3. TypeInv' /\ Delivered(n, To(m.candidate_id, <<response>>))
    BY <1>1, <1>2, <1>5, <2>1, <2>2, ExchangeType, ZenonT(30)
  <2> QED BY <1>5, <2>3, ZenonT(30) DEF m, response
<1> QED BY <1>2, <1>4, <1>5, ZenonT(30)

\* A candidate counts the answer, and announces itself if it is elected.
LEMMA CandidateVoteResponseType ==
  ASSUME TypeInv, NEW s \in Node, NEW n \in Node, Candidate_apply_vote_response(s, n)
  PROVE  LET m == Head(net[s][n])
             q == apply_vote_response(raft[n], m.from, m.granted)
         IN /\ TypeInv'
            /\ m.from \in Node /\ m.granted \in BOOLEAN
            /\ q \in RaftState
            /\ raft' = [raft EXCEPT ![n] = q]
            /\ Delivered(n, ToPeers(n, elect(n, q)))
<1> DEFINE m == Head(net[s][n])
           q == apply_vote_response(raft[n], m.from, m.granted)
<1>1. s # n /\ net[s][n] # <<>> /\ m.from \in Node /\ m.granted \in BOOLEAN
  BY ReceivesFields, CommandFields, ZenonT(30) DEF Candidate_apply_vote_response
<1>2. /\ raft[n].role = "Candidate"
      /\ raft' = [raft EXCEPT ![n] = q]
      /\ Exchange(s, n, ToPeers(n, elect(n, q)))
      /\ UNCHANGED <<up, chain, fsm, submitted, failures>>
  BY ZenonT(30) DEF Candidate_apply_vote_response, Is
<1> HIDE DEF m
<1>3. q \in RaftState BY <1>1, <1>2, VoteResponseFields DEF TypeInv
<1> HIDE DEF q
<1>4. ToPeers(n, elect(n, q)) \in Outbox BY <1>3, HeartbeatType, OutboxTypes, SMTT(30)
<1>5. TypeInv' /\ Delivered(n, ToPeers(n, elect(n, q)))
  BY <1>1, <1>2, <1>3, <1>4, ExchangeType, ZenonT(30)
<1> QED BY <1>1, <1>2, <1>3, <1>5, ZenonT(30) DEF m, q

\* candidate.rs:apply_append_entries.
LEMMA CandidateAppendEntriesType ==
  ASSUME TypeInv, NEW s \in Node, NEW n \in Node, Candidate_apply_append_entries(s, n)
  PROVE  /\ TypeInv'
         /\ Delivered(n, Nothing)
         /\ \/ raft' = raft
            \/ \E q \in RaftState : /\ raft' = [raft EXCEPT ![n] = q]
                                    /\ q.role = "Follower"
                                    /\ q.votes = Election_new
<1> DEFINE q == Candidate_to_Follower(raft[n])
<1>1. s # n /\ net[s][n] # <<>> BY ReceivesFields DEF Candidate_apply_append_entries
<1>2. /\ Exchange(s, n, Nothing)
      /\ UNCHANGED <<up, chain, fsm, submitted, failures>>
      /\ raft' = [raft EXCEPT ![n] = q] \/ raft' = [raft EXCEPT ![n] = raft[n]]
  BY ZenonT(30) DEF Candidate_apply_append_entries
<1>3. raft[n] \in RaftState /\ raft = [raft EXCEPT ![n] = raft[n]] BY DEF TypeInv
<1>4. q \in RaftState /\ q.role = "Follower" /\ q.votes = Election_new BY <1>3, ToFollowerFields
<1> HIDE DEF q
<1>5. TypeInv' /\ Delivered(n, Nothing)
  BY <1>1, <1>2, <1>3, <1>4, OutboxTypes, ExchangeType
<1> QED BY <1>2, <1>3, <1>4, <1>5

\* candidate.rs:apply_heartbeat.
LEMMA CandidateHeartbeatType ==
  ASSUME TypeInv, NEW s \in Node, NEW n \in Node, Candidate_apply_heartbeat(s, n)
  PROVE  /\ TypeInv'
         /\ \E q \in RaftState : /\ raft' = [raft EXCEPT ![n] = q]
                                 /\ q.role = "Follower"
                                 /\ q.votes = Election_new
         /\ \E out \in Outbox :
              /\ Delivered(n, out)
              /\ \A d \in Node : \A j \in DOMAIN out[d] : Harmless(n, d, out[d][j])
<1> DEFINE m == Head(net[s][n])
           has_committed == Chain_has(chain[n], m.commit)
           response == [type |-> "HeartbeatResponse", commit |-> chain[n].commit,
                        has_committed |-> has_committed]
           t == term(raft[n], m.term)
           t1 == [t EXCEPT !.voted_for = m.leader_id]
           q == Candidate_to_Follower(t1)
           out == To(m.leader_id, <<response>>)
<1>1. s # n /\ net[s][n] # <<>> /\ m.term \in Nat /\ m.leader_id \in Node
  BY ReceivesFields, CommandFields DEF Candidate_apply_heartbeat
<1>2. /\ raft' = [raft EXCEPT ![n] = q]
      /\ Exchange(s, n, out)
      /\ UNCHANGED <<up, chain, fsm, submitted, failures>>
  BY DEF Candidate_apply_heartbeat
<1>3. q \in RaftState /\ q.role = "Follower" /\ q.votes = Election_new
  <2> HIDE DEF m
  <2>1. t \in RaftState BY <1>1, TermFields, ZenonT(30) DEF TypeInv
  <2> HIDE DEF t
  <2>2. t1 \in RaftState BY <1>1, <2>1 DEF RaftState
  <2> HIDE DEF t1
  <2> QED BY <2>2, ToFollowerFields
<1> HIDE DEF q
<1>4. out \in Outbox /\ \A d \in Node : \A j \in DOMAIN out[d] : Harmless(n, d, out[d][j])
  <2>1. has_committed \in BOOLEAN BY DEF Chain_has
  <2>2. chain[n].commit \in Nat BY SMTT(30) DEF TypeInv, FiniteChain, ChainState
  <2> HIDE DEF has_committed, m
  <2>3. response \in FiniteCommand BY <2>1, <2>2, CommandTypes, ZenonT(30)
  <2>4. response.type = "HeartbeatResponse" OBVIOUS
  <2> HIDE DEF response
  <2>5. Harmless(n, m.leader_id, response) BY <2>4 DEF Harmless
  <2> QED BY <2>3, <2>5, OneMessage
<1> HIDE DEF out
<1>5. TypeInv' /\ Delivered(n, out) BY <1>1, <1>2, <1>3, <1>4, ExchangeType, ZenonT(30)
<1> QED BY <1>2, <1>3, <1>4, <1>5, ZenonT(30)
-----------------------------------------------------------------------------
(* The steps of an election keep ElectionInv *)

\* A follower without a vote, or a candidate, stands for election.
LEMMA SeekElectionStep ==
  ASSUME TypeInv, ElectionInv, NEW n \in Node, seek_election(n),
         raft[n].role # "Leader", raft[n].role = "Follower" => raft[n].voted_for = None
  PROVE  ElectionInv'
<1> DEFINE c == Standing(n)
           q == apply_vote_response(c, n, TRUE)
           out == ToPeers(n, Campaign(n, q))
<1>1. /\ c \in RaftState /\ c.role = "Candidate" /\ c.votes = Election_new
      /\ raft' = [raft EXCEPT ![n] = q]
      /\ Campaign(n, q) \in Seq(FiniteCommand)
      /\ Delivered(n, out)
  BY SeekElectionType, ZenonT(30)
<1> HIDE DEF c
<1>2. /\ q \in RaftState
      /\ q.role # "Follower" => q.votes = vote(Election_new, n, TRUE)
      /\ q.role = "Follower" => q.votes = Election_new
      /\ q.role = "Leader" => election_status(q.votes) = "Elected"
  BY <1>1, VoteResponseFields, ZenonT(30)
<1> HIDE DEF q
<1>3. Constant(n, q)
  <2>1. \A v \in Node \ {n} : q.votes[v] # "granted"
    <3>1. \A v \in Node \ {n} : vote(Election_new, n, TRUE)[v] = Election_new[v]
      BY VoteType, NewTypes, ZenonT(30)
    <3> QED BY <1>2, <3>1, ResetVotes, ZenonT(30)
  <2>2. q.votes[n] = "granted" => q.role # "Follower" BY <1>2, ResetVotes
  <2> QED BY <1>1, <1>2, <2>1, <2>2 DEF Constant
<1>4. SendsFresh(n)
  <2>1. q.role = "Leader" => n \in Leaders' BY <1>1 DEF Leaders, TypeInv
  <2>2. ASSUME NEW d \in Node, NEW j \in DOMAIN Campaign(n, q) PROVE Fresh(n, d, Campaign(n, q)[j])
    <3>1. \/ Campaign(n, q)[j].type = "VoteRequest" /\ Campaign(n, q)[j].candidate_id = n
          \/ \E i \in DOMAIN elect(n, q) : Campaign(n, q)[j] = elect(n, q)[i]
      BY <1>2, <2>2, CampaignElements, ZenonT(30)
    <3>2. CASE Campaign(n, q)[j].type = "VoteRequest" /\ Campaign(n, q)[j].candidate_id = n
      BY <3>2, ZenonT(30) DEF Fresh
    <3>3. CASE \E i \in DOMAIN elect(n, q) : Campaign(n, q)[j] = elect(n, q)[i]
      BY <2>1, <3>3, ElectFresh, ZenonT(30)
    <3> QED BY <3>1, <3>2, <3>3
  <2>3. out \in Outbox BY <1>1, OutboxTypes, SMTT(30)
  <2>4. ASSUME NEW d \in Node, NEW j \in DOMAIN out[d] PROVE Fresh(n, d, out[d][j])
    <3>1. CASE d = n
      <4>1. out[d] = <<>> BY <3>1 DEF ToPeers
      <4> QED BY <2>4, <4>1
    <3>2. CASE d # n
      <4>1. out[d] = Campaign(n, q) BY <3>2 DEF ToPeers
      <4> QED BY <2>2, <2>4, <4>1
    <3> QED BY <3>1, <3>2
  <2> HIDE DEF out
  <2> QED BY <1>1, <2>3, <2>4, DeliveredFresh, SMTT(30)
<1> QED BY <1>2, <1>3, <1>4, NoVoteGiven, SMTT(30)

\* A candidate counts an answer that its sender gave.
LEMMA VoteResponseStep ==
  ASSUME TypeInv, ElectionInv, NEW s \in Node, NEW n \in Node, Candidate_apply_vote_response(s, n)
  PROVE  ElectionInv'
<1> DEFINE m == Head(net[s][n])
           q == apply_vote_response(raft[n], m.from, m.granted)
           out == ToPeers(n, elect(n, q))
<1>1. /\ m.from \in Node /\ m.granted \in BOOLEAN
      /\ raft' = [raft EXCEPT ![n] = q]
      /\ Delivered(n, out)
  BY CandidateVoteResponseType, ZenonT(30)
<1>2. raft[n] \in RaftState /\ raft[n].votes \in Votes BY ZenonT(30) DEF TypeInv, RaftState
<1>3. raft[n].role = "Candidate" /\ m \in Messages(s, n) /\ m.type = "VoteResponse"
  BY ReceivesFields, ZenonT(30) DEF Candidate_apply_vote_response, Is
<1>4. m.granted => HasGranted(m.from, n)
  <2>1. m.from = s BY <1>3 DEF ElectionInv, Addressed
  <2> QED BY <1>3, <2>1 DEF HasGranted
<1> HIDE DEF m
<1>5. /\ q \in RaftState
      /\ q.role # "Follower" => q.votes = vote(raft[n].votes, m.from, m.granted)
      /\ q.role = "Follower" => q.votes = Election_new
      /\ q.role = "Leader" => election_status(q.votes) = "Elected"
  BY <1>1, <1>2, <1>3, VoteResponseFields, ZenonT(30)
<1> HIDE DEF q
<1>6. Constant(n, q)
  <2>1. ASSUME NEW v \in Node, q.votes[v] = "granted" PROVE HasGranted(v, n)
    <3>1. q.votes = vote(raft[n].votes, m.from, m.granted) BY <1>5, <2>1, ResetVotes
    <3>2. CASE v = m.from
      <4>1. m.granted BY <1>1, <1>2, <2>1, <3>1, <3>2, VoteType, SMTT(30)
      <4> QED BY <1>4, <3>2, <4>1
    <3>3. CASE v # m.from
      <4>1. raft[n].votes[v] = "granted" BY <1>1, <1>2, <2>1, <3>1, <3>3, VoteType, SMTT(30)
      <4> QED BY <4>1 DEF HasGranted
    <3> QED BY <3>2, <3>3
  <2>2. q.votes[n] = "granted" => q.role # "Follower" BY <1>5, ResetVotes
  <2> QED BY <1>1, <1>3, <1>5, <2>1, <2>2 DEF Constant
<1>7. SendsFresh(n)
  <2>1. q.role = "Leader" => n \in Leaders' BY <1>1 DEF Leaders, TypeInv
  <2>2. out \in Outbox BY <1>5, HeartbeatType, OutboxTypes
  <2>3. ASSUME NEW d \in Node, NEW j \in DOMAIN out[d] PROVE Fresh(n, d, out[d][j])
    <3>1. CASE d = n
      <4>1. out[d] = <<>> BY <3>1 DEF ToPeers
      <4> QED BY <2>3, <4>1
    <3>2. CASE d # n
      <4>1. out[d] = elect(n, q) BY <3>2 DEF ToPeers
      <4> QED BY <2>1, <2>3, <4>1, ElectFresh
    <3> QED BY <3>1, <3>2
  <2> HIDE DEF out
  <2> QED BY <1>1, <2>2, <2>3, DeliveredFresh
<1> QED BY <1>5, <1>6, <1>7, NoVoteGiven, ZenonT(30)

\* A follower answers a request for its vote; it gives it only if it has none
\* outstanding (follower.rs:can_vote).
LEMMA VoteRequestStep ==
  ASSUME TypeInv, ElectionInv, NEW s \in Node, NEW n \in Node, Follower_apply_vote_request(s, n)
  PROVE  ElectionInv'
<1> DEFINE m == Head(net[s][n])
           granted == can_vote(n, m.last_term, m.head)
           q == [raft[n] EXCEPT !.voted_for = IF granted THEN m.candidate_id ELSE @]
           response == [type |-> "VoteResponse", from |-> n, granted |-> granted]
<1>1. /\ q \in RaftState
      /\ granted \in BOOLEAN
      /\ raft' = [raft EXCEPT ![n] = q]
      /\ Delivered(n, To(m.candidate_id, <<response>>))
  BY FollowerVoteRequestType
<1>2. /\ raft[n] \in RaftState /\ raft[n].role = "Follower" /\ s # n
      /\ m \in Messages(s, n) /\ m.type = "VoteRequest"
  BY ReceivesFields DEF Follower_apply_vote_request, Is, TypeInv
<1>3. m.candidate_id = s BY <1>2 DEF ElectionInv, Addressed
<1>4. granted => raft[n].voted_for = None BY DEF can_vote
<1> HIDE DEF m, granted
<1>5. q.role = "Follower" /\ q.votes = raft[n].votes BY <1>2 DEF RaftState
<1>6. q.voted_for = IF granted THEN s ELSE raft[n].voted_for BY <1>2, <1>3, SMTT(30) DEF RaftState
<1> HIDE DEF q
<1>7. response \in FiniteCommand BY <1>1, CommandTypes, ZenonT(30)
<1>8. CASE ~granted
  <2>1. Constant(n, q)
    <3>1. \A v \in Node : q.votes[v] = "granted" => HasGranted(v, n) BY <1>5 DEF HasGranted
    <3>2. q.votes[n] # "granted" BY <1>2, <3>1 DEF ElectionInv, VotesAreFinal
    <3> QED BY <1>1, <1>2, <1>5, <1>6, <1>8, <3>1, <3>2, ZenonT(30) DEF Constant
  <2>2. Fresh(n, s, response) BY <1>2, <1>8 DEF Fresh
  <2> HIDE DEF response
  <2>3. SendsFresh(n) BY <1>1, <1>3, <1>7, <2>2, OneFresh, SMTT(30)
  <2> QED BY <1>1, <2>1, <2>3, NoVoteGiven, ZenonT(30)
<1>9. CASE granted
  <2>1. \A c \in Node : ~HasGranted(n, c) BY <1>2, <1>4, <1>9, ZenonT(30) DEF ElectionInv, VotesAreFinal
  <2>2. /\ raft'[n] = q
        /\ \A p \in Node \ {n} : raft'[p] = raft[p]
    BY <1>1 DEF TypeInv
  <2>3. Leaders' = Leaders BY <1>2, <1>5, <2>2, SMTT(30) DEF Leaders
  <2>4. ASSUME NEW a \in Node, NEW b \in Node, NEW x \in Messages(a, b)', x \notin Messages(a, b)
        PROVE  a = n /\ b = s /\ x = response
    <3> DEFINE out == To(s, <<response>>)
    <3>1. a = n /\ \E j \in DOMAIN out[b] : x = out[b][j] BY <1>1, <1>3, <2>4, SMTT(30) DEF Delivered
    <3>2. CASE b = s
      <4>1. out[b] = <<response>> BY <3>2 DEF To
      <4> HIDE DEF out, response
      <4> QED BY <3>1, <3>2, <4>1, SMTT(30)
    <3>3. CASE b # s
      <4>1. out[b] = <<>> BY <3>3 DEF To
      <4> HIDE DEF out, response
      <4> QED BY <3>1, <4>1
    <3> QED BY <3>2, <3>3, SMTT(30)
  <2>5. Addressed'
    <3> SUFFICES ASSUME NEW a \in Node, NEW b \in Node, NEW x \in Messages(a, b)'
                 PROVE  /\ x.type = "VoteRequest" => x.candidate_id = a
                        /\ x.type = "VoteResponse" => x.from = a /\ a # b
                        /\ x.type \in {"Heartbeat", "AppendEntries"} => x.leader_id = a /\ a \in Leaders'
      BY DEF Addressed
    <3>1. CASE x \in Messages(a, b) BY <2>3, <3>1, SMTT(30) DEF ElectionInv, Addressed
    <3>2. CASE x \notin Messages(a, b) BY <1>2, <2>4, <3>2, SMTT(30)
    <3> QED BY <3>1, <3>2, SMTT(30)
  <2>6. ASSUME NEW v \in Node, NEW c \in Node, HasGranted(v, c)'
        PROVE  HasGranted(v, c) \/ (v = n /\ c = s)
    <3>1. CASE raft'[c].votes[v] = "granted" BY <1>5, <2>2, <3>1, SMTT(30) DEF HasGranted
    <3>2. CASE \E x \in Messages(v, c)' : x.type = "VoteResponse" /\ x.granted
      BY <2>4, <3>2, SMTT(30) DEF HasGranted
    <3> QED BY <2>6, <3>1, <3>2, SMTT(30) DEF HasGranted
  <2>7. VotesAreFinal'
    <3> SUFFICES ASSUME NEW v \in Node, NEW c \in Node, HasGranted(v, c)'
                 PROVE  /\ v # c => raft'[v].role = "Follower" /\ raft'[v].voted_for # None
                        /\ v = c => raft'[v].role # "Follower"
                        /\ \A d \in Node : HasGranted(v, d)' => c = d
      BY DEF VotesAreFinal
    <3>1. CASE v = n
      <4>1. \A d \in Node : HasGranted(n, d)' => d = s BY <2>1, <2>6
      <4>2. raft'[n].role = "Follower" /\ raft'[n].voted_for = s BY <1>5, <1>6, <1>9, <2>2, ZenonT(30)
      <4> QED BY <1>2, <3>1, <4>1, <4>2, NodeAssumption
    <3>2. CASE v # n
      <4>1. \A d \in Node : HasGranted(v, d)' => HasGranted(v, d) BY <2>6, <3>2, SMTT(30)
      <4> QED BY <2>2, <3>2, <4>1 DEF ElectionInv, VotesAreFinal
    <3> QED BY <3>1, <3>2, SMTT(30)
  <2>8. LeaderHasQuorum'
    BY <1>2, <2>2, <2>3 DEF ElectionInv, LeaderHasQuorum, Leaders
  <2> QED BY <2>5, <2>7, <2>8, SMTT(30) DEF ElectionInv
<1> QED BY <1>8, <1>9, ZenonT(30)
=============================================================================
