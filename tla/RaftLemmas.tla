----------------------------- MODULE RaftLemmas -----------------------------
(***************************************************************************)
(* The facts the proofs about a cluster share: what the operations of a    *)
(* chain return, for every chain; what a change of role, a message and a   *)
(* link are made of; and what the queue of a state machine driver holds.   *)
(*                                                                         *)
(* And what keeps ReplicationInv.  A step of a cluster with one leader     *)
(* keeps it for one of four reasons: it changes no chain (StillStep), a    *)
(* follower stores blocks of the leader (StoreStep), a follower commits    *)
(* what the leader has (CommitStep), or the leader appends and counts      *)
(* acknowledgements (CountStep).                                           *)
(***************************************************************************)
EXTENDS RaftProperties, FiniteSetTheorems, WellFoundedInduction, TLAPS
-----------------------------------------------------------------------------
(* Chains *)

\* A vector of blocks has a last one: a non-empty finite set of numbers has a
\* largest element (used for the head that extend leaves).
LEMMA FiniteHasLargest ==
  ASSUME NEW S \in SUBSET Nat, IsFiniteSet(S), S # {}
  PROVE  \E h \in S : \A i \in S : i <= h
<1> DEFINE Bad == {U \in FiniteSubsetsOf(S) : U # {} /\ ~\E h \in U : \A i \in U : i <= h}
<1>1. SUFFICES ASSUME Bad # {} PROVE FALSE
  <2>1. S \in FiniteSubsetsOf(S) BY DEF FiniteSubsetsOf
  <2>2. (\E h \in S : \A i \in S : i <= h) \/ S \in Bad BY <2>1, ZenonT(30)
  <2> QED BY <2>2
<1>2. IsWellFoundedOn(StrictSubsetOrdering(S), FiniteSubsetsOf(S))
  BY FS_StrictSubsetOrderingWellFounded
<1>3. PICK U \in Bad : \A V \in Bad : <<V, U>> \notin StrictSubsetOrdering(S)
  <2>1. Bad \subseteq FiniteSubsetsOf(S) OBVIOUS
  <2> QED BY <1>1, <1>2, <2>1, WFMin, ZenonT(30)
<1>4. U \in SUBSET S /\ IsFiniteSet(U) /\ U # {}
  BY FS_FiniteSubsetsOfFinite, FS_Subset
<1>5. PICK x \in U : TRUE
  BY <1>4, ZenonT(30)
<1> DEFINE V == U \ {x}
<1>6. V \in FiniteSubsetsOf(S)
  BY <1>4, FS_FiniteSubsetsOfFinite
<1>7. V = {} \/ \E h \in V : \A i \in V : i <= h
  <2>1. V \notin Bad
    BY <1>3, <1>4, <1>5, <1>6, FS_FiniteSubsetsOfFinite, ZenonT(30) DEF StrictSubsetOrdering
  <2> QED BY <2>1, <1>6
<1>8. \E h \in U : \A i \in U : i <= h
  <2>1. CASE V = {}
    <3>1. U = {x} BY <1>5, <2>1
    <3> QED BY <3>1, <1>4, <1>5
  <2>2. CASE V # {}
    <3>1. PICK h \in V : \A i \in V : i <= h BY <1>7, <2>2
    <3>2. x \in Nat /\ h \in Nat BY <1>4, <1>5, <3>1
    <3>3. \A i \in U : i \in V \/ i = x OBVIOUS
    <3>4. CASE x <= h BY <3>1, <3>3, <3>4
    <3>5. CASE h < x
      <4>1. \A i \in U : i <= x BY <1>4, <3>1, <3>2, <3>3, <3>5
      <4> QED BY <1>5, <4>1
    <3> QED BY <3>2, <3>4, <3>5
  <2> QED BY <2>1, <2>2
<1> QED BY <1>8

\* Storing a block over any block of its id keeps the store a finite set of
\* blocks.
LEMMA InsertType ==
  ASSUME NEW db \in SUBSET Block, IsFiniteSet(db), NEW b \in Block
  PROVE  Insert(db, b) \in SUBSET Block /\ IsFiniteSet(Insert(db, b))
<1>1. {x \in db : x.id # b.id} \in SUBSET db OBVIOUS
<1>2. IsFiniteSet({x \in db : x.id # b.id}) BY <1>1, FS_Subset
<1> QED BY <1>2, FS_AddElement DEF Insert

\* A chain whose store is finite.
FiniteChain == {c \in ChainState : IsFiniteSet(c.db)}

\* Appending a payload to a chain gives a chain (chain.rs:append).
LEMMA ChainAppendType ==
  ASSUME NEW c \in FiniteChain, NEW data \in Data
  PROVE  Chain_append(c, data) \in FiniteChain
<1> DEFINE b == [id |-> c.id_gen, next |-> c.head, data |-> data]
<1>1. c \in ChainState /\ c.db \in SUBSET Block /\ IsFiniteSet(c.db) BY DEF FiniteChain, ChainState
<1>2. b \in Block BY <1>1 DEF ChainState, Block
<1>3. Insert(c.db, b) \in SUBSET Block /\ IsFiniteSet(Insert(c.db, b)) BY <1>1, <1>2, InsertType
<1> DEFINE c1 == [c EXCEPT !.db = Insert(c.db, b)]
           c2 == [c1 EXCEPT !.id_gen = c.id_gen + 1]
<1>4. Chain_append(c, data) = [c2 EXCEPT !.head = c.id_gen]
  BY DEF Chain_append
<1> HIDE DEF b
<1>5. c1 \in FiniteChain BY <1>1, <1>3 DEF FiniteChain, ChainState
<1> HIDE DEF c1
<1>6. c2 \in FiniteChain BY <1>1, <1>5 DEF FiniteChain, ChainState
<1> HIDE DEF c2
<1> QED BY <1>1, <1>4, <1>6 DEF FiniteChain, ChainState
-----------------------------------------------------------------------------
(* What the operations do to the graph of blocks *)

\* The fields of a chain that append leaves (chain.rs:append).
LEMMA AppendFields ==
  ASSUME NEW c \in FiniteChain, NEW data \in Data
  PROVE  LET a == Chain_append(c, data)
         IN /\ a.db = Insert(c.db, [id |-> c.id_gen, next |-> c.head, data |-> data])
            /\ a.id_gen = c.id_gen + 1
            /\ a.head = c.id_gen
            /\ a.commit = c.commit
BY DEF Chain_append, FiniteChain, ChainState

\* The fields of a chain that extend leaves (chain.rs:extend).
LEMMA ExtendFields ==
  ASSUME NEW c \in FiniteChain, NEW blocks \in SUBSET Block, IsFiniteSet(blocks), blocks # {}
  PROVE  LET e == Chain_extend(c, blocks)
         IN /\ e.db = {b \in c.db : b.id \notin Ids(blocks)} \cup blocks
            /\ e.id_gen = c.id_gen
            /\ e.commit = c.commit
            /\ \E b \in blocks : e.head = b.id
            /\ \A b \in blocks : b.id <= e.head
<1> DEFINE ids == Ids(blocks)
           last == CHOOSE h \in ids : \A i \in ids : i <= h
<1>1. ids \in SUBSET Nat /\ ids # {} BY DEF Ids, Block
<1>2. IsFiniteSet(ids)
  <2> DEFINE f == [b \in blocks |-> b.id]
  <2>1. f \in Surjection(blocks, ids) BY DEF Surjection, Ids
  <2> QED BY <2>1, FS_Surjection
<1>3. last \in ids /\ \A i \in ids : i <= last
  <2>1. \E h \in ids : \A i \in ids : i <= h
    <3> HIDE DEF ids
    <3> QED BY <1>1, <1>2, FiniteHasLargest
  <2> HIDE DEF ids
  <2> QED BY <2>1
<1>4. Chain_extend(c, blocks) =
        [c EXCEPT !.db = {b \in c.db : b.id \notin ids} \cup blocks, !.head = last]
  BY DEF Chain_extend
<1>5. c \in ChainState BY DEF FiniteChain
<1> HIDE DEF last
<1>6. (\E b \in blocks : last = b.id) /\ \A b \in blocks : b.id <= last BY <1>3 DEF Ids
<1> QED BY <1>4, <1>5, <1>6 DEF ChainState

\* extend leaves the committed id alone, whatever it is given (chain.rs:extend).
LEMMA ExtendCommit ==
  ASSUME NEW c \in FiniteChain, NEW blocks
  PROVE  Chain_extend(c, blocks).commit = c.commit
BY DEF Chain_extend, FiniteChain, ChainState

\* The fields of a chain that commit leaves (chain.rs:commit).
LEMMA CommitFields ==
  ASSUME NEW c \in FiniteChain, NEW block_id
  PROVE  LET k == Chain_commit(c, block_id)
         IN /\ k.db = c.db /\ k.id_gen = c.id_gen /\ k.head = c.head
            /\ Chain_has(c, block_id) => k.commit = block_id
            /\ ~Chain_has(c, block_id) => k.commit = c.commit
<1>1. c \in ChainState BY DEF FiniteChain
<1> HIDE DEF Chain_has
<1> QED BY <1>1 DEF Chain_commit, ChainState
-----------------------------------------------------------------------------
(* The role changes keep a node's state well formed *)

\* The initial values of a role (Follower::new, Election::new,
\* ReplicationProgress::new).
LEMMA NewTypes ==
  /\ Election_new \in Votes
  /\ ReplicationProgress_new \in ReplicationProgress
  /\ Follower_new \in RaftState
<1>1. Election_new \in Votes BY DEF Election_new, Votes
<1>2. ReplicationProgress_new \in ReplicationProgress
  BY DEF ReplicationProgress_new, ReplicationProgress, NodeProgress
<1>3. <<>> \in Seq(ClientRequest) OBVIOUS
<1> QED BY <1>1, <1>2, <1>3 DEF Follower_new, RaftState

\* Raft::term: the fields it sets and the fields it leaves.
LEMMA TermFields ==
  ASSUME NEW r \in RaftState, NEW t \in Nat
  PROVE  /\ term(r, t) \in RaftState
         /\ term(r, t).voted_for = None
         /\ term(r, t).votes = Election_new
         /\ term(r, t).role = r.role
<1>1. Election_new \in Votes BY NewTypes
<1> QED BY <1>1, ZenonT(30) DEF term, RaftState

\* From<Raft<Follower>> for Raft<Candidate>.
LEMMA ToCandidateFields ==
  ASSUME NEW r \in RaftState
  PROVE  LET c == Follower_to_Candidate(r)
         IN c \in RaftState /\ c.role = "Candidate" /\ c.votes = Election_new
<1>1. Election_new \in Votes BY NewTypes
<1>2. <<>> \in Seq(ClientRequest) OBVIOUS
<1> QED BY <1>1, <1>2, ZenonT(30) DEF Follower_to_Candidate, RaftState

\* election.rs:vote changes the answer of one voter.
LEMMA VoteType ==
  ASSUME NEW votes \in Votes, NEW id \in Node, NEW granted \in BOOLEAN
  PROVE  /\ vote(votes, id, granted) \in Votes
         /\ vote(votes, id, granted)[id] = "granted" => granted
         /\ \A v \in Node \ {id} : vote(votes, id, granted)[v] = votes[v]
BY DEF vote, Votes

\* progress.rs:advance.
LEMMA AdvanceType ==
  ASSUME NEW progress \in ReplicationProgress, NEW p \in Node, NEW head \in Nat
  PROVE  advance(progress, p, head) \in ReplicationProgress
<1>1. NodeProgress_advance(progress[p], head) \in NodeProgress
  BY DEF NodeProgress_advance, ReplicationProgress, NodeProgress
<1> QED BY <1>1 DEF advance, ReplicationProgress
-----------------------------------------------------------------------------
(* Links *)

\* A command whose vector of blocks, if it has one, is finite.
FiniteCommand == {m \in Command : m.type = "AppendEntries" => IsFiniteSet(m.blocks)}

\* The type invariant with finite stores and vectors: an AppendEntries carries
\* finitely many blocks, so the last of them is there to become the head.
TypeInv ==
  /\ up \in [Node -> BOOLEAN]
  /\ raft \in [Node -> RaftState]
  /\ chain \in [Node -> FiniteChain]
  /\ fsm \in [Node -> Seq(Instruction)]
  /\ submitted \subseteq Request
  /\ failures \in Nat
  /\ net \in [Node -> [Node -> Seq(FiniteCommand)]]
  /\ link \in [Node -> [Node -> LinkState]]

\* try_send never makes up a message (tcp.rs:send_task).
LEMMA PushProperties ==
  ASSUME NEW S, NEW queue \in Seq(S), NEW messages \in Seq(S)
  PROVE  /\ Push(queue, messages) \in Seq(S)
         /\ \A i \in DOMAIN Push(queue, messages) :
               \/ \E j \in DOMAIN queue : Push(queue, messages)[i] = queue[j]
               \/ \E j \in DOMAIN messages : Push(queue, messages)[i] = messages[j]
<1> DEFINE all == queue \o messages
<1>1. /\ all \in Seq(S)
      /\ \A i \in 1..Len(all) : \/ \E j \in DOMAIN queue : all[i] = queue[j]
                                \/ \E j \in DOMAIN messages : all[i] = messages[j]
  OBVIOUS
<1> HIDE DEF all
<1>2. Capacity \in Nat BY CapacityAssumption
<1>3. CASE Len(all) <= Capacity
  <2>1. Push(queue, messages) = all BY <1>3 DEF Push, all
  <2>2. DOMAIN all = 1..Len(all) BY <1>1
  <2> QED BY <1>1, <2>1, <2>2, SMTT(30)
<1>4. CASE ~(Len(all) <= Capacity)
  <2>1. Push(queue, messages) = SubSeq(all, 1, Capacity) BY <1>4, ZenonT(30) DEF Push, all
  <2>2. Capacity <= Len(all) BY <1>1, <1>2, <1>4
  <2>3. /\ SubSeq(all, 1, Capacity) \in Seq(S)
        /\ DOMAIN SubSeq(all, 1, Capacity) = 1..Capacity
        /\ \A i \in 1..Capacity : SubSeq(all, 1, Capacity)[i] = all[i]
    BY <1>1, <1>2, <2>2
  <2> QED BY <1>1, <1>2, <2>1, <2>2, <2>3
<1> QED BY <1>3, <1>4

\* The outbox of a handler: what it sends to each node.
Outbox == [Node -> Seq(FiniteCommand)]

\* What the node has on its links after a handler: what was there, and what it
\* sent.
LEMMA SentProperties ==
  ASSUME TypeInv, NEW n \in Node, NEW out \in Outbox
  PROVE  /\ Sent(n, out) \in [Node -> Seq(FiniteCommand)]
         /\ \A d \in Node : \A i \in DOMAIN Sent(n, out)[d] :
               \/ \E j \in DOMAIN net[n][d] : Sent(n, out)[d][i] = net[n][d][j]
               \/ \E j \in DOMAIN out[d] : Sent(n, out)[d][i] = out[d][j]
<1>1. SUFFICES ASSUME NEW d \in Node
      PROVE /\ Sent(n, out)[d] \in Seq(FiniteCommand)
            /\ \A i \in DOMAIN Sent(n, out)[d] :
                 \/ \E j \in DOMAIN net[n][d] : Sent(n, out)[d][i] = net[n][d][j]
                 \/ \E j \in DOMAIN out[d] : Sent(n, out)[d][i] = out[d][j]
  BY ZenonT(30) DEF Sent
<1>2. net[n][d] \in Seq(FiniteCommand) /\ out[d] \in Seq(FiniteCommand) BY DEF TypeInv, Outbox
<1>3. Sent(n, out)[d] = IF Sending(n) THEN Push(net[n][d], out[d]) ELSE net[n][d] BY DEF Sent
<1>4. CASE Sending(n)
  <2>1. Sent(n, out)[d] = Push(net[n][d], out[d]) BY <1>3, <1>4
  <2> QED BY <1>2, <2>1, PushProperties, SMTT(30)
<1>5. CASE ~Sending(n)
  <2>1. Sent(n, out)[d] = net[n][d] BY <1>3, <1>5
  <2> QED BY <1>2, <2>1
<1> QED BY <1>4, <1>5

\* What is on the links after a step of n: what was there, and what n sends.
Delivered(n, out) ==
  \A s, d \in Node : \A m \in Messages(s, d)' :
     m \in Messages(s, d) \/ (s = n /\ \E j \in DOMAIN out[d] : m = out[d][j])

\* A handler that was not started by a message.
LEMMA TransmitProperties ==
  ASSUME TypeInv, NEW n \in Node, NEW out \in Outbox, Transmit(n, out)
  PROVE  /\ net' \in [Node -> [Node -> Seq(FiniteCommand)]]
         /\ link' \in [Node -> [Node -> LinkState]]
         /\ Delivered(n, out)
<1>1. net' = [net EXCEPT ![n] = Sent(n, out)] /\ link' = link BY DEF Transmit
<1>2. \A s, d \in Node : net'[s][d] = IF s = n THEN Sent(n, out)[d] ELSE net[s][d]
  BY <1>1 DEF TypeInv
<1>3. Delivered(n, out)
  <2> SUFFICES ASSUME NEW s \in Node, NEW d \in Node, NEW m \in Messages(s, d)'
               PROVE  m \in Messages(s, d) \/ (s = n /\ \E j \in DOMAIN out[d] : m = out[d][j])
    BY DEF Delivered
  <2>1. PICK i \in DOMAIN net'[s][d] : m = net'[s][d][i] BY DEF Messages
  <2>2. CASE s = n
    <3>1. i \in DOMAIN Sent(n, out)[d] /\ m = Sent(n, out)[d][i] BY <1>2, <2>1, <2>2
    <3>2. \/ \E j \in DOMAIN net[n][d] : m = net[n][d][j]
          \/ \E j \in DOMAIN out[d] : m = out[d][j]
      BY <3>1, SentProperties, ZenonT(30)
    <3> QED BY <2>2, <3>2 DEF Messages
  <2>3. CASE s # n BY <1>2, <2>1, <2>3 DEF Messages
  <2> QED BY <2>2, <2>3
<1> QED BY <1>1, <1>3, SentProperties DEF TypeInv

\* A handler that was: the message it took is gone from its link.
LEMMA ExchangeProperties ==
  ASSUME TypeInv, NEW s \in Node, NEW n \in Node, NEW out \in Outbox,
         s # n, net[s][n] # <<>>, Exchange(s, n, out)
  PROVE  /\ net' \in [Node -> [Node -> Seq(FiniteCommand)]]
         /\ link' \in [Node -> [Node -> LinkState]]
         /\ Delivered(n, out)
<1> DEFINE sent == Sent(n, out)
<1>1. /\ net' = [net EXCEPT ![n] = sent, ![s][n] = Tail(@)]
      /\ link' = [link EXCEPT ![s][n] = "connected"]
  BY DEF Exchange
<1>2. /\ sent \in [Node -> Seq(FiniteCommand)]
      /\ \A d \in Node : \A i \in DOMAIN sent[d] :
               \/ \E j \in DOMAIN net[n][d] : sent[d][i] = net[n][d][j]
               \/ \E j \in DOMAIN out[d] : sent[d][i] = out[d][j]
  BY SentProperties, ZenonT(30)
<1> HIDE DEF sent
<1>3. /\ net[s][n] \in Seq(FiniteCommand)
      /\ Tail(net[s][n]) \in Seq(FiniteCommand)
      /\ \A i \in DOMAIN Tail(net[s][n]) : \E j \in DOMAIN net[s][n] : Tail(net[s][n])[i] = net[s][n][j]
  <2>1. net[s][n] \in Seq(FiniteCommand) BY DEF TypeInv
  <2> QED BY <2>1
<1>4. \A t, d \in Node : net'[t][d] = IF t = n THEN sent[d]
                                      ELSE IF t = s /\ d = n THEN Tail(net[s][n]) ELSE net[t][d]
  BY <1>1, ZenonT(30) DEF TypeInv
<1>5. net' \in [Node -> [Node -> Seq(FiniteCommand)]]
  BY <1>1, <1>2, <1>3, ZenonT(30) DEF TypeInv
<1>6. Delivered(n, out)
  <2> SUFFICES ASSUME NEW t \in Node, NEW d \in Node, NEW m \in Messages(t, d)'
               PROVE  m \in Messages(t, d) \/ (t = n /\ \E j \in DOMAIN out[d] : m = out[d][j])
    BY DEF Delivered
  <2>1. PICK i \in DOMAIN net'[t][d] : m = net'[t][d][i] BY DEF Messages
  <2>2. CASE t = n
    <3>1. i \in DOMAIN sent[d] /\ m = sent[d][i] BY <1>4, <2>1, <2>2
    <3>2. \/ \E j \in DOMAIN net[n][d] : m = net[n][d][j]
          \/ \E j \in DOMAIN out[d] : m = out[d][j]
      BY <1>2, <3>1, ZenonT(30)
    <3> QED BY <2>2, <3>2 DEF Messages
  <2>3. CASE t = s /\ d = n
    <3>1. i \in DOMAIN Tail(net[s][n]) /\ m = Tail(net[s][n])[i] BY <1>4, <2>1, <2>3, ZenonT(30)
    <3>2. \E j \in DOMAIN net[s][n] : m = net[s][n][j] BY <1>3, <3>1
    <3> QED BY <2>3, <3>2 DEF Messages
  <2>4. CASE t # n /\ ~(t = s /\ d = n) BY <1>4, <2>1, <2>4 DEF Messages
  <2> QED BY <2>2, <2>3, <2>4
<1>7. link' \in [Node -> [Node -> LinkState]] BY <1>1 DEF TypeInv, LinkState
<1> QED BY <1>5, <1>6, <1>7
-----------------------------------------------------------------------------
(* Commands *)

\* The fields of a received command (enum Command of raft/mod.rs).
LEMMA CommandFields ==
  ASSUME NEW m \in FiniteCommand
  PROVE  /\ m.type = "VoteRequest" =>
              m.term \in Nat /\ m.candidate_id \in Node /\ m.last_term \in Nat /\ m.head \in Nat
         /\ m.type = "VoteResponse" => m.from \in Node /\ m.granted \in BOOLEAN
         /\ m.type = "AppendEntries" =>
              /\ m.term \in Nat /\ m.leader_id \in Node
              /\ m.blocks \in SUBSET Block /\ IsFiniteSet(m.blocks)
         /\ m.type = "AppendResponse" => m.node_id \in Node /\ m.head \in Nat
         /\ m.type = "Heartbeat" => m.term \in Nat /\ m.commit \in Nat /\ m.leader_id \in Node
         /\ m.type = "HeartbeatResponse" => m.commit \in Nat /\ m.has_committed \in BOOLEAN
         /\ m.type = "ClientRequest" => m \in ClientRequest
         /\ m.type = "ClientResponse" => m.id \in Request
BY SMTT(30) DEF FiniteCommand, Command, ClientRequest, ClientResponse

\* What the handlers send is a command.
LEMMA CommandTypes ==
  /\ \A t, l, h \in Nat, c \in Node :
       [type |-> "VoteRequest", term |-> t, candidate_id |-> c, last_term |-> l, head |-> h]
         \in FiniteCommand
  /\ \A v \in Node, g \in BOOLEAN :
       [type |-> "VoteResponse", from |-> v, granted |-> g] \in FiniteCommand
  /\ \A t \in Nat, l \in Node, bs \in SUBSET Block : IsFiniteSet(bs) =>
       [type |-> "AppendEntries", term |-> t, leader_id |-> l, blocks |-> bs] \in FiniteCommand
  /\ \A p \in Node, h \in Nat :
       [type |-> "AppendResponse", node_id |-> p, head |-> h] \in FiniteCommand
  /\ \A t, c \in Nat, l \in Node :
       [type |-> "Heartbeat", term |-> t, commit |-> c, leader_id |-> l] \in FiniteCommand
  /\ \A c \in Nat, h \in BOOLEAN :
       [type |-> "HeartbeatResponse", commit |-> c, has_committed |-> h] \in FiniteCommand
  /\ ClientRequest \subseteq FiniteCommand /\ ClientResponse \subseteq FiniteCommand
BY DEF FiniteCommand, Command, ClientRequest, ClientResponse

\* The command at the front of a link.
LEMMA ReceivesFields ==
  ASSUME TypeInv, NEW s \in Node, NEW n \in Node, NEW type, Receives(s, n, type)
  PROVE  /\ s # n
         /\ net[s][n] # <<>>
         /\ Head(net[s][n]) \in FiniteCommand
         /\ Head(net[s][n]) \in Messages(s, n)
         /\ Head(net[s][n]).type = type
<1>1. net[s][n] \in Seq(FiniteCommand) BY DEF TypeInv
<1>2. s # n /\ net[s][n] # <<>> /\ Head(net[s][n]).type = type BY DEF Receives, Deliverable
<1>3. 1 \in DOMAIN net[s][n] /\ Head(net[s][n]) = net[s][n][1] BY <1>1, <1>2
<1>4. Head(net[s][n]) \in Messages(s, n) BY <1>3 DEF Messages
<1> QED BY <1>1, <1>2, <1>4

\* Outboxes of one message sequence.
LEMMA OutboxTypes ==
  /\ Nothing \in Outbox
  /\ \A p, ms : ms \in Seq(FiniteCommand) => To(p, ms) \in Outbox /\ ToPeers(p, ms) \in Outbox
BY DEF Nothing, To, ToPeers, Outbox
-----------------------------------------------------------------------------
(* Steps *)

\* The answer of n to an AppendEntries whose blocks it has all stored.
Acknowledges(n, m) ==
  /\ m.type = "AppendResponse"
  /\ m.node_id = n
  /\ \E s \in Node : \E e \in Messages(s, n) :
       /\ e.type = "AppendEntries"
       /\ e.blocks # {}
       /\ chain' = [chain EXCEPT ![n] = Chain_extend(chain[n], e.blocks)]
       /\ m.head = Chain_extend(chain[n], e.blocks).head

\* What n sends to d outside elections.
Harmless(n, d, m) ==
  \/ m.type \in {"HeartbeatResponse", "ClientRequest"}
  \/ Acknowledges(n, m)
  \/ raft[n].role = "Leader" /\ (m = Heartbeat(n, raft[n]) \/ m = AppendEntries(n, d))

\* The new state q of n leaves its role and its votes as they were.
KeepsVotes(n, q) ==
  /\ q \in RaftState
  /\ q.role = raft[n].role
  /\ raft[n].voted_for # None => q.voted_for # None
  /\ \A v \in Node : q.votes[v] = "granted" => raft[n].votes[v] = "granted"
  /\ raft[n].role # "Follower" => q.votes = raft[n].votes

\* A handler that sends nothing sends nothing that matters to an election.
LEMMA NothingIsHarmless ==
  /\ Nothing \in Outbox
  /\ \A n : \A d \in Node : \A j \in DOMAIN Nothing[d] : Harmless(n, d, Nothing[d][j])
<1>1. \A d \in Node : Nothing[d] = <<>> BY DEF Nothing
<1>2. DOMAIN <<>> = {} OBVIOUS
<1> QED BY <1>1, <1>2, OutboxTypes

\* A node that does not change keeps its votes.
LEMMA KeepsItsVotes ==
  ASSUME TypeInv, NEW n \in Node
  PROVE  KeepsVotes(n, raft[n]) /\ raft = [raft EXCEPT ![n] = raft[n]]
BY SMTT(30) DEF TypeInv, KeepsVotes

\* A well-typed exchange that gives n the state q.
LEMMA ExchangeType ==
  ASSUME TypeInv, NEW s \in Node, NEW n \in Node, s # n, net[s][n] # <<>>,
         NEW q \in RaftState, raft' = [raft EXCEPT ![n] = q],
         NEW out \in Outbox, Exchange(s, n, out), UNCHANGED <<up, chain, fsm, submitted, failures>>
  PROVE  TypeInv' /\ Delivered(n, out)
<1>1. /\ net' \in [Node -> [Node -> Seq(FiniteCommand)]]
      /\ link' \in [Node -> [Node -> LinkState]]
      /\ Delivered(n, out)
  BY ExchangeProperties
<1> QED BY <1>1, ZenonT(30) DEF TypeInv
-----------------------------------------------------------------------------
(* Numbers *)

\* A set of numbers has a smallest.
LEMMA HasSmallest ==
  ASSUME NEW S \in SUBSET Nat, S # {}
  PROVE  \E h \in S : \A i \in S : h <= i
<1>1. PICK a \in S : a \in Nat BY ZenonT(30)
<1> DEFINE T == {j \in 0..a : a - j \in S}
<1>2. T \in SUBSET (0..a) /\ T \in SUBSET Nat /\ 0 \in T BY <1>1
<1>3. IsFiniteSet(T)
  <2>1. IsFiniteSet(0..a) BY <1>1, FS_Interval
  <2> HIDE DEF T
  <2> QED BY <1>2, <2>1, FS_Subset, ZenonT(30)
<1>4. \A j \in T : j \in 0..a /\ a - j \in S OBVIOUS
<1>5. \A i \in S : i <= a => a - i \in T
  <2> SUFFICES ASSUME NEW i \in S, i <= a PROVE a - i \in T
    OBVIOUS
  <2>1. i \in Nat /\ a - i \in 0..a /\ a - (a - i) = i BY <1>1
  <2> QED BY <2>1
<1> HIDE DEF T
<1>6. PICK t \in T : \A j \in T : j <= t BY <1>2, <1>3, FiniteHasLargest
<1>7. a - t \in S /\ t \in 0..a BY <1>4
<1>8. ASSUME NEW i \in S PROVE a - t <= i
  <2>1. i \in Nat OBVIOUS
  <2>2. CASE i <= a
    <3>1. a - i <= t BY <1>5, <1>6, <2>2
    <3> QED BY <1>1, <1>7, <2>1, <3>1
  <2>3. CASE ~(i <= a) BY <1>1, <1>7, <2>1, <2>3
  <2> QED BY <2>2, <2>3
<1> QED BY <1>7, <1>8

\* The index the leader takes as committed is one that more than half of the
\* nodes have reached (progress.rs:committed_index).
LEMMA MedianIsMajority ==
  ASSUME NEW progress \in ReplicationProgress
  PROVE  LET k == committed_index(progress)
         IN /\ k \in Nat
            /\ 2 * Cardinality({p \in Node : progress[p].head >= k}) > Cardinality(Node)
<1> DEFINE head(p) == progress[p].head
           heads == {head(p) : p \in Node}
           half == Cardinality(Node) \div 2
           Above(h) == {p \in Node : progress[p].head > h}
           From(h) == {p \in Node : progress[p].head >= h}
           Good == {h \in heads : Cardinality(From(h)) > half}
<1>1. \A p \in Node : head(p) \in Nat BY DEF ReplicationProgress, NodeProgress
<1>2. heads \in SUBSET Nat /\ heads # {} BY <1>1, NodeAssumption
<1>3. IsFiniteSet(heads)
  <2> DEFINE f == [p \in Node |-> head(p)]
  <2>1. f \in Surjection(Node, heads) BY DEF Surjection
  <2> QED BY <2>1, FS_Surjection, NodeAssumption
<1>4. Cardinality(Node) \in Nat /\ Cardinality(Node) # 0
  BY NodeAssumption, FS_CardinalityType, FS_EmptySet
<1>5. half \in Nat /\ half < Cardinality(Node) /\ 2 * half + 1 >= Cardinality(Node) BY <1>4
<1>6. ASSUME NEW h PROVE Cardinality(Above(h)) \in Nat /\ Cardinality(From(h)) \in Nat
  <2>1. Above(h) \in SUBSET Node /\ From(h) \in SUBSET Node OBVIOUS
  <2>2. IsFiniteSet(Above(h)) /\ IsFiniteSet(From(h)) BY <2>1, FS_Subset, NodeAssumption
  <2> QED BY <2>2, FS_CardinalityType
<1>7. Good # {}
  <2>1. PICK h \in heads : \A i \in heads : h <= i
    <3> HIDE DEF heads
    <3> QED BY <1>2, HasSmallest
  <2>2. h \in Nat BY <1>2
  <2>3. \A p \in Node : head(p) >= h BY <1>1, <2>1, <2>2
  <2>4. From(h) = Node BY <2>3
  <2> QED BY <1>4, <1>5, <2>1, <2>4, ZenonT(30)
<1>8. PICK h \in Good : \A i \in Good : i <= h
  <2>1. Good \in SUBSET heads OBVIOUS
  <2> HIDE DEF Good, heads
  <2>2. Good \in SUBSET Nat BY <1>2, <2>1
  <2>3. IsFiniteSet(Good) BY <1>3, <2>1, FS_Subset
  <2> QED BY <1>7, <2>2, <2>3, FiniteHasLargest
<1>9. h \in heads /\ h \in Nat /\ Cardinality(From(h)) > half BY <1>2
<1>10. Cardinality(Above(h)) <= half
  <2>1. CASE Above(h) = {}
    <3>1. Cardinality(Above(h)) = 0 BY <2>1, FS_EmptySet, ZenonT(30)
    <3> HIDE DEF Above, half
    <3> QED BY <1>5, <3>1
  <2>2. CASE Above(h) # {}
    <3> DEFINE over == {head(p) : p \in Above(h)}
    <3>1. over \in SUBSET Nat /\ over # {} BY <1>1, <2>2
    <3>2. PICK g \in over : \A i \in over : g <= i
      <4> HIDE DEF over
      <4> QED BY <3>1, HasSmallest
    <3>3. g \in Nat /\ g > h /\ g \in heads BY <1>1
    <3>4. ASSUME NEW p \in Node PROVE p \in From(g) <=> p \in Above(h)
      <4>1. p \in Above(h) => g <= head(p) BY <3>2
      <4>2. head(p) \in Nat BY <1>1
      <4> QED BY <1>9, <3>3, <4>1, <4>2
    <3>5. From(g) = Above(h) BY <3>4
    <3>6. ~(g <= h) BY <1>9, <3>3
    <3>7. g \notin Good BY <1>8, <3>6
    <3>8. ~(Cardinality(From(g)) > half) BY <3>3, <3>7
    <3> HIDE DEF From, Above, half
    <3> QED BY <1>5, <1>6, <3>5, <3>8
  <2> QED BY <2>1, <2>2
<1> DEFINE k == committed_index(progress)
<1>11. k = CHOOSE i \in heads : Cardinality(Above(i)) <= half /\ Cardinality(From(i)) > half
  BY DEF committed_index
<1>12. k \in heads /\ Cardinality(From(k)) > half
  <2> HIDE DEF k, heads, Above, From, half
  <2> QED BY <1>9, <1>10, <1>11, ZenonT(30)
<1>13. k \in Nat BY <1>2, <1>12
<1>14. 2 * Cardinality(From(k)) > Cardinality(Node)
  <2>1. Cardinality(From(k)) \in Nat BY <1>6, ZenonT(30)
  <2> HIDE DEF From, half, k
  <2> QED BY <1>4, <1>5, <1>12, <2>1
<1> QED BY <1>13, <1>14
-----------------------------------------------------------------------------
(* Chains and batches *)

\* No two blocks have the same id.
OnePerId(db) == \A x, y \in db : x.id = y.id => x = y

\* A chain has the ids of its blocks.
LEMMA HasIds ==
  ASSUME NEW c, NEW i
  PROVE  Chain_has(c, i) <=> i \in Ids(c.db)
BY DEF Chain_has, Ids

\* Nodes that lose no ids keep every majority.
LEMMA MajorityStays ==
  ASSUME \A p \in Node : Ids(chain[p].db) \subseteq Ids(chain'[p].db),
         NEW i, StoredByMajority(i)
  PROVE  StoredByMajority(i)'
<1> DEFINE A == {p \in Node : Chain_has(chain[p], i)}
           B == {p \in Node : Chain_has(chain'[p], i)}
<1>1. A \in SUBSET B BY HasIds
<1>2. IsFiniteSet(B)
  <2>1. B \in SUBSET Node OBVIOUS
  <2> QED BY <2>1, FS_Subset, NodeAssumption
<1>3. 2 * Cardinality(A) > Cardinality(Node) BY DEF StoredByMajority
<1> SUFFICES 2 * Cardinality(B) > Cardinality(Node)
  BY DEF StoredByMajority, Chain_has
<1> HIDE DEF A, B
<1>4. IsFiniteSet(A) /\ Cardinality(A) <= Cardinality(B) BY <1>1, <1>2, FS_Subset
<1>5. Cardinality(A) \in Nat /\ Cardinality(B) \in Nat /\ Cardinality(Node) \in Nat
  BY <1>2, <1>4, FS_CardinalityType, NodeAssumption
<1> QED BY <1>3, <1>4, <1>5

\* skip(1).take(k) from a stored block on an unbroken chain leaves no block out
\* between that block and the last one taken (leader.rs:replicate).
LEMMA BatchFits ==
  ASSUME NEW c \in FiniteChain, Unbroken(c), NEW h \in Nat, h \in Ids(c.db), NEW k \in Nat,
         NEW b \in Skip1Take(RangeFrom(c, h), k), NEW i \in Nat, h < i, i <= b.id
  PROVE  i \in Ids(Skip1Take(RangeFrom(c, h), k))
<1> DEFINE R == RangeFrom(c, h)
           Below(x) == {z \in R : z.id < x.id}
<1>1. R \in SUBSET c.db /\ IsFiniteSet(R)
  <2>1. R \in SUBSET c.db BY DEF RangeFrom
  <2> QED BY <2>1, FS_Subset DEF FiniteChain
<1>2. \A z \in c.db : z.id \in Nat /\ z.id \in 0..c.head BY DEF Unbroken, Ids, FiniteChain, ChainState, Block
<1>3. c.head \in Nat BY DEF FiniteChain, ChainState
<1>4. b \in R /\ Cardinality(Below(b)) \in 1..k BY DEF Skip1Take
<1>5. b.id \in Nat /\ b.id <= c.head BY <1>1, <1>2, <1>3, <1>4
<1>6. i \in Ids(c.db) BY <1>3, <1>5 DEF Unbroken
<1>7. PICK x \in c.db : x.id = i BY <1>6 DEF Ids
<1>8. PICK y \in c.db : y.id = h BY DEF Ids
<1>9. x \in R /\ y \in Below(x) BY <1>7, <1>8 DEF RangeFrom
<1>10. Below(x) \in SUBSET Below(b) /\ Below(b) \in SUBSET R
  <2> SUFFICES ASSUME NEW z \in R, z.id < x.id PROVE z.id < b.id
    OBVIOUS
  <2>1. z.id \in Nat BY <1>1, <1>2
  <2> QED BY <1>5, <1>7, <2>1
<1>11. x \in Skip1Take(R, k)
  <2> HIDE DEF R
  <2>1. IsFiniteSet(Below(b)) BY <1>1, <1>10, FS_Subset
  <2>2. IsFiniteSet(Below(x)) /\ Cardinality(Below(x)) <= Cardinality(Below(b)) BY <1>10, <2>1, FS_Subset
  <2>3. Cardinality(Below(x)) \in Nat /\ Cardinality(Below(b)) \in Nat BY <2>1, <2>2, FS_CardinalityType
  <2>4. Cardinality(Below(x)) # 0 BY <1>9, <2>2, FS_EmptySet, ZenonT(30)
  <2>5. Cardinality(Below(x)) \in 1..k
    <3> HIDE DEF Below
    <3> QED BY <1>4, <2>2, <2>3, <2>4
  <2> QED BY <1>9, <2>5, ZenonT(30) DEF Skip1Take
<1> QED BY <1>7, <1>11 DEF Ids
-----------------------------------------------------------------------------
(* The leader *)

\* The chain of the leader is unbroken: no other node sends it blocks.
LEMMA LeaderUnbroken ==
  ASSUME AtMostOneLeader, ChainsAreLeaders, NEW l \in Leaders
  PROVE  l \in Node /\ Unbroken(chain[l])
<1>1. l \in Node BY DEF Leaders
<1>2. ~Follows(l) BY DEF Follows, AtMostOneLeader
<1> QED BY <1>1, <1>2 DEF ChainsAreLeaders

\* A block that any node stores is the leader's.
LEMMA LeaderHasAll ==
  ASSUME AtMostOneLeader, ChainsAreLeaders, NEW l \in Leaders, NEW p \in Node
  PROVE  chain[p].db \subseteq chain[l].db
<1>1. l \in Node BY DEF Leaders
<1> QED BY <1>1 DEF ChainsAreLeaders, AtMostOneLeader

\* A message on a link is a command.
LEMMA MessageType ==
  ASSUME TypeInv, NEW s \in Node, NEW d \in Node, NEW m \in Messages(s, d)
  PROVE  m \in FiniteCommand
<1>1. net[s][d] \in Seq(FiniteCommand) BY DEF TypeInv
<1>2. PICK i \in DOMAIN net[s][d] : m = net[s][d][i] BY DEF Messages
<1> QED BY <1>1, <1>2

\* What the leader sends leaves no gap at the receiver (leader.rs:replicate).
LEMMA NewEntries ==
  ASSUME TypeInv, AtMostOneLeader, ReplicationInv, NEW l \in Leaders, NEW d \in Node
  PROVE  LET e == AppendEntries(l, d)
         IN /\ e.type = "AppendEntries"
            /\ e.blocks \subseteq chain[l].db
            /\ \A b \in e.blocks : 0..b.id \subseteq Ids(e.blocks) \cup Ids(chain[d].db)
<1> DEFINE c == chain[l]
           h == raft[l].progress[d].head
           k == batch_limit(raft[l].progress[d])
           blocks == Skip1Take(RangeFrom(c, h), k)
<1>1. AppendEntries(l, d).blocks = blocks /\ AppendEntries(l, d).type = "AppendEntries"
  BY DEF AppendEntries
<1>2. l \in Node /\ Unbroken(c) BY LeaderUnbroken DEF ReplicationInv
<1>3. c \in FiniteChain BY <1>2 DEF TypeInv
<1>4. h \in Nat /\ k \in Nat
  <2>1. raft[l].progress[d] \in NodeProgress
    BY <1>2 DEF TypeInv, RaftState, ReplicationProgress
  <2> QED BY <2>1, InflightAssumption DEF NodeProgress, batch_limit
<1>5. 0..h \subseteq Ids(chain[d].db) BY <1>2 DEF ReplicationInv, ProgressIsStored
<1>6. chain[d].db \subseteq c.db BY LeaderHasAll DEF ReplicationInv
<1>7. h \in Ids(c.db)
  <2>1. h \in Ids(chain[d].db) BY <1>4, <1>5
  <2> QED BY <1>6, <2>1 DEF Ids
<1>8. blocks \subseteq c.db BY DEF Skip1Take, RangeFrom
<1>9. \A b \in c.db : b.id \in Nat BY <1>3 DEF FiniteChain, ChainState, Block
<1> HIDE DEF c, h, k
<1>10. ASSUME NEW b \in blocks, NEW i \in 0..b.id
       PROVE  i \in Ids(blocks) \cup Ids(chain[d].db)
  <2>1. b.id \in Nat BY <1>8, <1>9
  <2>2. i \in Nat /\ i <= b.id BY <2>1
  <2>3. CASE i <= h
    <3>1. i \in 0..h BY <1>4, <2>2, <2>3
    <3> QED BY <1>5, <3>1
  <2>4. CASE h < i BY <1>2, <1>3, <1>4, <1>7, <2>2, <2>4, BatchFits
  <2> QED BY <1>4, <2>2, <2>3, <2>4
<1> QED BY <1>1, <1>8, <1>10 DEF c

\* Extending a chain by blocks keeps all ids and adds theirs (chain.rs:extend).
LEMMA ExtendIds ==
  ASSUME NEW c \in FiniteChain, NEW blocks \in SUBSET Block, IsFiniteSet(blocks)
  PROVE  Ids(c.db) \cup Ids(blocks) \subseteq Ids(Chain_extend(c, blocks).db)
<1>1. CASE blocks = {}
  <2>1. Chain_extend(c, blocks) = c BY <1>1 DEF Chain_extend
  <2> QED BY <1>1, <2>1 DEF Ids
<1>2. CASE blocks # {}
  <2>1. Chain_extend(c, blocks).db = {b \in c.db : b.id \notin Ids(blocks)} \cup blocks
    BY <1>2, ExtendFields
  <2> QED BY <2>1 DEF Ids
<1> QED BY <1>1, <1>2

\* The answer to a batch is true: all up to its last block is stored
\* (follower.rs:apply_append_entries).
LEMMA AcknowledgementIsTrue ==
  ASSUME TypeInv, MessagesAreTrue, NEW n \in Node, NEW m, Acknowledges(n, m)
  PROVE  0..m.head \subseteq Ids(chain'[n].db)
<1>1. PICK s \in Node : \E e \in Messages(s, n) :
        /\ e.type = "AppendEntries"
        /\ e.blocks # {}
        /\ chain' = [chain EXCEPT ![n] = Chain_extend(chain[n], e.blocks)]
        /\ m.head = Chain_extend(chain[n], e.blocks).head
  BY ZenonT(30) DEF Acknowledges
<1>2. PICK e \in Messages(s, n) :
        /\ e.type = "AppendEntries"
        /\ e.blocks # {}
        /\ chain' = [chain EXCEPT ![n] = Chain_extend(chain[n], e.blocks)]
        /\ m.head = Chain_extend(chain[n], e.blocks).head
  BY <1>1, ZenonT(30)
<1>3. e.blocks \in SUBSET Block /\ IsFiniteSet(e.blocks) BY <1>2, MessageType, CommandFields
<1>4. chain[n] \in FiniteChain /\ chain'[n] = Chain_extend(chain[n], e.blocks) BY <1>2 DEF TypeInv
<1>5. PICK b \in e.blocks : m.head = b.id BY <1>2, <1>3, <1>4, ExtendFields
<1>6. 0..b.id \subseteq Ids(e.blocks) \cup Ids(chain[n].db) BY <1>2 DEF MessagesAreTrue
<1>7. Ids(chain[n].db) \cup Ids(e.blocks) \subseteq Ids(chain'[n].db) BY <1>3, <1>4, ExtendIds
<1> QED BY <1>5, <1>6, <1>7
-----------------------------------------------------------------------------
(* Messages *)

\* No node loses an id or takes its commit back, and no leader loses a block.
Grows ==
  /\ \A p \in Node : Ids(chain[p].db) \subseteq Ids(chain'[p].db)
  /\ \A p \in Node : chain[p].commit <= chain'[p].commit
  /\ \A l \in Leaders : chain[l].db \subseteq chain'[l].db

\* What n may send to d: nothing about chains that is not so.
Truthful(n, d, m) ==
  \/ m.type \in {"VoteRequest", "VoteResponse", "HeartbeatResponse", "ClientRequest"}
  \/ m.type = "Heartbeat" /\ m.commit = chain[n].commit
  \/ Acknowledges(n, m)
  \/ n \in Leaders /\ m = AppendEntries(n, d)

SendsTruth(n) ==
  \A s, d \in Node : \A m \in Messages(s, d)' :
     m \in Messages(s, d) \/ (s = n /\ Truthful(n, d, m))

\* The same with answers to clients, which say nothing about chains.
Tells(n) ==
  \A s, d \in Node : \A m \in Messages(s, d)' :
     m \in Messages(s, d) \/ m.type = "ClientResponse" \/ (s = n /\ Truthful(n, d, m))

\* What sends the truth tells nothing else.
LEMMA TruthIsTold ==
  ASSUME NEW n, SendsTruth(n)
  PROVE  Tells(n)
BY ZenonT(30) DEF SendsTruth, Tells

\* A message is true of the chains, as MessagesAreTrue says, after the step.
TrueAfter(s, d, m) ==
  /\ m.type = "AppendEntries" =>
       /\ m.blocks \subseteq chain'[s].db
       /\ \A b \in m.blocks : 0..b.id \subseteq Ids(m.blocks) \cup Ids(chain'[d].db)
  /\ m.type = "AppendResponse" => 0..m.head \subseteq Ids(chain'[m.node_id].db)
  /\ m.type = "Heartbeat" =>
       /\ m.commit <= chain'[s].commit
       /\ m.commit > 0 => StoredByMajority(m.commit)'

\* A message that was true stays so, however late it arrives.
LEMMA OldMessageStaysTrue ==
  ASSUME TypeInv, TypeInv', Addressed, MessagesAreTrue, Grows,
         NEW s \in Node, NEW d \in Node, NEW m \in Messages(s, d)
  PROVE  TrueAfter(s, d, m)
<1>1. m \in FiniteCommand BY MessageType
<1>2. ASSUME m.type = "AppendEntries"
      PROVE  /\ m.blocks \subseteq chain'[s].db
             /\ \A b \in m.blocks : 0..b.id \subseteq Ids(m.blocks) \cup Ids(chain'[d].db)
  <2>1. s \in Leaders BY <1>2 DEF Addressed
  <2>2. /\ m.blocks \subseteq chain[s].db
        /\ \A b \in m.blocks : 0..b.id \subseteq Ids(m.blocks) \cup Ids(chain[d].db)
    BY <1>2 DEF MessagesAreTrue
  <2>3. Ids(chain[d].db) \subseteq Ids(chain'[d].db) /\ chain[s].db \subseteq chain'[s].db
    BY <2>1 DEF Grows
  <2> QED BY <2>2, <2>3, ZenonT(30)
<1>3. ASSUME m.type = "AppendResponse" PROVE 0..m.head \subseteq Ids(chain'[m.node_id].db)
  <2>1. m.node_id \in Node BY <1>1, <1>3, CommandFields
  <2>2. 0..m.head \subseteq Ids(chain[m.node_id].db) BY <1>3 DEF MessagesAreTrue
  <2> QED BY <2>1, <2>2 DEF Grows
<1>4. ASSUME m.type = "Heartbeat"
      PROVE  /\ m.commit <= chain'[s].commit
             /\ m.commit > 0 => StoredByMajority(m.commit)'
  <2>1. m.commit \in Nat BY <1>1, <1>4, CommandFields
  <2>2. chain[s].commit \in Nat /\ chain'[s].commit \in Nat BY ZenonT(30) DEF TypeInv, FiniteChain, ChainState
  <2>3. m.commit <= chain[s].commit /\ (m.commit > 0 => StoredByMajority(m.commit))
    BY <1>4 DEF MessagesAreTrue
  <2>4. m.commit <= chain'[s].commit BY <2>1, <2>2, <2>3 DEF Grows
  <2>5. m.commit > 0 => StoredByMajority(m.commit)' BY <2>3, MajorityStays DEF Grows
  <2> QED BY <2>4, <2>5
<1> QED BY <1>2, <1>3, <1>4, ZenonT(30) DEF TrueAfter

\* What n sends is true.
LEMMA NewMessageIsTrue ==
  ASSUME TypeInv, TypeInv', AtMostOneLeader, ReplicationInv, Grows,
         NEW n \in Node, NEW d \in Node, NEW m, Truthful(n, d, m)
  PROVE  TrueAfter(n, d, m)
<1>1. CASE m.type \in {"VoteRequest", "VoteResponse", "HeartbeatResponse", "ClientRequest"}
  BY <1>1, ZenonT(30) DEF TrueAfter
<1>2. CASE m.type = "Heartbeat" /\ m.commit = chain[n].commit
  <2>1. m.commit <= chain'[n].commit BY <1>2 DEF Grows
  <2>2. m.commit > 0 => StoredByMajority(m.commit)
    BY <1>2 DEF ReplicationInv, CommittedByMajority
  <2>3. m.commit > 0 => StoredByMajority(m.commit)' BY <2>2, MajorityStays DEF Grows
  <2> QED BY <1>2, <2>1, <2>3, ZenonT(30) DEF TrueAfter
<1>3. CASE Acknowledges(n, m)
  <2>1. 0..m.head \subseteq Ids(chain'[n].db) BY <1>3, AcknowledgementIsTrue DEF ReplicationInv
  <2>2. m.type = "AppendResponse" /\ m.node_id = n BY <1>3 DEF Acknowledges
  <2> QED BY <2>1, <2>2, ZenonT(30) DEF TrueAfter
<1>4. CASE n \in Leaders /\ m = AppendEntries(n, d)
  <2>1. /\ m.type = "AppendEntries"
        /\ m.blocks \subseteq chain[n].db
        /\ \A b \in m.blocks : 0..b.id \subseteq Ids(m.blocks) \cup Ids(chain[d].db)
    BY <1>4, NewEntries, ZenonT(30)
  <2>2. Ids(chain[d].db) \subseteq Ids(chain'[d].db) /\ chain[n].db \subseteq chain'[n].db
    BY <1>4 DEF Grows
  <2>3. \A b \in m.blocks : 0..b.id \subseteq Ids(m.blocks) \cup Ids(chain'[d].db)
    BY <2>1, <2>2, ZenonT(30)
  <2> QED BY <2>1, <2>2, <2>3, ZenonT(30) DEF TrueAfter
<1> QED BY <1>1, <1>2, <1>3, <1>4 DEF Truthful

\* Together: a step that grows chains and sends the truth.
LEMMA MessagesStayTrue ==
  ASSUME TypeInv, TypeInv', ElectionInv, AtMostOneLeader, ReplicationInv, Grows,
         NEW n \in Node, Tells(n)
  PROVE  MessagesAreTrue'
<1>1. ASSUME NEW s \in Node, NEW d \in Node, NEW m \in Messages(s, d)'
      PROVE  TrueAfter(s, d, m)
  <2>1. CASE m \in Messages(s, d)
    BY <2>1, OldMessageStaysTrue DEF ElectionInv, ReplicationInv
  <2>2. CASE s = n /\ Truthful(n, d, m) BY <2>2, NewMessageIsTrue
  <2>3. CASE m.type = "ClientResponse" BY <2>3, ZenonT(30) DEF TrueAfter
  <2> QED BY <2>1, <2>2, <2>3 DEF Tells
<1> QED BY <1>1, ZenonT(30) DEF MessagesAreTrue, TrueAfter
-----------------------------------------------------------------------------
(* The four kinds of steps *)

\* A new leader starts with no progress, and no other leader's changes.
ProgressStays ==
  \A l \in Leaders' : \/ raft'[l].progress = ReplicationProgress_new
                      \/ l \in Leaders /\ raft'[l].progress = raft[l].progress

\* What is known of every step of n.
Before(n) ==
  /\ TypeInv /\ TypeInv'
  /\ ElectionInv
  /\ AtMostOneLeader /\ AtMostOneLeader'
  /\ ReplicationInv
  /\ Leaders \subseteq Leaders'
  /\ Tells(n)

\* Progress that stays is stored, where it was stored or there was none.
LEMMA ProgressStaysStored ==
  ASSUME ProgressIsStored, ChainsAreLeaders', Grows, ProgressStays
  PROVE  ProgressIsStored'
<1> SUFFICES ASSUME NEW l \in Leaders', NEW p \in Node
             PROVE  0..raft'[l].progress[p].head \subseteq Ids(chain'[p].db)
  BY DEF ProgressIsStored
<1>1. CASE raft'[l].progress = ReplicationProgress_new
  <2>1. raft'[l].progress[p].head = 0 BY <1>1 DEF ReplicationProgress_new
  <2>2. GenesisBlock \in chain'[p].db BY DEF ChainsAreLeaders
  <2>3. 0 \in Ids(chain'[p].db) BY <2>2 DEF Ids, GenesisBlock
  <2>4. 0..0 = {0} OBVIOUS
  <2> QED BY <2>1, <2>3, <2>4
<1>2. CASE l \in Leaders /\ raft'[l].progress = raft[l].progress
  <2>1. 0..raft[l].progress[p].head \subseteq Ids(chain[p].db) BY <1>2 DEF ProgressIsStored
  <2> QED BY <1>2, <2>1 DEF Grows
<1> QED BY <1>1, <1>2 DEF ProgressStays

\* What node p has committed after a step, block k, is as CommittedByMajority says.
CommittedAfter(p, k) ==
  k = chain'[p].commit /\ k > 0 =>
    (\E l \in Leaders' : k <= chain'[l].commit) /\ StoredByMajority(k)'

\* What is committed everywhere after the step is stored by a majority.
LEMMA AllCommittedAfter ==
  ASSUME \A p \in Node : \A k : CommittedAfter(p, k)
  PROVE  CommittedByMajority'
<1> SUFFICES ASSUME NEW p \in Node, chain'[p].commit > 0
             PROVE  /\ \E l \in Leaders' : chain'[p].commit <= chain'[l].commit
                    /\ StoredByMajority(chain[p].commit)'
  BY ZenonT(30) DEF CommittedByMajority
<1>1. PICK k : k = chain'[p].commit OBVIOUS
<1>2. (\E l \in Leaders' : k <= chain'[l].commit) /\ StoredByMajority(k)'
  BY <1>1, ZenonT(30) DEF CommittedAfter
<1> QED BY <1>1, <1>2, ZenonT(30) DEF StoredByMajority, Chain_has

\* A node that does not commit keeps what it has committed.
LEMMA OldCommitStays ==
  ASSUME TypeInv, TypeInv', CommittedByMajority, Grows, Leaders \subseteq Leaders',
         NEW p \in Node, chain'[p].commit = chain[p].commit, NEW k
  PROVE  CommittedAfter(p, k)
<1> SUFFICES ASSUME k = chain'[p].commit, k > 0
             PROVE  (\E l \in Leaders' : k <= chain'[l].commit) /\ StoredByMajority(k)'
  BY DEF CommittedAfter
<1>1. PICK l \in Leaders : k <= chain[l].commit BY DEF CommittedByMajority
<1>2. l \in Node BY DEF Leaders
<1>3. k \in Nat /\ chain[l].commit \in Nat /\ chain'[l].commit \in Nat
  BY <1>2 DEF TypeInv, FiniteChain, ChainState
<1>4. k <= chain'[l].commit BY <1>1, <1>2, <1>3 DEF Grows
<1>5. StoredByMajority(k) BY DEF CommittedByMajority
<1>6. StoredByMajority(k)' BY <1>5, MajorityStays DEF Grows
<1> QED BY <1>1, <1>4, <1>6, ZenonT(30)

\* A step that changes no chain.
LEMMA StillStep ==
  ASSUME NEW n \in Node, Before(n), chain' = chain, ProgressStays
  PROVE  ReplicationInv'
<1>1. Grows
  <2>1. \A p \in Node : chain[p].commit \in Nat BY DEF Before, TypeInv, FiniteChain, ChainState
  <2> QED BY <2>1 DEF Grows
<1>2. ChainsAreLeaders'
  <2> SUFFICES ASSUME NEW p \in Node
               PROVE  /\ GenesisBlock \in chain[p].db
                      /\ \A x, y \in chain[p].db : x.id = y.id => x = y
                      /\ \A b \in chain[p].db : b = GenesisBlock \/ \E l \in Leaders' : b \in chain[l].db
                      /\ (\E l \in Leaders' : l # p) \/ Unbroken(chain[p])
    BY DEF ChainsAreLeaders, Follows
  <2> QED BY ZenonT(30) DEF Before, ReplicationInv, ChainsAreLeaders, Follows
<1>3. MessagesAreTrue' BY <1>1, MessagesStayTrue DEF Before
<1>4. ProgressIsStored' BY <1>1, <1>2, ProgressStaysStored DEF Before, ReplicationInv
<1>5. CommittedByMajority'
  <2>1. \A p \in Node : \A k : CommittedAfter(p, k)
    BY <1>1, OldCommitStays DEF Before, ReplicationInv
  <2> QED BY <2>1, AllCommittedAfter
<1> QED BY <1>2, <1>3, <1>4, <1>5 DEF ReplicationInv

\* The follower n stores some of the blocks of a message of the leader, none
\* without those before it.
Stores(n) ==
  /\ n \notin Leaders
  /\ \E s \in Node : \E m \in Messages(s, n) :
       /\ m.type = "AppendEntries"
       /\ \E blocks \in SUBSET m.blocks :
            /\ chain' = [chain EXCEPT ![n] = Chain_extend(chain[n], blocks)]
            /\ \A b \in blocks, x \in m.blocks : x.id <= b.id => x \in blocks
  /\ fsm' = fsm

\* A follower stores blocks of the leader (follower.rs:apply_append_entries).
LEMMA StoreStep ==
  ASSUME NEW n \in Node, Before(n), Stores(n), ProgressStays
  PROVE  ReplicationInv'
<1>a. PICK s \in Node : \E m \in Messages(s, n) :
        /\ m.type = "AppendEntries"
        /\ \E blocks \in SUBSET m.blocks : chain' = [chain EXCEPT ![n] = Chain_extend(chain[n], blocks)]
  BY ZenonT(30) DEF Stores
<1>b. PICK m \in Messages(s, n) :
        /\ m.type = "AppendEntries"
        /\ \E blocks \in SUBSET m.blocks : chain' = [chain EXCEPT ![n] = Chain_extend(chain[n], blocks)]
  BY <1>a, ZenonT(30)
<1>c. PICK blocks \in SUBSET m.blocks : chain' = [chain EXCEPT ![n] = Chain_extend(chain[n], blocks)]
  BY <1>b, ZenonT(30)
<1>1. m.type = "AppendEntries" /\ chain' = [chain EXCEPT ![n] = Chain_extend(chain[n], blocks)]
  BY <1>b, <1>c, ZenonT(30)
<1> DEFINE c == chain[n]
           e == Chain_extend(c, blocks)
<1>2. s \in Leaders /\ s # n
  <2>1. s \in Leaders BY <1>1 DEF Before, ElectionInv, Addressed
  <2> QED BY <2>1 DEF Stores
<1>3. blocks \subseteq chain[s].db BY <1>1 DEF Before, ReplicationInv, MessagesAreTrue
<1>4. blocks \in SUBSET Block /\ IsFiniteSet(blocks)
  <2>1. m.blocks \in SUBSET Block /\ IsFiniteSet(m.blocks)
    BY <1>1, MessageType, CommandFields DEF Before
  <2> QED BY <2>1, FS_Subset
<1>5. c \in FiniteChain BY DEF Before, TypeInv
<1>6. CASE blocks = {}
  <2>1. e = c BY <1>6 DEF Chain_extend
  <2>2. chain' = chain BY <1>1, <2>1, ZenonT(30) DEF Before, TypeInv
  <2> QED BY <2>2, StillStep
<1>7. CASE blocks # {}
  <2>1. e.db = {b \in c.db : b.id \notin Ids(blocks)} \cup blocks /\ e.commit = c.commit
    BY <1>4, <1>5, <1>7, ExtendFields
  <2>2. Ids(c.db) \subseteq Ids(e.db) BY <1>4, <1>5, ExtendIds
  <2> HIDE DEF e
  <2>3. chain'[n] = e /\ \A p \in Node \ {n} : chain'[p] = chain[p]
    BY <1>1 DEF Before, TypeInv, e
  <2>4. \A p \in Node : chain'[p].commit = chain[p].commit /\ chain[p].commit \in Nat
    BY <2>1, <2>3, ZenonT(30) DEF Before, TypeInv, FiniteChain, ChainState
  <2>5. Grows
    <3>1. \A p \in Node : Ids(chain[p].db) \subseteq Ids(chain'[p].db) BY <2>2, <2>3
    <3>2. \A p \in Node : chain[p].commit <= chain'[p].commit BY <2>4
    <3>3. \A l \in Leaders : chain[l].db \subseteq chain'[l].db BY <2>3 DEF Stores, Leaders
    <3> QED BY <3>1, <3>2, <3>3 DEF Grows
  <2>6. ChainsAreLeaders'
    <3>1. s \in Leaders' /\ chain'[s] = chain[s] BY <1>2, <2>3 DEF Before
    <3>2. ASSUME NEW p \in Node PROVE chain'[p].db \subseteq chain'[s].db
      <4>1. chain[p].db \subseteq chain[s].db BY <1>2, LeaderHasAll DEF Before, ReplicationInv
      <4> QED BY <1>3, <2>1, <2>3, <3>1, <4>1
    <3>3. ASSUME NEW p \in Node PROVE GenesisBlock \in chain'[p].db
      <4>1. GenesisBlock \in chain[p].db /\ GenesisBlock \in chain[s].db
        BY DEF Before, ReplicationInv, ChainsAreLeaders
      <4>2. \A x, y \in chain[s].db : x.id = y.id => x = y
        BY DEF Before, ReplicationInv, ChainsAreLeaders
      <4>3. GenesisBlock.id \in Ids(blocks) => GenesisBlock \in blocks
        BY <1>3, <4>1, <4>2 DEF Ids
      <4> QED BY <2>1, <2>3, <4>1, <4>3
    <3>4. \A x, y \in chain'[s].db : x.id = y.id => x = y
      BY <3>1 DEF Before, ReplicationInv, ChainsAreLeaders
    <3>5. ASSUME NEW p \in Node PROVE (\E l \in Leaders' : l # p) \/ Unbroken(chain'[p])
      <4>1. CASE p = s
        <5>1. Unbroken(chain[s]) BY <1>2, LeaderUnbroken DEF Before, ReplicationInv
        <5> QED BY <3>1, <4>1, <5>1
      <4>2. CASE p # s BY <3>1, <4>2
      <4> QED BY <4>1, <4>2
    <3> QED BY <3>1, <3>2, <3>3, <3>4, <3>5, ZenonT(30) DEF ChainsAreLeaders, Follows
  <2>7. MessagesAreTrue' BY <2>5, MessagesStayTrue DEF Before
  <2>8. ProgressIsStored' BY <2>5, <2>6, ProgressStaysStored DEF Before, ReplicationInv
  <2>9. CommittedByMajority'
    <3>1. \A p \in Node : \A k : CommittedAfter(p, k)
      BY <2>4, <2>5, OldCommitStays DEF Before, ReplicationInv
    <3> QED BY <3>1, AllCommittedAfter
  <2> QED BY <2>6, <2>7, <2>8, <2>9 DEF ReplicationInv
<1> QED BY <1>6, <1>7

\* A step that leaves every chain's blocks, head and generator alone.
LEMMA ChainsStay ==
  ASSUME NEW n \in Node, Before(n),
         \A p \in Node : /\ chain'[p].db = chain[p].db
                         /\ chain'[p].head = chain[p].head
                         /\ chain'[p].id_gen = chain[p].id_gen
  PROVE  ChainsAreLeaders'
<1>1. \A l \in Leaders : l \in Leaders' /\ l \in Node BY DEF Before, Leaders
<1>2. ASSUME NEW p \in Node
      PROVE  /\ GenesisBlock \in chain'[p].db
             /\ \A x, y \in chain'[p].db : x.id = y.id => x = y
             /\ \A b \in chain'[p].db : b = GenesisBlock \/ \E l \in Leaders' : b \in chain'[l].db
             /\ (\E l \in Leaders' : l # p) \/ Unbroken(chain'[p])
  <2>1. /\ GenesisBlock \in chain[p].db
        /\ \A x, y \in chain[p].db : x.id = y.id => x = y
        /\ \A b \in chain[p].db : b = GenesisBlock \/ \E l \in Leaders : b \in chain[l].db
        /\ (\E l \in Leaders : l # p) \/ Unbroken(chain[p])
    BY ZenonT(30) DEF Before, ReplicationInv, ChainsAreLeaders, Follows
  <2>2. Unbroken(chain[p]) => Unbroken(chain'[p]) BY DEF Unbroken
  <2> QED BY <1>1, <2>1, <2>2
<1> QED BY <1>2, ZenonT(30) DEF ChainsAreLeaders, Follows

\* The follower n commits what a heartbeat says and it stores, and hands its
\* driver the blocks from the one it had committed on.
Commits(n) ==
  /\ n \notin Leaders
  /\ \E s \in Node : \E m \in Messages(s, n) :
       /\ m.type = "Heartbeat"
       /\ Chain_has(chain[n], m.commit)
       /\ m.commit > chain[n].commit
       /\ chain' = [chain EXCEPT ![n] = Chain_commit(chain[n], m.commit)]
       /\ fsm' = [fsm EXCEPT ![n] = Append(@,
            [type |-> "Apply", blocks |-> Range_excl(chain[n], chain[n].commit, m.commit)])]
  /\ submitted' = submitted

\* A follower commits what the leader has (follower.rs:apply_heartbeat).
LEMMA CommitStep ==
  ASSUME NEW n \in Node, Before(n), Commits(n), ProgressStays
  PROVE  ReplicationInv'
<1>1. PICK s \in Node : \E m \in Messages(s, n) :
        /\ m.type = "Heartbeat"
        /\ Chain_has(chain[n], m.commit)
        /\ m.commit > chain[n].commit
        /\ chain' = [chain EXCEPT ![n] = Chain_commit(chain[n], m.commit)]
  BY ZenonT(30) DEF Commits
<1>2. PICK m \in Messages(s, n) :
        /\ m.type = "Heartbeat"
        /\ Chain_has(chain[n], m.commit)
        /\ m.commit > chain[n].commit
        /\ chain' = [chain EXCEPT ![n] = Chain_commit(chain[n], m.commit)]
  BY <1>1, ZenonT(30)
<1>3. s \in Leaders /\ s # n
  <2>1. s \in Leaders BY <1>2, ZenonT(30) DEF Before, ElectionInv, Addressed
  <2> QED BY <2>1 DEF Commits
<1> DEFINE c == Chain_commit(chain[n], m.commit)
<1>4. chain[n] \in FiniteChain BY DEF Before, TypeInv
<1>5. /\ c.db = chain[n].db /\ c.head = chain[n].head /\ c.id_gen = chain[n].id_gen
      /\ c.commit = m.commit
  BY <1>2, <1>4, CommitFields
<1>6. chain'[n] = c /\ \A p \in Node \ {n} : chain'[p] = chain[p] BY <1>2 DEF Before, TypeInv
<1> HIDE DEF c
<1>7. \A p \in Node : /\ chain'[p].db = chain[p].db
                      /\ chain'[p].head = chain[p].head
                      /\ chain'[p].id_gen = chain[p].id_gen
  BY <1>5, <1>6
<1>8. \A p \in Node : chain[p].commit \in Nat BY DEF Before, TypeInv, FiniteChain, ChainState
<1>9. m.commit \in Nat
  <2>1. m \in FiniteCommand BY MessageType DEF Before
  <2> QED BY <1>2, <2>1, CommandFields
<1>10. Grows
  <2>1. \A p \in Node : chain[p].commit <= chain'[p].commit BY <1>2, <1>5, <1>6, <1>8, <1>9
  <2>2. \A l \in Leaders : chain[l].db \subseteq chain'[l].db BY <1>7 DEF Leaders
  <2> QED BY <1>7, <2>1, <2>2 DEF Grows
<1>11. ChainsAreLeaders' BY <1>7, ChainsStay
<1>12. MessagesAreTrue' BY <1>10, MessagesStayTrue DEF Before
<1>13. ProgressIsStored' BY <1>10, <1>11, ProgressStaysStored DEF Before, ReplicationInv
<1>14. CommittedByMajority'
  <2>1. ASSUME NEW p \in Node, NEW k PROVE CommittedAfter(p, k)
    <3>1. CASE p # n BY <1>6, <1>10, <3>1, OldCommitStays DEF Before, ReplicationInv
    <3>2. CASE p = n
      <4>1. m.commit <= chain[s].commit /\ (m.commit > 0 => StoredByMajority(m.commit))
        BY <1>2, ZenonT(30) DEF Before, ReplicationInv, MessagesAreTrue
      <4>2. m.commit > 0 => StoredByMajority(m.commit)' BY <1>10, <4>1, MajorityStays DEF Grows
      <4>3. s \in Leaders' /\ chain'[s] = chain[s] BY <1>3, <1>6 DEF Before
      <4>4. m.commit > 0 => (\E l \in Leaders' : m.commit <= chain'[l].commit) /\ StoredByMajority(m.commit)'
        BY <4>1, <4>2, <4>3
      <4>5. chain'[p].commit = m.commit BY <1>5, <1>6, <3>2
      <4> QED BY <4>4, <4>5, ZenonT(30) DEF CommittedAfter
    <3> QED BY <3>1, <3>2
  <2> QED BY <2>1, AllCommittedAfter
<1> QED BY <1>11, <1>12, <1>13, <1>14 DEF ReplicationInv

\* Appending to an unbroken chain leaves it unbroken and loses no block: the id
\* drawn is the next one (chain.rs:append).
LEMMA AppendUnbroken ==
  ASSUME NEW c \in FiniteChain, NEW data \in Data, Unbroken(c),
         OnePerId(c.db)
  PROVE  LET a == Chain_append(c, data)
         IN /\ c.db \subseteq a.db
            /\ Unbroken(a)
            /\ OnePerId(a.db)
<1> DEFINE a == Chain_append(c, data)
           b == [id |-> c.id_gen, next |-> c.head, data |-> data]
<1>1. a.db = Insert(c.db, b) /\ a.id_gen = c.id_gen + 1 /\ a.head = c.id_gen BY AppendFields
<1>2. b.id = c.id_gen OBVIOUS
<1> HIDE DEF a, b
<1>3. c.head \in Nat /\ c.id_gen = c.head + 1 /\ Ids(c.db) = 0..c.head
  BY DEF FiniteChain, ChainState, Unbroken
<1>4. c.id_gen \notin Ids(c.db) BY <1>3
<1>5. a.db = c.db \cup {b} BY <1>1, <1>2, <1>4 DEF Insert, Ids
<1>6. Ids(a.db) = Ids(c.db) \cup {c.id_gen} BY <1>2, <1>5 DEF Ids
<1>7. Ids(a.db) = 0..a.head BY <1>1, <1>3, <1>6
<1>8. Unbroken(a) BY <1>1, <1>7 DEF Unbroken
<1>9. OnePerId(a.db)
  <2>1. \A x \in c.db : x.id # b.id BY <1>2, <1>4 DEF Ids
  <2> QED BY <1>5, <2>1 DEF OnePerId
<1> QED BY <1>5, <1>8, <1>9 DEF a

\* The driver is told whom to answer when the block is executed.
Notifies(sent, block_id, data) ==
  \E address \in Node \cup {Client} :
     sent = <<[type |-> "Notify", id |-> data, block_id |-> block_id, address |-> address]>>

\* The leader n counts that p has stored its blocks up to h: p says so, or p is n
\* and has just appended h and told its driver.
Counts(n) ==
  /\ n \in Leaders
  /\ \E a \in FiniteChain, p \in Node, h \in Nat :
       \E sent :
         /\ Leader_acknowledge(n, a, sent, p, h)
         /\ \/ a = chain[n] /\ sent = <<>> /\ 0..h \subseteq Ids(chain[p].db)
            \/ /\ p = n /\ h = a.head
               /\ \E data \in Data : a = Chain_append(chain[n], data) /\ Notifies(sent, h, data)

\* What the leader's chain a is when it counts, before it commits.
LEMMA CountedChain ==
  ASSUME NEW n \in Leaders, Before(n), NEW a \in FiniteChain, NEW p \in Node, NEW h \in Nat,
         \/ a = chain[n] /\ 0..h \subseteq Ids(chain[p].db)
         \/ p = n /\ h = a.head /\ \E data \in Data : a = Chain_append(chain[n], data)
  PROVE  /\ chain[n].db \subseteq a.db
         /\ Unbroken(a)
         /\ OnePerId(a.db)
         /\ a.commit = chain[n].commit
         /\ p = n => 0..h \subseteq Ids(a.db)
         /\ p # n => 0..h \subseteq Ids(chain[p].db)
<1>1. n \in Node /\ Unbroken(chain[n]) BY LeaderUnbroken DEF Before, ReplicationInv
<1>2. chain[n] \in FiniteChain /\ OnePerId(chain[n].db)
  BY <1>1, ZenonT(30) DEF Before, TypeInv, ReplicationInv, ChainsAreLeaders, OnePerId
<1>3. CASE a = chain[n] /\ 0..h \subseteq Ids(chain[p].db) BY <1>1, <1>2, <1>3, ZenonT(30)
<1>4. CASE p = n /\ h = a.head /\ \E data \in Data : a = Chain_append(chain[n], data)
  <2>1. PICK data \in Data : a = Chain_append(chain[n], data) BY <1>4
  <2>2. /\ chain[n].db \subseteq a.db
        /\ Unbroken(a)
        /\ OnePerId(a.db)
    BY <1>1, <1>2, <2>1, AppendUnbroken
  <2>3. a.commit = chain[n].commit BY <1>2, <2>1, AppendFields, ZenonT(30)
  <2>4. 0..h \subseteq Ids(a.db) BY <1>4, <2>2 DEF Unbroken
  <2> QED BY <1>4, <2>2, <2>3, <2>4
<1> QED BY <1>3, <1>4

\* What the leader takes as replicated once it has counted (progress.rs:advance).
LEMMA AdvanceHeads ==
  ASSUME NEW progress \in ReplicationProgress, NEW p \in Node, NEW h \in Nat, NEW q \in Node
  PROVE  \/ advance(progress, p, h)[q].head = progress[q].head
         \/ q = p /\ advance(progress, p, h)[q].head = h
<1>1. progress[p] \in NodeProgress BY DEF ReplicationProgress
<1>2. NodeProgress_advance(progress[p], h).head \in {progress[p].head, h}
  BY <1>1 DEF NodeProgress_advance, NodeProgress
<1>3. advance(progress, p, h)[q] = IF q = p THEN NodeProgress_advance(progress[p], h) ELSE progress[q]
  BY DEF advance, ReplicationProgress
<1> QED BY <1>2, <1>3

\* The leader appends, or counts an acknowledgement, and commits (leader.rs:commit).
LEMMA CountStep ==
  ASSUME NEW n \in Node, Before(n), Counts(n)
  PROVE  ReplicationInv'
<1>1. PICK a \in FiniteChain, p \in Node, h \in Nat :
        /\ \E sent : Leader_acknowledge(n, a, sent, p, h)
        /\ \/ a = chain[n] /\ 0..h \subseteq Ids(chain[p].db)
           \/ p = n /\ h = a.head /\ \E data \in Data : a = Chain_append(chain[n], data)
  BY ZenonT(30) DEF Counts
<1>2. n \in Leaders /\ n \in Leaders' BY DEF Counts, Before
<1>3. /\ chain[n].db \subseteq a.db
      /\ Unbroken(a)
      /\ OnePerId(a.db)
      /\ a.commit = chain[n].commit
      /\ p = n => 0..h \subseteq Ids(a.db)
      /\ p # n => 0..h \subseteq Ids(chain[p].db)
  BY <1>1, <1>2, CountedChain, ZenonT(30)
<1> DEFINE progress == advance(raft[n].progress, p, h)
           k == committed_index(progress)
           c == chain'[n]
<1>4. /\ raft' = [raft EXCEPT ![n].progress = progress]
      /\ \/ chain' = [chain EXCEPT ![n] = a]
         \/ chain' = [chain EXCEPT ![n] = Chain_commit(a, k)] /\ k > a.commit
  BY <1>1, ZenonT(30) DEF Leader_acknowledge
<1>5. raft[n] \in RaftState /\ raft[n].progress \in ReplicationProgress BY ZenonT(30) DEF Before, TypeInv, RaftState
<1>6. progress \in ReplicationProgress BY <1>5, AdvanceType
<1>7. raft'[n].progress = progress
  <2> HIDE DEF progress
  <2>1. raft'[n] = [raft[n] EXCEPT !.progress = progress] BY <1>4 DEF Before, TypeInv
  <2> QED BY <1>5, <2>1 DEF RaftState
<1>8. k \in Nat /\ 2 * Cardinality({q \in Node : progress[q].head >= k}) > Cardinality(Node)
  BY <1>6, MedianIsMajority
<1>9. \A q \in Node : progress[q].head = raft[n].progress[q].head \/ (q = p /\ progress[q].head = h)
  BY <1>5, AdvanceHeads
<1>10. \A q \in Node : progress[q].head \in Nat BY <1>6 DEF ReplicationProgress, NodeProgress
<1> HIDE DEF k, progress
<1>11. \A q \in Node \ {n} : chain'[q] = chain[q] BY <1>4, ZenonT(30) DEF Before, TypeInv
<1>12. /\ c.db = a.db /\ c.head = a.head /\ c.id_gen = a.id_gen
       /\ c.commit = a.commit \/ (c.commit = k /\ k > a.commit)
  <2>1. CASE chain' = [chain EXCEPT ![n] = a]
    <3>1. c = a BY <2>1 DEF Before, TypeInv
    <3> QED BY <3>1
  <2>2. CASE chain' = [chain EXCEPT ![n] = Chain_commit(a, k)] /\ k > a.commit
    <3>1. c = Chain_commit(a, k) BY <2>2 DEF Before, TypeInv
    <3> HIDE DEF c
    <3> QED BY <2>2, <3>1, CommitFields, ZenonT(30)
  <2> QED BY <1>4, <2>1, <2>2
<1> HIDE DEF c
<1>13. c = chain'[n] BY DEF c
<1>14. \A q \in Node : chain[q].commit \in Nat /\ chain'[q].commit \in Nat
  BY ZenonT(30) DEF Before, TypeInv, FiniteChain, ChainState
<1>15. Grows
  <2>1. ASSUME NEW q \in Node PROVE Ids(chain[q].db) \subseteq Ids(chain'[q].db)
    <3>1. CASE q = n BY <1>3, <1>12, <1>13, <3>1 DEF Ids
    <3>2. CASE q # n BY <1>11, <3>2
    <3> QED BY <3>1, <3>2
  <2>2. ASSUME NEW q \in Node PROVE chain[q].commit <= chain'[q].commit
    <3>1. CASE q = n
      <4>1. chain'[n].commit = chain[n].commit \/ chain'[n].commit > chain[n].commit
        BY <1>3, <1>12, <1>13
      <4> QED BY <1>14, <3>1, <4>1
    <3>2. CASE q # n BY <1>11, <1>14, <3>2
    <3> QED BY <3>1, <3>2
  <2>3. ASSUME NEW l \in Leaders PROVE chain[l].db \subseteq chain'[l].db
    <3>1. l = n BY <1>2 DEF Before, AtMostOneLeader
    <3> QED BY <1>3, <1>12, <1>13, <3>1
  <2> QED BY <2>1, <2>2, <2>3 DEF Grows
<1>16. ChainsAreLeaders'
  <2>1. ASSUME NEW q \in Node
        PROVE  GenesisBlock \in chain'[q].db /\ chain'[q].db \subseteq chain'[n].db
    <3>1. GenesisBlock \in chain[q].db /\ chain[q].db \subseteq chain[n].db
      BY <1>2, LeaderHasAll, ZenonT(30) DEF Before, ReplicationInv, ChainsAreLeaders
    <3> QED BY <1>3, <1>11, <1>12, <1>13, <3>1
  <2>2. \A x, y \in chain'[n].db : x.id = y.id => x = y BY <1>3, <1>12, <1>13 DEF OnePerId
  <2>3. Unbroken(chain'[n]) BY <1>3, <1>12, <1>13 DEF Unbroken
  <2>4. ASSUME NEW q \in Node PROVE (\E l \in Leaders' : l # q) \/ Unbroken(chain'[q])
    BY <1>2, <2>3
  <2> QED BY <1>2, <2>1, <2>2, <2>4, ZenonT(30) DEF ChainsAreLeaders, Follows
<1>17. MessagesAreTrue' BY <1>15, MessagesStayTrue DEF Before
<1>18. ASSUME NEW q \in Node PROVE 0..progress[q].head \subseteq Ids(chain'[q].db)
  <2>1. CASE progress[q].head = raft[n].progress[q].head
    <3>1. 0..raft[n].progress[q].head \subseteq Ids(chain[q].db)
      BY <1>2 DEF Before, ReplicationInv, ProgressIsStored
    <3> QED BY <1>15, <2>1, <3>1 DEF Grows
  <2>2. CASE q = p /\ progress[q].head = h
    <3>1. CASE p = n BY <1>3, <1>12, <1>13, <2>2, <3>1
    <3>2. CASE p # n BY <1>3, <1>11, <2>2, <3>2
    <3> QED BY <3>1, <3>2
  <2> QED BY <1>9, <2>1, <2>2
<1>19. ProgressIsStored'
  <2>1. \A l \in Leaders' : l = n BY <1>2 DEF Before, AtMostOneLeader
  <2> QED BY <1>7, <1>18, <2>1, ZenonT(30) DEF ProgressIsStored
<1>a. PICK i : i = k OBVIOUS
<1>20. StoredByMajority(i)'
  <2> DEFINE A == {q \in Node : progress[q].head >= i}
             B == {q \in Node : Chain_has(chain'[q], i)}
  <2>1. A \in SUBSET B
    <3> SUFFICES ASSUME NEW q \in Node, progress[q].head >= i PROVE Chain_has(chain'[q], i)
      OBVIOUS
    <3>1. i \in 0..progress[q].head BY <1>a, <1>8, <1>10
    <3> QED BY <1>18, <3>1, HasIds
  <2>2. B \in SUBSET Node OBVIOUS
  <2>3. 2 * Cardinality(A) > Cardinality(Node) BY <1>a, <1>8
  <2>4. SUFFICES 2 * Cardinality(B) > Cardinality(Node)
    BY DEF StoredByMajority, Chain_has
  <2> HIDE DEF A, B
  <2>5. IsFiniteSet(B) BY <2>2, FS_Subset, NodeAssumption
  <2>6. IsFiniteSet(A) /\ Cardinality(A) <= Cardinality(B) BY <2>1, <2>5, FS_Subset
  <2>7. Cardinality(A) \in Nat /\ Cardinality(B) \in Nat /\ Cardinality(Node) \in Nat
    BY <2>5, <2>6, FS_CardinalityType, NodeAssumption
  <2> QED BY <2>3, <2>6, <2>7
<1>21. CommittedByMajority'
  <2>1. ASSUME NEW q \in Node, NEW b PROVE CommittedAfter(q, b)
    <3>1. CASE chain'[q].commit = chain[q].commit
      BY <1>15, <3>1, OldCommitStays DEF Before, ReplicationInv
    <3>2. CASE chain'[q].commit # chain[q].commit
      <4>1. q = n /\ chain'[q].commit = i BY <1>a, <1>3, <1>11, <1>12, <1>13, <3>2
      <4>2. i <= chain'[n].commit BY <1>a, <1>8, <4>1
      <4>3. (\E l \in Leaders' : i <= chain'[l].commit) /\ StoredByMajority(i)' BY <1>2, <1>20, <4>2, ZenonT(30)
      <4> QED BY <4>1, <4>3, ZenonT(30) DEF CommittedAfter
    <3> QED BY <3>1, <3>2
  <2> QED BY <2>1, AllCommittedAfter
<1> QED BY <1>16, <1>17, <1>19, <1>21 DEF ReplicationInv
-----------------------------------------------------------------------------
(* Queues of instructions *)

\* The i-th instruction of q applies the block of the slot.
IsSlot(q, i, s) == q[i].type = "Apply" /\ \E b \in q[i].blocks : s = <<i, b>>

\* The slots of a queue are those of its instructions.
LEMMA SlotIs ==
  ASSUME NEW q, NEW s
  PROVE  s \in Slots(q) <=> \E i \in DOMAIN q : IsSlot(q, i, s)
<1> DEFINE A == {i \in DOMAIN q : q[i].type = "Apply"}
           T(i) == {<<i, b>> : b \in q[i].blocks}
<1>1. s \in Slots(q) <=> \E i \in A : s \in T(i) BY ZenonT(30) DEF Slots
<1>2. \A i : s \in T(i) <=> \E b \in q[i].blocks : s = <<i, b>> BY ZenonT(30)
<1>3. \A i : i \in A <=> i \in DOMAIN q /\ q[i].type = "Apply" BY ZenonT(30)
<1> HIDE DEF A, T
<1> QED BY <1>1, <1>2, <1>3, ZenonT(30) DEF IsSlot

\* A slot is a pair of the place of an instruction and a block.
LEMMA SlotFields ==
  ASSUME NEW q \in Seq(Instruction), NEW s \in Slots(q)
  PROVE  /\ s[1] \in 1..Len(q) /\ q[s[1]].type = "Apply" /\ s[2] \in q[s[1]].blocks
         /\ s = <<s[1], s[2]>>
<1>1. PICK i \in DOMAIN q : IsSlot(q, i, s) BY SlotIs, ZenonT(30)
<1>2. PICK b \in q[i].blocks : s = <<i, b>> BY <1>1, ZenonT(30) DEF IsSlot
<1>3. s[1] = i /\ s[2] = b BY <1>2
<1>4. DOMAIN q = 1..Len(q) OBVIOUS
<1> QED BY <1>1, <1>2, <1>3, <1>4 DEF IsSlot

\* A queue without an instruction.
LEMMA NoSlots == Slots(<<>>) = {}
<1>1. DOMAIN <<>> = {} OBVIOUS
<1>2. \A s : s \notin Slots(<<>>) BY <1>1, SlotIs, ZenonT(30)
<1> QED BY <1>2, ZenonT(30)

\* The instructions that a leader sends when it counts (leader.rs:commit).
LEMMA AcknowledgedQueue ==
  ASSUME TypeInv, NEW n \in Node, NEW a \in FiniteChain, NEW p \in Node, NEW h \in Nat, NEW sent,
         Leader_acknowledge(n, a, sent, p, h), NEW q \in Seq(Instruction), q = fsm[n] \o sent
  PROVE  /\ \A m \in Node \ {n} : chain'[m] = chain[m] /\ fsm'[m] = fsm[m]
         /\ \/ chain'[n] = a /\ fsm'[n] = q
            \/ \E k \in Nat :
                 /\ k > a.commit /\ Chain_has(a, k)
                 /\ chain'[n] = Chain_commit(a, k)
                 /\ fsm'[n] = Append(q, [type |-> "Apply",
                                         blocks |-> Skip1(Range_incl(a, a.commit, k))])
<1> DEFINE progress == advance(raft[n].progress, p, h)
           k == committed_index(progress)
           commits == k > a.commit
           ok == commits => Chain_has(a, k)
           x == [type |-> "Apply", blocks |-> Skip1(Range_incl(a, a.commit, k))]
           new == IF commits THEN Chain_commit(a, k) ELSE a
           tail == IF commits /\ ok THEN <<x>> ELSE <<>>
<1>1. /\ chain' = [chain EXCEPT ![n] = new]
      /\ fsm' = [fsm EXCEPT ![n] = fsm[n] \o sent \o tail]
  BY ZenonT(30) DEF Leader_acknowledge
<1>2. k \in Nat
  <2>1. raft[n] \in RaftState BY DEF TypeInv
  <2>2. raft[n].progress \in ReplicationProgress BY <2>1 DEF RaftState
  <2>3. progress \in ReplicationProgress BY <2>2, AdvanceType
  <2> QED BY <2>3, MedianIsMajority, ZenonT(30)
<1>3. chain \in [Node -> FiniteChain] /\ fsm \in [Node -> Seq(Instruction)] BY DEF TypeInv
<1> HIDE DEF new, tail
<1>4. /\ chain'[n] = new /\ fsm'[n] = fsm[n] \o sent \o tail
      /\ \A m \in Node \ {n} : chain'[m] = chain[m] /\ fsm'[m] = fsm[m]
  BY <1>1, <1>3
<1>5. fsm'[n] = q \o tail BY <1>4
<1> HIDE DEF k
<1>6. CASE commits /\ ok
  <2>1. new = Chain_commit(a, k) /\ tail = <<x>> /\ Chain_has(a, k) BY <1>6 DEF new, tail
  <2> HIDE DEF x
  <2>2. q \o <<x>> = Append(q, x) OBVIOUS
  <2>3. fsm'[n] = Append(q, x) BY <1>5, <2>1, <2>2
  <2> QED BY <1>2, <1>4, <1>6, <2>1, <2>3, ZenonT(30) DEF x
<1>7. CASE ~(commits /\ ok)
  <2>1. tail = <<>> BY <1>7, ZenonT(30) DEF tail
  <2>2. new = a BY <1>7, ZenonT(30) DEF new, Chain_commit
  <2>3. q \o <<>> = q OBVIOUS
  <2>4. fsm'[n] = q BY <1>5, <2>1, <2>3
  <2> QED BY <1>4, <2>2, <2>4, ZenonT(30)
<1> QED BY <1>6, <1>7, ZenonT(30)

\* The queue r is q with more instructions at its end.
Prolongs(q, r) == Len(q) <= Len(r) /\ \A i \in 1..Len(q) : r[i] = q[i]

\* A queue with more at its end.
LEMMA ConcatProlongs ==
  ASSUME NEW S, NEW q \in Seq(S), NEW x \in Seq(S)
  PROVE  /\ Prolongs(q, q \o x)
         /\ \A i \in DOMAIN (q \o x) : i \in DOMAIN q \/ \E j \in DOMAIN x : (q \o x)[i] = x[j]
<1>1. Len(q) <= Len(q \o x) /\ \A i \in 1..Len(q) : (q \o x)[i] = q[i] OBVIOUS
<1>2. ASSUME NEW i \in DOMAIN (q \o x), i \notin DOMAIN q PROVE \E j \in DOMAIN x : (q \o x)[i] = x[j]
  <2>1. i - Len(q) \in DOMAIN x /\ (q \o x)[i] = x[i - Len(q)] BY <1>2
  <2> QED BY <2>1
<1> QED BY <1>1, <1>2 DEF Prolongs

\* An element more at the end of two sequences.
LEMMA ConcatenatedAppend ==
  ASSUME NEW S, NEW a \in Seq(S), NEW b \in Seq(S), NEW x \in S
  PROVE  Append(a \o b, x) = a \o (b \o <<x>>)
<1> DEFINE l == Append(a \o b, x)
           r == a \o (b \o <<x>>)
           m == Len(a) + Len(b) + 1
<1>1. <<x>> \in Seq(S) /\ a \o b \in Seq(S) OBVIOUS
<1>2. b \o <<x>> \in Seq(S) BY <1>1
<1>3. l \in Seq(S) /\ Len(l) = m BY <1>1
<1>4. r \in Seq(S) /\ Len(r) = m BY <1>1, <1>2
<1>5. ASSUME NEW i \in 1..m PROVE l[i] = r[i] BY <1>1, <1>2
<1> HIDE DEF l, r, m
<1>6. l = [i \in 1..m |-> l[i]] BY <1>3
<1>7. r = [i \in 1..m |-> r[i]] BY <1>4
<1>8. l = r BY <1>5, <1>6, <1>7, Zenon
<1> QED BY <1>8 DEF l, r

\* The blocks of a queue are numbered in its order, each once and without a gap.
InSequence(q) ==
  /\ \A s \in Slots(q) : s[2].id \in Nat /\ s[1] \in Nat /\ s[1] <= Len(q)
  /\ \A s, t \in Slots(q) : s[1] < t[1] => s[2].id < t[2].id
  /\ \A s, t \in Slots(q) : s[2].id = t[2].id => s = t
  /\ \A s \in Slots(q) : \A k \in 1..s[2].id : \E t \in Slots(q) : t[2].id = k

\* A queue that applies blocks up to a number in order.
LEMMA InOrderInSequence ==
  ASSUME NEW q \in Seq(Instruction), NEW db \in SUBSET Block, OnePerId(db), NEW ids \in SUBSET Nat,
         \A i \in ids : 1..i \subseteq ids, AppliesInOrder(q, db, ids)
  PROVE  InSequence(q)
<1>1. \A s \in Slots(q) : s[1] \in 1..Len(q) /\ s = <<s[1], s[2]>> BY SlotFields
<1>2. \A s \in Slots(q) : s[2] \in db /\ s[2].id \in ids BY DEF AppliesInOrder
<1>3. \A s, t \in Slots(q) : s[1] < t[1] => s[2].id < t[2].id BY DEF AppliesInOrder
<1>4. \A s \in Slots(q) : s[2].id \in Nat /\ s[1] \in Nat /\ s[1] <= Len(q) BY <1>1, <1>2
<1>5. ASSUME NEW s \in Slots(q), NEW t \in Slots(q), s[2].id = t[2].id PROVE s = t
  <2>1. s[2] = t[2] BY <1>2, <1>5 DEF OnePerId
  <2>2. s[1] = t[1] BY <1>3, <1>4, <1>5
  <2> QED BY <1>1, <2>1, <2>2
<1>6. ASSUME NEW s \in Slots(q), NEW k \in 1..s[2].id PROVE \E t \in Slots(q) : t[2].id = k
  <2>1. k \in ids BY <1>2, ZenonT(30)
  <2> QED BY <2>1 DEF AppliesInOrder
<1> QED BY <1>3, <1>4, <1>5, <1>6 DEF InSequence

\* The channels of a cluster (leader.rs:commit, follower.rs:apply_heartbeat).
LEMMA ChannelsInSequence ==
  ASSUME TypeInv, DeliveryInv, \A n \in Node : OnePerId(chain[n].db), NEW n \in Node
  PROVE  /\ InSequence(fsm[n])
         /\ \A l \in Leaders : \A s \in Slots(fsm[n]) : s[2] \in chain[l].db
         /\ Slots(fsm[n]) # {} => Leaders # {}
<1>1. fsm[n] \in Seq(Instruction) BY DEF TypeInv
<1>2. CASE Leaders = {}
  <2>1. fsm[n] = <<>> BY <1>2 DEF DeliveryInv
  <2>2. Slots(fsm[n]) = {} BY <2>1, NoSlots
  <2> QED BY <1>2, <2>2 DEF InSequence
<1>3. ASSUME NEW l \in Leaders
      PROVE  InSequence(fsm[n]) /\ \A s \in Slots(fsm[n]) : s[2] \in chain[l].db
  <2>1. l \in Node BY DEF Leaders
  <2>2. chain[l] \in FiniteChain /\ chain[n] \in FiniteChain BY <2>1 DEF TypeInv
  <2>3. chain[l].db \in SUBSET Block /\ chain[l].commit \in Nat /\ chain[n].commit \in Nat
    BY <2>2 DEF FiniteChain, ChainState
  <2>4. PICK ids \in SUBSET Nat : (\A i \in ids : 1..i \subseteq ids) /\ AppliesInOrder(fsm[n], chain[l].db, ids)
    <3>1. CASE l = n
      <4> DEFINE ids == 1..chain[l].commit
      <4>1. ids \in SUBSET Nat /\ \A i \in ids : 1..i \subseteq ids BY <2>3
      <4>2. AppliesInOrder(fsm[n], chain[l].db, ids) BY <3>1 DEF DeliveryInv, DriversFollow
      <4> HIDE DEF ids
      <4> QED BY <4>1, <4>2, ZenonT(30)
    <3>2. CASE l # n
      <4> DEFINE ids == 0..(chain[n].commit - 1)
      <4>1. ids \in SUBSET Nat /\ \A i \in ids : 1..i \subseteq ids BY <2>3
      <4>2. AppliesInOrder(fsm[n], chain[l].db, ids) BY <3>2 DEF DeliveryInv, DriversFollow
      <4> HIDE DEF ids
      <4> QED BY <4>1, <4>2, ZenonT(30)
    <3> QED BY <3>1, <3>2
  <2>5. InSequence(fsm[n]) BY <1>1, <2>1, <2>3, <2>4, InOrderInSequence
  <2> QED BY <2>4, <2>5 DEF AppliesInOrder
<1> QED BY <1>2, <1>3

\* The slots of a queue that has got longer.
LEMMA ProlongedSlots ==
  ASSUME NEW q \in Seq(Instruction), NEW r \in Seq(Instruction), Prolongs(q, r)
  PROVE  /\ Slots(q) \subseteq Slots(r)
         /\ \A s \in Slots(r) : s \in Slots(q) \/ s[1] > Len(q)
<1>1. ASSUME NEW i \in 1..Len(q), NEW s PROVE IsSlot(q, i, s) <=> IsSlot(r, i, s)
  <2>1. r[i] = q[i] BY DEF Prolongs
  <2> QED BY <2>1 DEF IsSlot
<1>2. DOMAIN q = 1..Len(q) /\ DOMAIN r = 1..Len(r) /\ 1..Len(q) \subseteq 1..Len(r) BY DEF Prolongs
<1>3. ASSUME NEW s \in Slots(q) PROVE s \in Slots(r)
  BY <1>1, <1>2, SlotIs, ZenonT(30)
<1>4. ASSUME NEW s \in Slots(r) PROVE s \in Slots(q) \/ s[1] > Len(q)
  <2>1. PICK i \in DOMAIN r : IsSlot(r, i, s) BY SlotIs, ZenonT(30)
  <2>2. s[1] = i BY <2>1 DEF IsSlot
  <2>3. CASE i \in DOMAIN q BY <1>1, <1>2, <2>1, <2>3, SlotIs, ZenonT(30)
  <2>4. CASE i \notin DOMAIN q BY <1>2, <2>2, <2>4
  <2> QED BY <2>3, <2>4
<1> QED BY <1>3, <1>4
-----------------------------------------------------------------------------
(* Steps outside elections *)

\* A step that has no part in an election.
Routine(s, n) ==
  \/ Follower_apply_append_entries(s, n)
  \/ Follower_apply_heartbeat(s, n)
  \/ Leader_apply_append_response(s, n)
  \/ Leader_apply_heartbeat_response(s, n)
  \/ Leader_apply_append_entries(s, n)
  \/ Ignore(s, n)
  \/ \E req \in ClientRequest : Propose(s, n, req)
  \/ \E due \in BOOLEAN : Leader_apply_tick(n, due)
  \/ Crash(n)
  \/ send_task_fails(n)
  \/ Disconnect(n, s)

\* Outside elections a step is of one of the four kinds.
LEMMA RoutineKinds ==
  ASSUME TypeInv, ReplicationInv, NEW s \in Node, NEW n \in Node, Routine(s, n)
  PROVE  \/ chain' = chain /\ fsm' = fsm /\ (n \notin Leaders \/ raft' = raft)
         \/ Stores(n)
         \/ Commits(n)
         \/ Counts(n)
<1>1. \A type : Receives(s, n, type) => Head(net[s][n]) \in Messages(s, n)
                                        /\ Head(net[s][n]).type = type
                                        /\ Head(net[s][n]) \in FiniteCommand
  BY ReceivesFields, ZenonT(30)
<1>2. chain[n] \in FiniteChain BY DEF TypeInv
<1>3. CASE Follower_apply_append_entries(s, n)
  <2> DEFINE m == Head(net[s][n])
  <2>1. /\ Is(n, "Follower")
        /\ Receives(s, n, "AppendEntries")
        /\ \/ chain' = [chain EXCEPT ![n] = Chain_extend(chain[n], Extendable(chain[n], m.blocks))]
           \/ chain' = [chain EXCEPT ![n] = Chain_extend(chain[n], {})]
        /\ fsm' = fsm
    BY <1>3, ZenonT(30) DEF Follower_apply_append_entries
  <2>2. n \notin Leaders BY <2>1 DEF Is, Leaders
  <2>3. m \in Messages(s, n) /\ m.type = "AppendEntries" BY <1>1, <2>1
  <2>4. {} \in SUBSET m.blocks /\ \A b \in {}, x \in m.blocks : x.id <= b.id => x \in {} OBVIOUS
  <2>5. Extendable(chain[n], m.blocks) \in SUBSET m.blocks BY DEF Extendable
  <2>6. ASSUME NEW b \in Extendable(chain[n], m.blocks), NEW x \in m.blocks, x.id <= b.id
        PROVE  x \in Extendable(chain[n], m.blocks)
    <3>1. m.blocks \in SUBSET Block BY <1>1, <2>1, CommandFields, ZenonT(30)
    <3>2. b.id \in Nat /\ x.id \in Nat /\ \A y \in m.blocks : y.id \in Nat
      BY <2>5, <3>1 DEF Block
    <3>3. \A y \in m.blocks : y.id <= x.id => y.id <= b.id BY <2>6, <3>2
    <3> QED BY <3>3, ZenonT(30) DEF Extendable
  <2> HIDE DEF m
  <2>7. \E blocks \in SUBSET m.blocks :
          /\ chain' = [chain EXCEPT ![n] = Chain_extend(chain[n], blocks)]
          /\ \A b \in blocks, x \in m.blocks : x.id <= b.id => x \in blocks
    <3>1. CASE chain' = [chain EXCEPT ![n] = Chain_extend(chain[n], {})] BY <2>4, <3>1, ZenonT(30)
    <3>2. CASE chain' = [chain EXCEPT ![n] = Chain_extend(chain[n], Extendable(chain[n], m.blocks))]
      BY <2>5, <2>6, <3>2, ZenonT(30)
    <3> QED BY <2>1, <3>1, <3>2 DEF m
  <2> QED BY <2>1, <2>2, <2>3, <2>7, ZenonT(30) DEF Stores
<1>4. CASE Follower_apply_heartbeat(s, n)
  <2> DEFINE m == Head(net[s][n])
             has_committed == Chain_has(chain[n], m.commit)
             advances == has_committed /\ m.commit > chain[n].commit
             c == IF advances THEN Chain_commit(chain[n], m.commit) ELSE chain[n]
             applied(x) == [type |-> "Apply", blocks |-> Range_excl(x, chain[n].commit, m.commit)]
  <2>1. /\ Is(n, "Follower")
        /\ Receives(s, n, "Heartbeat")
        /\ chain' = [chain EXCEPT ![n] = c]
        /\ fsm' = [fsm EXCEPT ![n] = IF advances THEN Append(@, applied(c)) ELSE @]
        /\ submitted' = submitted
    BY <1>4, ZenonT(30) DEF Follower_apply_heartbeat
  <2>2. n \notin Leaders BY <2>1, ZenonT(30) DEF Is, Leaders
  <2>3. m \in Messages(s, n) /\ m.type = "Heartbeat" BY <1>1, <2>1
  <2>4. CASE ~advances
    <3>1. chain' = [chain EXCEPT ![n] = chain[n]] /\ fsm' = [fsm EXCEPT ![n] = fsm[n]]
      BY <2>1, <2>4, ZenonT(30)
    <3>2. chain' = chain /\ fsm' = fsm BY <3>1 DEF TypeInv
    <3> QED BY <2>2, <3>2, ZenonT(30)
  <2>5. CASE advances
    <3>1. /\ chain' = [chain EXCEPT ![n] = Chain_commit(chain[n], m.commit)]
          /\ fsm' = [fsm EXCEPT ![n] = Append(@, applied(Chain_commit(chain[n], m.commit)))]
      BY <2>1, <2>5, ZenonT(30)
    <3>2. Chain_commit(chain[n], m.commit).db = chain[n].db BY <1>2, CommitFields
    <3>3. applied(Chain_commit(chain[n], m.commit)) = applied(chain[n]) BY <3>2, ZenonT(30) DEF Range_excl
    <3> HIDE DEF m
    <3> QED BY <2>1, <2>2, <2>3, <2>5, <3>1, <3>3, ZenonT(30) DEF Commits, m
  <2> QED BY <2>4, <2>5
<1>5. CASE Leader_apply_append_response(s, n)
  <2> DEFINE m == Head(net[s][n])
  <2>1. /\ Is(n, "Leader")
        /\ Receives(s, n, "AppendResponse")
        /\ Leader_acknowledge(n, chain[n], <<>>, m.node_id, m.head)
    BY <1>5, ZenonT(30) DEF Leader_apply_append_response
  <2>2. n \in Leaders BY <2>1 DEF Is, Leaders
  <2>3. m \in Messages(s, n) /\ m.type = "AppendResponse" /\ m.node_id \in Node /\ m.head \in Nat
    BY <1>1, <2>1, CommandFields, ZenonT(30)
  <2>4. 0..m.head \subseteq Ids(chain[m.node_id].db)
    BY <2>3, ZenonT(30) DEF ReplicationInv, MessagesAreTrue
  <2> HIDE DEF m
  <2> QED BY <1>2, <2>1, <2>2, <2>3, <2>4, ZenonT(30) DEF Counts, m
<1>6. ASSUME NEW req \in ClientRequest, Leader_apply_client_request(s, n, req)
      PROVE  Counts(n) \/ (chain' = chain /\ fsm' = fsm /\ raft' = raft)
  <2> DEFINE a == Chain_append(chain[n], req.id)
             sent == <<[type |-> "Notify", id |-> req.id, block_id |-> a.head,
                        address |-> req.address]>>
  <2>1. /\ Is(n, "Leader")
        /\ UNCHANGED <<raft, chain, fsm>> \/ Leader_acknowledge(n, a, sent, n, a.head)
    BY <1>6, ZenonT(30) DEF Leader_apply_client_request
  <2>2. n \in Leaders BY <2>1 DEF Is, Leaders
  <2>3. req.id \in Data /\ req.address \in Node \cup {Client} BY DEF ClientRequest, Request
  <2>4. a \in FiniteChain /\ a.head \in Nat
    <3>1. a \in FiniteChain BY <1>2, <2>3, ChainAppendType
    <3> HIDE DEF a
    <3> QED BY <3>1 DEF FiniteChain, ChainState
  <2>5. Notifies(sent, a.head, req.id) BY <2>3, ZenonT(30) DEF Notifies
  <2>6. \E data \in Data : a = Chain_append(chain[n], data) /\ Notifies(sent, a.head, data)
    BY <2>3, <2>5
  <2> HIDE DEF a, sent
  <2>7. CASE UNCHANGED <<raft, chain, fsm>> BY <2>7
  <2>8. CASE Leader_acknowledge(n, a, sent, n, a.head)
    <3>1. PICK h \in Nat : h = a.head BY <2>4
    <3> QED BY <2>2, <2>4, <2>6, <2>8, <3>1, ZenonT(30) DEF Counts
  <2> QED BY <2>1, <2>7, <2>8
<1>7. \/ Follower_apply_append_entries(s, n)
      \/ Follower_apply_heartbeat(s, n)
      \/ Leader_apply_append_response(s, n)
      \/ \E req \in ClientRequest : Leader_apply_client_request(s, n, req)
      \/ chain' = chain /\ fsm' = fsm /\ (raft[n].role # "Leader" \/ raft' = raft)
  <2>1. ASSUME NEW role, role # "Leader", Is(n, role) PROVE raft[n].role # "Leader"
    BY <2>1, ZenonT(30) DEF Is
  <2>2. "Follower" # "Leader" /\ "Candidate" # "Leader" OBVIOUS
  <2> QED BY <2>1, <2>2, ZenonT(30)
       DEF Routine, Propose, Leader_apply_heartbeat_response, Leader_apply_append_entries, Ignore,
           Follower_apply_client_request, Candidate_apply_client_request, Leader_apply_tick,
           Crash, send_task_fails, Disconnect
<1>8. raft[n].role # "Leader" => n \notin Leaders BY DEF Leaders
<1> QED BY <1>3, <1>4, <1>5, <1>6, <1>7, <1>8, ZenonT(30)
=============================================================================
