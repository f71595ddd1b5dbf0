--------------------------- MODULE RaftProperties ---------------------------
(***************************************************************************)
(* What the nodes of a cluster promise: properties of Raft.                *)
(***************************************************************************)
EXTENDS Raft

Leaders == {n \in Node : raft[n].role = "Leader"}

\* Type invariant of the whole cluster state.
TypeOK ==
  /\ up \in [Node -> BOOLEAN]
  /\ raft \in [Node -> RaftState]
  /\ chain \in [Node -> ChainState]
  /\ fsm \in [Node -> Seq(Instruction)]
  /\ submitted \subseteq Request
  /\ failures \in Nat
  /\ net \in [Node -> [Node -> Seq(Command)]]
  /\ link \in [Node -> [Node -> LinkState]]
-----------------------------------------------------------------------------
(* Elections *)

\* A server that never restarts wins at most one election together with all the
\* others: from the first elect() on there is one leader for good, across all
\* terms, with servers crashing and messages lost (candidate.rs:elect,
\* follower.rs:can_vote).
AtMostOneLeader == \A a, b \in Leaders : a = b

Messages(s, d) == {net[s][d][i] : i \in DOMAIN net[s][d]}

\* Messages are addressed as their fields say, and only a leader sends what a
\* leader sends.
Addressed ==
  \A s, d \in Node : \A m \in Messages(s, d) :
    /\ m.type = "VoteRequest" => m.candidate_id = s
    /\ m.type = "VoteResponse" => m.from = s /\ s # d
    /\ m.type \in {"Heartbeat", "AppendEntries"} => m.leader_id = s /\ s \in Leaders

\* v has given c its vote: counted, or on its way.
HasGranted(v, c) ==
  \/ raft[c].votes[v] = "granted"
  \/ \E m \in Messages(v, c) : m.type = "VoteResponse" /\ m.granted

\* A vote given to another node is given for good: the voter stays a follower
\* that has voted, and never gives a second node its vote.  Who counts a vote
\* for itself stands for election or leads.
VotesAreFinal ==
  \A v, c \in Node : HasGranted(v, c) =>
    /\ v # c => raft[v].role = "Follower" /\ raft[v].voted_for # None
    /\ v = c => raft[v].role # "Follower"
    /\ \A d \in Node : HasGranted(v, d) => c = d

\* A leader holds the votes of a quorum of its peers and itself.
LeaderHasQuorum ==
  \A n \in Leaders : election_status(raft[n].votes) = "Elected"

\* The inductive invariant behind AtMostOneLeader.
ElectionInv == Addressed /\ VotesAreFinal /\ LeaderHasQuorum

\* The panic "this should never happen" of a candidate's tick is not reachable:
\* every answer that decides an election ends the candidacy (candidate.rs:63).
CandidateIsUndecided ==
  \A n \in Node : raft[n].role = "Candidate" => election_status(raft[n].votes) = "Voting"
-----------------------------------------------------------------------------
(* Replication *)

\* The assertion of Chain::append never fails: the id generator of a leader
\* that has not restarted is above its head, although extend moves the head and
\* not the generator (chain.rs:163).
LeaderCanAppend == \A n \in Leaders : Chain_can_append(chain[n])

\* Wherever two nodes store a block of the same id it is the same block: with
\* one leader, followers' chains never conflict with its own (chain.rs:extend
\* overwrites without comparing).
ChainsAgree ==
  \A a, b \in Node : \A x \in chain[a].db, y \in chain[b].db : x.id = y.id => x = y

\* What the leader takes as replicated to a node is stored there with all that
\* precedes it, although a follower's head can fall back (progress.rs:advance,
\* chain.rs:extend), and a batch always fits: its first block extends a stored one.
ProgressIsStored ==
  \A n \in Leaders, p \in Node :
    0..raft[n].progress[p].head \subseteq Ids(chain[p].db)

\* A majority of the nodes stores the block.
StoredByMajority(block_id) ==
  2 * Cardinality({p \in Node : Chain_has(chain[p], block_id)}) > Cardinality(Node)

\* A block the leader has committed is stored by a majority of the nodes
\* (progress.rs:committed_index, leader.rs:commit), and no node commits a block
\* before the leader has (follower.rs:apply_heartbeat).
CommittedByMajority ==
  \A n \in Node : chain[n].commit > 0 =>
    /\ \E l \in Leaders : chain[n].commit <= chain[l].commit
    /\ StoredByMajority(chain[n].commit)

\* Another node leads.
Follows(n) == \E l \in Leaders : l # n

\* Blocks 0 to the head, and the generator at the next.
Unbroken(c) == c.id_gen = c.head + 1 /\ Ids(c.db) = 0..c.head

\* What a node stores: blocks of the leader, one per id, and numbered without a
\* gap if no other node can have sent it any.
ChainsAreLeaders ==
  \A n \in Node :
    /\ GenesisBlock \in chain[n].db
    /\ \A x, y \in chain[n].db : x.id = y.id => x = y
    /\ \A b \in chain[n].db : b = GenesisBlock \/ \E l \in Leaders : b \in chain[l].db
    /\ Follows(n) \/ Unbroken(chain[n])

\* What is on its way: blocks of the sender that leave no gap at the receiver,
\* acknowledgements of what is stored, and what the sender has committed.
MessagesAreTrue ==
  \A s, d \in Node : \A m \in Messages(s, d) :
    /\ m.type = "AppendEntries" =>
         /\ m.blocks \subseteq chain[s].db
         /\ \A b \in m.blocks : 0..b.id \subseteq Ids(m.blocks) \cup Ids(chain[d].db)
    /\ m.type = "AppendResponse" => 0..m.head \subseteq Ids(chain[m.node_id].db)
    /\ m.type = "Heartbeat" =>
         /\ m.commit <= chain[s].commit
         /\ m.commit > 0 => StoredByMajority(m.commit)

\* The inductive invariant behind ChainsAgree, LeaderCanAppend, ProgressIsStored
\* and CommittedByMajority: every chain is a part of the leader's, and every
\* message about chains is true of them when it arrives, however late
\* (leader.rs:replicate, follower.rs:apply_append_entries, apply_heartbeat).
ReplicationInv ==
  /\ ChainsAreLeaders
  /\ MessagesAreTrue
  /\ ProgressIsStored
  /\ CommittedByMajority

\* The blocks that a queue of instructions applies, with the place of the
\* instruction.
Slots(queue) ==
  UNION {{<<i, b>> : b \in queue[i].blocks} :
           i \in {i \in DOMAIN queue : queue[i].type = "Apply"}}

\* One of the first k instructions tells whom to answer for the block.
Notified(queue, b, k) ==
  \E j \in 1..k : /\ queue[j].type = "Notify"
                  /\ queue[j].block_id = b.id
                  /\ queue[j].id = b.data

\* The driver knows whom to answer before it applies the block: it is told of
\* the request first, even when appending the block commits it (fsm.rs:run).
NotifiedBeforeApplied ==
  \A n \in Leaders : \A s \in Slots(fsm[n]) : Notified(fsm[n], s[2], s[1] - 1)

\* A chain has no gap below any of its blocks.
GapFree == \A n \in Node : \A b \in chain[n].db : 0..b.id \subseteq Ids(chain[n].db)

\* The queue applies the blocks of db with these ids, each once and in order.
AppliesInOrder(queue, db, ids) ==
  /\ \A s \in Slots(queue) : s[2] \in db
  /\ \A s, t \in Slots(queue) : s[1] < t[1] => s[2].id < t[2].id
  /\ {s[2].id : s \in Slots(queue)} = ids

\* What the drivers are given: the leader's is told of every block that the
\* leader appended and applies them all up to the committed one
\* (leader.rs:apply_client_request, commit), any other applies all below the
\* committed one of its node, the first block included
\* (follower.rs:apply_heartbeat).
DriversFollow ==
  \A l \in Leaders :
    /\ \A b \in chain[l].db : b.id # 0 => Notified(fsm[l], b, Len(fsm[l]))
    /\ AppliesInOrder(fsm[l], chain[l].db, 1..chain[l].commit)
    /\ \A n \in Node \ {l} :
         AppliesInOrder(fsm[n], chain[l].db, 0..(chain[n].commit - 1))

\* The inductive invariant behind NotifiedBeforeApplied and what the state
\* machines execute: before the first leader no driver is told anything.
DeliveryInv ==
  /\ Leaders = {} => \A n \in Node : fsm[n] = <<>>
  /\ GapFree
  /\ DriversFollow
  /\ NotifiedBeforeApplied

\* The order in which a driver executes what it is given: instruction by
\* instruction, the blocks of one instruction in the order of their ids.
Precedes(s, t) == s[1] < t[1] \/ (s[1] = t[1] /\ s[2].id <= t[2].id)

\* The proposals of a set of slots <<place, block>> in that order.
InOrder(slots) ==
  LET rank(s) == Cardinality({t \in slots : Precedes(t, s)})
  IN [k \in 1..Cardinality(slots) |-> (CHOOSE s \in slots : rank(s) = k)[2].data]

\* The blocks that some node has committed.
Committed == UNION {{b \in chain[n].db : b.id <= chain[n].commit} : n \in Node}

\* The committed proposals.  The first block carries none: the driver skips it
\* (fsm.rs:run).
CommittedLog == InOrder({<<1, b>> : b \in {b \in Committed : b.id # 0}})

\* What the instructions sent to the driver of n make it execute.
Executed(n) == InOrder({s \in Slots(fsm[n]) : s[2].id # 0})

Positions(queue, req) ==
  {i \in DOMAIN queue : queue[i].type = "ClientRequest" /\ queue[i].id = req}

\* The places a request can be in: waiting at a node, on a link, in a block of
\* the leader.
Waiting(req) ==
  UNION {{<<"queue", n, i>> : i \in Positions(raft[n].queued_reqs, req)} : n \in Node}
Proxied(req) ==
  UNION {{<<"link", l, i>> : i \in Positions(net[l[1]][l[2]], req)} : l \in Node \X Node}
Appended(req) ==
  UNION {{<<"block", n, b>> : b \in {b \in chain[n].db : b.data = req}} : n \in Leaders}

Places(req) == Waiting(req) \cup Proxied(req) \cup Appended(req)

\* A request is never in two places, however often it is queued, flushed to the
\* leader by a heartbeat, proxied and received (follower.rs:apply_heartbeat,
\* apply_client_request): no request is executed twice.
RequestIsInOnePlace == \A req \in Request : \A p, q \in Places(req) : p = q

\* The inductive invariant behind RequestIsInOnePlace: a request that is
\* somewhere has been made, and is not made again.
RequestInv ==
  \A req \in Request : \A p, q \in Places(req) : p = q /\ req \in submitted
-----------------------------------------------------------------------------
(* Storage, with restarts *)

\* Every stored block's parent is stored, and so are the head and the committed
\* block, in every run with or without restarts: the check of extend and the
\* choice of `next` in append keep the graph closed (chain.rs).
ChainIsClosed ==
  \A n \in Node :
    /\ \A b \in chain[n].db : Chain_has(chain[n], b.next)
    /\ Chain_has(chain[n], chain[n].head)
    /\ Chain_has(chain[n], chain[n].commit)

\* A node's committed id never goes back, over restarts too.
CommitNeverRegresses ==
  [][\A n \in Node : chain'[n].commit >= chain[n].commit]_vars

\* The committed chain is stable: no two nodes commit different blocks under the
\* same id ("the guaranteed stable commit" of raft/mod.rs).  Without restarts
\* ChainsAgree implies it.
CommitsAgree ==
  \A a, b \in Node : \A x \in chain[a].db, y \in chain[b].db :
    x.id = y.id /\ x.id <= chain[a].commit /\ y.id <= chain[b].commit => x = y
-----------------------------------------------------------------------------
(* What comments of the code say *)

\* "Errors should occur for only truly exceptional conditions" (raft/mod.rs): a
\* leader can always read the blocks it replicates.
LeaderCanReplicate == \A n \in Node : Is(n, "Leader") => ~replicate_panics(n)
\* "Some(in_msg) => assert_eq!(out_msg, in_msg)" (the test read_message of
\* raft/tcp.rs): the receiver of a connection reads back what was sent, every
\* command that a handler sends included.
SentIsRead == \A s, d \in Node : Deliverable(s, d) => Decodes(Head(net[s][d]))
-----------------------------------------------------------------------------
(* Liveness *)

\* Once a node leads and no server or connection fails, every other node comes
\* to follow it and stays so, candidates of other terms included
\* (leader.rs:heartbeat, candidate.rs:apply_heartbeat).
LeaderIsFollowed ==
  Leaders # {} ~> [](\E l \in Leaders : \A n \in Node \ {l} : raft[n].leader_id = l)

\* The first block a leader appends gets committed, although probes, blocks and
\* acknowledgements may be dropped by full channels (leader.rs:replicate,
\* progress.rs:advance).
FirstBlockCommits ==
  \A l \in Node : (raft[l].role = "Leader" /\ chain[l].head > 0) ~> (chain[l].commit > 0)
=============================================================================
