-------------------------------- MODULE Raft --------------------------------
(***************************************************************************)
(* The replicated state machine: the handlers of raft/follower.rs,         *)
(* raft/candidate.rs and raft/leader.rs over the links of Tcp and the      *)
(* chains of ChainOps, one step per applied command.                       *)
(*                                                                         *)
(* A handler that panics or returns an error ends the event loop and with  *)
(* it the node (raft/server.rs, try_join!): up[n] becomes FALSE, what the  *)
(* handler sent is still in the event loop's channel and is lost.          *)
(*                                                                         *)
(* Timers are not modelled: an election or a heartbeat may be due at any   *)
(* tick.  Fields of a command that no handler reads (the term of a         *)
(* VoteResponse, the term and success of an AppendResponse) are left out.  *)
(***************************************************************************)
EXTENDS Naturals, Sequences, FiniteSets, Election, Progress, ChainOps, Tcp

CONSTANTS Client,       \* Address::Client
          ClientNode,   \* the nodes that clients are connected to
          Codec,        \* how messages are written to the sockets
          MaxTerm,      \* bound on the terms elections start
          MaxFailures   \* bound on crashes, lost connections and restarts

\* The code writes messages as JSON and blocks, to the store, with bincode.
ASSUME CodecAssumption == Codec \in {"json", "bincode"}

\* A client's proposal is the payload of a block; each is submitted once.
Request == Data

VARIABLES up,         \* whether the node's server is running
          raft,       \* the struct Raft of each node
          chain,      \* its chain
          fsm,        \* the instructions sent to its state machine driver
          submitted,  \* the requests clients have made
          failures    \* crashes, lost connections and restarts so far

vars == <<up, raft, chain, fsm, submitted, failures, net, link>>
-----------------------------------------------------------------------------
(* Commands and state *)

ClientRequest == [type : {"ClientRequest"}, id : Request, address : Node \cup {Client}]
ClientResponse == [type : {"ClientResponse"}, id : Request]

Command ==
       [type : {"VoteRequest"}, term : Nat, candidate_id : Node, last_term : Nat, head : Nat]
  \cup [type : {"VoteResponse"}, from : Node, granted : BOOLEAN]
  \cup [type : {"AppendEntries"}, term : Nat, leader_id : Node, blocks : SUBSET Block]
  \cup [type : {"AppendResponse"}, node_id : Node, head : Nat]
  \cup [type : {"Heartbeat"}, term : Nat, commit : Nat, leader_id : Node]
  \cup [type : {"HeartbeatResponse"}, commit : Nat, has_committed : BOOLEAN]
  \cup ClientRequest
  \cup ClientResponse

\* One Apply instruction per block of `blocks`, in ascending order.
Instruction ==
       [type : {"Apply"}, blocks : SUBSET Block]
  \cup [type : {"Notify"}, id : Request, block_id : Nat, address : Node \cup {Client}]

\* The fields of State, and those of the three roles.  leader_id and
\* proxied_reqs belong to a follower, votes to a candidate, progress to a
\* leader, queued_reqs to a follower or a candidate; in another role they
\* have their initial value, except that a leader's votes stay as a record of
\* the election it won.
RaftState ==
  [role : {"Follower", "Candidate", "Leader"},
   current_term : Nat, voted_for : Node \cup {None}, leader_id : Node \cup {None},
   votes : Votes, progress : ReplicationProgress,
   queued_reqs : Seq(ClientRequest), proxied_reqs : SUBSET Request]

Follower_new ==
  [role |-> "Follower", current_term |-> 0, voted_for |-> None, leader_id |-> None,
   votes |-> Election_new, progress |-> ReplicationProgress_new,
   queued_reqs |-> <<>>, proxied_reqs |-> {}]

Init ==
  /\ up = [n \in Node |-> TRUE]
  /\ raft = [n \in Node |-> Follower_new]
  /\ chain = [n \in Node |-> Chain_new({}, 0)]
  /\ fsm = [n \in Node |-> <<>>]
  /\ submitted = {}
  /\ failures = 0
  /\ Tcp_Init
-----------------------------------------------------------------------------
(* Changes of role *)

Follower_to_Candidate(r) ==
  [r EXCEPT !.role = "Candidate", !.leader_id = None, !.votes = Election_new,
            !.queued_reqs = <<>>, !.proxied_reqs = {}]

Candidate_to_Follower(r) ==
  [r EXCEPT !.role = "Follower", !.votes = Election_new]

Candidate_to_Leader(r) ==
  [r EXCEPT !.role = "Leader", !.progress = ReplicationProgress_new, !.queued_reqs = <<>>]

\* Raft::term with the role's own term(): a follower forgets its leader, a
\* candidate its votes.
term(r, t) ==
  [r EXCEPT !.voted_for = None, !.current_term = t,
            !.leader_id = None, !.votes = Election_new]
-----------------------------------------------------------------------------
(* Steps *)

Is(n, role) == up[n] /\ raft[n].role = role

\* Whether a block id can be read back: it is read as a borrowed byte slice,
\* which bincode lends; JSON has an array of numbers in its place, an error.
deserialize_block_id == Codec = "bincode"

HasBlockId(m) ==
  \/ m.type \in {"VoteRequest", "AppendResponse", "Heartbeat", "HeartbeatResponse"}
  \/ m.type = "AppendEntries" /\ m.blocks # {}

Decodes(m) == HasBlockId(m) => deserialize_block_id

\* The event loop of n hands it the next command of the link from s.
Receives(s, n, type) ==
  /\ Deliverable(s, n)
  /\ Decodes(Head(net[s][n]))
  /\ Head(net[s][n]).type = type

Heartbeat(n, r) ==
  [type |-> "Heartbeat", term |-> r.current_term, commit |-> chain[n].commit, leader_id |-> n]

\* Mutant: a defeat is not acted on.
apply_vote_response_undefeated(r, from, granted) ==
  LET e == [r EXCEPT !.votes = vote(@, from, granted)]
  IN IF election_status(e.votes) = "Elected" THEN Candidate_to_Leader(e) ELSE e

\* What an election comes to once the vote is counted.
apply_vote_response(r, from, granted) ==
  LET e == [r EXCEPT !.votes = vote(@, from, granted)]
      status == election_status(e.votes)
  IN CASE status = "Elected"  -> Candidate_to_Leader(e)
       [] status = "Defeated" -> Candidate_to_Follower([e EXCEPT !.voted_for = None])
       [] OTHER               -> e

\* The heartbeat that elect() sends.
elect(n, r) == IF r.role = "Leader" THEN <<Heartbeat(n, r)>> ELSE <<>>

\* A new candidate asks for votes, once for each of its peers and every time
\* all of them, and votes for itself.
seek_election(n) ==
  LET c == [Follower_to_Candidate(raft[n]) EXCEPT !.voted_for = n, !.current_term = @ + 1]
      request == [type |-> "VoteRequest", term |-> c.current_term, candidate_id |-> n,
                  last_term |-> c.current_term, head |-> chain[n].head]
      r == apply_vote_response(c, n, TRUE)
  IN /\ c.current_term <= MaxTerm
     /\ raft' = [raft EXCEPT ![n] = r]
     /\ Transmit(n, ToPeers(n, [i \in 1..(Cardinality(Node) - 1) |-> request] \o elect(n, r)))
     /\ UNCHANGED <<up, chain, fsm, submitted, failures>>

\* apply_tick with a due election, and the apply_timeout it leads to.
Follower_apply_tick(n) ==
  /\ Is(n, "Follower")
  /\ raft[n].voted_for = None
  /\ seek_election(n)

Follower_apply_append_entries(s, n) ==
  /\ Is(n, "Follower")
  /\ Receives(s, n, "AppendEntries")
  /\ LET m == Head(net[s][n])
         adopts == raft[n].voted_for = None /\ m.term >= raft[n].current_term
         r == IF adopts
              THEN [term(raft[n], m.term) EXCEPT !.leader_id = m.leader_id,
                                                 !.voted_for = m.leader_id]
              ELSE raft[n]
         asserts == r.voted_for \in {None, m.leader_id} \/ m.term >= r.current_term
         stored == IF asserts THEN Extendable(chain[n], m.blocks) ELSE {}
         c == Chain_extend(chain[n], stored)
         ok == asserts /\ stored = m.blocks
         response == [type |-> "AppendResponse", node_id |-> n, head |-> c.head]
     IN /\ up' = [up EXCEPT ![n] = ok]
        /\ raft' = [raft EXCEPT ![n] = r]
        /\ chain' = [chain EXCEPT ![n] = c]
        /\ Exchange(s, n, IF ok /\ m.blocks # {} THEN To(m.leader_id, <<response>>) ELSE Nothing)
  /\ UNCHANGED <<fsm, submitted, failures>>

\* Every heartbeat is obeyed, whatever its term.  The queued requests go to
\* the leader; when the leader's committed block is stored and new, it is
\* committed and the blocks from the previously committed one on, the new one
\* excluded, go to the state machine.
Follower_apply_heartbeat(s, n) ==
  /\ Is(n, "Follower")
  /\ Receives(s, n, "Heartbeat")
  /\ LET m == Head(net[s][n])
         queued == raft[n].queued_reqs
         has_committed == Chain_has(chain[n], m.commit)
         advances == has_committed /\ m.commit > chain[n].commit
         c == IF advances THEN Chain_commit(chain[n], m.commit) ELSE chain[n]
         applied == [type |-> "Apply", blocks |-> Range_excl(c, chain[n].commit, m.commit)]
         response == [type |-> "HeartbeatResponse", commit |-> c.commit,
                      has_committed |-> has_committed]
     IN /\ raft' = [raft EXCEPT ![n] =
              [term(raft[n], m.term) EXCEPT
                 !.leader_id = m.leader_id, !.voted_for = m.leader_id,
                 !.queued_reqs = <<>>,
                 !.proxied_reqs = @ \cup {queued[i].id : i \in DOMAIN queued}]]
        /\ chain' = [chain EXCEPT ![n] = c]
        /\ fsm' = [fsm EXCEPT ![n] = IF advances THEN Append(@, applied) ELSE @]
        /\ Exchange(s, n, To(m.leader_id, Append(queued, response)))
  /\ UNCHANGED <<up, submitted, failures>>

\* Mutant: an earlier vote is not looked at.
can_vote_again(n, last_term, head) ==
  /\ raft[n].current_term <= last_term
  /\ chain[n].commit <= head

can_vote(n, last_term, head) ==
  /\ raft[n].voted_for = None
  /\ raft[n].current_term <= last_term
  /\ chain[n].commit <= head

\* A vote leaves the voter's term as it is.
Follower_apply_vote_request(s, n) ==
  /\ Is(n, "Follower")
  /\ Receives(s, n, "VoteRequest")
  /\ LET m == Head(net[s][n])
         granted == can_vote(n, m.last_term, m.head)
         response == [type |-> "VoteResponse", from |-> n, granted |-> granted]
     IN /\ raft' = [raft EXCEPT ![n].voted_for = IF granted THEN m.candidate_id ELSE @]
        /\ Exchange(s, n, To(m.candidate_id, <<response>>))
  /\ UNCHANGED <<up, chain, fsm, submitted, failures>>

\* apply_tick with a due election: the candidate becomes a follower without a
\* vote, whose Timeout makes it a candidate again, its queued requests dropped.
\* An elected candidate would panic.
Candidate_apply_tick(n) ==
  /\ Is(n, "Candidate")
  /\ election_status(raft[n].votes) # "Elected"
  /\ seek_election(n)

Candidate_apply_vote_request(s, n) ==
  /\ Is(n, "Candidate")
  /\ Receives(s, n, "VoteRequest")
  /\ LET m == Head(net[s][n])
         response == [type |-> "VoteResponse", from |-> n, granted |-> FALSE]
     IN \/ /\ m.term > raft[n].current_term
           /\ raft' = [raft EXCEPT ![n] = Candidate_to_Follower(term(@, m.term))]
           /\ Exchange(s, n, Nothing)
        \/ /\ m.term <= raft[n].current_term
           /\ Exchange(s, n, To(m.candidate_id, <<response>>))
           /\ UNCHANGED raft
  /\ UNCHANGED <<up, chain, fsm, submitted, failures>>

\* A vote counts whatever term it was given in.
Candidate_apply_vote_response(s, n) ==
  /\ Is(n, "Candidate")
  /\ Receives(s, n, "VoteResponse")
  /\ LET m == Head(net[s][n])
         r == apply_vote_response(raft[n], m.from, m.granted)
     IN /\ raft' = [raft EXCEPT ![n] = r]
        /\ Exchange(s, n, ToPeers(n, elect(n, r)))
  /\ UNCHANGED <<up, chain, fsm, submitted, failures>>

\* The blocks of the message are dropped; the vote for itself is kept.
Candidate_apply_append_entries(s, n) ==
  /\ Is(n, "Candidate")
  /\ Receives(s, n, "AppendEntries")
  /\ raft' = [raft EXCEPT ![n] = IF Head(net[s][n]).term >= @.current_term
                                 THEN Candidate_to_Follower(@) ELSE @]
  /\ Exchange(s, n, Nothing)
  /\ UNCHANGED <<up, chain, fsm, submitted, failures>>

\* Mutant: a heartbeat of the candidate's own term is passed over.
Candidate_apply_heartbeat_stays(s, n) ==
  /\ Is(n, "Candidate")
  /\ Receives(s, n, "Heartbeat")
  /\ raft' = [raft EXCEPT ![n] = IF Head(net[s][n]).term > @.current_term
                                 THEN Candidate_to_Follower(@) ELSE @]
  /\ Exchange(s, n, Nothing)
  /\ UNCHANGED <<up, chain, fsm, submitted, failures>>

Candidate_apply_heartbeat(s, n) ==
  /\ Is(n, "Candidate")
  /\ Receives(s, n, "Heartbeat")
  /\ LET m == Head(net[s][n])
         response == [type |-> "HeartbeatResponse", commit |-> chain[n].commit,
                      has_committed |-> Chain_has(chain[n], m.commit)]
     IN /\ raft' = [raft EXCEPT ![n] =
              Candidate_to_Follower([term(@, m.term) EXCEPT !.voted_for = m.leader_id])]
        /\ Exchange(s, n, To(m.leader_id, <<response>>))
  /\ UNCHANGED <<up, chain, fsm, submitted, failures>>

\* A request reaches the event loop of n: from a client of n (s = n), or
\* proxied by the follower s.
Arrives(s, n, req) ==
  \/ /\ s = n
     /\ n \in ClientNode
     /\ req.address = Client
     /\ req.id \notin submitted
     /\ submitted' = submitted \cup {req.id}
  \/ /\ Receives(s, n, "ClientRequest")
     /\ req = Head(net[s][n])
     /\ UNCHANGED submitted

\* Mutant: the command stays in the channel it was read from.
Hand_again(s, n, out) == Transmit(n, out)

Hand(s, n, out) == IF s = n THEN Transmit(n, out) ELSE Exchange(s, n, out)

\* Mutant: the address is left as it is.
Follower_apply_client_request_as_is(s, n, req) ==
  /\ Is(n, "Follower")
  /\ raft[n].leader_id # None
  /\ Arrives(s, n, req)
  /\ raft' = [raft EXCEPT ![n].proxied_reqs = @ \cup {req.id}]
  /\ Hand(s, n, To(raft[n].leader_id, <<req>>))
  /\ UNCHANGED <<up, chain, fsm, failures>>

\* The address becomes the follower's own; without a known leader the request
\* waits for a heartbeat.
Follower_apply_client_request(s, n, req) ==
  /\ Is(n, "Follower")
  /\ Arrives(s, n, req)
  /\ LET mine == [req EXCEPT !.address = n]
         leader == raft[n].leader_id
     IN \/ /\ leader # None
           /\ raft' = [raft EXCEPT ![n].proxied_reqs = @ \cup {req.id}]
           /\ Hand(s, n, To(leader, <<mine>>))
        \/ /\ leader = None
           /\ raft' = [raft EXCEPT ![n].queued_reqs = Append(@, mine)]
           /\ Hand(s, n, Nothing)
  /\ UNCHANGED <<up, chain, fsm, failures>>

\* The address is left as it is.
Candidate_apply_client_request(s, n, req) ==
  /\ Is(n, "Candidate")
  /\ Arrives(s, n, req)
  /\ raft' = [raft EXCEPT ![n].queued_reqs = Append(@, req)]
  /\ Hand(s, n, Nothing)
  /\ UNCHANGED <<up, chain, fsm, failures>>

\* Mutant: the driver is told whom to answer after the block is applied.
Leader_acknowledge_late(n, c, sent, node_id, head) ==
  LET progress == advance(raft[n].progress, node_id, head)
      quorum_idx == committed_index(progress)
      commits == quorum_idx > c.commit /\ Chain_has(c, quorum_idx)
      applied == [type |-> "Apply", blocks |-> Skip1(Range_incl(c, c.commit, quorum_idx))]
  IN /\ raft' = [raft EXCEPT ![n].progress = progress]
     /\ chain' = [chain EXCEPT ![n] = IF commits THEN Chain_commit(c, quorum_idx) ELSE c]
     /\ fsm' = [fsm EXCEPT ![n] = @ \o (IF commits THEN <<applied>> ELSE <<>>) \o sent]
     /\ UNCHANGED up

\* apply_append_response and the commit() it ends with: node_id has stored the
\* leader's chain up to `head`.  `sent` is what the handler already told the
\* driver.
Leader_acknowledge(n, c, sent, node_id, head) ==
  LET progress == advance(raft[n].progress, node_id, head)
      quorum_idx == committed_index(progress)
      commits == quorum_idx > c.commit
      new == IF commits THEN Chain_commit(c, quorum_idx) ELSE c
      ok == commits => Chain_has(c, quorum_idx)
      applied == [type |-> "Apply", blocks |-> Skip1(Range_incl(c, c.commit, quorum_idx))]
  IN /\ up' = [up EXCEPT ![n] = ok]
     /\ raft' = [raft EXCEPT ![n].progress = progress]
     /\ chain' = [chain EXCEPT ![n] = new]
     /\ fsm' = [fsm EXCEPT ![n] = @ \o sent \o IF commits /\ ok THEN <<applied>> ELSE <<>>]

Leader_apply_append_response(s, n) ==
  /\ Is(n, "Leader")
  /\ Receives(s, n, "AppendResponse")
  /\ Leader_acknowledge(n, chain[n], <<>>, Head(net[s][n]).node_id, Head(net[s][n]).head)
  /\ Exchange(s, n, Nothing)
  /\ UNCHANGED <<submitted, failures>>

\* The request becomes a block that the leader acknowledges itself.  A block id
\* that is not above the head is a panic.
Leader_apply_client_request(s, n, req) ==
  /\ Is(n, "Leader")
  /\ Arrives(s, n, req)
  /\ \/ /\ Chain_can_append(chain[n])
        /\ LET c == Chain_append(chain[n], req.id)
               notify == [type |-> "Notify", id |-> req.id, block_id |-> c.head,
                          address |-> req.address]
           IN Leader_acknowledge(n, c, <<notify>>, n, c.head)
     \/ /\ ~Chain_can_append(chain[n])
        /\ up' = [up EXCEPT ![n] = FALSE]
        /\ UNCHANGED <<raft, chain, fsm>>
  /\ Hand(s, n, Nothing)
  /\ UNCHANGED failures

\* replicate(): one AppendEntries to every peer, with the blocks that follow
\* the head it acknowledged.
AppendEntries(n, p) ==
  LET progress == raft[n].progress[p]
  IN [type |-> "AppendEntries", term |-> raft[n].current_term, leader_id |-> n,
      blocks |-> Skip1Take(RangeFrom(chain[n], progress.head), batch_limit(progress))]

replicate(n) == [p \in Node |-> IF p = n THEN <<>> ELSE <<AppendEntries(n, p)>>]

replicate_panics(n) ==
  \E p \in Node \ {n} :
     LET progress == raft[n].progress[p]
     IN ReadsCommitKey(chain[n], progress.head, 1 + batch_limit(progress))

Stops(n) == up' = [up EXCEPT ![n] = FALSE]

\* `due` is needs_heartbeat().
Leader_apply_tick(n, due) ==
  /\ Is(n, "Leader")
  /\ \/ /\ ~replicate_panics(n)
        /\ LET beat == ToPeers(n, IF due THEN <<Heartbeat(n, raft[n])>> ELSE <<>>)
           IN Transmit(n, [p \in Node |-> beat[p] \o replicate(n)[p]])
        /\ UNCHANGED up
     \/ /\ replicate_panics(n)
        /\ Stops(n)
        /\ UNCHANGED <<net, link>>
  /\ UNCHANGED <<raft, chain, fsm, submitted, failures>>

Leader_apply_heartbeat_response(s, n) ==
  /\ Is(n, "Leader")
  /\ Receives(s, n, "HeartbeatResponse")
  /\ LET m == Head(net[s][n])
         replicates == ~m.has_committed /\ m.commit > 0
         panics == replicates /\ replicate_panics(n)
     IN /\ up' = [up EXCEPT ![n] = ~panics]
        /\ Exchange(s, n, IF replicates /\ ~panics THEN replicate(n) ELSE Nothing)
  /\ UNCHANGED <<raft, chain, fsm, submitted, failures>>

\* A higher term reaches Leader::term, which is unimplemented!().
Leader_apply_append_entries(s, n) ==
  /\ Is(n, "Leader")
  /\ Receives(s, n, "AppendEntries")
  /\ up' = [up EXCEPT ![n] = Head(net[s][n]).term <= raft[n].current_term]
  /\ Exchange(s, n, Nothing)
  /\ UNCHANGED <<raft, chain, fsm, submitted, failures>>

\* The commands that a role's apply() passes over.
Ignored == [Follower  |-> {"VoteResponse", "AppendResponse", "HeartbeatResponse"},
            Candidate |-> {"AppendResponse", "HeartbeatResponse"},
            Leader    |-> {"VoteRequest", "VoteResponse", "Heartbeat"}]

Ignore(s, n) ==
  /\ up[n]
  /\ \E type \in Ignored[raft[n].role] : Receives(s, n, type)
  /\ Exchange(s, n, Nothing)
  /\ UNCHANGED <<up, raft, chain, fsm, submitted, failures>>
-----------------------------------------------------------------------------
(* Failures *)

Crash(n) ==
  /\ up[n]
  /\ failures < MaxFailures
  /\ failures' = failures + 1
  /\ Stops(n)
  /\ UNCHANGED <<raft, chain, fsm, submitted, net, link>>

\* A connection has no reader when one of the two servers is down or has been
\* replaced, or once stream_messages meets a message that does not decode.
Unread(s, d) ==
  \/ ~(up[s] /\ up[d])
  \/ link[s][d] = "broken"
  \/ ~Decodes(Head(net[s][d]))

\* A connection fails: on its own, or because nothing reads it.
Disconnect(s, d) ==
  /\ Link_fails(s, d)
  /\ \/ /\ ~Unread(s, d)
        /\ failures < MaxFailures
        /\ failures' = failures + 1
     \/ /\ Unread(s, d)
        /\ UNCHANGED failures
  /\ UNCHANGED <<up, raft, chain, fsm, submitted>>

\* send_task returns the error of a closed channel, which ends the server.
send_task_fails(n) ==
  /\ up[n]
  /\ ~Sending(n)
  /\ Stops(n)
  /\ UNCHANGED <<raft, chain, fsm, submitted, failures, net, link>>

\* The process is started again over the store it left.
Restart(n) ==
  /\ ~up[n]
  /\ failures < MaxFailures
  /\ failures' = failures + 1
  /\ up' = [up EXCEPT ![n] = TRUE]
  /\ raft' = [raft EXCEPT ![n] = Follower_new]
  /\ chain' = [chain EXCEPT ![n] = Chain_new(@.db, @.commit)]
  /\ fsm' = [fsm EXCEPT ![n] = <<>>]
  /\ Tcp_restart(n)
  /\ UNCHANGED submitted
-----------------------------------------------------------------------------
Apply(s, n) ==
  \/ Follower_apply_append_entries(s, n)
  \/ Follower_apply_heartbeat(s, n)
  \/ Follower_apply_vote_request(s, n)
  \/ Candidate_apply_vote_request(s, n)
  \/ Candidate_apply_vote_response(s, n)
  \/ Candidate_apply_append_entries(s, n)
  \/ Candidate_apply_heartbeat(s, n)
  \/ Leader_apply_append_response(s, n)
  \/ Leader_apply_heartbeat_response(s, n)
  \/ Leader_apply_append_entries(s, n)
  \/ Ignore(s, n)

Tick(n) ==
  \/ Follower_apply_tick(n)
  \/ Candidate_apply_tick(n)
  \/ \E due \in BOOLEAN : Leader_apply_tick(n, due)

Propose(s, n, req) ==
  \/ Follower_apply_client_request(s, n, req)
  \/ Candidate_apply_client_request(s, n, req)
  \/ Leader_apply_client_request(s, n, req)

Next ==
  \/ \E s, n \in Node : Apply(s, n)
  \/ \E n \in Node : Tick(n)
  \/ \E s, n \in Node, req \in ClientRequest : Propose(s, n, req)
  \/ \E n \in Node : Crash(n) \/ send_task_fails(n)
  \/ \E s, d \in Node : Disconnect(s, d)

\* Servers that stop stay down.
Spec == Init /\ [][Next]_vars

\* Servers that stop may be started again.
NextRestart == Next \/ \E n \in Node : Restart(n)

SpecRestart == Init /\ [][NextRestart]_vars

\* Fairness.  The event loop selects among its ready channels at random, so a
\* message that stays receivable is received.
EventLoopFairness ==
  /\ \A s, n \in Node : WF_vars(Apply(s, n))
  /\ \A s, n \in Node : WF_vars(s # n /\ \E req \in ClientRequest : Propose(s, n, req))

\* The channels hold 1000 messages and a tick sends two to each peer, so no
\* channel between running servers is full for ever.
HasRoom(s, d) == Len(net[s][d]) < Capacity

\* A leader keeps ticking with a heartbeat due.
HeartbeatFairness ==
  \A d \in Node : SF_vars(\E n \in Node \ {d} : HasRoom(n, d) /\ Leader_apply_tick(n, TRUE))

\* A leader keeps ticking without one, and of the AppendEntries that a follower
\* handles ever again, some are answered over a channel that has room.
ReplicationFairness ==
  \A d \in Node :
    /\ SF_vars(\E n \in Node \ {d} : HasRoom(n, d) /\ Leader_apply_tick(n, FALSE))
    /\ \/ <>[][~\E s \in Node : Follower_apply_append_entries(s, d)]_vars
       \/ []<><<\E s \in Node : HasRoom(d, s) /\ Follower_apply_append_entries(s, d)>>_vars

FairSpec == Spec /\ EventLoopFairness /\ HeartbeatFairness
=============================================================================
