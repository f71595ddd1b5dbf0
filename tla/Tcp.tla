-------------------------------- MODULE Tcp --------------------------------
(***************************************************************************)
(* The links between nodes: raft/tcp.rs and the two ends of it in the      *)
(* event loop of raft/server.rs.                                           *)
(*                                                                         *)
(* A message for a peer passes rpc_tx, tcp_tx, the peer's channel of       *)
(* send_task, the socket, and tcp_in_tx of the receiver.  Each of these is *)
(* first-in first-out, so net[s][d] is one queue.  Its bound stands for    *)
(* the bound of the peer's channel (1000 messages): a message that finds   *)
(* it full is dropped.                                                     *)
(*                                                                         *)
(* link[s][d] is the connect_and_send task of s for d: it is connecting    *)
(* (with retries) until the connection is up, and it ends at the first     *)
(* write that fails; nothing restarts it.  Until that write a connection   *)
(* to a process that is gone is broken: it swallows what is sent.          *)
(***************************************************************************)
EXTENDS Naturals, Sequences, RaftConfig

CONSTANT Capacity    \* bound of a link's queue

ASSUME CapacityAssumption == Capacity \in Nat \ {0}

VARIABLES net, link

LinkState == {"connecting", "connected", "broken", "dead"}

Tcp_Init ==
  /\ net = [s \in Node |-> [d \in Node |-> <<>>]]
  /\ link = [s \in Node |-> [d \in Node |-> "connecting"]]

\* try_send of each of the messages, in order.
Push(queue, messages) ==
  LET all == queue \o messages
  IN IF Len(all) <= Capacity THEN all ELSE SubSeq(all, 1, Capacity)

\* send_task returns an error when it meets a message for a peer whose task
\* has ended: from then on nothing of the node is sent to anyone.
Sending(n) == \A d \in Node : link[n][d] = "dead" => net[n][d] = <<>>

Sent(n, out) ==
  [d \in Node |-> IF Sending(n) THEN Push(net[n][d], out[d]) ELSE net[n][d]]

\* The messages a handler sends: to one peer, or to all of them.
To(p, messages) == [d \in Node |-> IF d = p THEN messages ELSE <<>>]
ToPeers(n, messages) == [d \in Node |-> IF d = n THEN <<>> ELSE messages]
Nothing == [d \in Node |-> <<>>]

\* A handler that was not started by a message sends `out`.
Transmit(n, out) ==
  /\ net' = [net EXCEPT ![n] = Sent(n, out)]
  /\ UNCHANGED link

Deliverable(s, d) ==
  /\ s # d
  /\ net[s][d] # <<>>
  /\ link[s][d] \in {"connecting", "connected"}

\* A handler of d takes the first message of the link from s and sends `out`.
Exchange(s, d, out) ==
  /\ net' = [net EXCEPT ![d] = Sent(d, out), ![s][d] = Tail(@)]
  /\ link' = [link EXCEPT ![s][d] = "connected"]

\* A write of s to d fails: the task ends, what was in flight is lost.
Link_fails(s, d) ==
  /\ s # d
  /\ net[s][d] # <<>>
  /\ link[s][d] # "dead"
  /\ link' = [link EXCEPT ![s][d] = "dead"]
  /\ net' = [net EXCEPT ![s][d] = <<>>]

\* The process of d starts anew.  It connects to its peers afresh; what its
\* former process had sent can still arrive.  A peer that was connected to the
\* former process holds a broken socket, one that was still connecting connects
\* to the new process.
Tcp_restart(d) ==
  /\ link' = [s \in Node |-> [e \in Node |->
                IF s = d THEN "connecting"
                ELSE IF e = d /\ link[s][e] = "connected" THEN "broken"
                ELSE link[s][e]]]
  /\ net' = [s \in Node |-> [e \in Node |->
                IF s # d /\ e = d /\ link[s][e] = "connected" THEN <<>>
                ELSE net[s][e]]]
=============================================================================
