------------------------------- MODULE Server -------------------------------
(***************************************************************************)
(* A whole raft server: Raft with the rest of the event loop of            *)
(* raft/server.rs (the table of waiting requests, the answers to clients), *)
(* the driver of raft/fsm.rs, which executes committed blocks in a task of *)
(* its own, and the clients of raft/client.rs.                             *)
(*                                                                         *)
(* A request's id stands for the request.  What a handler or the driver    *)
(* sends to a peer passes the same channels as all other messages and goes *)
(* to net at once; what it sends to a client waits in rpc for the event    *)
(* loop of the same server.                                                *)
(***************************************************************************)
EXTENDS RaftProperties, Functions

VARIABLES requests,       \* per server: the requests of its table
          rpc,            \* per server: ClientResponses for its own clients
          notifications,  \* per driver: whom to answer when a block is executed
          driven,         \* per driver: the place of the last instruction it has dealt with
          executed,       \* per state machine: the requests executed, in order
          answered        \* the requests whose clients have their answer

driverVars == <<notifications, driven, executed>>
serverVars == <<requests, rpc, driverVars, answered>>
allVars == <<vars, serverVars>>

\* An entry of the table holds the sender of a client that waits, or one whose
\* receiver was dropped where it was made.
Entry == {"absent", "waiting", "dropped"}

ServerInit ==
  /\ requests = [n \in Node |-> [id \in Request |-> "absent"]]
  /\ rpc = [n \in Node |-> <<>>]
  /\ notifications = [n \in Node |-> {}]
  /\ driven = [n \in Node |-> <<0, 0>>]
  /\ executed = [n \in Node |-> <<>>]
  /\ answered = {}

Answer(id) == [type |-> "ClientResponse", id |-> id]
-----------------------------------------------------------------------------
(* The event loop *)

\* A request enters the table before it is handled: with its client's sender,
\* or, proxied by the server s, with a sender nobody listens to.
enter(s, n, id) == IF s = n THEN "waiting" ELSE "dropped"

receive_client_request(s, n, req) ==
  /\ Propose(s, n, req)
  /\ requests' = [requests EXCEPT ![n][req.id] = enter(s, n, req.id)]
  /\ UNCHANGED <<rpc, driverVars, answered>>

\* A ClientResponse from the leader: a follower closes out the request, the
\* other roles pass it over.
apply_client_response(s, n) ==
  /\ up[n]
  /\ Receives(s, n, "ClientResponse")
  /\ LET id == Head(net[s][n]).id
         follows == raft[n].role = "Follower"
     IN /\ raft' = [raft EXCEPT ![n].proxied_reqs = IF follows THEN @ \ {id} ELSE @]
        /\ rpc' = [rpc EXCEPT ![n] = IF follows THEN Append(@, id) ELSE @]
  /\ Exchange(s, n, Nothing)
  /\ UNCHANGED <<up, chain, fsm, submitted, failures, requests, driverVars, answered>>

\* An answer for a client: the client gets it, or the event loop panics because
\* the table has no entry or nobody listens.
answer_client(n) ==
  /\ up[n]
  /\ rpc[n] # <<>>
  /\ LET id == Head(rpc[n])
         heard == requests[n][id] = "waiting"
     IN /\ up' = [up EXCEPT ![n] = heard]
        /\ answered' = IF heard THEN answered \cup {id} ELSE answered
        /\ requests' = [requests EXCEPT ![n][id] = "absent"]
  /\ rpc' = [rpc EXCEPT ![n] = Tail(@)]
  /\ UNCHANGED <<raft, chain, fsm, submitted, failures, net, link, driverVars>>
-----------------------------------------------------------------------------
(* The driver *)

\* The instructions in the driver's channel with their places, an Apply for each
\* block in the order of their ids.
Instructions(n) ==
       {<<i, 0, fsm[n][i]>> : i \in {i \in DOMAIN fsm[n] : fsm[n][i].type = "Notify"}}
  \cup {<<slot[1], slot[2].id, slot[2]>> : slot \in Slots(fsm[n])}

Later(ins, place) == ins[1] > place[1] \/ (ins[1] = place[1] /\ ins[2] > place[2])

\* What is left in the channel, and what comes out of it next.
Left(n) == {ins \in Instructions(n) : Later(ins, driven[n])}
IsNext(n, ins) == ins \in Left(n) /\ \A other \in Left(n) : ~Later(ins, other)

IsNotify(ins) == "block_id" \in DOMAIN ins

\* The answer of an executed block goes to the client, or to the server that
\* proxied the request.
respond(n, note) ==
  \/ /\ note.address = Client
     /\ rpc' = [rpc EXCEPT ![n] = Append(@, note.id)]
     /\ UNCHANGED <<net, link>>
  \/ /\ note.address # Client
     /\ Transmit(n, To(note.address, <<Answer(note.id)>>))
     /\ UNCHANGED rpc

\* Mutant: an answer goes out one block early.
exec_early(n, block) ==
  LET notes == {note \in notifications[n] : note.block_id = block.id + 1}
  IN /\ executed' = [executed EXCEPT ![n] = IF block.id = 0 THEN @ ELSE Append(@, block.data)]
     /\ notifications' = [notifications EXCEPT ![n] = @ \ notes]
     /\ \/ notes = {} /\ UNCHANGED <<rpc, net, link>>
        \/ \E note \in notes : respond(n, note)

\* Mutant: the first block is executed like any other.
exec_first(n, block) ==
  LET notes == {note \in notifications[n] : note.block_id = block.id}
  IN /\ executed' = [executed EXCEPT ![n] = Append(@, block.data)]
     /\ notifications' = [notifications EXCEPT ![n] = @ \ notes]
     /\ \/ notes = {} /\ UNCHANGED <<rpc, net, link>>
        \/ \E note \in notes : respond(n, note)

\* The first block is not executed; a block that nobody waits for here is
\* executed without an answer.
exec(n, block) ==
  LET notes == {note \in notifications[n] : note.block_id = block.id}
  IN \/ /\ block.id = 0
        /\ UNCHANGED <<executed, notifications, rpc, net, link>>
     \/ /\ block.id # 0
        /\ executed' = [executed EXCEPT ![n] = Append(@, block.data)]
        /\ notifications' = [notifications EXCEPT ![n] = @ \ notes]
        /\ \/ notes = {} /\ UNCHANGED <<rpc, net, link>>
           \/ \E note \in notes : respond(n, note)

\* Mutant: a request is answered when it has become a block.
notify_answers(n, note) ==
  /\ respond(n, note)
  /\ UNCHANGED <<executed, notifications>>

notify(n, note) ==
  /\ notifications' = [notifications EXCEPT ![n] =
       {other \in @ : other.block_id # note.block_id} \cup {note}]
  /\ UNCHANGED <<executed, rpc, net, link>>

Driver_run(n) ==
  /\ up[n]
  /\ \E ins \in Instructions(n) :
       /\ IsNext(n, ins)
       /\ driven' = [driven EXCEPT ![n] = <<ins[1], ins[2]>>]
       /\ IF IsNotify(ins[3]) THEN notify(n, ins[3]) ELSE exec(n, ins[3])
  /\ UNCHANGED <<up, raft, chain, fsm, submitted, failures, requests, answered>>
-----------------------------------------------------------------------------
\* The steps of Raft that no client takes part in.
raft_step ==
  /\ \/ \E s, n \in Node : Apply(s, n)
     \/ \E n \in Node : Tick(n)
     \/ \E n \in Node : Crash(n) \/ send_task_fails(n)
     \/ \E s, d \in Node : Disconnect(s, d)
  /\ UNCHANGED serverVars

\* The steps of the servers themselves.
server_step ==
  \/ raft_step
  \/ \E s, n \in Node, req \in ClientRequest : s # n /\ receive_client_request(s, n, req)
  \/ \E s, n \in Node : apply_client_response(s, n)
  \/ \E n \in Node : answer_client(n) \/ Driver_run(n)

ServerNext ==
  \/ server_step
  \/ \E n \in Node, req \in ClientRequest : receive_client_request(n, n, req)

\* Servers that stop stay down.
ServerSpec == Init /\ ServerInit /\ [][ServerNext]_allVars

\* The driver and the event loop of a running server go on.
ServerFairness ==
  /\ \A n \in Node : WF_allVars(Driver_run(n))
  /\ \A n \in Node : WF_allVars(answer_client(n))
  /\ \A s, n \in Node : WF_allVars(apply_client_response(s, n))
-----------------------------------------------------------------------------
(* Properties *)

\* The leader has committed a block of the request and its state machine has
\* executed it.
Done(id) ==
  \E l \in Leaders : /\ id \in Range(executed[l])
                     /\ \E b \in chain[l].db : b.data = id /\ b.id <= chain[l].commit

\* An answer can be relied on: the client's request is in a committed block of
\* the leader and the leader's state machine has executed it, whichever server
\* the client is connected to (fsm.rs:run, follower.rs:apply_client_response).
AnsweredIsExecuted == \A id \in answered : Done(id)

\* The notice is of a block of the leader n and of the request in it.
Noted(n, note) == n \in Leaders /\ \E b \in chain[n].db : b.id = note.block_id /\ b.data = note.id

\* The inductive invariant behind AnsweredIsExecuted, along the way of an answer:
\* only the leader's driver is told whom to answer, and with the data of the
\* block that it waits for (leader.rs:apply_client_request); an answer for a
\* client and one for a peer are of a request that is done.
AnswerInv ==
  /\ \A n \in Node : \A i \in DOMAIN fsm[n] : fsm[n][i].type = "Notify" => Noted(n, fsm[n][i])
  /\ \A n \in Node : \A note \in notifications[n] :
       \E i \in DOMAIN fsm[n] : fsm[n][i] = note /\ note.type = "Notify"
  /\ \A n \in Node : \A i \in DOMAIN rpc[n] : Done(rpc[n][i])
  /\ \A s, d \in Node : \A m \in Messages(s, d) : m.type = "ClientResponse" => Done(m.id)
  /\ AnsweredIsExecuted

\* The state machines of a cluster execute the same requests in the same order,
\* each as far as it has got: of two, one has executed a beginning of what the
\* other has, although the driver of a follower is given the first block, which
\* the leader's is not, and a committed block only with the next one
\* (leader.rs:commit, follower.rs:apply_heartbeat, fsm.rs:run).
MachinesAgree ==
  \A a, b \in Node : \A i \in DOMAIN executed[a] \cap DOMAIN executed[b] :
    executed[a][i] = executed[b][i]

\* The driver has executed block i as its i-th, and what comes after its place in
\* the channel are the blocks that it has not executed.
KeepsPlace(n) ==
  /\ driven[n][1] <= Len(fsm[n])
  /\ \A s \in Slots(fsm[n]) : s[2].id # 0 =>
       (Later(<<s[1], s[2].id>>, driven[n]) <=> s[2].id > Len(executed[n]))
  /\ \A i \in DOMAIN executed[n] :
       \E s \in Slots(fsm[n]) : s[2].id = i /\ s[2].data = executed[n][i]

\* The inductive invariant behind MachinesAgree: every driver knows how far it has
\* got, across notices, the first block and blocks that wait for the next
\* (fsm.rs:run).
DriverInv == \A n \in Node : KeepsPlace(n)

\* While no server stands for election, every answer finds its client waiting:
\* the two panics of the event loop are not reachable, and what a follower has
\* proxied is what its own clients wait for (server.rs:event_loop,
\* follower.rs:apply_client_request).
AnswerIsAwaited ==
  \A n \in Node :
    /\ \A i \in DOMAIN rpc[n] : requests[n][rpc[n][i]] = "waiting"
    /\ IsInjective(rpc[n])
    /\ \A id \in raft[n].proxied_reqs : requests[n][id] = "waiting"
=============================================================================
