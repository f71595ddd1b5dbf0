------------------------------- MODULE Broker -------------------------------
(***************************************************************************)
(* A josefine process: a broker (broker/mod.rs, broker/server.rs,          *)
(* broker/tcp.rs, broker/handler) over the raft server of its node, and    *)
(* the clients of its connections (kafka/tcp.rs, kafka/codec.rs).  When    *)
(* one of the two servers ends, so does the process (lib.rs, try_join!).   *)
(*                                                                         *)
(* Each connection carries one request: so KafkaClient is used by the      *)
(* broker and by the tests.  The proposals of the raft server are the      *)
(* transitions of Store.                                                   *)
(***************************************************************************)
EXTENDS Server, Store

CONSTANTS Conn,        \* the connections of clients
          Asked        \* the requests that clients make

VARIABLES asks,        \* per connection: the request, and the broker it is for
          conn,        \* per connection: where the request is
          client,      \* per connection: what its client has got to
          inbox,       \* per broker: the connections whose requests wait
          handler,     \* per broker: the request being handled
          view         \* per connection: what the Metadata handler has read

brokerVars == <<asks, conn, client, inbox, handler, view>>
processVars == <<allVars, brokerVars>>

store(n) == transitions(executed[n])

Idle == [conn |-> None, todo |-> <<>>]

BrokerInit ==
  /\ asks = [c \in Conn |-> None]
  /\ conn = [c \in Conn |-> "idle"]
  /\ client = [c \in Conn |-> "idle"]
  /\ inbox = [n \in Node |-> <<>>]
  /\ handler = [n \in Node |-> Idle]
  /\ view = [c \in Conn |-> {}]
-----------------------------------------------------------------------------
(* Clients *)

\* The requests KafkaClientCodec encodes; others come from other clients.
encode_request(kind) == kind \in {"ApiVersions", "LeaderAndIsr", "CreateTopics"}

\* The requests KafkaServerCodec decodes.
decode(kind) == kind \in {"ApiVersions", "Metadata", "CreateTopics", "ListGroups", "FindCoordinator"}

\* The write task of a KafkaClient sends a request and only then registers the
\* callback under its correlation id.
send_message(c, n, request) ==
  /\ client[c] = "idle"
  /\ asks' = [asks EXCEPT ![c] = [request |-> request, broker |-> n]]
  /\ conn' = [conn EXCEPT ![c] = "sent"]
  /\ client' = [client EXCEPT ![c] = IF encode_request(request.kind) THEN "sending" ELSE "waiting"]
  /\ UNCHANGED <<allVars, inbox, handler, view>>

insert_callback(c) ==
  /\ client[c] = "sending"
  /\ client' = [client EXCEPT ![c] = "waiting"]
  /\ UNCHANGED <<allVars, asks, conn, inbox, handler, view>>

\* The read task: a response whose callback is not registered is a panic, and
\* the client waits for ever.
read_response(c) ==
  /\ conn[c] = "answered"
  /\ conn' = [conn EXCEPT ![c] = "closed"]
  /\ client' = [client EXCEPT ![c] = IF @ = "waiting" THEN "done" ELSE "lost"]
  /\ UNCHANGED <<allVars, asks, inbox, handler, view>>
-----------------------------------------------------------------------------
(* Connections and the queue of the broker *)

\* A request that does not decode ends its connection.
stream_messages(c) ==
  /\ conn[c] = "sent"
  /\ up[asks[c].broker]
  /\ LET decodes == decode(asks[c].request.kind)
     IN /\ conn' = [conn EXCEPT ![c] = IF decodes THEN "queued" ELSE "closed"]
        /\ inbox' = [inbox EXCEPT ![asks[c].broker] = IF decodes THEN Append(@, c) ELSE @]
  /\ UNCHANGED <<allVars, asks, client, handler, view>>

\* What the handler of a request does, step by step: one create_topic for each
\* topic; two readings of the store; nothing.
handle_request(request) ==
  CASE request.kind = "CreateTopics" ->
         [i \in DOMAIN request.topics |-> [step |-> "create_topic", topic |-> request.topics[i]]]
    [] request.kind = "Metadata" -> <<[step |-> "get_topics", names |-> request.names], [step |-> "get_partitions"]>>
    [] OTHER -> <<>>

\* Mutant: a request is taken up while another waits for its proposals, and
\* goes first.
handle_messages_at_once(n) ==
  /\ up[n]
  /\ inbox[n] # <<>>
  /\ handler' = [handler EXCEPT ![n] =
       [conn |-> Head(inbox[n]), todo |-> handle_request(asks[Head(inbox[n])].request) \o @.todo]]
  /\ inbox' = [inbox EXCEPT ![n] = Tail(@)]
  /\ UNCHANGED <<allVars, asks, conn, client, view>>

\* One request at a time, of all connections of the broker.
handle_messages(n) ==
  /\ up[n]
  /\ handler[n] = Idle
  /\ inbox[n] # <<>>
  /\ handler' = [handler EXCEPT ![n] =
       [conn |-> Head(inbox[n]), todo |-> handle_request(asks[Head(inbox[n])].request)]]
  /\ inbox' = [inbox EXCEPT ![n] = Tail(@)]
  /\ UNCHANGED <<allVars, asks, conn, client, view>>

\* The response goes back over the connection.
send_response(n) ==
  /\ up[n]
  /\ handler[n] # Idle
  /\ handler[n].todo = <<>>
  /\ conn' = [conn EXCEPT ![handler[n].conn] = "answered"]
  /\ handler' = [handler EXCEPT ![n] = Idle]
  /\ UNCHANGED <<allVars, asks, client, inbox, view>>
-----------------------------------------------------------------------------
(* Handlers *)

At(n, step) ==
  /\ up[n]
  /\ handler[n].todo # <<>>
  /\ Head(handler[n].todo).step = step

Continue(n, steps) ==
  handler' = [handler EXCEPT ![n].todo = steps \o Tail(@)]

\* The shuffled brokers: the first leads, the first `factor` hold the replicas.
Assignments(factor) ==
  {a \in [leader : Node, replicas : SUBSET Node] :
     /\ Cardinality(a.replicas) = factor
     /\ factor > 0 => a.leader \in a.replicas}

Propose_step(ensure, value) ==
  [step |-> "propose", transition |-> [ensure |-> ensure, value |-> value]]

\* Mutant: the partitions are proposed before their topic.
Plan_partitions_first(topic, partitions, isr) == partitions \o <<topic>> \o isr

\* The topic, then its partitions, then the brokers.
Plan(topic, partitions, isr) == <<topic>> \o partitions \o isr

\* make_partitions and the transitions that create_topic will propose, followed
\* by a LeaderAndIsr for every broker, itself last.
create_topic(n) ==
  /\ At(n, "create_topic")
  /\ LET t == Head(handler[n].todo).topic
         c == handler[n].conn
         count == t.num_partitions
         feasible == t.replication_factor <= Cardinality(Node)
     IN /\ up' = [up EXCEPT ![n] = feasible]
        /\ \E a \in [0..(count - 1) -> Assignments(IF feasible THEN t.replication_factor ELSE 0)] :
             LET topic == [name |-> t.name, by |-> c, partitions |-> [i \in DOMAIN a |-> a[i].replicas]]
                 partition(i) == [topic |-> t.name, idx |-> i, by |-> c,
                                  leader |-> a[i].leader, replicas |-> a[i].replicas]
                 brokers == Append(SetToSeq(Node \ {n}), n)
             IN Continue(n, Plan(Propose_step("Topic", topic),
                                 [i \in 1..count |-> Propose_step("Partition", partition(i - 1))],
                                 [i \in DOMAIN brokers |-> [step |-> "isr", broker |-> brokers[i]]]))
  /\ UNCHANGED <<raft, chain, fsm, submitted, failures, net, link, serverVars,
                 asks, conn, client, inbox, view>>

\* A proposal goes to the raft server of the same process; its answer lets the
\* handler go on.
propose(n) ==
  /\ At(n, "propose")
  /\ receive_client_request(n, n, [type |-> "ClientRequest",
                                   id |-> Head(handler[n].todo).transition, address |-> Client])
  /\ UNCHANGED brokerVars

\* Mutant: the handler does not await the answer.
proposed_at_once(n) ==
  /\ At(n, "propose")
  /\ Head(handler[n].todo).transition \in submitted
  /\ Continue(n, <<>>)
  /\ UNCHANGED <<allVars, asks, conn, client, inbox, view>>

proposed(n) ==
  /\ At(n, "propose")
  /\ Head(handler[n].todo).transition \in answered
  /\ Continue(n, <<>>)
  /\ UNCHANGED <<allVars, asks, conn, client, inbox, view>>

\* The broker's own LeaderAndIsr names no partition.  One for another broker
\* fails when that is down; when it is up it closes the connection, and the
\* handler waits for ever.
start_isr(n) ==
  /\ At(n, "isr")
  /\ LET b == Head(handler[n].todo).broker
     IN /\ up' = [up EXCEPT ![n] = up[b]]
        /\ Continue(n, IF b = n \/ decode("LeaderAndIsr") THEN <<>> ELSE <<[step |-> "hang"]>>)
  /\ UNCHANGED <<raft, chain, fsm, submitted, failures, net, link, serverVars,
                 asks, conn, client, inbox, view>>

\* Metadata reads the topics, all or those it is asked for, and then the
\* partitions of each, while the driver goes on.
get_topics(n) ==
  /\ At(n, "get_topics")
  /\ LET names == Head(handler[n].todo).names
     IN view' = [view EXCEPT ![handler[n].conn] =
          {[topic |-> t, found |-> {}] :
             t \in {t \in store(n).topics : names = None \/ t.name \in names}}]
  /\ Continue(n, <<>>)
  /\ UNCHANGED <<allVars, asks, conn, client, inbox>>

build_topic_metadata(n) ==
  /\ At(n, "get_partitions")
  /\ view' = [view EXCEPT ![handler[n].conn] =
       {[v EXCEPT !.found = UNION {get_partition(store(n), v.topic.name, i) :
                                     i \in DOMAIN v.topic.partitions}] : v \in @}]
  /\ Continue(n, <<>>)
  /\ UNCHANGED <<allVars, asks, conn, client, inbox>>
-----------------------------------------------------------------------------
BrokerNext ==
  \/ server_step /\ UNCHANGED brokerVars
  \/ \E c \in Conn : \/ \E n \in Node, request \in Asked : send_message(c, n, request)
                     \/ insert_callback(c) \/ read_response(c) \/ stream_messages(c)
  \/ \E n \in Node : \/ handle_messages(n) \/ send_response(n) \/ create_topic(n) \/ propose(n)
                     \/ proposed(n) \/ start_isr(n) \/ get_topics(n) \/ build_topic_metadata(n)

\* The tasks of a running process go on.
BrokerFairness ==
  /\ \A c \in Conn : /\ WF_processVars(stream_messages(c))
                     /\ WF_processVars(insert_callback(c))
                     /\ WF_processVars(read_response(c))
  /\ \A n \in Node : WF_processVars(\/ handle_messages(n) \/ send_response(n) \/ create_topic(n)
                                    \/ propose(n) \/ proposed(n) \/ start_isr(n)
                                    \/ get_topics(n) \/ build_topic_metadata(n))
-----------------------------------------------------------------------------
(* Properties *)

Asks(c, kind) == asks[c] # None /\ asks[c].request.kind = kind

\* A creation that is answered is there: the broker's store has the topics that
\* were asked for and every partition of them that was asked for, and every
\* partition the stored topic lists, whichever creation of it came first
\* (create_topics.rs:create_topic, state/mod.rs).
CreatedIsStored ==
  \A c \in Conn : Asks(c, "CreateTopics") /\ conn[c] = "answered" =>
    LET s == store(asks[c].broker)
        topics == ToSet(asks[c].request.topics)
    IN /\ \A t \in topics : /\ topic_exists(s, t.name)
                            /\ \A i \in 0..(t.num_partitions - 1) : get_partition(s, t.name, i) # {}
       /\ \A t \in s.topics : t.name \in {x.name : x \in topics} =>
            \A i \in DOMAIN t.partitions : get_partition(s, t.name, i) # {}

\* The stores hold no partition of a topic they do not hold, at any point of
\* any creation (create_topics.rs proposes the topic first).
PartitionHasTopic ==
  \A n \in Node : \A p \in store(n).partitions : topic_exists(store(n), p.topic)

\* In a cluster of one broker, Metadata never shows a topic without all the
\* partitions it lists, although a creation takes several proposals: the broker
\* handles one request at a time, and the "could not fine partition" of
\* metadata.rs is not reachable.
MetadataIsWhole ==
  \A c \in Conn : Asks(c, "Metadata") /\ conn[c] = "answered" =>
    \A v \in view[c] : {p.idx : p \in v.found} = DOMAIN v.topic.partitions

\* Every request that a broker of one takes in is answered, unless its process
\* stops: proposals, driver, event loop and handler do not wait for each other
\* (server.rs:handle_messages).
RequestIsAnswered ==
  \A c \in Conn : (conn[c] = "queued") ~>
    (conn[c] # "queued" \/ (asks[c] # None /\ ~up[asks[c].broker]))

\* "did not timeout" (the test create_topic): the client of a creation gets its
\* response.
CreationIsAnswered ==
  \A c \in Conn : (Asks(c, "CreateTopics") /\ client[c] = "waiting") ~> (client[c] = "done")
=============================================================================
