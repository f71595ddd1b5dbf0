------------------------------ MODULE MCBroker ------------------------------
EXTENDS MCLed, Broker

CONSTANTS t1, t2

Creatable(name, count, factor) ==
  [name |-> name, num_partitions |-> count, replication_factor |-> factor]
CreateTopics(topics) == [kind |-> "CreateTopics", topics |-> topics]

\* Two creations that share a topic, and readers of one topic and of all.
MCAsked ==
  {CreateTopics(<<Creatable(t1, 2, 1)>>),
   CreateTopics(<<Creatable(t2, 1, 1), Creatable(t1, 1, 1)>>),
   [kind |-> "Metadata", names |-> {t1}],
   [kind |-> "Metadata", names |-> None]}

\* The request of the test create_topic.
TestAsked == {CreateTopics(<<Creatable(t1, 2, 2)>>)}

\* What the broker n1 proposes for the requests above.
Ensures ==
  LET topic(t, c, i) == [name |-> t, by |-> c, partitions |-> [j \in 0..i |-> Node]]
      partition(t, c, i) ==
        [topic |-> t, idx |-> i, by |-> c, leader |-> First, replicas |-> Node]
      keys == {<<t1, 0>>, <<t1, 1>>, <<t2, 0>>}
  IN UNION {{[ensure |-> "Topic", value |-> topic(k[1], c, k[2])],
             [ensure |-> "Partition", value |-> partition(k[1], c, k[2])]} :
              <<k, c>> \in keys \X Conn}

BrokerFairSpec ==
  /\ LedInit /\ ServerInit /\ BrokerInit /\ [][BrokerNext]_processVars
  /\ ServerFairness
  /\ BrokerFairness
=============================================================================
