------------------------------- MODULE Store -------------------------------
(***************************************************************************)
(* The state machine of the brokers: broker/fsm.rs over the store of       *)
(* broker/state/mod.rs.                                                    *)
(*                                                                         *)
(* A store is [topics, partitions, brokers], sets with at most one element *)
(* per key: the name of a topic, the topic and the index of a partition.   *)
(* The uuid of a topic or of a partition is the request that made it (by). *)
(***************************************************************************)
EXTENDS Naturals, Sequences, SequencesExt

Store_new == [topics |-> {}, partitions |-> {}, brokers |-> {}]

topic_exists(store, name) == \E t \in store.topics : t.name = name

\* A topic that exists stays as it is.
Store_create_topic(store, topic) ==
  [store EXCEPT !.topics = IF topic_exists(store, topic.name) THEN @ ELSE @ \cup {topic}]

get_partition(store, name, idx) ==
  {p \in store.partitions : p.topic = name /\ p.idx = idx}

\* A partition replaces the one with its key.
create_partition(store, partition) ==
  [store EXCEPT !.partitions =
     (@ \ get_partition(store, partition.topic, partition.idx)) \cup {partition}]

create_broker(store, broker) == [store EXCEPT !.brokers = @ \cup {broker}]

\* A transition is [ensure, value].
transition(store, input) ==
  CASE input.ensure = "Topic"     -> Store_create_topic(store, input.value)
    [] input.ensure = "Partition" -> create_partition(store, input.value)
    [] input.ensure = "Broker"    -> create_broker(store, input.value)

\* The store after the inputs of a sequence.
transitions(inputs) == FoldLeft(transition, Store_new, inputs)
=============================================================================
