---------------------------- MODULE SystemProofs ----------------------------
(***************************************************************************)
(* A cluster of any size whose servers stay down when they stop keeps each *)
(* request in one place, tells a driver whom to answer before it applies,  *)
(* and implements ReplicatedLog.  Of whole servers, what a client is       *)
(* answered has been committed and executed, and all state machines        *)
(* execute the same requests in the same order: Raft's invariants hold     *)
(* beside the driver and the event loop, and on them rest AnswerInv and    *)
(* DriverInv.                                                              *)
(***************************************************************************)
EXTENDS RaftProofs, RaftRequestLemmas, RaftDeliveryLemmas, ServerLemmas, RaftRefinement
-----------------------------------------------------------------------------
(* Requests *)

\* RequestInv is inductive: a request that waits for a leader, is being proxied
\* or has become a block is in one of these places only, and was made
\* (follower.rs:apply_client_request, apply_heartbeat;
\* candidate.rs:apply_client_request; leader.rs:apply_client_request).
THEOREM RequestsAreKept == Spec => []RequestInv
<1>1. /\ TypeInv /\ AtMostOneLeader' /\ ReplicationInv /\ RequestInv /\ [Next]_vars
      => RequestInv'
  BY NextRequests, NothingMoves, ZenonT(30) DEF ReplicationInv
<1> QED BY <1>1, InitRequests, TypeInvariant, SpecIsSpecRestart, OneLeader, ChainsFollowTheLeader,
           PTL DEF Spec

\* No request is ever in two places: none is proxied and queued, forwarded twice
\* or appended twice (follower.rs:apply_client_request, apply_heartbeat).
THEOREM RequestsAreNotCopied == Spec => []RequestIsInOnePlace
<1>1. RequestInv => RequestIsInOnePlace BY ZenonT(30) DEF RequestInv, RequestIsInOnePlace
<1> QED BY <1>1, RequestsAreKept, PTL
-----------------------------------------------------------------------------
(* What the drivers are told *)

\* A step keeps DeliveryInv.
LEMMA DeliveryStep ==
  ASSUME TypeInv, TypeInv', AtMostOneLeader, AtMostOneLeader', ReplicationInv,
         ChainIsClosed, DeliveryInv, [Next]_vars
  PROVE  DeliveryInv'
<1>1. CASE Leaders \subseteq Leaders' /\ chain' = chain /\ fsm' = fsm
  BY <1>1, QuietDelivers, ZenonT(30)
<1>2. ASSUME NEW n \in Node, Leaders' = Leaders, Stores(n) \/ Commits(n) \/ Counts(n)
      PROVE  DeliveryInv'
  <2>1. Settled BY <1>2, ZenonT(30) DEF Settled
  <2> QED BY <1>2, <2>1, StoreDelivers, CommitDelivers, CountDelivers, ZenonT(30)
<1> QED BY <1>1, <1>2, StepKinds, ZenonT(30)

\* DeliveryInv is inductive: the leader's driver is told of every block as it is
\* appended, and every driver is given the blocks of the leader's chain in order
\* and once, up to where its node has committed (leader.rs:apply_client_request,
\* commit; follower.rs:apply_heartbeat).
THEOREM DriversAreServed == Spec => []DeliveryInv
<1>1. /\ TypeInv /\ TypeInv' /\ AtMostOneLeader /\ AtMostOneLeader' /\ ReplicationInv
      /\ ChainIsClosed /\ DeliveryInv /\ [Next]_vars
      => DeliveryInv'
  BY DeliveryStep, ZenonT(30)
<1> QED BY <1>1, InitDelivery, TypeInvariant, SpecIsSpecRestart, OneLeader, ChainsFollowTheLeader,
           StoresAreClosed, PTL DEF Spec

\* The leader's driver is told whom to answer for a block before it is told to
\* apply it (leader.rs:apply_client_request, fsm.rs:run).
THEOREM ClientsAreKnown == Spec => []NotifiedBeforeApplied
<1>1. DeliveryInv => NotifiedBeforeApplied BY DEF DeliveryInv
<1> QED BY <1>1, DriversAreServed, PTL
-----------------------------------------------------------------------------
(* The replicated log *)

\* What is seen of a step is a step of the replicated log.
LEMMA SeenStep ==
  ASSUME Unseen \/ Learns \/ Lengthens,
         submitted' = submitted \/ \E d \in Data \ submitted : submitted' = submitted \cup {d},
         LogIsProposed'
  PROVE  [Abstract!Next]_(Abstract!vars)
<1> DEFINE machine == [n \in Node |-> Executed(n)]
<1>1. CASE Unseen
  <2>1. machine' = machine /\ CommittedLog' = CommittedLog BY <1>1 DEF Unseen
  <2>2. CASE submitted' = submitted BY <2>1, <2>2 DEF Abstract!vars
  <2>3. CASE \E d \in Data \ submitted : submitted' = submitted \cup {d}
    BY <2>1, <2>3 DEF Abstract!Next, Abstract!Propose, Abstract!MakesProposal
  <2> QED BY <2>2, <2>3
<1>2. CASE Learns
  <2>1. submitted' = submitted /\ CommittedLog' = CommittedLog BY <1>2 DEF Learns
  <2>2. PICK n \in Node, k \in 1..Len(CommittedLog) :
          /\ Len(Executed(n)) < k
          /\ Executed(n)' = SubSeq(CommittedLog, 1, k)
          /\ \A p \in Node \ {n} : Executed(p)' = Executed(p)
    BY <1>2 DEF Learns
  <2>3. machine' = [machine EXCEPT ![n] = SubSeq(CommittedLog, 1, k)] BY <2>2, ZenonT(30)
  <2>4. Len(machine[n]) < k BY <2>2
  <2>5. CASE machine' = machine BY <2>1, <2>5 DEF Abstract!vars
  <2>6. CASE machine' # machine
    BY <2>1, <2>3, <2>4, <2>6, ZenonT(30) DEF Abstract!Next, Abstract!Learn
  <2> QED BY <2>5, <2>6
<1>3. CASE Lengthens
  <2>1. PICK n \in Node : /\ Executed(n)' = CommittedLog'
                          /\ \A p \in Node \ {n} : Executed(p)' = Executed(p)
    BY <1>3 DEF Lengthens
  <2>2. machine' = [machine EXCEPT ![n] = CommittedLog'] BY <2>1, ZenonT(30)
  <2>3. /\ Len(CommittedLog) < Len(CommittedLog')
        /\ SubSeq(CommittedLog', 1, Len(CommittedLog)) = CommittedLog
    BY <1>3 DEF Lengthens
  <2>4. Abstract!Range(CommittedLog') \subseteq submitted'
    BY DEF LogIsProposed, Abstract!Range
  <2>5. Abstract!IsInjective(CommittedLog')
    BY DEF LogIsProposed, Abstract!IsInjective
  <2>6. Abstract!MakesProposal \/ submitted' = submitted BY DEF Abstract!MakesProposal
  <2> HIDE DEF machine
  <2>7. Abstract!Commit
    BY <2>2, <2>3, <2>4, <2>5, <2>6, ZenonT(30) DEF Abstract!Commit, machine
  <2> QED BY <2>7 DEF Abstract!Next
<1> QED BY <1>1, <1>2, <1>3

\* The log is empty at first, and every state machine is.
LEMMA InitRefines ==
  ASSUME Init, MachinesFollow
  PROVE  Abstract!Init
<1>1. \A n \in Node : raft[n].role = "Follower" BY DEF Init, Follower_new
<1>2. Leaders = {} BY <1>1 DEF Leaders
<1>3. CommittedLog = <<>> /\ \A n \in Node : Executed(n) = <<>> BY <1>2 DEF MachinesFollow
<1>4. submitted = {} BY DEF Init
<1> QED BY <1>3, <1>4, ZenonT(30) DEF Abstract!Init

\* A step shows nothing, is a step of one state machine along the log, or is a
\* commit of the leader.
LEMMA StepEvolves ==
  ASSUME TypeInv, TypeInv', AtMostOneLeader, ReplicationInv, ReplicationInv', ChainIsClosed,
         MachinesFollow, MachinesFollow', [Next]_vars
  PROVE  Unseen \/ Learns \/ Lengthens
<1>1. CASE chain' = chain /\ fsm' = fsm BY <1>1, QuietEvolves, ZenonT(30)
<1>2. ASSUME NEW n \in Node, Leaders' = Leaders, Stores(n) \/ Commits(n) \/ Counts(n)
      PROVE  Unseen \/ Learns \/ Lengthens
  <2>1. Mapped BY <1>2, ZenonT(30) DEF Mapped
  <2> QED BY <1>2, <2>1, StoreEvolves, CommitEvolves, CountEvolves, ZenonT(30)
<1> QED BY <1>1, <1>2, StepKinds, ZenonT(30)

\* In every state the log is the leader's chain up to its committed block, the
\* leader's state machine has been given all of it, and any other a part that
\* ends one block before its node's committed one (leader.rs:commit,
\* follower.rs:apply_heartbeat).
THEOREM MachinesFollowTheLog == Spec => []MachinesFollow
<1>1. TypeInv /\ AtMostOneLeader /\ ReplicationInv /\ ChainIsClosed /\ DeliveryInv => MachinesFollow
  BY InvariantsMap, ZenonT(30)
<1> QED BY <1>1, TypeInvariant, SpecIsSpecRestart, OneLeader, ChainsFollowTheLeader,
           StoresAreClosed, DriversAreServed, PTL

\* Only what a client proposed is committed, and each proposal once
\* (leader.rs:apply_client_request, commit).
THEOREM LogHoldsProposals == Spec => []LogIsProposed
<1>1. /\ TypeInv /\ AtMostOneLeader /\ ReplicationInv /\ ChainIsClosed /\ DeliveryInv
      /\ RequestInv /\ MachinesFollow
      => LogIsProposed
  BY LogOfProposals, ZenonT(30)
<1> QED BY <1>1, TypeInvariant, SpecIsSpecRestart, OneLeader, ChainsFollowTheLeader,
           StoresAreClosed, DriversAreServed, RequestsAreKept, MachinesFollowTheLog, PTL

\* A cluster of any size whose servers stay down when they stop implements the
\* replicated log: elections, proxied requests, batches sent twice and lost
\* connections cannot be seen, a commit lengthens the log by proposals that were
\* not in it, and the state machine of every node moves along that one log
\* (leader.rs:apply_client_request, commit; follower.rs:apply_heartbeat;
\* fsm.rs:run).
THEOREM RaftImplementsReplicatedLog == Spec => ImplementsReplicatedLog
<1>1. Init /\ MachinesFollow => Abstract!Init BY InitRefines
<1>2. /\ TypeInv /\ TypeInv' /\ AtMostOneLeader /\ ReplicationInv /\ ReplicationInv'
      /\ ChainIsClosed /\ MachinesFollow /\ MachinesFollow' /\ LogIsProposed' /\ [Next]_vars
      => [Abstract!Next]_(Abstract!vars)
  BY StepEvolves, ProposesOnce, SeenStep, ZenonT(30)
<1> QED BY <1>1, <1>2, TypeInvariant, SpecIsSpecRestart, OneLeader, ChainsFollowTheLeader,
           StoresAreClosed, MachinesFollowTheLog, LogHoldsProposals,
           PTL DEF Spec, ImplementsReplicatedLog, Abstract!Spec
-----------------------------------------------------------------------------
(* Servers *)

\* Every step of Raft.
LEMMA RaftAdvances ==
  ASSUME TypeInv, TypeInv', AtMostOneLeader, ReplicationInv, [Next]_vars
  PROVE  Advances
BY StepKinds, StillAdvances, StoreAdvances, CommitAdvances, CountAdvances, ZenonT(30)

\* The inductive invariant of a cluster of whole servers.
ClusterInv ==
  TypeInv /\ ElectionInv /\ ReplicationInv /\ ChainIsClosed /\ DeliveryInv /\ ServerInv

\* It holds when the servers start.
LEMMA ClusterInit ==
  ASSUME Init, ServerInit
  PROVE  ClusterInv
BY InitType, InitElection, InitReplication, InitClosed, InitDelivery, InitServes, ZenonT(30) DEF ClusterInv

\* The driver and the answers to clients have none either.
LEMMA AsideKeepsVotes ==
  ASSUME TypeInv, ElectionInv, NEW n \in Node, Aside(n)
  PROVE  ElectionInv'
<1>1. PICK q : KeepsVotes(n, q) /\ raft' = [raft EXCEPT ![n] = q] BY ZenonT(30) DEF Aside
<1>2. Constant(n, q) BY <1>1, KeepsVotesConstant, ZenonT(30)
<1>3. SendsFresh(n) BY ZenonT(30) DEF Aside, SendsFresh, Fresh
<1> QED BY <1>1, <1>2, <1>3, NoVoteGiven DEF KeepsVotes

\* There is one leader after a step.
LEMMA OneLeaderAfter == TypeInv' /\ ElectionInv' => AtMostOneLeader'
BY QuorumsIntersect, PTL

\* The driver and the answers to clients.
LEMMA OwnStepKeeps ==
  ASSUME ClusterInv, AtMostOneLeader, NEW n \in Node, OwnStep(n)
  PROVE  ClusterInv'
<1>1. TypeInv /\ ElectionInv /\ ReplicationInv /\ ChainIsClosed /\ DeliveryInv /\ ServerInv
  BY DEF ClusterInv
<1>2. \A p \in Node : OnePerId(chain[p].db) BY <1>1 DEF ReplicationInv, ChainsAreLeaders, OnePerId
<1>3. TypeInv' /\ Aside(n) /\ ServerInv' BY <1>1, <1>2, OwnStepServes, ZenonT(30)
<1>4. ElectionInv' BY <1>1, <1>3, AsideKeepsVotes, ZenonT(30)
<1>5. AtMostOneLeader' BY <1>3, <1>4, OneLeaderAfter, ZenonT(30)
<1>6. ReplicationInv' BY <1>1, <1>3, <1>4, <1>5, AsideReplicates, ZenonT(30)
<1>7. chain' = chain /\ fsm' = fsm BY <1>3, ZenonT(30) DEF Aside
<1>8. ChainIsClosed' BY <1>1, <1>7, ZenonT(30) DEF ChainIsClosed
<1>9. Leaders \subseteq Leaders' BY <1>1, <1>3, AsideAdvances, ZenonT(30)
<1>10. DeliveryInv' BY <1>1, <1>5, <1>7, <1>9, QuietDelivers, ZenonT(30)
<1> QED BY <1>3, <1>4, <1>6, <1>8, <1>10, ZenonT(30) DEF ClusterInv

\* A step of Raft.
LEMMA RaftStepKeeps ==
  ASSUME ClusterInv, AtMostOneLeader, [Next]_vars, UNCHANGED <<rpc, driverVars, answered>>
  PROVE  ClusterInv'
<1>1. TypeInv /\ ElectionInv /\ ReplicationInv /\ ChainIsClosed /\ DeliveryInv /\ ServerInv
  BY DEF ClusterInv
<1>2. [NextRestart]_vars BY ZenonT(30) DEF NextRestart
<1>3. TypeInv' BY <1>1, <1>2, TypeStep, ZenonT(30)
<1>4. ElectionInv' BY <1>1, ElectionStep, ZenonT(30)
<1>5. AtMostOneLeader' BY <1>3, <1>4, OneLeaderAfter, ZenonT(30)
<1>6. ReplicationInv' BY <1>1, <1>3, <1>5, ReplicationStep, ZenonT(30)
<1>7. ChainIsClosed' BY <1>1, <1>2, ClosedStep, ZenonT(30)
<1>8. DeliveryInv' BY <1>1, <1>3, <1>5, DeliveryStep, ZenonT(30)
<1>9. \A n \in Node : InSequence(fsm[n]) BY <1>1, ClusterSequenced, ZenonT(30) DEF Sequenced
<1>10. \A n \in Node : InSequence(fsm'[n]) BY <1>3, <1>6, <1>8, SequencedAfter, ZenonT(30) DEF Sequenced
<1>11. Advances BY <1>1, <1>3, RaftAdvances, ZenonT(30)
<1>12. \A s, d \in Node : \A m \in Messages(s, d)' : m.type = "ClientResponse" => m \in Messages(s, d)
  BY <1>1, NoAnswerIsSent, ZenonT(30)
<1>13. ServerInv' BY <1>1, <1>3, <1>9, <1>10, <1>11, <1>12, RaftServes, ZenonT(30)
<1> QED BY <1>3, <1>4, <1>6, <1>7, <1>8, <1>13, ZenonT(30) DEF ClusterInv

\* Every step of a server is one or the other.
LEMMA ServersKeep == ServerSpec => []ClusterInv
<1>1. ClusterInv /\ [ServerNext]_allVars => ClusterInv'
  <2> SUFFICES ASSUME ClusterInv, [ServerNext]_allVars PROVE ClusterInv'
    OBVIOUS
  <2>1. AtMostOneLeader BY QuorumsIntersect, ZenonT(30) DEF ClusterInv
  <2> QED BY <2>1, ServerStepKinds, OwnStepKeeps, RaftStepKeeps, ZenonT(30)
<1>2. Init /\ ServerInit => ClusterInv BY ClusterInit, ZenonT(30)
<1> QED BY <1>1, <1>2, PTL DEF ServerSpec

\* AnswerInv is inductive: along the way of an answer, from the notice to the
\* driver to the client, what is answered is a request that the leader has
\* committed and executed (leader.rs:apply_client_request, fsm.rs:run,
\* follower.rs:apply_client_response).
THEOREM AnswersAreTrue == ServerSpec => []AnswerInv
<1>1. ClusterInv => AnswerInv BY DEF ClusterInv, ServerInv
<1> QED BY <1>1, ServersKeep, PTL

\* A client of any server that has its answer can rely on it: the request is in
\* a committed block of the leader and the leader's state machine has executed
\* it, whatever crashes and whatever messages are lost, as long as servers that
\* stop stay down.
THEOREM AnswersAreReliable == ServerSpec => []AnsweredIsExecuted
<1>1. AnswerInv => AnsweredIsExecuted BY DEF AnswerInv
<1> QED BY <1>1, AnswersAreTrue, PTL

\* DriverInv is inductive: a driver executes the blocks of the leader's chain in
\* the order of their ids, from the one after the first on, each once
\* (fsm.rs:run).
THEOREM DriversKeepPlace == ServerSpec => []DriverInv
<1>1. ClusterInv => DriverInv BY DEF ClusterInv, ServerInv
<1> QED BY <1>1, ServersKeep, PTL

\* The state machines of a cluster of any size execute the same requests in the
\* same order, however far each has got (leader.rs:commit,
\* follower.rs:apply_heartbeat, fsm.rs:run).
THEOREM MachinesExecuteTheSame == ServerSpec => []MachinesAgree
<1>1. ClusterInv => MachinesAgree BY ClusterAgrees, ZenonT(30) DEF ClusterInv, ServerInv
<1> QED BY <1>1, ServersKeep, PTL
=============================================================================
