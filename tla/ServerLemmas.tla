---------------------------- MODULE ServerLemmas ----------------------------
(***************************************************************************)
(* What keeps the invariants of whole servers.  A step of Raft only        *)
(* lengthens the leader's chain and the channels of the drivers            *)
(* (Advances); a step of a driver or one that deals with an answer leaves  *)
(* all of Raft alone (Aside) and sends nothing but answers.  A request     *)
(* that is done stays done, and a driver keeps its place in the order of   *)
(* the blocks.                                                             *)
(***************************************************************************)
EXTENDS RaftLemmas, Server
-----------------------------------------------------------------------------
(* What a step does to the leader's chain and the drivers' channels *)

Advances ==
  /\ Leaders \subseteq Leaders'
  /\ \A l \in Leaders : chain[l].db \subseteq chain'[l].db /\ chain[l].commit <= chain'[l].commit
  /\ \A n \in Node : Prolongs(fsm[n], fsm'[n])
  /\ \A n \in Node : \A i \in DOMAIN fsm'[n] :
       i \in DOMAIN fsm[n] \/ (fsm'[n][i].type = "Notify" => Noted(n, fsm[n][i])')

\* The notice x of a block of the leader n, after the step.
NotedAfter(n, x) == n \in Leaders' /\ \E b \in chain'[n].db : b.id = x.block_id /\ b.data = x.id

\* A step of n that sends the instructions x to its driver.
LEMMA NodeAdvances ==
  ASSUME TypeInv, TypeInv', Leaders \subseteq Leaders', NEW n \in Node,
         \A p \in Node \ {n} : chain'[p] = chain[p] /\ fsm'[p] = fsm[p],
         n \in Leaders => chain[n].db \subseteq chain'[n].db /\ chain[n].commit <= chain'[n].commit,
         NEW x \in Seq(Instruction), fsm'[n] = fsm[n] \o x,
         \A j \in DOMAIN x : x[j].type = "Notify" => NotedAfter(n, x[j])
  PROVE  Advances
<1>1. ASSUME NEW l \in Leaders
      PROVE  chain[l].db \subseteq chain'[l].db /\ chain[l].commit <= chain'[l].commit
  <2>1. l \in Node /\ chain[l].commit \in Nat BY DEF Leaders, TypeInv, FiniteChain, ChainState
  <2>2. CASE l = n BY <2>2
  <2>3. CASE l # n BY <2>1, <2>3
  <2> QED BY <2>2, <2>3
<1>2. ASSUME NEW p \in Node
      PROVE  /\ Prolongs(fsm[p], fsm'[p])
             /\ \A i \in DOMAIN fsm'[p] :
                  i \in DOMAIN fsm[p] \/ (fsm'[p][i].type = "Notify" => NotedAfter(p, fsm'[p][i]))
  <2>1. fsm[p] \in Seq(Instruction) BY DEF TypeInv
  <2>2. CASE p = n
    <3>1. /\ Prolongs(fsm[n], fsm[n] \o x)
          /\ \A i \in DOMAIN (fsm[n] \o x) :
               i \in DOMAIN fsm[n] \/ \E j \in DOMAIN x : (fsm[n] \o x)[i] = x[j]
      BY <2>1, <2>2, ConcatProlongs
    <3> QED BY <2>2, <3>1, ZenonT(30)
  <2>3. CASE p # n BY <2>1, <2>3 DEF Prolongs
  <2> QED BY <2>2, <2>3
<1> QED BY <1>1, <1>2, ZenonT(30) DEF Advances, Noted, NotedAfter

\* What a leader that counts tells its driver is of its blocks
\* (leader.rs:apply_client_request, apply_append_response).
LEMMA CountAdvances ==
  ASSUME NEW n \in Node, TypeInv, TypeInv', ReplicationInv, AtMostOneLeader, Leaders' = Leaders, Counts(n)
  PROVE  Advances
<1> DEFINE Heard(a, sent) == a = chain[n] /\ sent = <<>>
           Appends(a, sent) == \E data \in Data : a = Chain_append(chain[n], data)
                                                  /\ Notifies(sent, a.head, data)
<1>1. PICK a \in FiniteChain, p \in Node, h \in Nat :
        \E sent : Leader_acknowledge(n, a, sent, p, h) /\ (Heard(a, sent) \/ Appends(a, sent))
  BY ZenonT(30) DEF Counts
<1>2. PICK sent : Leader_acknowledge(n, a, sent, p, h) /\ (Heard(a, sent) \/ Appends(a, sent))
  BY <1>1, ZenonT(30)
<1>3. n \in Leaders BY DEF Counts
<1>4. chain[n] \in FiniteChain /\ fsm[n] \in Seq(Instruction) BY DEF TypeInv
<1>5. /\ sent \in Seq(Instruction)
      /\ chain[n].db \subseteq a.db /\ a.commit = chain[n].commit
      /\ \A j \in DOMAIN sent : \E b \in a.db : b.id = sent[j].block_id /\ b.data = sent[j].id
  <2>1. CASE Heard(a, sent) BY <2>1
  <2>2. CASE Appends(a, sent)
    <3>1. PICK data \in Data : a = Chain_append(chain[n], data) /\ Notifies(sent, a.head, data)
      BY <2>2, ZenonT(30)
    <3>2. Unbroken(chain[n]) BY <1>3, LeaderUnbroken DEF ReplicationInv
    <3>3. OnePerId(chain[n].db) BY DEF ReplicationInv, ChainsAreLeaders, OnePerId
    <3>4. chain[n].db \subseteq a.db BY <1>4, <3>1, <3>2, <3>3, AppendUnbroken, ZenonT(30)
    <3> DEFINE b == [id |-> chain[n].id_gen, next |-> chain[n].head, data |-> data]
    <3>5. a.commit = chain[n].commit /\ a.head = b.id /\ a.db = Insert(chain[n].db, b)
      BY <1>4, <3>1, AppendFields
    <3>6. b \in a.db /\ b.data = data BY <3>5 DEF Insert
    <3>7. PICK address \in Node \cup {Client} :
            sent = <<[type |-> "Notify", id |-> data, block_id |-> a.head, address |-> address]>>
      BY <3>1, ZenonT(30) DEF Notifies
    <3> DEFINE x == [type |-> "Notify", id |-> data, block_id |-> a.head, address |-> address]
    <3>8. a.head \in Nat BY DEF FiniteChain, ChainState
    <3>9. x \in Instruction /\ x.block_id = a.head /\ x.id = data BY <3>8 DEF Instruction, Request
    <3> HIDE DEF b, x
    <3>10. sent \in Seq(Instruction) /\ \A j \in DOMAIN sent : sent[j] = x BY <3>7, <3>9 DEF x
    <3>11. \E c \in a.db : c.id = x.block_id /\ c.data = x.id BY <3>5, <3>6, <3>9
    <3> QED BY <3>4, <3>5, <3>10, <3>11
  <2> QED BY <1>2, <2>1, <2>2
<1>6. PICK q \in Seq(Instruction) : q = fsm[n] \o sent
  <2>1. fsm[n] \o sent \in Seq(Instruction) BY <1>4, <1>5
  <2> QED BY <2>1, ZenonT(30)
<1>7. /\ \A m \in Node \ {n} : chain'[m] = chain[m] /\ fsm'[m] = fsm[m]
      /\ \/ chain'[n] = a /\ fsm'[n] = q
         \/ \E k \in Nat :
              /\ k > a.commit /\ Chain_has(a, k)
              /\ chain'[n] = Chain_commit(a, k)
              /\ fsm'[n] = Append(q, [type |-> "Apply",
                                      blocks |-> Skip1(Range_incl(a, a.commit, k))])
  BY <1>2, <1>6, AcknowledgedQueue, ZenonT(30)
<1>8. a.commit \in Nat BY DEF FiniteChain, ChainState
<1>9. CASE chain'[n] = a /\ fsm'[n] = q
  <2>1. \A j \in DOMAIN sent : NotedAfter(n, sent[j]) BY <1>3, <1>5, <1>9 DEF NotedAfter
  <2>2. chain[n].db \subseteq chain'[n].db /\ chain[n].commit <= chain'[n].commit
    BY <1>5, <1>8, <1>9
  <2> QED BY <1>5, <1>6, <1>7, <1>9, <2>1, <2>2, NodeAdvances, ZenonT(30)
<1>10. ASSUME NEW k \in Nat, k > a.commit, Chain_has(a, k), chain'[n] = Chain_commit(a, k),
              fsm'[n] = Append(q, [type |-> "Apply", blocks |-> Skip1(Range_incl(a, a.commit, k))])
       PROVE  Advances
  <2> DEFINE blocks == Skip1(Range_incl(a, a.commit, k))
             x == [type |-> "Apply", blocks |-> blocks]
             all == sent \o <<x>>
  <2>1. blocks \in SUBSET Block BY DEF Skip1, Range_incl, FiniteChain, ChainState
  <2> HIDE DEF blocks
  <2>2. x \in Instruction /\ x.type # "Notify" BY <2>1 DEF Instruction
  <2>3. fsm'[n] = Append(q, x) BY <1>10, ZenonT(30) DEF blocks
  <2> HIDE DEF x
  <2>4. all \in Seq(Instruction) /\ fsm'[n] = fsm[n] \o all
    <3>1. <<x>> \in Seq(Instruction) BY <2>2
    <3>2. all \in Seq(Instruction) BY <1>5, <3>1
    <3>3. Append(fsm[n] \o sent, x) = fsm[n] \o all BY <1>4, <1>5, <2>2, ConcatenatedAppend, ZenonT(30)
    <3> QED BY <1>6, <2>3, <3>2, <3>3, ZenonT(30)
  <2>5. chain'[n].db = a.db /\ chain'[n].commit = k BY <1>10, CommitFields
  <2>6. \A j \in DOMAIN all : all[j] = x \/ \E i \in DOMAIN sent : all[j] = sent[i] BY <1>5, <2>2
  <2> HIDE DEF all
  <2>7. \A i \in DOMAIN sent : NotedAfter(n, sent[i]) BY <1>3, <1>5, <2>5 DEF NotedAfter
  <2>8. \A j \in DOMAIN all : all[j].type = "Notify" => NotedAfter(n, all[j]) BY <2>2, <2>6, <2>7, ZenonT(30)
  <2>9. chain[n].db \subseteq chain'[n].db /\ chain[n].commit <= chain'[n].commit
    BY <1>5, <1>8, <1>10, <2>5
  <2> QED BY <1>7, <2>4, <2>8, <2>9, NodeAdvances, ZenonT(30)
<1> QED BY <1>7, <1>9, <1>10, ZenonT(30)

\* A step that changes neither a chain nor a channel.
LEMMA StillAdvances ==
  ASSUME TypeInv, TypeInv', Leaders \subseteq Leaders', chain' = chain, fsm' = fsm
  PROVE  Advances
<1>1. PICK n \in Node : TRUE BY NodeAssumption
<1>2. fsm[n] \in Seq(Instruction) /\ chain[n].commit \in Nat BY DEF TypeInv, FiniteChain, ChainState
<1>3. <<>> \in Seq(Instruction) /\ fsm[n] = fsm[n] \o <<>> /\ DOMAIN <<>> = {} BY <1>2
<1>4. chain[n].db \subseteq chain'[n].db /\ chain[n].commit <= chain'[n].commit BY <1>2
<1> QED BY <1>3, <1>4, NodeAdvances, ZenonT(30)

\* A follower stores blocks (follower.rs:apply_append_entries).
LEMMA StoreAdvances ==
  ASSUME TypeInv, TypeInv', NEW n \in Node, Leaders' = Leaders, Stores(n)
  PROVE  Advances
<1>1. n \notin Leaders /\ fsm' = fsm /\ \A p \in Node \ {n} : chain'[p] = chain[p]
  BY ZenonT(30) DEF Stores, TypeInv
<1>2. fsm[n] \in Seq(Instruction) BY DEF TypeInv
<1>3. <<>> \in Seq(Instruction) /\ fsm'[n] = fsm[n] \o <<>> /\ DOMAIN <<>> = {} BY <1>1, <1>2
<1> QED BY <1>1, <1>3, NodeAdvances, ZenonT(30)

\* A follower commits and applies (follower.rs:apply_heartbeat).
LEMMA CommitAdvances ==
  ASSUME TypeInv, TypeInv', NEW n \in Node, Leaders' = Leaders, Commits(n)
  PROVE  Advances
<1>1. PICK blocks : fsm' = [fsm EXCEPT ![n] = Append(@, [type |-> "Apply", blocks |-> blocks])]
  BY ZenonT(30) DEF Commits
<1>2. n \notin Leaders /\ \A p \in Node \ {n} : chain'[p] = chain[p]
  BY ZenonT(30) DEF Commits, TypeInv
<1> DEFINE x == [type |-> "Apply", blocks |-> blocks]
<1>3. fsm[n] \in Seq(Instruction) /\ fsm'[n] \in Seq(Instruction) BY DEF TypeInv
<1>4. x.type # "Notify" OBVIOUS
<1> HIDE DEF x
<1>5. fsm'[n] = Append(fsm[n], x) /\ \A p \in Node \ {n} : fsm'[p] = fsm[p]
  BY <1>1, ZenonT(30) DEF TypeInv, x
<1>6. fsm'[n][Len(fsm[n]) + 1] = x /\ Len(fsm[n]) + 1 \in DOMAIN fsm'[n] BY <1>3, <1>5
<1>7. x \in Instruction BY <1>3, <1>6
<1>8. <<x>> \in Seq(Instruction) /\ fsm'[n] = fsm[n] \o <<x>> /\ \A j \in DOMAIN <<x>> : <<x>>[j] = x
  BY <1>3, <1>5, <1>7
<1> QED BY <1>2, <1>4, <1>5, <1>8, NodeAdvances, ZenonT(30)
-----------------------------------------------------------------------------
(* The driver and the event loop *)

Notice == [type : {"Notify"}, id : Request, block_id : Nat, address : Node \cup {Client}]

\* What the proofs need of the types of a server.
ServerTypes ==
  /\ rpc \in [Node -> Seq(Request)]
  /\ notifications \in [Node -> SUBSET Notice]
  /\ driven \in [Node -> Nat \X Nat]
  /\ executed \in [Node -> Seq(Data \cup {Genesis})]

\* A step of the driver or of the event loop of n leaves chains, channels of
\* instructions, votes and progress alone, and sends nothing but answers.
Aside(n) ==
  /\ \E q : /\ KeepsVotes(n, q)
            /\ q.progress = raft[n].progress
            /\ raft' = [raft EXCEPT ![n] = q]
  /\ chain' = chain /\ fsm' = fsm
  /\ \A s, d \in Node : \A m \in Messages(s, d)' :
       m \in Messages(s, d) \/ (s = n /\ m.type = "ClientResponse")

\* Whom to answer, and a block, are told apart (the enum Instruction of fsm.rs).
LEMMA InstructionKinds ==
  ASSUME NEW x \in Instruction
  PROVE  /\ x.type = "Notify" => x \in Notice /\ IsNotify(x)
         /\ x.type = "Apply" => x.blocks \in SUBSET Block
<1>1. x.type = "Notify" => x \in Notice BY DEF Instruction, Notice
<1>2. x \in Notice => "block_id" \in DOMAIN x BY DEF Notice
<1>3. x.type = "Apply" => x.blocks \in SUBSET Block BY DEF Instruction
<1> QED BY <1>1, <1>2, <1>3 DEF IsNotify

\* A block to apply is not taken for a notice.
LEMMA BlockIsNoNotice ==
  ASSUME NEW b \in Block
  PROVE  ~IsNotify(b)
BY DEF Block, IsNotify

\* Of what is left in the channel of n, the place <<i, k>> comes first.
Takes(n, i, k) ==
  /\ Later(<<i, k>>, driven[n])
  /\ \A s \in Slots(fsm[n]) :
       Later(<<s[1], s[2].id>>, driven[n]) => ~Later(<<i, k>>, <<s[1], s[2].id>>)
  /\ driven' = [driven EXCEPT ![n] = <<i, k>>]

\* The driver takes a notice, or a block to apply (fsm.rs:run).
LEMMA DriverTakes ==
  ASSUME TypeInv, NEW n \in Node, Driver_run(n)
  PROVE  \/ \E i \in DOMAIN fsm[n] : /\ fsm[n][i] \in Notice
                                     /\ Takes(n, i, 0)
                                     /\ notify(n, fsm[n][i])
         \/ \E s \in Slots(fsm[n]) : /\ s[2] \in Block
                                     /\ Takes(n, s[1], s[2].id)
                                     /\ exec(n, s[2])
<1>1. PICK ins \in Instructions(n) :
        /\ IsNext(n, ins)
        /\ driven' = [driven EXCEPT ![n] = <<ins[1], ins[2]>>]
        /\ IF IsNotify(ins[3]) THEN notify(n, ins[3]) ELSE exec(n, ins[3])
  BY ZenonT(30) DEF Driver_run
<1>2. fsm[n] \in Seq(Instruction) BY DEF TypeInv
<1>3. Later(<<ins[1], ins[2]>>, driven[n]) BY <1>1 DEF IsNext, Left, Later
<1>4. ASSUME NEW s \in Slots(fsm[n]), Later(<<s[1], s[2].id>>, driven[n])
      PROVE  ~Later(<<ins[1], ins[2]>>, <<s[1], s[2].id>>)
  <2> DEFINE t == <<s[1], s[2].id, s[2]>>
  <2>1. t \in Instructions(n) BY ZenonT(30) DEF Instructions
  <2>2. t \in Left(n) BY <1>4, <2>1 DEF Left, Later
  <2>3. ~Later(ins, t) BY <1>1, <2>2, ZenonT(30) DEF IsNext
  <2> QED BY <2>3 DEF Later
<1>5. Takes(n, ins[1], ins[2]) BY <1>1, <1>3, <1>4, ZenonT(30) DEF Takes
<1>6. ASSUME NEW i \in DOMAIN fsm[n], fsm[n][i].type = "Notify", ins = <<i, 0, fsm[n][i]>>
      PROVE  fsm[n][i] \in Notice /\ Takes(n, i, 0) /\ notify(n, fsm[n][i])
  <2>1. fsm[n][i] \in Instruction BY <1>2
  <2>2. fsm[n][i] \in Notice /\ IsNotify(fsm[n][i]) BY <1>6, <2>1, InstructionKinds
  <2>3. ins[1] = i /\ ins[2] = 0 /\ ins[3] = fsm[n][i] BY <1>6
  <2> QED BY <1>1, <1>5, <2>2, <2>3, ZenonT(30)
<1>7. ASSUME NEW s \in Slots(fsm[n]), ins = <<s[1], s[2].id, s[2]>>
      PROVE  s[2] \in Block /\ Takes(n, s[1], s[2].id) /\ exec(n, s[2])
  <2>1. /\ s[1] \in DOMAIN fsm[n] /\ fsm[n][s[1]] \in Instruction
        /\ fsm[n][s[1]].type = "Apply" /\ s[2] \in fsm[n][s[1]].blocks
    BY <1>2, SlotFields
  <2>2. s[2] \in Block BY <2>1, InstructionKinds
  <2>3. ins[1] = s[1] /\ ins[2] = s[2].id /\ ins[3] = s[2] BY <1>7
  <2> QED BY <1>1, <1>5, <2>2, <2>3, BlockIsNoNotice, ZenonT(30)
<1> QED BY <1>6, <1>7, ZenonT(30) DEF Instructions

\* An answer goes into one channel (fsm.rs:run).
LEMMA RespondSends ==
  ASSUME TypeInv, ServerTypes, NEW n \in Node, NEW note \in Notice, respond(n, note)
  PROVE  /\ net' \in [Node -> [Node -> Seq(FiniteCommand)]]
         /\ link' \in [Node -> [Node -> LinkState]]
         /\ rpc' \in [Node -> Seq(Request)]
         /\ \A s, d \in Node : \A m \in Messages(s, d)' :
              m \in Messages(s, d) \/ (s = n /\ m = Answer(note.id))
         /\ \A p \in Node : \A i \in DOMAIN rpc'[p] :
              (\E j \in DOMAIN rpc[p] : rpc'[p][i] = rpc[p][j]) \/ rpc'[p][i] = note.id
<1>1. note.id \in Request BY DEF Notice
<1>2. rpc[n] \in Seq(Request) BY DEF ServerTypes
<1>3. CASE rpc' = [rpc EXCEPT ![n] = Append(@, note.id)] /\ UNCHANGED <<net, link>>
  <2>1. rpc'[n] = Append(rpc[n], note.id) /\ \A p \in Node \ {n} : rpc'[p] = rpc[p]
    BY <1>3 DEF ServerTypes
  <2>2. rpc' \in [Node -> Seq(Request)] BY <1>1, <1>3 DEF ServerTypes
  <2>3. \A i \in DOMAIN rpc'[n] :
          (\E j \in DOMAIN rpc[n] : rpc'[n][i] = rpc[n][j]) \/ rpc'[n][i] = note.id
    BY <1>1, <1>2, <2>1
  <2>4. \A s, d \in Node : Messages(s, d)' = Messages(s, d) BY <1>3 DEF Messages
  <2> QED BY <1>3, <2>1, <2>2, <2>3, <2>4 DEF TypeInv
<1>4. CASE Transmit(n, To(note.address, <<Answer(note.id)>>)) /\ rpc' = rpc
  <2> DEFINE a == Answer(note.id)
             out == To(note.address, <<a>>)
  <2>1. a \in FiniteCommand BY <1>1, CommandTypes DEF Answer, ClientResponse
  <2> HIDE DEF a
  <2>2. <<a>> \in Seq(FiniteCommand) BY <2>1
  <2>3. out \in Outbox BY <2>2, OutboxTypes, ZenonT(30)
  <2>4. \A d \in Node : \A j \in DOMAIN out[d] : out[d][j] = a BY <2>1 DEF To
  <2> HIDE DEF out
  <2>5. Transmit(n, out) BY <1>4 DEF out, a
  <2>6. /\ net' \in [Node -> [Node -> Seq(FiniteCommand)]]
        /\ link' \in [Node -> [Node -> LinkState]]
        /\ Delivered(n, out)
    BY <2>3, <2>5, TransmitProperties
  <2>7. ASSUME NEW s \in Node, NEW d \in Node, NEW m \in Messages(s, d)'
        PROVE  m \in Messages(s, d) \/ (s = n /\ m = a)
    <3>1. m \in Messages(s, d) \/ (s = n /\ \E j \in DOMAIN out[d] : m = out[d][j])
      BY <2>6, ZenonT(30) DEF Delivered
    <3> QED BY <2>4, <3>1
  <2> QED BY <1>4, <2>6, <2>7 DEF ServerTypes, a
<1> QED BY <1>3, <1>4, ZenonT(30) DEF respond

\* The request is one that a block of n is waiting to be executed for.
Awaited(n, block, id) ==
  block.id # 0 /\ \E note \in notifications[n] : note.block_id = block.id /\ note.id = id

\* What the driver does with a block (fsm.rs:run).
LEMMA ExecDoes ==
  ASSUME TypeInv, ServerTypes, NEW n \in Node, NEW block \in Block, exec(n, block)
  PROVE  /\ net' \in [Node -> [Node -> Seq(FiniteCommand)]]
         /\ link' \in [Node -> [Node -> LinkState]]
         /\ rpc' \in [Node -> Seq(Request)]
         /\ \A p \in Node : notifications'[p] \subseteq notifications[p]
         /\ notifications' \in [Node -> SUBSET Notice]
         /\ executed' = IF block.id = 0 THEN executed
                        ELSE [executed EXCEPT ![n] = Append(@, block.data)]
         /\ \A s, d \in Node : \A m \in Messages(s, d)' :
              \/ m \in Messages(s, d)
              \/ s = n /\ m.type = "ClientResponse" /\ Awaited(n, block, m.id)
         /\ \A p \in Node : \A i \in DOMAIN rpc'[p] :
              (\E j \in DOMAIN rpc[p] : rpc'[p][i] = rpc[p][j]) \/ Awaited(n, block, rpc'[p][i])
<1> DEFINE notes == {note \in notifications[n] : note.block_id = block.id}
<1>1. /\ \A p \in Node : notifications'[p] \subseteq notifications[p]
      /\ notifications' \in [Node -> SUBSET Notice]
  <2>1. notifications' = notifications \/ notifications' = [notifications EXCEPT ![n] = @ \ notes]
    BY ZenonT(30) DEF exec
  <2> HIDE DEF notes
  <2> QED BY <2>1, ZenonT(30) DEF ServerTypes
<1>2. executed' = IF block.id = 0 THEN executed ELSE [executed EXCEPT ![n] = Append(@, block.data)]
  BY ZenonT(30) DEF exec
<1>3. CASE UNCHANGED <<rpc, net, link>>
  <2>1. \A s, d \in Node : Messages(s, d)' = Messages(s, d) BY <1>3 DEF Messages
  <2>2. rpc' = rpc /\ net' = net /\ link' = link BY <1>3
  <2>3. \A p \in Node : \A i \in DOMAIN rpc'[p] : \E j \in DOMAIN rpc[p] : rpc'[p][i] = rpc[p][j]
    BY <2>2, ZenonT(30)
  <2> QED BY <1>1, <1>2, <2>1, <2>2, <2>3 DEF TypeInv, ServerTypes
<1>4. ASSUME block.id # 0, NEW note \in notes, respond(n, note)
      PROVE  /\ net' \in [Node -> [Node -> Seq(FiniteCommand)]]
             /\ link' \in [Node -> [Node -> LinkState]]
             /\ rpc' \in [Node -> Seq(Request)]
             /\ \A s, d \in Node : \A m \in Messages(s, d)' :
                  \/ m \in Messages(s, d)
                  \/ s = n /\ m.type = "ClientResponse" /\ Awaited(n, block, m.id)
             /\ \A p \in Node : \A i \in DOMAIN rpc'[p] :
                  (\E j \in DOMAIN rpc[p] : rpc'[p][i] = rpc[p][j]) \/ Awaited(n, block, rpc'[p][i])
  <2>1. note \in Notice BY DEF ServerTypes
  <2>2. Awaited(n, block, note.id) BY <1>4, ZenonT(30) DEF Awaited
  <2>3. Answer(note.id).type = "ClientResponse" /\ Answer(note.id).id = note.id BY DEF Answer
  <2> HIDE DEF notes
  <2>4. /\ net' \in [Node -> [Node -> Seq(FiniteCommand)]]
        /\ link' \in [Node -> [Node -> LinkState]]
        /\ rpc' \in [Node -> Seq(Request)]
        /\ \A s, d \in Node : \A m \in Messages(s, d)' :
             m \in Messages(s, d) \/ (s = n /\ m = Answer(note.id))
        /\ \A p \in Node : \A i \in DOMAIN rpc'[p] :
             (\E j \in DOMAIN rpc[p] : rpc'[p][i] = rpc[p][j]) \/ rpc'[p][i] = note.id
    BY <1>4, <2>1, RespondSends, ZenonT(30)
  <2> QED BY <2>2, <2>3, <2>4, ZenonT(30)
<1>5. UNCHANGED <<rpc, net, link>> \/ (block.id # 0 /\ \E note \in notes : respond(n, note))
  BY ZenonT(30) DEF exec
<1> HIDE DEF notes
<1>6. CASE block.id # 0 /\ \E note \in notes : respond(n, note)
  <2>1. PICK note \in notes : respond(n, note) BY <1>6
  <2> QED BY <1>1, <1>2, <1>4, <1>6, <2>1, ZenonT(30)
<1> QED BY <1>3, <1>5, <1>6, ZenonT(30)

\* A step of the driver or of the event loop that is well typed.
LEMMA AsideStep ==
  ASSUME TypeInv, NEW n \in Node, UNCHANGED <<raft, chain, fsm, submitted, failures>>,
         up' \in [Node -> BOOLEAN],
         net' \in [Node -> [Node -> Seq(FiniteCommand)]],
         link' \in [Node -> [Node -> LinkState]],
         \A s, d \in Node : \A m \in Messages(s, d)' :
           m \in Messages(s, d) \/ (s = n /\ m.type = "ClientResponse")
  PROVE  TypeInv' /\ Aside(n)
<1>1. raft' = raft /\ chain' = chain /\ fsm' = fsm /\ submitted' = submitted /\ failures' = failures
  OBVIOUS
<1>2. TypeInv' BY <1>1, ZenonT(30) DEF TypeInv
<1>3. KeepsVotes(n, raft[n]) /\ raft' = [raft EXCEPT ![n] = raft[n]] BY <1>1, KeepsItsVotes
<1> QED BY <1>1, <1>2, <1>3, ZenonT(30) DEF Aside

\* The request has an answer, or one is on its way.
Answering(id) ==
  \/ id \in answered
  \/ \E n \in Node : \E i \in DOMAIN rpc[n] : rpc[n][i] = id
  \/ \E s, d \in Node : \E m \in Messages(s, d) : m.type = "ClientResponse" /\ m.id = id

\* follower.rs:apply_client_response and the other roles'.
LEMMA ResponseStep ==
  ASSUME TypeInv, ServerTypes, NEW s \in Node, NEW n \in Node, apply_client_response(s, n)
  PROVE  /\ TypeInv' /\ ServerTypes' /\ Aside(n)
         /\ \A id : Answering(id)' => Answering(id)
<1> DEFINE m == Head(net[s][n])
           q == [raft[n] EXCEPT !.proxied_reqs = IF raft[n].role = "Follower" THEN @ \ {m.id} ELSE @]
<1>1. /\ Receives(s, n, "ClientResponse") /\ Exchange(s, n, Nothing)
      /\ UNCHANGED <<up, chain, fsm, submitted, failures, requests, driverVars, answered>>
      /\ raft' = [raft EXCEPT ![n].proxied_reqs = IF raft[n].role = "Follower" THEN @ \ {m.id} ELSE @]
      /\ rpc' = [rpc EXCEPT ![n] = IF raft[n].role = "Follower" THEN Append(@, m.id) ELSE @]
  BY ZenonT(30) DEF apply_client_response
<1>2. s # n /\ net[s][n] # <<>> /\ m \in FiniteCommand /\ m.type = "ClientResponse" /\ m \in Messages(s, n)
  BY <1>1, ReceivesFields
<1>3. m.id \in Request BY <1>2, CommandFields
<1>4. raft[n] \in RaftState BY DEF TypeInv
<1>5. q \in RaftState /\ KeepsVotes(n, q) /\ q.progress = raft[n].progress
  BY <1>4, SMTT(30) DEF RaftState, KeepsVotes
<1>6. raft' = [raft EXCEPT ![n] = q] BY <1>1, <1>4 DEF TypeInv
<1> HIDE DEF q, m
<1>7. TypeInv' /\ Delivered(n, Nothing)
  BY <1>1, <1>2, <1>5, <1>6, ExchangeType, NothingIsHarmless, ZenonT(30) DEF m
<1>8. \A a, d \in Node : Messages(a, d)' \subseteq Messages(a, d)
  BY <1>7 DEF Delivered, Nothing
<1>9. chain' = chain /\ fsm' = fsm /\ answered' = answered /\ driverVars' = driverVars BY <1>1
<1>10. Aside(n) BY <1>5, <1>6, <1>8, <1>9, ZenonT(30) DEF Aside
<1>11. rpc[n] \in Seq(Request) BY DEF ServerTypes
<1>12. /\ \A p \in Node \ {n} : rpc'[p] = rpc[p]
       /\ rpc'[n] = rpc[n] \/ rpc'[n] = Append(rpc[n], m.id)
       /\ rpc' \in [Node -> Seq(Request)]
  BY <1>1, <1>3 DEF ServerTypes
<1>13. ASSUME NEW p \in Node, NEW i \in DOMAIN rpc'[p]
       PROVE  (\E j \in DOMAIN rpc[p] : rpc'[p][i] = rpc[p][j]) \/ rpc'[p][i] = m.id
  <2>1. CASE rpc'[p] = rpc[p] BY <2>1
  <2>2. CASE p = n /\ rpc'[n] = Append(rpc[n], m.id) BY <1>3, <1>11, <2>2
  <2> QED BY <1>12, <2>1, <2>2
<1>14. ServerTypes' BY <1>9, <1>12, ZenonT(30) DEF ServerTypes, driverVars
<1>15. Answering(m.id) BY <1>2, ZenonT(30) DEF Answering
<1>16. ASSUME NEW id, Answering(id)' PROVE Answering(id)
  <2>1. id \in answered' => id \in answered BY <1>9
  <2>2. ASSUME NEW p \in Node, NEW i \in DOMAIN rpc'[p], rpc'[p][i] = id PROVE Answering(id)
    BY <1>13, <1>15, <2>2 DEF Answering
  <2> QED BY <1>8, <1>16, <2>1, <2>2, ZenonT(30) DEF Answering
<1> QED BY <1>7, <1>10, <1>14, <1>16

\* server.rs:event_loop.
LEMMA ClientStep ==
  ASSUME TypeInv, ServerTypes, NEW n \in Node, answer_client(n)
  PROVE  /\ TypeInv' /\ ServerTypes' /\ Aside(n)
         /\ \A id : Answering(id)' => Answering(id)
<1>1. /\ rpc[n] # <<>>
      /\ rpc' = [rpc EXCEPT ![n] = Tail(@)]
      /\ up' = [up EXCEPT ![n] = requests[n][Head(rpc[n])] = "waiting"]
      /\ answered' \subseteq answered \cup {Head(rpc[n])}
      /\ UNCHANGED <<raft, chain, fsm, submitted, failures, net, link, driverVars>>
  BY ZenonT(30) DEF answer_client
<1>2. rpc[n] \in Seq(Request) BY DEF ServerTypes
<1>3. /\ Tail(rpc[n]) \in Seq(Request)
      /\ \A i \in DOMAIN Tail(rpc[n]) : \E j \in DOMAIN rpc[n] : Tail(rpc[n])[i] = rpc[n][j]
      /\ 1 \in DOMAIN rpc[n] /\ rpc[n][1] = Head(rpc[n])
  <2>1. ASSUME NEW i \in DOMAIN Tail(rpc[n]) PROVE \E j \in DOMAIN rpc[n] : Tail(rpc[n])[i] = rpc[n][j]
    <3>1. i + 1 \in DOMAIN rpc[n] /\ Tail(rpc[n])[i] = rpc[n][i + 1] BY <1>1, <1>2
    <3> QED BY <3>1
  <2>2. /\ Tail(rpc[n]) \in Seq(Request)
        /\ 1 \in DOMAIN rpc[n] /\ rpc[n][1] = Head(rpc[n])
    BY <1>1, <1>2
  <2> QED BY <2>1, <2>2
<1>4. rpc'[n] = Tail(rpc[n]) /\ \A p \in Node \ {n} : rpc'[p] = rpc[p] BY <1>1 DEF ServerTypes
<1>5. rpc' \in [Node -> Seq(Request)] BY <1>1, <1>3 DEF ServerTypes
<1>6. \A s, d \in Node : Messages(s, d)' = Messages(s, d) BY <1>1 DEF Messages
<1>7. up' \in [Node -> BOOLEAN]
  <2> DEFINE heard == requests[n][Head(rpc[n])] = "waiting"
  <2>1. heard \in BOOLEAN /\ up' = [up EXCEPT ![n] = heard] BY <1>1
  <2> HIDE DEF heard
  <2> QED BY <2>1, ZenonT(30) DEF TypeInv
<1>8. net' = net /\ link' = link /\ driverVars' = driverVars BY <1>1
<1>9. TypeInv' /\ Aside(n)
  <2>1. UNCHANGED <<raft, chain, fsm, submitted, failures>> BY <1>1
  <2>2. /\ net' \in [Node -> [Node -> Seq(FiniteCommand)]]
        /\ link' \in [Node -> [Node -> LinkState]]
    BY <1>8, ZenonT(30) DEF TypeInv
  <2> QED BY <1>6, <1>7, <2>1, <2>2, AsideStep, ZenonT(30)
<1>10. ServerTypes' BY <1>5, <1>8 DEF ServerTypes, driverVars
<1>11. ASSUME NEW p \in Node, NEW i \in DOMAIN rpc'[p]
       PROVE  \E j \in DOMAIN rpc[p] : rpc'[p][i] = rpc[p][j]
  <2>1. CASE p = n BY <1>3, <1>4, <2>1, ZenonT(30)
  <2>2. CASE p # n BY <1>4, <2>2
  <2> QED BY <2>1, <2>2
<1>12. Answering(Head(rpc[n])) BY <1>3, ZenonT(30) DEF Answering
<1>13. ASSUME NEW id, Answering(id)' PROVE Answering(id)
  <2>1. id \in answered' => Answering(id) BY <1>1, <1>12 DEF Answering
  <2>2. ASSUME NEW p \in Node, NEW i \in DOMAIN rpc'[p], rpc'[p][i] = id PROVE Answering(id)
    BY <1>11, <2>2 DEF Answering
  <2> QED BY <1>6, <1>13, <2>1, <2>2, ZenonT(30) DEF Answering
<1> QED BY <1>9, <1>10, <1>13

\* fsm.rs:run.
LEMMA DriverStep ==
  ASSUME TypeInv, ServerTypes, NEW n \in Node, Driver_run(n)
  PROVE  TypeInv' /\ ServerTypes' /\ Aside(n)
<1>1. UNCHANGED <<up, raft, chain, fsm, submitted, failures>> BY ZenonT(30) DEF Driver_run
<1>2. up' \in [Node -> BOOLEAN] BY <1>1 DEF TypeInv
<1>3. ASSUME NEW i \in Nat, NEW k \in Nat, Takes(n, i, k) PROVE driven' \in [Node -> Nat \X Nat]
  BY <1>3 DEF Takes, ServerTypes
<1>4. fsm[n] \in Seq(Instruction) BY DEF TypeInv
<1>5. ASSUME NEW i \in DOMAIN fsm[n], fsm[n][i] \in Notice, Takes(n, i, 0), notify(n, fsm[n][i])
      PROVE  TypeInv' /\ ServerTypes' /\ Aside(n)
  <2>1. i \in Nat /\ 0 \in Nat BY <1>4
  <2>2. driven' \in [Node -> Nat \X Nat] BY <1>3, <1>5, <2>1
  <2>3. executed' = executed /\ rpc' = rpc /\ net' = net /\ link' = link BY <1>5 DEF notify
  <2>4. notifications' \in [Node -> SUBSET Notice]
    <3> DEFINE rest == {other \in notifications[n] : other.block_id # fsm[n][i].block_id}
    <3>1. notifications' = [notifications EXCEPT ![n] = rest \cup {fsm[n][i]}] BY <1>5 DEF notify
    <3>2. rest \subseteq Notice BY DEF ServerTypes
    <3> HIDE DEF rest
    <3> QED BY <1>5, <3>1, <3>2 DEF ServerTypes
  <2>5. \A s, d \in Node : Messages(s, d)' = Messages(s, d) BY <2>3 DEF Messages
  <2>6. TypeInv' /\ Aside(n) BY <1>1, <1>2, <2>3, <2>5, AsideStep, ZenonT(30) DEF TypeInv
  <2> QED BY <2>2, <2>3, <2>4, <2>6 DEF ServerTypes
<1>6. ASSUME NEW s \in Slots(fsm[n]), s[2] \in Block, Takes(n, s[1], s[2].id), exec(n, s[2])
      PROVE  TypeInv' /\ ServerTypes' /\ Aside(n)
  <2>1. s[1] \in Nat /\ s[2].id \in Nat /\ s[2].data \in Data \cup {Genesis}
    <3>1. s[1] \in DOMAIN fsm[n] BY <1>4, SlotFields
    <3> QED BY <1>4, <1>6, <3>1 DEF Block
  <2>2. driven' \in [Node -> Nat \X Nat] BY <1>3, <1>6, <2>1
  <2>3. /\ net' \in [Node -> [Node -> Seq(FiniteCommand)]]
        /\ link' \in [Node -> [Node -> LinkState]]
        /\ rpc' \in [Node -> Seq(Request)]
        /\ notifications' \in [Node -> SUBSET Notice]
        /\ executed' = IF s[2].id = 0 THEN executed ELSE [executed EXCEPT ![n] = Append(@, s[2].data)]
        /\ \A a, d \in Node : \A m \in Messages(a, d)' :
             m \in Messages(a, d) \/ (a = n /\ m.type = "ClientResponse")
    BY <1>6, ExecDoes, ZenonT(30)
  <2>4. executed' \in [Node -> Seq(Data \cup {Genesis})]
    <3>1. executed' = executed \/ executed' = [executed EXCEPT ![n] = Append(@, s[2].data)] BY <2>3
    <3>2. Append(executed[n], s[2].data) \in Seq(Data \cup {Genesis}) BY <2>1 DEF ServerTypes
    <3> QED BY <3>1, <3>2, ZenonT(30) DEF ServerTypes
  <2>5. UNCHANGED <<raft, chain, fsm, submitted, failures>> BY <1>1
  <2>6. TypeInv' /\ Aside(n) BY <1>2, <2>3, <2>5, AsideStep, ZenonT(30)
  <2> QED BY <2>2, <2>3, <2>4, <2>6, ZenonT(30) DEF ServerTypes
<1> QED BY <1>5, <1>6, DriverTakes, ZenonT(30)
-----------------------------------------------------------------------------
(* Answers *)

\* A request that is done stays done while leaders lead, chains grow, and
\* nothing that was executed is forgotten.
LEMMA DoneStays ==
  ASSUME TypeInv, TypeInv', Advances, \A l \in Node : Range(executed[l]) \subseteq Range(executed'[l]),
         NEW id, Done(id)
  PROVE  Done(id)'
<1>1. PICK l \in Leaders : /\ id \in Range(executed[l])
                           /\ \E b \in chain[l].db : b.data = id /\ b.id <= chain[l].commit
  BY ZenonT(30) DEF Done
<1>2. PICK b \in chain[l].db : b.data = id /\ b.id <= chain[l].commit BY <1>1
<1>3. l \in Node BY DEF Leaders
<1>4. chain[l] \in FiniteChain /\ chain'[l] \in FiniteChain BY <1>3 DEF TypeInv
<1>5. b.id \in Nat /\ chain[l].commit \in Nat /\ chain'[l].commit \in Nat
  BY <1>4 DEF FiniteChain, ChainState, Block
<1>6. l \in Leaders' /\ b \in chain'[l].db /\ chain[l].commit <= chain'[l].commit BY <1>2, ZenonT(30) DEF Advances
<1>7. b.id <= chain'[l].commit BY <1>2, <1>5, <1>6
<1>8. id \in Range(executed'[l]) BY <1>1, <1>3
<1> QED BY <1>2, <1>6, <1>7, <1>8, ZenonT(30) DEF Done

\* What is on its way to a client is of a request that is done.
LEMMA AnsweringIsDone ==
  AnswerInv <=>
    /\ \A n \in Node : \A i \in DOMAIN fsm[n] : fsm[n][i].type = "Notify" => Noted(n, fsm[n][i])
    /\ \A n \in Node : \A note \in notifications[n] :
         \E i \in DOMAIN fsm[n] : fsm[n][i] = note /\ note.type = "Notify"
    /\ \A id : Answering(id) => Done(id)
<1>1. (\A id : Answering(id) => Done(id)) <=>
        /\ \A n \in Node : \A i \in DOMAIN rpc[n] : Done(rpc[n][i])
        /\ \A s, d \in Node : \A m \in Messages(s, d) : m.type = "ClientResponse" => Done(m.id)
        /\ AnsweredIsExecuted
  BY ZenonT(30) DEF Answering, AnsweredIsExecuted
<1> QED BY <1>1, ZenonT(30) DEF AnswerInv

\* A notice of a block stays one.
LEMMA NoticesStay ==
  ASSUME TypeInv, TypeInv', Advances,
         \A n \in Node : \A i \in DOMAIN fsm[n] : fsm[n][i].type = "Notify" => Noted(n, fsm[n][i])
  PROVE  /\ \A n \in Node : \A i \in DOMAIN fsm[n] : i \in DOMAIN fsm'[n] /\ fsm'[n][i] = fsm[n][i]
         /\ \A n \in Node : \A i \in DOMAIN fsm'[n] : fsm'[n][i].type = "Notify" => NotedAfter(n, fsm'[n][i])
<1>1. ASSUME NEW n \in Node, NEW i \in DOMAIN fsm[n] PROVE i \in DOMAIN fsm'[n] /\ fsm'[n][i] = fsm[n][i]
  <2>1. fsm[n] \in Seq(Instruction) /\ fsm'[n] \in Seq(Instruction) BY DEF TypeInv
  <2>2. Prolongs(fsm[n], fsm'[n]) BY ZenonT(30) DEF Advances
  <2> QED BY <2>1, <2>2 DEF Prolongs
<1>2. ASSUME NEW n \in Node, NEW x, Noted(n, x) PROVE NotedAfter(n, x)
  BY <1>2, ZenonT(30) DEF Advances, Noted, NotedAfter
<1>3. ASSUME NEW n \in Node, NEW i \in DOMAIN fsm'[n], fsm'[n][i].type = "Notify"
      PROVE  NotedAfter(n, fsm'[n][i])
  <2>1. CASE i \in DOMAIN fsm[n] BY <1>1, <1>2, <1>3, <2>1
  <2>2. CASE i \notin DOMAIN fsm[n] BY <1>3, <2>2, ZenonT(30) DEF Advances, Noted, NotedAfter
  <2> QED BY <2>1, <2>2
<1> QED BY <1>1, <1>3

\* The steps that keep AnswerInv.
LEMMA AnswersStay ==
  ASSUME TypeInv, TypeInv', AnswerInv, Advances,
         \A l \in Node : Range(executed[l]) \subseteq Range(executed'[l]),
         \A n \in Node : \A note \in notifications'[n] :
           \/ note \in notifications[n]
           \/ \E i \in DOMAIN fsm[n] : fsm[n][i] = note /\ note.type = "Notify",
         \A id : Answering(id)' => Answering(id) \/ Done(id)'
  PROVE  AnswerInv'
<1>1. /\ \A n \in Node : \A i \in DOMAIN fsm[n] : fsm[n][i].type = "Notify" => Noted(n, fsm[n][i])
      /\ \A n \in Node : \A note \in notifications[n] :
           \E i \in DOMAIN fsm[n] : fsm[n][i] = note /\ note.type = "Notify"
      /\ \A id : Answering(id) => Done(id)
  BY AnsweringIsDone, ZenonT(30)
<1>2. /\ \A n \in Node : \A i \in DOMAIN fsm[n] : i \in DOMAIN fsm'[n] /\ fsm'[n][i] = fsm[n][i]
      /\ \A n \in Node : \A i \in DOMAIN fsm'[n] : fsm'[n][i].type = "Notify" => NotedAfter(n, fsm'[n][i])
  BY <1>1, NoticesStay, ZenonT(30)
<1>3. ASSUME NEW n \in Node, NEW note \in notifications'[n]
      PROVE  \E i \in DOMAIN fsm'[n] : fsm'[n][i] = note /\ note.type = "Notify"
  <2>1. PICK i \in DOMAIN fsm[n] : fsm[n][i] = note /\ note.type = "Notify" BY <1>1
  <2> QED BY <1>2, <2>1
<1>4. \A id : Answering(id)' => Done(id)' BY <1>1, DoneStays, ZenonT(30)
<1>5. ASSUME NEW n \in Node, NEW i \in DOMAIN rpc'[n] PROVE Done(rpc[n][i])'
  <2>1. PICK id : id = rpc'[n][i] OBVIOUS
  <2>2. Answering(id)' BY <2>1, ZenonT(30) DEF Answering
  <2>3. Done(id)' BY <1>4, <2>2
  <2> QED BY <2>1, <2>3, ZenonT(30) DEF Done
<1>6. \A s, d \in Node : \A m \in Messages(s, d)' : m.type = "ClientResponse" => Done(m.id)'
  BY <1>4, ZenonT(30) DEF Answering
<1>7. \A id \in answered' : Done(id)' BY <1>4, ZenonT(30) DEF Answering
<1> QED BY <1>2, <1>3, <1>5, <1>6, <1>7, ZenonT(30) DEF AnswerInv, AnsweredIsExecuted, Noted, NotedAfter

\* A step aside is one in which nothing advances.
LEMMA AsideAdvances ==
  ASSUME TypeInv, NEW n \in Node, Aside(n)
  PROVE  Advances /\ Leaders' = Leaders
<1>1. PICK q : KeepsVotes(n, q) /\ raft' = [raft EXCEPT ![n] = q] BY ZenonT(30) DEF Aside
<1>2. Leaders' = Leaders BY <1>1, SMTT(30) DEF Leaders, KeepsVotes, TypeInv
<1>3. chain' = chain /\ fsm' = fsm BY DEF Aside
<1>4. ASSUME NEW l \in Leaders PROVE chain[l].commit <= chain[l].commit
  <2>1. l \in Node BY DEF Leaders
  <2> QED BY <2>1 DEF TypeInv, FiniteChain, ChainState
<1>5. ASSUME NEW p \in Node PROVE Prolongs(fsm[p], fsm[p])
  <2>1. fsm[p] \in Seq(Instruction) BY DEF TypeInv
  <2> QED BY <2>1 DEF Prolongs
<1> QED BY <1>2, <1>3, <1>4, <1>5, ZenonT(30) DEF Advances

\* A step of the driver or of the event loop.
LEMMA AsideReplicates ==
  ASSUME TypeInv, TypeInv', ElectionInv, AtMostOneLeader, AtMostOneLeader', ReplicationInv,
         NEW n \in Node, Aside(n)
  PROVE  ReplicationInv'
<1>1. Leaders' = Leaders BY AsideAdvances
<1>2. Tells(n) BY ZenonT(30) DEF Aside, Tells
<1>3. PICK q : q.progress = raft[n].progress /\ raft' = [raft EXCEPT ![n] = q] BY ZenonT(30) DEF Aside
<1>4. \A l \in Leaders : raft'[l].progress = raft[l].progress BY <1>3, ZenonT(30) DEF Leaders, TypeInv
<1>5. ProgressStays BY <1>1, <1>4 DEF ProgressStays
<1>6. Before(n) BY <1>1, <1>2 DEF Before
<1> QED BY <1>5, <1>6, StillStep DEF Aside

\* A node that executes keeps what it has executed.
LEMMA AppendedRange ==
  ASSUME NEW S, NEW q \in Seq(S), NEW x \in S
  PROVE  Range(q) \subseteq Range(Append(q, x)) /\ x \in Range(Append(q, x))
<1>1. \A i \in DOMAIN q : i \in DOMAIN Append(q, x) /\ Append(q, x)[i] = q[i] OBVIOUS
<1>2. Len(q) + 1 \in DOMAIN Append(q, x) /\ Append(q, x)[Len(q) + 1] = x OBVIOUS
<1> QED BY <1>1, <1>2 DEF Range

\* The driver notes whom to answer (fsm.rs:run).
LEMMA NotifyAnswers ==
  ASSUME TypeInv, TypeInv', AnswerInv, ServerTypes, NEW n \in Node, Aside(n), answered' = answered,
         NEW i \in DOMAIN fsm[n], fsm[n][i] \in Notice, notify(n, fsm[n][i])
  PROVE  AnswerInv'
<1>1. executed' = executed /\ rpc' = rpc /\ net' = net BY DEF notify
<1>2. Advances BY AsideAdvances
<1>3. ASSUME NEW p \in Node, NEW note \in notifications'[p]
      PROVE  \/ note \in notifications[p]
             \/ \E j \in DOMAIN fsm[p] : fsm[p][j] = note /\ note.type = "Notify"
  <2>1. note \in notifications[p] \/ (p = n /\ note = fsm[n][i]) BY DEF notify, ServerTypes
  <2>2. fsm[n][i].type = "Notify" BY DEF Notice
  <2> QED BY <2>1, <2>2
<1>4. \A s, d \in Node : Messages(s, d)' = Messages(s, d) BY <1>1 DEF Messages
<1>5. \A id : Answering(id)' => Answering(id) BY <1>1, <1>4, ZenonT(30) DEF Answering
<1>6. \A l \in Node : Range(executed[l]) \subseteq Range(executed'[l]) BY <1>1
<1> QED BY <1>2, <1>3, <1>5, <1>6, AnswersStay, ZenonT(30)

\* The driver answers for the block that it has executed: that block is the one
\* of the notice, committed and with the request in it (fsm.rs:run).
LEMMA ExecAnswers ==
  ASSUME TypeInv, TypeInv', AnswerInv, ServerTypes, NEW n \in Node, Aside(n), answered' = answered,
         OnePerId(chain[n].db), DriversFollow,
         NEW s \in Slots(fsm[n]), s[2] \in Block, exec(n, s[2])
  PROVE  AnswerInv'
<1>1. /\ \A p \in Node : notifications'[p] \subseteq notifications[p]
      /\ executed' = IF s[2].id = 0 THEN executed ELSE [executed EXCEPT ![n] = Append(@, s[2].data)]
      /\ \A a, d \in Node : \A m \in Messages(a, d)' :
           \/ m \in Messages(a, d)
           \/ a = n /\ m.type = "ClientResponse" /\ Awaited(n, s[2], m.id)
      /\ \A p \in Node : \A i \in DOMAIN rpc'[p] :
           (\E j \in DOMAIN rpc[p] : rpc'[p][i] = rpc[p][j]) \/ Awaited(n, s[2], rpc'[p][i])
  BY ExecDoes, ZenonT(30)
<1>2. Advances /\ Leaders' = Leaders /\ chain' = chain BY AsideAdvances, ZenonT(30) DEF Aside
<1>3. executed \in [Node -> Seq(Data \cup {Genesis})] /\ s[2].data \in Data \cup {Genesis}
  BY DEF ServerTypes, Block
<1>4. Range(executed[n]) \subseteq Range(Append(executed[n], s[2].data))
      /\ s[2].data \in Range(Append(executed[n], s[2].data))
  BY <1>3, AppendedRange
<1>5. \A l \in Node : Range(executed[l]) \subseteq Range(executed'[l])
  <2>1. \A l \in Node : executed'[l] = executed[l] \/ (l = n /\ executed'[l] = Append(executed[n], s[2].data))
    BY <1>1, <1>3, ZenonT(30)
  <2> QED BY <1>4, <2>1, ZenonT(30)
<1>6. ASSUME NEW id, Awaited(n, s[2], id) PROVE Done(id)'
  <2>1. PICK note \in notifications[n] : note.block_id = s[2].id /\ note.id = id BY <1>6 DEF Awaited
  <2>2. s[2].id # 0 BY <1>6 DEF Awaited
  <2>3. Noted(n, note) BY <2>1, ZenonT(30) DEF AnswerInv
  <2>4. PICK b \in chain[n].db : b.id = note.block_id /\ b.data = note.id BY <2>3 DEF Noted
  <2>5. n \in Leaders BY <2>3 DEF Noted
  <2>6. s[2] \in chain[n].db /\ s[2].id \in 1..chain[n].commit
    BY <2>5 DEF DriversFollow, AppliesInOrder
  <2>7. s[2] = b BY <2>1, <2>4, <2>6 DEF OnePerId
  <2>8. s[2].data = id /\ s[2].id <= chain[n].commit BY <2>1, <2>4, <2>6, <2>7
  <2>9. executed'[n] = Append(executed[n], s[2].data) BY <1>1, <1>3, <2>2, ZenonT(30)
  <2> QED BY <1>2, <1>4, <2>5, <2>6, <2>8, <2>9, ZenonT(30) DEF Done
<1>7. ASSUME NEW id, Answering(id)' PROVE Answering(id) \/ Done(id)'
  <2>1. id \in answered' => Answering(id) BY DEF Answering
  <2>2. ASSUME NEW p \in Node, NEW i \in DOMAIN rpc'[p], rpc'[p][i] = id PROVE Answering(id) \/ Done(id)'
    BY <1>1, <1>6, <2>2, ZenonT(30) DEF Answering
  <2>3. ASSUME NEW a \in Node, NEW d \in Node, NEW m \in Messages(a, d)', m.type = "ClientResponse", m.id = id
        PROVE  Answering(id) \/ Done(id)'
    BY <1>1, <1>6, <2>3, ZenonT(30) DEF Answering
  <2> QED BY <1>7, <2>1, <2>2, <2>3, ZenonT(30) DEF Answering
<1> QED BY <1>1, <1>2, <1>5, <1>7, AnswersStay, ZenonT(30)
-----------------------------------------------------------------------------
(* Places in the channel *)

\* Places are compared like pairs of numbers.
LEMMA LaterPlace ==
  ASSUME NEW a, NEW i, NEW b, NEW j
  PROVE  Later(<<a, i>>, <<b, j>>) <=> a > b \/ (a = b /\ i > j)
BY DEF Later

\* The driver has got to its next place, and has passed no other.
LEMMA PlaceTaken ==
  ASSUME ServerTypes, NEW n \in Node, NEW i \in Nat, NEW k \in Nat, Takes(n, i, k),
         NEW s \in Slots(fsm[n]), s[1] \in Nat, s[2].id \in Nat
  PROVE  /\ driven'[n] = <<i, k>>
         /\ s[1] = i /\ s[2].id = k =>
              /\ Later(<<s[1], s[2].id>>, driven[n])
              /\ ~Later(<<s[1], s[2].id>>, driven'[n])
         /\ s[2].id # k =>
              (Later(<<s[1], s[2].id>>, driven'[n]) <=> Later(<<s[1], s[2].id>>, driven[n]))
<1>1. PICK a \in Nat, c \in Nat : driven[n] = <<a, c>>
  <2>1. driven[n] \in Nat \X Nat BY ZenonT(30) DEF ServerTypes
  <2> QED BY <2>1
<1>2. driven'[n] = <<i, k>> BY DEF Takes, ServerTypes
<1>3. i > a \/ (i = a /\ k > c) BY <1>1, LaterPlace DEF Takes
<1> DEFINE x == s[1]
           y == s[2].id
<1>4. Later(<<x, y>>, driven[n]) <=> x > a \/ (x = a /\ y > c) BY <1>1, LaterPlace
<1>5. Later(<<x, y>>, driven'[n]) <=> x > i \/ (x = i /\ y > k) BY <1>2, LaterPlace
<1>6. Later(<<x, y>>, driven[n]) => ~(i > x \/ (i = x /\ k > y))
  <2>1. Later(<<x, y>>, driven[n]) => ~Later(<<i, k>>, <<x, y>>) BY ZenonT(30) DEF Takes
  <2> QED BY <2>1, LaterPlace, ZenonT(30)
<1> HIDE DEF x, y
<1>7. x \in Nat /\ y \in Nat BY DEF x, y
<1>8. x = i /\ y = k => Later(<<x, y>>, driven[n]) /\ ~Later(<<x, y>>, driven'[n]) BY <1>3, <1>4, <1>5, <1>7
<1>9. y # k => (Later(<<x, y>>, driven'[n]) <=> Later(<<x, y>>, driven[n]))
  BY <1>3, <1>4, <1>5, <1>6, <1>7
<1> QED BY <1>2, <1>8, <1>9, ZenonT(30) DEF x, y

\* A step that leaves the driver alone.
LEMMA PlaceStays ==
  ASSUME TypeInv, TypeInv', ServerTypes, NEW n \in Node, KeepsPlace(n), Prolongs(fsm[n], fsm'[n]),
         InSequence(fsm[n]), InSequence(fsm'[n]), driven'[n] = driven[n], executed'[n] = executed[n]
  PROVE  KeepsPlace(n)'
<1> DEFINE L == Len(executed[n])
<1>1. fsm[n] \in Seq(Instruction) /\ fsm'[n] \in Seq(Instruction) BY DEF TypeInv
<1>2. PICK a \in Nat, c \in Nat : driven[n] = <<a, c>>
  <2>1. driven[n] \in Nat \X Nat BY ZenonT(30) DEF ServerTypes
  <2> QED BY <2>1
<1>3. executed[n] \in Seq(Data \cup {Genesis}) BY DEF ServerTypes
<1>4. L \in Nat /\ Len(fsm[n]) \in Nat /\ Len(fsm'[n]) \in Nat BY <1>1, <1>3
<1>5. a <= Len(fsm[n]) /\ Len(fsm[n]) <= Len(fsm'[n]) BY <1>2 DEF KeepsPlace, Prolongs
<1>6. driven'[n][1] <= Len(fsm'[n]) BY <1>2, <1>4, <1>5
<1>7. Slots(fsm[n]) \subseteq Slots(fsm'[n]) /\ \A s \in Slots(fsm'[n]) : s \in Slots(fsm[n]) \/ s[1] > Len(fsm[n])
  BY <1>1, ProlongedSlots
<1>8. ASSUME NEW s \in Slots(fsm'[n]), s[2].id # 0
      PROVE  Later(<<s[1], s[2].id>>, driven[n]) <=> s[2].id > L
  <2>1. CASE s \in Slots(fsm[n]) BY <1>8, <2>1 DEF KeepsPlace
  <2>2. CASE s[1] > Len(fsm[n])
    <3>1. s[1] \in Nat /\ s[2].id \in Nat BY ZenonT(30) DEF InSequence
    <3>2. s[1] > a BY <1>4, <1>5, <2>2, <3>1
    <3>3. Later(<<s[1], s[2].id>>, driven[n]) BY <1>2, <3>2, LaterPlace
    <3>4. CASE L = 0 BY <1>8, <3>1, <3>3, <3>4
    <3>5. CASE L # 0
      <4>1. L \in DOMAIN executed[n] BY <1>3, <3>5
      <4>2. PICK t \in Slots(fsm[n]) : t[2].id = L BY <4>1 DEF KeepsPlace
      <4>3. t \in Slots(fsm'[n]) /\ t[1] \in Nat /\ t[1] <= Len(fsm[n]) BY <1>7, ZenonT(30) DEF InSequence
      <4>4. t[1] < s[1] BY <1>4, <2>2, <3>1, <4>3
      <4>5. t[2].id < s[2].id BY <4>3, <4>4 DEF InSequence
      <4> QED BY <1>4, <3>1, <3>3, <4>2, <4>5
    <3> QED BY <3>4, <3>5
  <2> QED BY <1>7, <2>1, <2>2
<1>9. \A i \in DOMAIN executed'[n] : \E s \in Slots(fsm'[n]) : s[2].id = i /\ s[2].data = executed'[n][i]
  BY <1>7, ZenonT(30) DEF KeepsPlace
<1> QED BY <1>6, <1>8, <1>9, ZenonT(30) DEF KeepsPlace

\* The driver takes a notice or the first block.
LEMMA PlacePasses ==
  ASSUME TypeInv, ServerTypes, NEW n \in Node, KeepsPlace(n), InSequence(fsm[n]), fsm' = fsm,
         NEW i \in Nat, i <= Len(fsm[n]), Takes(n, i, 0), executed'[n] = executed[n]
  PROVE  KeepsPlace(n)'
<1>1. driven'[n] = <<i, 0>> BY DEF Takes, ServerTypes
<1>2. ASSUME NEW s \in Slots(fsm[n]), s[2].id # 0
      PROVE  Later(<<s[1], s[2].id>>, driven'[n]) <=> Later(<<s[1], s[2].id>>, driven[n])
  <2>1. s[1] \in Nat /\ s[2].id \in Nat BY DEF InSequence
  <2> QED BY <1>2, <2>1, PlaceTaken
<1>3. driven'[n][1] <= Len(fsm'[n]) BY <1>1
<1> QED BY <1>2, <1>3, ZenonT(30) DEF KeepsPlace

\* The driver takes a block and executes it: it is the one after those that it
\* has executed.
LEMMA PlaceExecuted ==
  ASSUME TypeInv, ServerTypes, NEW n \in Node, KeepsPlace(n), InSequence(fsm[n]), fsm' = fsm,
         NEW s \in Slots(fsm[n]), s[2].id # 0, Takes(n, s[1], s[2].id),
         s[2].data \in Data \cup {Genesis}, executed'[n] = Append(executed[n], s[2].data)
  PROVE  KeepsPlace(n)'
<1> DEFINE L == Len(executed[n])
           k == s[2].id
<1>1. executed[n] \in Seq(Data \cup {Genesis}) BY DEF ServerTypes
<1>2. L \in Nat BY <1>1
<1>3. s[1] \in Nat /\ k \in Nat /\ s[1] <= Len(fsm[n]) BY DEF InSequence
<1>4. driven'[n] = <<s[1], k>> BY DEF Takes, ServerTypes
<1>5. Later(<<s[1], k>>, driven[n]) /\ ~Later(<<s[1], k>>, driven'[n]) BY <1>3, PlaceTaken, ZenonT(30)
<1>6. k > L BY <1>5, ZenonT(30) DEF KeepsPlace
<1>7. k = L + 1
  <2>1. L + 1 \in 1..k /\ L + 1 # 0 /\ L + 1 > L BY <1>2, <1>3, <1>6
  <2>2. PICK t \in Slots(fsm[n]) : t[2].id = L + 1 BY <2>1 DEF InSequence
  <2>3. Later(<<t[1], t[2].id>>, driven[n]) BY <2>1, <2>2 DEF KeepsPlace
  <2>4. ~Later(<<s[1], k>>, <<t[1], t[2].id>>) BY <2>3, ZenonT(30) DEF Takes
  <2>5. t[1] \in Nat /\ (t[1] > s[1] => L + 1 > k) BY <2>2 DEF InSequence
  <2>6. ~(s[1] > t[1]) /\ ~(s[1] = t[1] /\ k > L + 1) BY <2>2, <2>4, LaterPlace
  <2> HIDE DEF L, k
  <2> QED BY <1>2, <1>3, <1>6, <2>5, <2>6
<1>8. executed'[n] \in Seq(Data \cup {Genesis}) /\ Len(executed'[n]) = L + 1 BY <1>1
<1>9. ASSUME NEW t \in Slots(fsm[n]), t[2].id # 0
      PROVE  Later(<<t[1], t[2].id>>, driven'[n]) <=> t[2].id > L + 1
  <2>1. t[1] \in Nat /\ t[2].id \in Nat BY DEF InSequence
  <2>2. CASE t[2].id = k
    <3>1. t = s BY <2>2, ZenonT(30) DEF InSequence
    <3>2. ~Later(<<t[1], t[2].id>>, driven'[n]) BY <1>5, <3>1, ZenonT(30)
    <3> HIDE DEF L, k
    <3>3. ~(t[2].id > L + 1) BY <1>2, <1>7, <2>2
    <3> QED BY <3>2, <3>3
  <2>3. CASE t[2].id # k
    <3>1. Later(<<t[1], t[2].id>>, driven'[n]) <=> Later(<<t[1], t[2].id>>, driven[n])
      BY <1>3, <2>1, <2>3, PlaceTaken, ZenonT(30)
    <3>2. Later(<<t[1], t[2].id>>, driven[n]) <=> t[2].id > L BY <1>9, ZenonT(30) DEF KeepsPlace
    <3> HIDE DEF L, k
    <3>3. t[2].id > L <=> t[2].id > L + 1 BY <1>2, <1>7, <2>1, <2>3
    <3> QED BY <3>1, <3>2, <3>3, ZenonT(30)
  <2> QED BY <2>2, <2>3
<1>10. ASSUME NEW i \in DOMAIN executed'[n]
       PROVE  \E t \in Slots(fsm[n]) : t[2].id = i /\ t[2].data = executed'[n][i]
  <2>1. CASE i \in DOMAIN executed[n]
    <3>1. executed'[n][i] = executed[n][i] BY <1>1, <2>1
    <3> QED BY <2>1, <3>1, ZenonT(30) DEF KeepsPlace
  <2>2. CASE i \notin DOMAIN executed[n]
    <3>1. i = L + 1 /\ executed'[n][i] = s[2].data BY <1>1, <2>2
    <3> QED BY <1>7, <3>1
  <2> QED BY <2>1, <2>2
<1>11. driven'[n][1] <= Len(fsm'[n]) BY <1>3, <1>4
<1> HIDE DEF L
<1> QED BY <1>8, <1>9, <1>10, <1>11, ZenonT(30) DEF KeepsPlace

\* The driver of one node goes on, those of the others wait.
LEMMA DriverGoesOn ==
  ASSUME TypeInv, ServerTypes, DriverInv, \A p \in Node : InSequence(fsm[p]), NEW n \in Node, Driver_run(n)
  PROVE  DriverInv'
<1>1. fsm' = fsm BY ZenonT(30) DEF Driver_run
<1>2. fsm[n] \in Seq(Instruction) /\ KeepsPlace(n) /\ InSequence(fsm[n]) BY DEF TypeInv, DriverInv
<1>3. executed \in [Node -> Seq(Data \cup {Genesis})] /\ driven \in [Node -> Nat \X Nat] BY DEF ServerTypes
<1>4. ASSUME NEW p \in Node \ {n}, driven'[p] = driven[p], executed'[p] = executed[p] PROVE KeepsPlace(p)'
  <2>1. KeepsPlace(p) BY DEF DriverInv
  <2> QED BY <1>1, <1>4, <2>1, ZenonT(30) DEF KeepsPlace
<1>5. ASSUME NEW i \in DOMAIN fsm[n], Takes(n, i, 0), notify(n, fsm[n][i]) PROVE DriverInv'
  <2>1. executed' = executed /\ \A p \in Node \ {n} : driven'[p] = driven[p]
    BY <1>3, <1>5 DEF notify, Takes
  <2>2. i \in Nat /\ i <= Len(fsm[n]) BY <1>2
  <2>3. KeepsPlace(n)' BY <1>1, <1>2, <1>5, <2>1, <2>2, PlacePasses, ZenonT(30)
  <2> QED BY <1>4, <2>1, <2>3, ZenonT(30) DEF DriverInv
<1>6. ASSUME NEW s \in Slots(fsm[n]), s[2] \in Block, Takes(n, s[1], s[2].id), exec(n, s[2])
      PROVE  DriverInv'
  <2>1. executed' = IF s[2].id = 0 THEN executed ELSE [executed EXCEPT ![n] = Append(@, s[2].data)]
    BY <1>6, ExecDoes, ZenonT(30)
  <2>2. \A p \in Node \ {n} : driven'[p] = driven[p] /\ executed'[p] = executed[p]
    BY <1>3, <1>6, <2>1, ZenonT(30) DEF Takes
  <2>3. KeepsPlace(n)'
    <3>1. CASE s[2].id = 0
      <4>1. s[1] \in Nat /\ s[1] <= Len(fsm[n]) BY <1>2, ZenonT(30) DEF InSequence
      <4>2. executed'[n] = executed[n] BY <2>1, <3>1
      <4> QED BY <1>1, <1>2, <1>6, <3>1, <4>1, <4>2, PlacePasses, ZenonT(30)
    <3>2. CASE s[2].id # 0
      <4>1. s[2].data \in Data \cup {Genesis} BY <1>6 DEF Block
      <4>2. executed'[n] = Append(executed[n], s[2].data) BY <1>3, <2>1, <3>2
      <4> QED BY <1>1, <1>2, <1>6, <3>2, <4>1, <4>2, PlaceExecuted, ZenonT(30)
    <3> QED BY <3>1, <3>2
  <2> QED BY <1>4, <2>2, <2>3, ZenonT(30) DEF DriverInv
<1> QED BY <1>5, <1>6, DriverTakes, ZenonT(30)

\* What the state machines have executed are the leader's blocks.
LEMMA PlacesAgree ==
  ASSUME TypeInv, DeliveryInv, \A n \in Node : OnePerId(chain[n].db), DriverInv
  PROVE  MachinesAgree
<1> SUFFICES ASSUME NEW a \in Node, NEW b \in Node, NEW i \in DOMAIN executed[a] \cap DOMAIN executed[b]
             PROVE  executed[a][i] = executed[b][i]
  BY DEF MachinesAgree
<1>1. PICK s \in Slots(fsm[a]) : s[2].id = i /\ s[2].data = executed[a][i] BY DEF DriverInv, KeepsPlace
<1>2. PICK t \in Slots(fsm[b]) : t[2].id = i /\ t[2].data = executed[b][i] BY DEF DriverInv, KeepsPlace
<1>3. PICK l \in Leaders : TRUE BY <1>1, ChannelsInSequence
<1>4. s[2] \in chain[l].db /\ t[2] \in chain[l].db BY ChannelsInSequence
<1>5. OnePerId(chain[l].db) BY DEF Leaders
<1>6. s[2] = t[2] BY <1>1, <1>2, <1>4, <1>5 DEF OnePerId
<1> QED BY <1>1, <1>2, <1>6

\* What a server promises, as an inductive invariant over that of Raft.
ServerInv == ServerTypes /\ AnswerInv /\ DriverInv

\* The steps of the driver, and those of the event loop that deal with answers.
OwnStep(n) == answer_client(n) \/ Driver_run(n) \/ \E s \in Node : apply_client_response(s, n)

\* They keep the invariant of the servers.
LEMMA OwnStepServes ==
  ASSUME TypeInv, DeliveryInv, \A p \in Node : OnePerId(chain[p].db), ServerInv, NEW n \in Node, OwnStep(n)
  PROVE  TypeInv' /\ Aside(n) /\ ServerInv'
<1>1. ServerTypes /\ AnswerInv /\ DriverInv BY DEF ServerInv
<1>2. ASSUME TypeInv', ServerTypes', Aside(n), UNCHANGED driverVars, \A id : Answering(id)' => Answering(id)
      PROVE  TypeInv' /\ Aside(n) /\ ServerInv'
  <2>1. notifications' = notifications /\ driven' = driven /\ executed' = executed BY <1>2 DEF driverVars
  <2>2. Advances /\ fsm' = fsm BY <1>2, AsideAdvances, ZenonT(30) DEF Aside
  <2>3. \A l \in Node : Range(executed[l]) \subseteq Range(executed'[l]) BY <2>1
  <2>4. AnswerInv' BY <1>1, <1>2, <2>1, <2>2, <2>3, AnswersStay, ZenonT(30)
  <2>5. DriverInv' BY <1>1, <2>1, <2>2, ZenonT(30) DEF DriverInv, KeepsPlace
  <2> QED BY <1>2, <2>4, <2>5 DEF ServerInv
<1>3. CASE answer_client(n)
  <2>1. UNCHANGED driverVars BY <1>3 DEF answer_client
  <2> QED BY <1>1, <1>2, <1>3, <2>1, ClientStep
<1>4. ASSUME NEW s \in Node, apply_client_response(s, n) PROVE TypeInv' /\ Aside(n) /\ ServerInv'
  <2>1. UNCHANGED driverVars BY <1>4 DEF apply_client_response
  <2> QED BY <1>1, <1>2, <1>4, <2>1, ResponseStep
<1>5. CASE Driver_run(n)
  <2>1. TypeInv' /\ ServerTypes' /\ Aside(n) BY <1>1, <1>5, DriverStep
  <2>2. \A p \in Node : InSequence(fsm[p]) BY ChannelsInSequence
  <2>3. DriverInv' BY <1>1, <1>5, <2>2, DriverGoesOn
  <2>4. answered' = answered BY <1>5, ZenonT(30) DEF Driver_run
  <2>5. ASSUME NEW i \in DOMAIN fsm[n], fsm[n][i] \in Notice, notify(n, fsm[n][i]) PROVE AnswerInv'
    BY <1>1, <2>1, <2>4, <2>5, NotifyAnswers
  <2>6. ASSUME NEW s \in Slots(fsm[n]), s[2] \in Block, exec(n, s[2]) PROVE AnswerInv'
    <3>1. OnePerId(chain[n].db) /\ DriversFollow BY DEF DeliveryInv
    <3> QED BY <1>1, <2>1, <2>4, <2>6, <3>1, ExecAnswers, ZenonT(30)
  <2>7. AnswerInv' BY <1>5, <2>5, <2>6, DriverTakes, ZenonT(30)
  <2> QED BY <2>1, <2>3, <2>7 DEF ServerInv
<1> QED BY <1>3, <1>4, <1>5, ZenonT(30) DEF OwnStep

\* A step of Raft.
LEMMA RaftServes ==
  ASSUME TypeInv, TypeInv', ServerInv, Advances, UNCHANGED <<rpc, driverVars, answered>>,
         \A n \in Node : InSequence(fsm[n]), \A n \in Node : InSequence(fsm'[n]),
         \A s, d \in Node : \A m \in Messages(s, d)' : m.type = "ClientResponse" => m \in Messages(s, d)
  PROVE  ServerInv'
<1>1. ServerTypes /\ AnswerInv /\ DriverInv BY DEF ServerInv
<1>2. /\ rpc' = rpc /\ answered' = answered
      /\ notifications' = notifications /\ driven' = driven /\ executed' = executed
  BY DEF driverVars
<1>3. ServerTypes' BY <1>1, <1>2, ZenonT(30) DEF ServerTypes
<1>4. \A l \in Node : Range(executed[l]) \subseteq Range(executed'[l]) BY <1>2
<1>5. \A id : Answering(id)' => Answering(id) BY <1>2, ZenonT(30) DEF Answering
<1>6. AnswerInv' BY <1>1, <1>2, <1>4, <1>5, AnswersStay, ZenonT(30)
<1>7. ASSUME NEW n \in Node PROVE KeepsPlace(n)'
  <2>1. KeepsPlace(n) /\ Prolongs(fsm[n], fsm'[n]) BY <1>1, ZenonT(30) DEF DriverInv, Advances
  <2>2. driven'[n] = driven[n] /\ executed'[n] = executed[n] BY <1>2, ZenonT(30)
  <2> QED BY <1>1, <2>1, <2>2, PlaceStays, ZenonT(30)
<1> QED BY <1>3, <1>6, <1>7, ZenonT(30) DEF ServerInv, DriverInv

\* Before the first request.
LEMMA InitServes ==
  ASSUME Init, ServerInit
  PROVE  ServerInv
<1>1. \A n \in Node : fsm[n] = <<>> BY DEF Init
<1>2. \A s, d \in Node : net[s][d] = <<>> BY DEF Init, Tcp_Init
<1>3. \A n \in Node : rpc[n] = <<>> /\ notifications[n] = {} /\ driven[n] = <<0, 0>> /\ executed[n] = <<>>
  BY DEF ServerInit
<1>4. ServerTypes
  <2>1. <<>> \in Seq(Request) /\ <<>> \in Seq(Data \cup {Genesis}) /\ <<0, 0>> \in Nat \X Nat OBVIOUS
  <2> QED BY <2>1 DEF ServerInit, ServerTypes
<1>5. DOMAIN <<>> = {} /\ Len(<<>>) = 0 OBVIOUS
<1>6. \A s, d \in Node : Messages(s, d) = {} BY <1>2, <1>5 DEF Messages
<1>7. answered = {} BY DEF ServerInit
<1>8. AnswerInv BY <1>1, <1>3, <1>5, <1>6, <1>7, ZenonT(30) DEF AnswerInv, AnsweredIsExecuted
<1>9. ASSUME NEW n \in Node PROVE KeepsPlace(n)
  <2>1. Slots(fsm[n]) = {} BY <1>1, NoSlots
  <2>2. driven[n][1] <= Len(fsm[n]) BY <1>1, <1>3
  <2> QED BY <1>3, <1>5, <2>1, <2>2, ZenonT(30) DEF KeepsPlace
<1> QED BY <1>4, <1>8, <1>9 DEF ServerInv, DriverInv
-----------------------------------------------------------------------------
(* The steps of a cluster of servers *)

\* A step is one of Raft or one of a server of its own (server.rs:event_loop).
LEMMA ServerStepKinds ==
  ASSUME [ServerNext]_allVars
  PROVE  \/ [Next]_vars /\ UNCHANGED <<rpc, driverVars, answered>>
         \/ \E n \in Node : OwnStep(n)
<1>1. CASE UNCHANGED allVars
  <2>1. UNCHANGED vars /\ UNCHANGED <<rpc, driverVars, answered>> BY <1>1 DEF allVars, serverVars
  <2> QED BY <2>1
<1>2. CASE raft_step
  <2>1. Next BY <1>2, ZenonT(30) DEF raft_step, Next
  <2>2. UNCHANGED <<rpc, driverVars, answered>> BY <1>2 DEF raft_step, serverVars
  <2> QED BY <2>1, <2>2
<1>3. ASSUME NEW s \in Node, NEW n \in Node, NEW req \in ClientRequest, receive_client_request(s, n, req)
      PROVE  [Next]_vars /\ UNCHANGED <<rpc, driverVars, answered>>
  <2>1. Propose(s, n, req) /\ UNCHANGED <<rpc, driverVars, answered>>
    BY <1>3 DEF receive_client_request
  <2> QED BY <2>1, ZenonT(30) DEF Next
<1> QED BY <1>1, <1>2, <1>3, ZenonT(30) DEF ServerNext, server_step, OwnStep

\* The channels of a cluster whose chains follow the leader's.
Sequenced == \A n \in Node : InSequence(fsm[n])

\* Their blocks are numbered in order.
LEMMA ClusterSequenced == TypeInv /\ ReplicationInv /\ DeliveryInv => Sequenced
<1> SUFFICES ASSUME TypeInv, ReplicationInv, DeliveryInv PROVE Sequenced
  OBVIOUS
<1>1. \A n \in Node : OnePerId(chain[n].db) BY DEF ReplicationInv, ChainsAreLeaders, OnePerId
<1> QED BY <1>1, ChannelsInSequence DEF Sequenced

\* Their state machines agree.
LEMMA ClusterAgrees == TypeInv /\ ReplicationInv /\ DeliveryInv /\ DriverInv => MachinesAgree
<1> SUFFICES ASSUME TypeInv, ReplicationInv, DeliveryInv, DriverInv PROVE MachinesAgree
  OBVIOUS
<1>1. \A n \in Node : OnePerId(chain[n].db) BY DEF ReplicationInv, ChainsAreLeaders, OnePerId
<1> QED BY <1>1, PlacesAgree

\* They are after a step as well.
LEMMA SequencedAfter == TypeInv' /\ ReplicationInv' /\ DeliveryInv' => Sequenced'
BY ClusterSequenced, PTL
=============================================================================
