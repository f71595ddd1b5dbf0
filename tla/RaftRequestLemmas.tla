------------------------- MODULE RaftRequestLemmas --------------------------
(***************************************************************************)
(* Where a request can be: every step of the cluster leaves each request   *)
(* where it is, moves it, or loses it, and never makes a second of it.     *)
(***************************************************************************)
EXTENDS RaftLemmas
-----------------------------------------------------------------------------
(* Positions on the links *)

\* The position, before n took the first message of the link from s, of what is
\* at position i of the link from t to d.
Earlier(s, n, t, d, i) == IF t = s /\ d = n /\ s # n THEN i + 1 ELSE i

\* What is on the links after a step of n: what was there, a place further if n
\* took the first message of that link, and what n sends, in order.
Carried(s, n, out) ==
  \A t, d \in Node : \A i \in DOMAIN net'[t][d] :
    /\ i \in Nat \ {0}
    /\ \/ /\ Earlier(s, n, t, d, i) \in DOMAIN net[t][d]
          /\ net'[t][d][i] = net[t][d][Earlier(s, n, t, d, i)]
       \/ /\ t = n
          /\ \E j \in DOMAIN out[d] : i = Len(net[n][d]) + j /\ net'[t][d][i] = out[d][j]

\* try_send keeps the order.
LEMMA PushPositions ==
  ASSUME NEW S, NEW T, NEW queue \in Seq(S), NEW messages \in Seq(T),
         NEW i \in DOMAIN Push(queue, messages)
  PROVE  /\ i \in Nat \ {0}
         /\ \/ i \in DOMAIN queue /\ Push(queue, messages)[i] = queue[i]
            \/ \E j \in DOMAIN messages :
                 i = Len(queue) + j /\ Push(queue, messages)[i] = messages[j]
<1> DEFINE all == queue \o messages
           U == S \cup T
<1>1. queue \in Seq(U) /\ messages \in Seq(U) OBVIOUS
<1> HIDE DEF U
<1>2. /\ all \in Seq(U)
      /\ \A k \in 1..Len(all) : \/ k \in DOMAIN queue /\ all[k] = queue[k]
                                \/ \E j \in DOMAIN messages : k = Len(queue) + j /\ all[k] = messages[j]
  <2>1. /\ all \in Seq(U) /\ Len(all) = Len(queue) + Len(messages)
        /\ \A k \in 1..Len(queue) : all[k] = queue[k]
        /\ \A j \in 1..Len(messages) : all[Len(queue) + j] = messages[j]
    BY <1>1
  <2>2. DOMAIN queue = 1..Len(queue) /\ DOMAIN messages = 1..Len(messages)
        /\ Len(queue) \in Nat /\ Len(messages) \in Nat
    BY <1>1
  <2> HIDE DEF all
  <2>3. ASSUME NEW k \in 1..Len(all), k \notin DOMAIN queue
        PROVE  \E j \in DOMAIN messages : k = Len(queue) + j /\ all[k] = messages[j]
    <3>1. k - Len(queue) \in 1..Len(messages) /\ k = Len(queue) + (k - Len(queue))
      BY <2>1, <2>2, <2>3
    <3> QED BY <2>1, <2>2, <3>1, ZenonT(30)
  <2> QED BY <2>1, <2>2, <2>3
<1> HIDE DEF all
<1>3. Capacity \in Nat BY CapacityAssumption
<1>4. i \in 1..Len(all) /\ Push(queue, messages)[i] = all[i]
  <2>1. CASE Len(all) <= Capacity
    <3>1. Push(queue, messages) = all BY <2>1 DEF Push, all
    <3> QED BY <1>2, <3>1
  <2>2. CASE ~(Len(all) <= Capacity)
    <3>1. Push(queue, messages) = SubSeq(all, 1, Capacity) BY <2>2, ZenonT(30) DEF Push, all
    <3>2. Capacity <= Len(all) BY <1>2, <1>3, <2>2
    <3>3. /\ DOMAIN SubSeq(all, 1, Capacity) = 1..Capacity
          /\ \A k \in 1..Capacity : SubSeq(all, 1, Capacity)[k] = all[k]
      BY <1>2, <1>3, <3>2
    <3> QED BY <1>2, <1>3, <3>1, <3>2, <3>3
  <2> QED BY <2>1, <2>2
<1>5. i \in Nat \ {0} BY <1>2, <1>4
<1> QED BY <1>2, <1>4, <1>5

\* The links from n after a handler.
LEMMA SentPositions ==
  ASSUME TypeInv, NEW n \in Node, NEW T, NEW out \in [Node -> Seq(T)],
         NEW d \in Node, NEW i \in DOMAIN Sent(n, out)[d]
  PROVE  /\ i \in Nat \ {0}
         /\ \/ i \in DOMAIN net[n][d] /\ Sent(n, out)[d][i] = net[n][d][i]
            \/ \E j \in DOMAIN out[d] :
                 i = Len(net[n][d]) + j /\ Sent(n, out)[d][i] = out[d][j]
<1>1. net[n][d] \in Seq(FiniteCommand) /\ out[d] \in Seq(T) BY DEF TypeInv
<1>2. Sent(n, out)[d] = IF Sending(n) THEN Push(net[n][d], out[d]) ELSE net[n][d] BY DEF Sent
<1>3. CASE Sending(n)
  <2>1. Sent(n, out)[d] = Push(net[n][d], out[d]) BY <1>2, <1>3
  <2>2. i \in DOMAIN Push(net[n][d], out[d]) BY <2>1
  <2>3. /\ i \in Nat \ {0}
        /\ \/ i \in DOMAIN net[n][d] /\ Push(net[n][d], out[d])[i] = net[n][d][i]
           \/ \E j \in DOMAIN out[d] :
                i = Len(net[n][d]) + j /\ Push(net[n][d], out[d])[i] = out[d][j]
    BY <1>1, <2>2, PushPositions
  <2> QED BY <2>1, <2>3
<1>4. CASE ~Sending(n)
  <2>1. Sent(n, out)[d] = net[n][d] BY <1>2, <1>4
  <2>2. i \in DOMAIN net[n][d] BY <2>1
  <2>3. i \in Nat \ {0} BY <1>1, <2>2
  <2> QED BY <2>1, <2>2, <2>3
<1> QED BY <1>3, <1>4

\* A handler that was not started by a message.
LEMMA TransmitPositions ==
  ASSUME TypeInv, NEW n \in Node, NEW T, NEW out \in [Node -> Seq(T)], Transmit(n, out)
  PROVE  Carried(n, n, out)
<1>1. \A t, d \in Node : net'[t][d] = IF t = n THEN Sent(n, out)[d] ELSE net[t][d]
  BY DEF Transmit, TypeInv
<1>a. \A t, d, i : Earlier(n, n, t, d, i) = i BY DEF Earlier
<1> SUFFICES ASSUME NEW t \in Node, NEW d \in Node, NEW i \in DOMAIN net'[t][d]
             PROVE  /\ i \in Nat \ {0}
                    /\ \/ i \in DOMAIN net[t][d] /\ net'[t][d][i] = net[t][d][i]
                       \/ t = n /\ \E j \in DOMAIN out[d] :
                                      i = Len(net[n][d]) + j /\ net'[t][d][i] = out[d][j]
  BY <1>a DEF Carried
<1>2. CASE t = n
  <2>1. net'[t][d] = Sent(n, out)[d] BY <1>1, <1>2
  <2>2. i \in DOMAIN Sent(n, out)[d] BY <2>1
  <2>3. /\ i \in Nat \ {0}
        /\ \/ i \in DOMAIN net[n][d] /\ Sent(n, out)[d][i] = net[n][d][i]
           \/ \E j \in DOMAIN out[d] :
                i = Len(net[n][d]) + j /\ Sent(n, out)[d][i] = out[d][j]
    BY <2>2, SentPositions
  <2> QED BY <1>2, <2>1, <2>3
<1>3. CASE t # n
  <2>1. net'[t][d] = net[t][d] /\ net[t][d] \in Seq(FiniteCommand) BY <1>1, <1>3 DEF TypeInv
  <2> QED BY <2>1
<1> QED BY <1>2, <1>3

\* A handler that was.
LEMMA ExchangePositions ==
  ASSUME TypeInv, NEW s \in Node, NEW n \in Node, NEW T, NEW out \in [Node -> Seq(T)],
         s # n, net[s][n] # <<>>, Exchange(s, n, out)
  PROVE  Carried(s, n, out)
<1>1. \A t, d \in Node : net'[t][d] = IF t = n THEN Sent(n, out)[d]
                                      ELSE IF t = s /\ d = n THEN Tail(net[s][n]) ELSE net[t][d]
  <2> DEFINE sent == Sent(n, out)
  <2>1. net' = [net EXCEPT ![n] = sent, ![s][n] = Tail(@)] BY DEF Exchange
  <2>2. \A d \in Node : sent[d] = Sent(n, out)[d] OBVIOUS
  <2> HIDE DEF sent
  <2> QED BY <2>1, <2>2, ZenonT(30) DEF TypeInv
<1> SUFFICES ASSUME NEW t \in Node, NEW d \in Node, NEW i \in DOMAIN net'[t][d]
             PROVE  /\ i \in Nat \ {0}
                    /\ \/ /\ Earlier(s, n, t, d, i) \in DOMAIN net[t][d]
                          /\ net'[t][d][i] = net[t][d][Earlier(s, n, t, d, i)]
                       \/ t = n /\ \E j \in DOMAIN out[d] :
                                      i = Len(net[n][d]) + j /\ net'[t][d][i] = out[d][j]
  BY ZenonT(30) DEF Carried
<1>2. CASE t = n
  <2>1. net'[t][d] = Sent(n, out)[d] BY <1>1, <1>2
  <2>2. Earlier(s, n, t, d, i) = i BY <1>2 DEF Earlier
  <2>3. i \in DOMAIN Sent(n, out)[d] BY <2>1
  <2>4. /\ i \in Nat \ {0}
        /\ \/ i \in DOMAIN net[n][d] /\ Sent(n, out)[d][i] = net[n][d][i]
           \/ \E j \in DOMAIN out[d] :
                i = Len(net[n][d]) + j /\ Sent(n, out)[d][i] = out[d][j]
    BY <2>3, SentPositions
  <2> QED BY <1>2, <2>1, <2>2, <2>4
<1>3. CASE t = s /\ d = n
  <2>1. net'[t][d] = Tail(net[t][d]) /\ net[t][d] \in Seq(FiniteCommand) BY <1>1, <1>3 DEF TypeInv
  <2>2. Earlier(s, n, t, d, i) = i + 1 BY <1>3 DEF Earlier
  <2>3. net[t][d] # <<>> BY <1>3
  <2> QED BY <2>1, <2>2, <2>3
<1>4. CASE t # n /\ ~(t = s /\ d = n)
  <2>1. net'[t][d] = net[t][d] /\ net[t][d] \in Seq(FiniteCommand) BY <1>1, <1>4 DEF TypeInv
  <2>2. Earlier(s, n, t, d, i) = i BY <1>4 DEF Earlier
  <2> QED BY <2>1, <2>2
<1> QED BY <1>2, <1>3, <1>4

\* A request from a client or from a peer.
LEMMA HandPositions ==
  ASSUME TypeInv, NEW s \in Node, NEW n \in Node, NEW req, Arrives(s, n, req),
         NEW T, NEW out \in [Node -> Seq(T)], Hand(s, n, out)
  PROVE  Carried(s, n, out)
<1>1. CASE s = n
  <2>1. Transmit(n, out) BY <1>1 DEF Hand
  <2> QED BY <1>1, <2>1, TransmitPositions
<1>2. CASE s # n
  <2>1. Exchange(s, n, out) /\ Receives(s, n, "ClientRequest") BY <1>2 DEF Hand, Arrives
  <2>2. net[s][n] # <<>> BY <2>1, ReceivesFields
  <2> QED BY <1>2, <2>1, <2>2, ExchangePositions
<1> QED BY <1>1, <1>2
-----------------------------------------------------------------------------
(* A step that moves no request *)

\* No request is put on a link.
Requestless(s, n) ==
  \A t, d \in Node : \A i \in DOMAIN net'[t][d] :
    net'[t][d][i].type = "ClientRequest" =>
      /\ i \in Nat \ {0}
      /\ Earlier(s, n, t, d, i) \in DOMAIN net[t][d]
      /\ net'[t][d][i] = net[t][d][Earlier(s, n, t, d, i)]

\* A request on a link was on it before a step that moves none.
LEMMA RequestlessPositions ==
  ASSUME NEW s, NEW n, NEW r, NEW t \in Node, NEW d \in Node, Requestless(s, n),
         NEW i \in Positions(net[t][d], r)'
  PROVE  i \in Nat \ {0} /\ Earlier(s, n, t, d, i) \in Positions(net[t][d], r)
<1>1. /\ i \in DOMAIN net'[t][d]
      /\ net'[t][d][i].type = "ClientRequest" /\ net'[t][d][i].id = r
  BY DEF Positions
<1>2. /\ i \in Nat \ {0}
      /\ Earlier(s, n, t, d, i) \in DOMAIN net[t][d]
      /\ net'[t][d][i] = net[t][d][Earlier(s, n, t, d, i)]
  <2>1. \A k \in DOMAIN net'[t][d] : net'[t][d][k].type = "ClientRequest" =>
          /\ k \in Nat \ {0}
          /\ Earlier(s, n, t, d, k) \in DOMAIN net[t][d]
          /\ net'[t][d][k] = net[t][d][Earlier(s, n, t, d, k)]
    BY DEF Requestless
  <2> QED BY <1>1, <2>1
<1>3. PICK j : j = Earlier(s, n, t, d, i) BY ZenonT(30)
<1>4. j \in Positions(net[t][d], r) BY <1>1, <1>2, <1>3, ZenonT(30) DEF Positions
<1> QED BY <1>2, <1>3, <1>4

\* Requests stay in their queues or are dropped with them.
QueuesStay ==
  \A m \in Node : raft'[m].queued_reqs = raft[m].queued_reqs \/ raft'[m].queued_reqs = <<>>

\* The leader stores no new block, and a new leader has none but the first.
BlocksStay ==
  \A l \in Leaders' : \A b \in chain'[l].db :
    b = GenesisBlock \/ (l \in Leaders /\ b \in chain[l].db)

\* A request stays where it is, or leaves, or comes to a place of New.
Moves(s, n, req, New) ==
  /\ \A m \in Node : \A i \in Positions(raft[m].queued_reqs, req)' :
       <<"queue", m, i>> \in New \/ i \in Positions(raft[m].queued_reqs, req)
  /\ \A t, d \in Node : \A i \in Positions(net[t][d], req)' :
       /\ i \in Nat \ {0}
       /\ <<"link", <<t, d>>, i>> \in New \/ Earlier(s, n, t, d, i) \in Positions(net[t][d], req)
  /\ \A l \in Leaders' : \A b \in chain'[l].db : b.data = req =>
       <<"block", l, b>> \in New \/ (l \in Leaders /\ b \in chain[l].db)
  /\ submitted \subseteq submitted'

\* Where a request is after the step that was at the place o before it.
Now(s, n, o) ==
  IF o[1] = "link" /\ o[2] = <<s, n>> /\ s # n THEN <<"link", o[2], o[3] - 1>> ELSE o

\* The three kinds of places, before and after a step.
LEMMA WaitingIs ==
  ASSUME NEW req, NEW p
  PROVE  /\ p \in Waiting(req) <=>
              \E m \in Node : \E i \in Positions(raft[m].queued_reqs, req) : p = <<"queue", m, i>>
         /\ p \in Waiting(req)' <=>
              \E m \in Node : \E i \in Positions(raft[m].queued_reqs, req)' : p = <<"queue", m, i>>
BY SMTT(30) DEF Waiting

\* The places of a request on the links, before and after a step.
LEMMA ProxiedIs ==
  ASSUME NEW req, NEW p
  PROVE  /\ p \in Proxied(req) <=>
              \E t, d \in Node : \E i \in Positions(net[t][d], req) : p = <<"link", <<t, d>>, i>>
         /\ p \in Proxied(req)' <=>
              \E t, d \in Node : \E i \in Positions(net[t][d], req)' : p = <<"link", <<t, d>>, i>>
<1>1. \A t, d \in Node : <<t, d>> \in Node \X Node /\ <<t, d>>[1] = t /\ <<t, d>>[2] = d OBVIOUS
<1>2. \A l \in Node \X Node : l[1] \in Node /\ l[2] \in Node /\ l = <<l[1], l[2]>> OBVIOUS
<1> QED BY <1>1, <1>2, SMTT(30) DEF Proxied

\* The places of a request in blocks, before and after a step.
LEMMA AppendedIs ==
  ASSUME NEW req, NEW p
  PROVE  /\ p \in Appended(req) <=>
              \E l \in Leaders : \E b \in chain[l].db : b.data = req /\ p = <<"block", l, b>>
         /\ p \in Appended(req)' <=>
              \E l \in Leaders' : \E b \in chain'[l].db : b.data = req /\ p = <<"block", l, b>>
BY SMTT(30) DEF Appended

\* The places of a request after a step.
LEMMA Origins ==
  ASSUME NEW s \in Node, NEW n \in Node, NEW req, NEW New, Moves(s, n, req, New),
         NEW p \in Places(req)'
  PROVE  p \in New \/ \E o \in Places(req) : p = Now(s, n, o) /\ (p[1] = "link" => p[3] # 0)
<1> SUFFICES ASSUME p \notin New
             PROVE  \E o \in Places(req) : p = Now(s, n, o) /\ (p[1] = "link" => p[3] # 0)
  OBVIOUS
<1>1. CASE p \in Waiting(req)'
  <2>1. PICK m \in Node : \E i \in Positions(raft[m].queued_reqs, req)' : p = <<"queue", m, i>>
    BY <1>1, WaitingIs
  <2>2. PICK i \in Positions(raft[m].queued_reqs, req) : p = <<"queue", m, i>> BY <2>1 DEF Moves
  <2>3. p \in Places(req) BY <2>2, WaitingIs DEF Places
  <2>4. p[1] # "link" BY <2>2
  <2> QED BY <2>3, <2>4 DEF Now
<1>2. CASE p \in Proxied(req)'
  <2>1. PICK t, d \in Node : \E i \in Positions(net[t][d], req)' : p = <<"link", <<t, d>>, i>>
    BY <1>2, ProxiedIs
  <2>2. PICK i \in Positions(net[t][d], req)' : p = <<"link", <<t, d>>, i>> BY <2>1
  <2>3. i \in Nat \ {0} /\ Earlier(s, n, t, d, i) \in Positions(net[t][d], req) BY <2>2 DEF Moves
  <2> DEFINE o == <<"link", <<t, d>>, Earlier(s, n, t, d, i)>>
  <2>4. o \in Places(req) BY <2>3, ProxiedIs, ZenonT(30) DEF Places
  <2>5. p = Now(s, n, o) BY <2>2, <2>3 DEF Earlier, Now
  <2>6. p[3] # 0 BY <2>2, <2>3
  <2> HIDE DEF o
  <2> QED BY <2>4, <2>5, <2>6
<1>3. CASE p \in Appended(req)'
  <2>1. PICK l \in Leaders' : \E b \in chain'[l].db : b.data = req /\ p = <<"block", l, b>>
    BY <1>3, AppendedIs
  <2>2. PICK b \in chain'[l].db : b.data = req /\ p = <<"block", l, b>> BY <2>1
  <2>3. l \in Leaders /\ b \in chain[l].db BY <2>2 DEF Moves
  <2>4. p \in Places(req) BY <2>2, <2>3, AppendedIs DEF Places
  <2>5. p[1] # "link" BY <2>2
  <2> QED BY <2>4, <2>5 DEF Now
<1> QED BY <1>1, <1>2, <1>3 DEF Places

\* A request that stays where it is, or leaves.
LEMMA RequestStays ==
  ASSUME RequestInv, NEW s \in Node, NEW n \in Node, NEW req \in Request,
         Moves(s, n, req, {}), NEW p \in Places(req)', NEW q \in Places(req)'
  PROVE  p = q /\ req \in submitted'
<1>1. PICK o \in Places(req) : p = Now(s, n, o) BY Origins
<1>2. PICK u \in Places(req) : q = Now(s, n, u) BY Origins
<1>3. o = u /\ req \in submitted BY DEF RequestInv
<1> QED BY <1>1, <1>2, <1>3 DEF Moves

\* A request that arrives is nowhere else, and comes to one place at most.
LEMMA RequestMoves ==
  ASSUME RequestInv, NEW s \in Node, NEW n \in Node, NEW req \in Request,
         \/ s = n /\ req \notin submitted
         \/ s # n /\ 1 \in Positions(net[s][n], req),
         req \in submitted', NEW place, Moves(s, n, req, {place}),
         NEW p \in Places(req)', NEW q \in Places(req)'
  PROVE  p = q /\ req \in submitted'
<1>1. ASSUME NEW r \in Places(req)' PROVE r = place
  <2> SUFFICES ASSUME NEW o \in Places(req), r = Now(s, n, o), r[1] = "link" => r[3] # 0
               PROVE  FALSE
    BY Origins
  <2>1. s # n /\ 1 \in Positions(net[s][n], req) BY DEF RequestInv
  <2>2. <<"link", <<s, n>>, 1>> \in Places(req) BY <2>1, ProxiedIs DEF Places
  <2>3. o = <<"link", <<s, n>>, 1>> BY <2>2 DEF RequestInv
  <2>4. r = <<"link", <<s, n>>, 0>> BY <2>1, <2>3 DEF Now
  <2> QED BY <2>4
<1> QED BY <1>1

\* What the queue of n holds goes to the links from n to l, in order.
Flushed(n, l, req) ==
  {<<"link", <<n, l>>, Len(net[n][l]) + j>> : j \in Positions(raft[n].queued_reqs, req)}

\* A queue that is sent to the leader leaves no request behind (follower.rs:apply_heartbeat).
LEMMA RequestFlushed ==
  ASSUME TypeInv, RequestInv, NEW s \in Node, NEW n \in Node, NEW l \in Node, NEW req \in Request,
         Moves(s, n, req, Flushed(n, l, req)),
         raft'[n].queued_reqs = <<>>, NEW p \in Places(req)', NEW q \in Places(req)'
  PROVE  p = q /\ req \in submitted'
<1> DEFINE At(j) == <<"link", <<n, l>>, Len(net[n][l]) + j>>
           New == Flushed(n, l, req)
<1>1. ASSUME NEW r \in New
      PROVE  \E j \in Positions(raft[n].queued_reqs, req) :
               r = At(j) /\ <<"queue", n, j>> \in Places(req)
  BY WaitingIs, ZenonT(30) DEF Places, Flushed
<1>2. ASSUME NEW r \in Places(req)'
      PROVE  r \in New \/ \E o \in Places(req) : r = Now(s, n, o)
  BY Origins
<1>3. ASSUME NEW j PROVE <<"queue", n, j>> \notin Places(req)'
  <2>1. Positions(raft[n].queued_reqs, req)' = {} BY DEF Positions
  <2> QED BY <2>1, WaitingIs, ProxiedIs, AppendedIs DEF Places
<1>4. ASSUME NEW j PROVE Now(s, n, <<"queue", n, j>>) = <<"queue", n, j>> BY DEF Now
<1> HIDE DEF At, New
<1>5. ASSUME NEW r \in New, NEW u \in Places(req)' PROVE r = u /\ req \in submitted
  <2>1. PICK j \in Positions(raft[n].queued_reqs, req) : r = At(j) /\ <<"queue", n, j>> \in Places(req)
    BY <1>1, ZenonT(30)
  <2>2. CASE u \in New
    <3>1. PICK k \in Positions(raft[n].queued_reqs, req) : u = At(k) /\ <<"queue", n, k>> \in Places(req)
      BY <1>1, <2>2
    <3>2. <<"queue", n, j>> = <<"queue", n, k>> /\ req \in submitted BY <2>1, <3>1 DEF RequestInv
    <3>3. j = k BY <3>2
    <3> QED BY <2>1, <3>1, <3>2, <3>3
  <2>3. CASE u \notin New
    <3>1. PICK o \in Places(req) : u = Now(s, n, o) BY <1>2, <2>3
    <3>2. o = <<"queue", n, j>> BY <2>1, <3>1 DEF RequestInv
    <3> QED BY <1>3, <1>4, <3>1, <3>2
  <2> QED BY <2>2, <2>3
<1>6. CASE p \notin New /\ q \notin New
  <2>1. PICK o \in Places(req) : p = Now(s, n, o) BY <1>2, <1>6
  <2>2. PICK u \in Places(req) : q = Now(s, n, u) BY <1>2, <1>6
  <2>3. o = u /\ req \in submitted BY DEF RequestInv
  <2> QED BY <2>1, <2>2, <2>3 DEF Moves
<1> QED BY <1>5, <1>6 DEF Moves

\* A request that stays in its queue, and one that stays in its block.
LEMMA QueuePositions ==
  ASSUME QueuesStay, NEW req, NEW m \in Node, NEW i \in Positions(raft[m].queued_reqs, req)'
  PROVE  i \in Positions(raft[m].queued_reqs, req)
<1>1. Positions(<<>>, req) = {} BY DEF Positions
<1>2. Positions(raft[m].queued_reqs, req)' = Positions(raft'[m].queued_reqs, req) BY DEF Positions
<1> QED BY <1>1, <1>2 DEF QueuesStay

\* A block with a request in it was there before a step that appends none.
LEMMA BlockData ==
  ASSUME BlocksStay, NEW req \in Request, NEW l \in Leaders', NEW b \in chain'[l].db, b.data = req
  PROVE  l \in Leaders /\ b \in chain[l].db
<1>1. b # GenesisBlock BY GenesisAssumption DEF GenesisBlock, Request
<1> QED BY <1>1 DEF BlocksStay

\* A request that a step puts nowhere.
LEMMA QuietMoves ==
  ASSUME NEW s \in Node, NEW n \in Node, NEW req \in Request,
         QueuesStay, Requestless(s, n), BlocksStay, submitted \subseteq submitted'
  PROVE  Moves(s, n, req, {})
<1>1. ASSUME NEW t \in Node, NEW d \in Node, NEW i \in Positions(net[t][d], req)'
      PROVE  i \in Nat \ {0} /\ Earlier(s, n, t, d, i) \in Positions(net[t][d], req)
  BY RequestlessPositions, ZenonT(30)
<1> QED BY <1>1, QueuePositions, BlockData DEF Moves

\* A step that moves no request.
LEMMA QuietRequests ==
  ASSUME RequestInv, NEW s \in Node, NEW n \in Node,
         QueuesStay, Requestless(s, n), BlocksStay, submitted \subseteq submitted'
  PROVE  RequestInv'
<1> SUFFICES ASSUME NEW req \in Request, NEW p \in Places(req)', NEW q \in Places(req)'
             PROVE  p = q /\ req \in submitted'
  BY DEF RequestInv
<1>1. Moves(s, n, req, {}) BY QuietMoves
<1> QED BY <1>1, RequestStays, ZenonT(30)
-----------------------------------------------------------------------------
(* Handlers that move no request *)

\* The changes of role keep the queue or drop it.
LEMMA QueueFields ==
  ASSUME NEW r \in RaftState, NEW t
  PROVE  /\ term(r, t).queued_reqs = r.queued_reqs
         /\ Follower_to_Candidate(r).queued_reqs = <<>>
         /\ Candidate_to_Follower(r).queued_reqs = r.queued_reqs
         /\ Candidate_to_Leader(r).queued_reqs = <<>>
BY ZenonT(30) DEF term, Follower_to_Candidate, Candidate_to_Follower, Candidate_to_Leader, RaftState

\* A vote leaves the queue as it is or empties it (candidate.rs:apply_vote_response).
LEMMA VoteResponseQueue ==
  ASSUME NEW r \in RaftState, NEW from \in Node, NEW granted \in BOOLEAN
  PROVE  LET q == apply_vote_response(r, from, granted).queued_reqs
         IN  q = r.queued_reqs \/ q = <<>>
<1> DEFINE e == [r EXCEPT !.votes = vote(@, from, granted)]
           d == [e EXCEPT !.voted_for = None]
           status == election_status(e.votes)
<1>1. e \in RaftState /\ e.queued_reqs = r.queued_reqs
  <2>1. vote(r.votes, from, granted) \in Votes BY VoteType DEF RaftState
  <2> QED BY <2>1 DEF RaftState
<1>2. d \in RaftState /\ d.queued_reqs = r.queued_reqs
  <2> HIDE DEF e
  <2> QED BY <1>1 DEF RaftState
<1>3. apply_vote_response(r, from, granted) =
        CASE status = "Elected"  -> Candidate_to_Leader(e)
          [] status = "Defeated" -> Candidate_to_Follower(d)
          [] OTHER               -> e
  BY DEF apply_vote_response
<1> HIDE DEF e, d, status
<1>4. CASE status = "Elected" BY <1>1, <1>3, <1>4, QueueFields
<1>5. CASE status = "Defeated"
  <2>1. apply_vote_response(r, from, granted) = Candidate_to_Follower(d) BY <1>3, <1>5
  <2> QED BY <1>2, <2>1, QueueFields
<1>6. CASE status # "Elected" /\ status # "Defeated" BY <1>1, <1>3, <1>6
<1> QED BY <1>4, <1>5, <1>6

\* Outboxes over a set of messages.
LEMMA OutboxOver ==
  ASSUME NEW T, NEW ms \in Seq(T), NEW p
  PROVE  /\ To(p, ms) \in [Node -> Seq(T)]
         /\ ToPeers(p, ms) \in [Node -> Seq(T)]
         /\ Nothing \in [Node -> Seq(T)]
<1>1. <<>> \in Seq(T) OBVIOUS
<1> QED BY <1>1 DEF To, ToPeers, Nothing

\* A handler whose messages are all of other types.
LEMMA SendsNoRequest ==
  ASSUME NEW s \in Node, NEW n \in Node, NEW T, NEW out \in [Node -> Seq(T)], Carried(s, n, out),
         \A m \in T : m.type # "ClientRequest"
  PROVE  Requestless(s, n)
<1> SUFFICES ASSUME NEW t \in Node, NEW d \in Node, NEW i \in DOMAIN net'[t][d],
                    net'[t][d][i].type = "ClientRequest"
             PROVE  /\ i \in Nat \ {0}
                    /\ Earlier(s, n, t, d, i) \in DOMAIN net[t][d]
                    /\ net'[t][d][i] = net[t][d][Earlier(s, n, t, d, i)]
  BY DEF Requestless
<1>1. ASSUME NEW j \in DOMAIN out[d] PROVE net'[t][d][i] # out[d][j]
  <2>1. out[d] \in Seq(T) OBVIOUS
  <2>2. out[d][j] \in T BY <2>1
  <2> QED BY <2>2
<1> QED BY <1>1 DEF Carried

\* A handler of the first message of a link, which sends `out`.
LEMMA ExchangeQuiet ==
  ASSUME TypeInv, NEW s \in Node, NEW n \in Node, NEW type, Receives(s, n, type),
         NEW T, NEW out \in [Node -> Seq(T)], Exchange(s, n, out),
         \A m \in T : m.type # "ClientRequest"
  PROVE  Requestless(s, n)
<1>1. s # n /\ net[s][n] # <<>> BY ReceivesFields
<1>2. Carried(s, n, out) BY <1>1, ExchangePositions
<1> QED BY <1>2, SendsNoRequest

\* One that sends nothing, or one message to one peer, or to all.
LEMMA ExchangeOne ==
  ASSUME TypeInv, NEW s \in Node, NEW n \in Node, NEW type, Receives(s, n, type),
         NEW m, m.type # "ClientRequest", NEW p,
         \/ Exchange(s, n, Nothing)
         \/ Exchange(s, n, To(p, <<m>>))
         \/ Exchange(s, n, ToPeers(p, <<m>>))
         \/ Exchange(s, n, ToPeers(p, <<>>))
  PROVE  Requestless(s, n)
<1>1. <<m>> \in Seq({m}) /\ <<>> \in Seq({m}) OBVIOUS
<1>2. /\ To(p, <<m>>) \in [Node -> Seq({m})]
      /\ ToPeers(p, <<m>>) \in [Node -> Seq({m})]
      /\ ToPeers(p, <<>>) \in [Node -> Seq({m})]
      /\ Nothing \in [Node -> Seq({m})]
  BY <1>1, OutboxOver, ZenonT(30)
<1>3. \A x \in {m} : x.type # "ClientRequest" OBVIOUS
<1>4. \A out \in [Node -> Seq({m})] : Exchange(s, n, out) => Requestless(s, n)
  BY <1>3, ExchangeQuiet
<1> QED BY <1>2, <1>4, ZenonT(30)

\* The roles stay, and the leaders' blocks.
LEMMA RoutineBlocks ==
  ASSUME TypeInv, NEW n \in Node, NEW q, raft' = [raft EXCEPT ![n] = q], q.role = raft[n].role,
         NEW c, chain' = [chain EXCEPT ![n] = c], n \in Leaders => c.db = chain[n].db
  PROVE  BlocksStay
<1>1. raft'[n] = q /\ \A p \in Node \ {n} : raft'[p] = raft[p] BY DEF TypeInv
<1>2. chain'[n] = c /\ \A p \in Node \ {n} : chain'[p] = chain[p] BY DEF TypeInv
<1>3. Leaders' = Leaders BY <1>1 DEF Leaders
<1>4. ASSUME NEW l \in Leaders' PROVE l \in Leaders /\ chain'[l].db = chain[l].db
  <2>1. l \in Leaders /\ l \in Node BY <1>3 DEF Leaders
  <2> QED BY <1>2, <2>1
<1> QED BY <1>4 DEF BlocksStay

\* Only n changes, and keeps its queue or drops it.
LEMMA OneQueue ==
  ASSUME TypeInv, NEW n \in Node, NEW q, raft' = [raft EXCEPT ![n] = q],
         q.queued_reqs = raft[n].queued_reqs \/ q.queued_reqs = <<>>
  PROVE  QueuesStay
<1>1. raft'[n] = q /\ \A p \in Node \ {n} : raft'[p] = raft[p] BY DEF TypeInv
<1> QED BY <1>1 DEF QueuesStay

\* A new leader is the first one, and no server had a block before it.
LEMMA ElectoralBlocks ==
  ASSUME TypeInv, AtMostOneLeader', ChainsAreLeaders, NEW n \in Node, raft[n].role # "Leader",
         NEW q, raft' = [raft EXCEPT ![n] = q], chain' = chain
  PROVE  BlocksStay
<1>1. raft'[n] = q /\ \A p \in Node \ {n} : raft'[p] = raft[p] BY DEF TypeInv
<1>2. Leaders \subseteq Leaders' BY <1>1 DEF Leaders
<1> SUFFICES ASSUME NEW l \in Leaders', NEW b \in chain[l].db
             PROVE  b = GenesisBlock \/ (l \in Leaders /\ b \in chain[l].db)
  BY DEF BlocksStay
<1>3. l \in Node BY DEF Leaders
<1>4. CASE l \in Leaders BY <1>4
<1>5. CASE l \notin Leaders
  <2>1. Leaders = {} BY <1>2, <1>5 DEF AtMostOneLeader
  <2> QED BY <1>3, <2>1 DEF ChainsAreLeaders
<1> QED BY <1>4, <1>5

\* A step of n that moves no request.
MovesNone(n) ==
  /\ QueuesStay
  /\ \E s \in Node : Requestless(s, n)
  /\ BlocksStay
  /\ submitted \subseteq submitted'

\* A step of an election (follower.rs, candidate.rs).
LEMMA ElectoralMovesNone ==
  ASSUME TypeInv, AtMostOneLeader', ChainsAreLeaders, NEW n \in Node, raft[n].role # "Leader",
         NEW q, raft' = [raft EXCEPT ![n] = q],
         q.queued_reqs = raft[n].queued_reqs \/ q.queued_reqs = <<>>,
         NEW s \in Node, Requestless(s, n), chain' = chain, submitted' = submitted
  PROVE  MovesNone(n)
BY OneQueue, ElectoralBlocks, ZenonT(30) DEF MovesNone

\* A step outside elections.
LEMMA RoutineMovesNone ==
  ASSUME TypeInv, NEW n \in Node,
         NEW q, raft' = [raft EXCEPT ![n] = q], q.role = raft[n].role,
         q.queued_reqs = raft[n].queued_reqs \/ q.queued_reqs = <<>>,
         NEW c, chain' = [chain EXCEPT ![n] = c], n \in Leaders => c.db = chain[n].db,
         NEW s \in Node, Requestless(s, n), submitted \subseteq submitted'
  PROVE  MovesNone(n)
BY OneQueue, RoutineBlocks, ZenonT(30) DEF MovesNone

\* candidate.rs:seek_election.
LEMMA SeekMovesNone ==
  ASSUME TypeInv, AtMostOneLeader', ChainsAreLeaders, NEW n \in Node, raft[n].role # "Leader",
         seek_election(n)
  PROVE  MovesNone(n)
<1> DEFINE c == [Follower_to_Candidate(raft[n]) EXCEPT !.voted_for = n, !.current_term = @ + 1]
           r == apply_vote_response(c, n, TRUE)
           request == [type |-> "VoteRequest", term |-> c.current_term, candidate_id |-> n,
                       last_term |-> c.current_term, head |-> chain[n].head]
           asked == [i \in 1..(Cardinality(Node) - 1) |-> request]
           T == {request, Heartbeat(n, r)}
<1>1. /\ raft' = [raft EXCEPT ![n] = r]
      /\ Transmit(n, ToPeers(n, asked \o elect(n, r)))
      /\ chain' = chain /\ submitted' = submitted
  BY ZenonT(30) DEF seek_election
<1>2. c \in RaftState /\ c.queued_reqs = <<>>
  <2> DEFINE f == Follower_to_Candidate(raft[n])
             g == [f EXCEPT !.voted_for = n]
  <2>1. f \in RaftState BY ToCandidateFields DEF TypeInv
  <2>2. f.queued_reqs = <<>> BY QueueFields, ZenonT(30) DEF TypeInv
  <2>3. c = [g EXCEPT !.current_term = g.current_term + 1] OBVIOUS
  <2> HIDE DEF f, c
  <2>4. g \in RaftState /\ g.queued_reqs = <<>> BY <2>1, <2>2 DEF RaftState
  <2> HIDE DEF g
  <2>5. g.current_term + 1 \in Nat BY <2>4 DEF RaftState
  <2> QED BY <2>3, <2>4, <2>5 DEF RaftState
<1>3. r.queued_reqs = <<>>
  <2> HIDE DEF c
  <2> QED BY <1>2, VoteResponseQueue, ZenonT(30)
<1>4. request.type # "ClientRequest" OBVIOUS
<1>5. Heartbeat(n, r).type # "ClientRequest" BY DEF Heartbeat
<1>6. asked \in Seq(T)
  <2>1. Cardinality(Node) \in Nat /\ Cardinality(Node) - 1 \in Nat
    <3>1. Cardinality(Node) \in Nat /\ Cardinality(Node) # 0
      BY NodeAssumption, FS_CardinalityType, FS_EmptySet
    <3> QED BY <3>1
  <2> DEFINE k == Cardinality(Node) - 1
  <2>2. request \in T /\ k \in Nat BY <2>1
  <2>3. asked = [i \in 1..k |-> request] OBVIOUS
  <2> HIDE DEF request, T, k, asked
  <2> QED BY <2>2, <2>3
<1> HIDE DEF r, request, asked
<1>7. elect(n, r) \in Seq(T)
  <2>1. Heartbeat(n, r) \in T OBVIOUS
  <2> HIDE DEF T
  <2>2. <<Heartbeat(n, r)>> \in Seq(T) /\ <<>> \in Seq(T) BY <2>1
  <2> QED BY <2>2 DEF elect
<1>8. \A m \in T : m.type # "ClientRequest" BY <1>4, <1>5
<1> HIDE DEF T
<1>9. ToPeers(n, asked \o elect(n, r)) \in [Node -> Seq(T)]
  <2>1. asked \o elect(n, r) \in Seq(T) BY <1>6, <1>7
  <2> QED BY <2>1, OutboxOver, ZenonT(30)
<1>10. Carried(n, n, ToPeers(n, asked \o elect(n, r))) BY <1>1, <1>9, TransmitPositions
<1>11. Requestless(n, n) BY <1>8, <1>9, <1>10, SendsNoRequest
<1> QED BY <1>1, <1>3, <1>11, ElectoralMovesNone, ZenonT(30)

\* The other handlers of an election.
LEMMA ElectionMovesNone ==
  ASSUME TypeInv, AtMostOneLeader', ChainsAreLeaders, NEW s \in Node, NEW n \in Node,
         \/ Follower_apply_vote_request(s, n)
         \/ Candidate_apply_vote_request(s, n)
         \/ Candidate_apply_vote_response(s, n)
         \/ Candidate_apply_append_entries(s, n)
         \/ Candidate_apply_heartbeat(s, n)
  PROVE  MovesNone(n)
<1> DEFINE m == Head(net[s][n])
<1>1. raft[n] \in RaftState BY DEF TypeInv
<1>2. raft[n].role # "Leader" /\ chain' = chain /\ submitted' = submitted
  BY DEF Follower_apply_vote_request, Candidate_apply_vote_request, Candidate_apply_vote_response,
         Candidate_apply_append_entries, Candidate_apply_heartbeat, Is
<1>3. ASSUME NEW type, Receives(s, n, type), NEW q, raft' = [raft EXCEPT ![n] = q],
             q.queued_reqs = raft[n].queued_reqs \/ q.queued_reqs = <<>>,
             NEW x, x.type # "ClientRequest", NEW p,
             \/ Exchange(s, n, Nothing)
             \/ Exchange(s, n, To(p, <<x>>))
             \/ Exchange(s, n, ToPeers(p, <<x>>))
             \/ Exchange(s, n, ToPeers(p, <<>>))
      PROVE  MovesNone(n)
  <2>1. Requestless(s, n) BY <1>3, ExchangeOne, ZenonT(30)
  <2> QED BY <1>2, <1>3, <2>1, ElectoralMovesNone, ZenonT(30)
<1>4. CASE Follower_apply_vote_request(s, n)
  <2> DEFINE granted == can_vote(n, m.last_term, m.head)
             q == [raft[n] EXCEPT !.voted_for = IF granted THEN m.candidate_id ELSE @]
             response == [type |-> "VoteResponse", from |-> n, granted |-> granted]
  <2>1. /\ Receives(s, n, "VoteRequest")
        /\ raft' = [raft EXCEPT ![n] = q]
        /\ Exchange(s, n, To(m.candidate_id, <<response>>))
    BY <1>4, ZenonT(30) DEF Follower_apply_vote_request
  <2>2. q.queued_reqs = raft[n].queued_reqs BY <1>1 DEF RaftState
  <2>3. response.type # "ClientRequest" OBVIOUS
  <2> HIDE DEF q, response, m
  <2> QED BY <1>3, <2>1, <2>2, <2>3, ZenonT(30)
<1>5. CASE Candidate_apply_vote_request(s, n)
  <2> DEFINE response == [type |-> "VoteResponse", from |-> n, granted |-> FALSE]
             q == Candidate_to_Follower(term(raft[n], m.term))
  <2>1. /\ Receives(s, n, "VoteRequest")
        /\ \/ raft' = [raft EXCEPT ![n] = q] /\ Exchange(s, n, Nothing)
           \/ raft' = raft /\ Exchange(s, n, To(m.candidate_id, <<response>>))
    BY <1>5, ZenonT(30) DEF Candidate_apply_vote_request
  <2>2. q.queued_reqs = raft[n].queued_reqs
    <3>1. m.term \in Nat BY <2>1, ReceivesFields, CommandFields
    <3>2. term(raft[n], m.term) \in RaftState BY <1>1, <3>1, TermFields, ZenonT(30)
    <3> QED BY <1>1, <3>2, QueueFields
  <2>3. response.type # "ClientRequest" OBVIOUS
  <2>4. raft = [raft EXCEPT ![n] = raft[n]] BY DEF TypeInv
  <2> HIDE DEF q, response, m
  <2> QED BY <1>3, <2>1, <2>2, <2>3, <2>4, ZenonT(30)
<1>6. CASE Candidate_apply_vote_response(s, n)
  <2> DEFINE q == apply_vote_response(raft[n], m.from, m.granted)
  <2>1. /\ Receives(s, n, "VoteResponse")
        /\ raft' = [raft EXCEPT ![n] = q]
        /\ Exchange(s, n, ToPeers(n, elect(n, q)))
    BY <1>6, ZenonT(30) DEF Candidate_apply_vote_response
  <2>2. m.from \in Node /\ m.granted \in BOOLEAN BY <2>1, ReceivesFields, CommandFields
  <2>3. q.queued_reqs = raft[n].queued_reqs \/ q.queued_reqs = <<>>
    BY <1>1, <2>2, VoteResponseQueue, ZenonT(30)
  <2>4. Heartbeat(n, q).type # "ClientRequest" BY DEF Heartbeat
  <2>5. elect(n, q) = <<Heartbeat(n, q)>> \/ elect(n, q) = <<>> BY ZenonT(30) DEF elect
  <2> HIDE DEF q, m
  <2> QED BY <1>3, <2>1, <2>3, <2>4, <2>5, ZenonT(30)
<1>7. CASE Candidate_apply_append_entries(s, n)
  <2> DEFINE q == IF m.term >= raft[n].current_term THEN Candidate_to_Follower(raft[n]) ELSE raft[n]
             x == [type |-> "VoteResponse"]
  <2>1. /\ Receives(s, n, "AppendEntries")
        /\ raft' = [raft EXCEPT ![n] = q]
        /\ Exchange(s, n, Nothing)
    BY <1>7, ZenonT(30) DEF Candidate_apply_append_entries
  <2>2. q.queued_reqs = raft[n].queued_reqs BY <1>1, QueueFields
  <2>3. x.type # "ClientRequest" OBVIOUS
  <2> HIDE DEF q, x, m
  <2> QED BY <1>3, <2>1, <2>2, <2>3, ZenonT(30)
<1>8. CASE Candidate_apply_heartbeat(s, n)
  <2> DEFINE f == [term(raft[n], m.term) EXCEPT !.voted_for = m.leader_id]
             q == Candidate_to_Follower(f)
             response == [type |-> "HeartbeatResponse", commit |-> chain[n].commit,
                          has_committed |-> Chain_has(chain[n], m.commit)]
  <2>1. /\ Receives(s, n, "Heartbeat")
        /\ raft' = [raft EXCEPT ![n] = q]
        /\ Exchange(s, n, To(m.leader_id, <<response>>))
    BY <1>8, ZenonT(30) DEF Candidate_apply_heartbeat
  <2>2. m.term \in Nat /\ m.leader_id \in Node BY <2>1, ReceivesFields, CommandFields
  <2>3. f \in RaftState /\ f.queued_reqs = raft[n].queued_reqs
    <3>1. term(raft[n], m.term) \in RaftState BY <1>1, <2>2, TermFields
    <3>2. term(raft[n], m.term).queued_reqs = raft[n].queued_reqs BY <1>1, QueueFields
    <3> QED BY <2>2, <3>1, <3>2, ZenonT(30) DEF RaftState
  <2>4. q.queued_reqs = raft[n].queued_reqs
    <3> HIDE DEF f
    <3> QED BY <2>3, QueueFields
  <2>5. response.type # "ClientRequest" OBVIOUS
  <2> HIDE DEF q, response, m
  <2> QED BY <1>3, <2>1, <2>4, <2>5, ZenonT(30)
<1> QED BY <1>4, <1>5, <1>6, <1>7, <1>8

\* The links lose messages, or nothing happens on them.
LEMMA LossyRequestless ==
  ASSUME TypeInv, NEW n \in Node,
         \A t, d \in Node : net'[t][d] = net[t][d] \/ net'[t][d] = <<>>
  PROVE  Requestless(n, n)
<1>1. \A t, d, i : Earlier(n, n, t, d, i) = i BY DEF Earlier
<1>2. ASSUME NEW t \in Node, NEW d \in Node, NEW i \in DOMAIN net'[t][d]
      PROVE  i \in Nat \ {0} /\ i \in DOMAIN net[t][d] /\ net'[t][d][i] = net[t][d][i]
  <2>1. net'[t][d] = net[t][d] OBVIOUS
  <2>2. net[t][d] \in Seq(FiniteCommand) BY DEF TypeInv
  <2> QED BY <2>1, <2>2
<1> QED BY <1>1, <1>2 DEF Requestless

\* A step of n that leaves its raft and its chain alone.
LEMMA IdleMovesNone ==
  ASSUME TypeInv, NEW n \in Node, NEW s \in Node, Requestless(s, n),
         raft' = raft, chain' = chain, submitted \subseteq submitted'
  PROVE  MovesNone(n)
<1>1. raft = [raft EXCEPT ![n] = raft[n]] /\ chain = [chain EXCEPT ![n] = chain[n]] BY DEF TypeInv
<1> QED BY <1>1, RoutineMovesNone, ZenonT(30)

\* follower.rs:apply_append_entries.
LEMMA FollowerAppendMovesNone ==
  ASSUME TypeInv, NEW s \in Node, NEW n \in Node, Follower_apply_append_entries(s, n)
  PROVE  MovesNone(n)
<1> DEFINE m == Head(net[s][n])
           g == [term(raft[n], m.term) EXCEPT !.leader_id = m.leader_id, !.voted_for = m.leader_id]
<1>1. /\ Is(n, "Follower")
      /\ Receives(s, n, "AppendEntries")
      /\ raft' = [raft EXCEPT ![n] = g] \/ raft' = [raft EXCEPT ![n] = raft[n]]
      /\ \E c : chain' = [chain EXCEPT ![n] = c]
      /\ \/ Exchange(s, n, Nothing)
         \/ \E h : Exchange(s, n, To(m.leader_id, <<[type |-> "AppendResponse", node_id |-> n, head |-> h]>>))
      /\ submitted' = submitted
  BY ZenonT(30) DEF Follower_apply_append_entries
<1>2. raft[n] \in RaftState /\ m.term \in Nat BY <1>1, ReceivesFields, CommandFields DEF TypeInv
<1>3. g.role = raft[n].role /\ g.queued_reqs = raft[n].queued_reqs
  <2>1. term(raft[n], m.term) \in RaftState /\ term(raft[n], m.term).role = raft[n].role
    BY <1>2, TermFields, ZenonT(30)
  <2>2. term(raft[n], m.term).queued_reqs = raft[n].queued_reqs BY <1>2, QueueFields
  <2> HIDE DEF m
  <2> QED BY <2>1, <2>2, ZenonT(30) DEF RaftState
<1>4. Requestless(s, n)
  <2>1. \A h : [type |-> "AppendResponse", node_id |-> n, head |-> h].type # "ClientRequest" OBVIOUS
  <2> QED BY <1>1, <2>1, ExchangeOne, ZenonT(30)
<1>5. PICK q : raft' = [raft EXCEPT ![n] = q] /\ q.role = raft[n].role
               /\ q.queued_reqs = raft[n].queued_reqs
  BY <1>1, <1>3, ZenonT(30)
<1>6. PICK c : chain' = [chain EXCEPT ![n] = c] BY <1>1, ZenonT(30)
<1>7. n \notin Leaders BY <1>1 DEF Is, Leaders
<1> QED BY <1>1, <1>4, <1>5, <1>6, <1>7, RoutineMovesNone, ZenonT(30)

\* leader.rs:apply_append_response.
LEMMA LeaderAcknowledgeMovesNone ==
  ASSUME TypeInv, NEW s \in Node, NEW n \in Node, Leader_apply_append_response(s, n)
  PROVE  MovesNone(n)
<1> DEFINE m == Head(net[s][n])
           q == [raft[n] EXCEPT !.progress = advance(raft[n].progress, m.node_id, m.head)]
           x == [type |-> "AppendResponse"]
<1>1. /\ Receives(s, n, "AppendResponse")
      /\ raft' = [raft EXCEPT ![n] = q]
      /\ \/ chain' = [chain EXCEPT ![n] = chain[n]]
         \/ \E k : chain' = [chain EXCEPT ![n] = Chain_commit(chain[n], k)]
      /\ Exchange(s, n, Nothing)
      /\ submitted' = submitted
  BY ZenonT(30) DEF Leader_apply_append_response, Leader_acknowledge
<1>2. raft[n] \in RaftState /\ chain[n] \in FiniteChain BY DEF TypeInv
<1>3. q.role = raft[n].role /\ q.queued_reqs = raft[n].queued_reqs BY <1>2, ZenonT(30) DEF RaftState
<1>4. x.type # "ClientRequest" OBVIOUS
<1> HIDE DEF x, q
<1>5. Requestless(s, n) BY <1>1, <1>4, ExchangeOne, ZenonT(30)
<1>6. PICK c : chain' = [chain EXCEPT ![n] = c] /\ c.db = chain[n].db
  <2>1. \A k : Chain_commit(chain[n], k).db = chain[n].db
    BY <1>2 DEF Chain_commit, FiniteChain, ChainState
  <2> QED BY <1>1, <2>1, ZenonT(30)
<1> QED BY <1>1, <1>3, <1>5, <1>6, RoutineMovesNone, ZenonT(30)

\* What a leader sends (leader.rs:replicate, heartbeat).
LEMMA LeaderOutbox ==
  ASSUME NEW n \in Node, NEW T, T = {AppendEntries(n, p) : p \in Node} \cup {Heartbeat(n, raft[n])}
  PROVE  /\ replicate(n) \in [Node -> Seq(T)]
         /\ <<Heartbeat(n, raft[n])>> \in Seq(T)
         /\ \A m \in T : m.type # "ClientRequest"
<1>1. \A p \in Node : AppendEntries(n, p) \in T OBVIOUS
<1>2. Heartbeat(n, raft[n]) \in T OBVIOUS
<1>3. \A p \in Node : AppendEntries(n, p).type # "ClientRequest" BY DEF AppendEntries
<1>4. Heartbeat(n, raft[n]).type # "ClientRequest" BY DEF Heartbeat
<1>5. \A m \in T : m.type # "ClientRequest" BY <1>3, <1>4
<1>6. \A p \in Node : <<AppendEntries(n, p)>> \in Seq(T) BY <1>1
<1>7. replicate(n) \in [Node -> Seq(T)]
  <2>1. <<>> \in Seq(T) OBVIOUS
  <2>2. \A p \in Node : (IF p = n THEN <<>> ELSE <<AppendEntries(n, p)>>) \in Seq(T) BY <1>6, <2>1, ZenonT(30)
  <2> QED BY <2>2, ZenonT(30) DEF replicate
<1> QED BY <1>2, <1>5, <1>7

\* leader.rs:apply_tick.
LEMMA LeaderTickMovesNone ==
  ASSUME TypeInv, NEW n \in Node, NEW due, Leader_apply_tick(n, due)
  PROVE  MovesNone(n)
<1> DEFINE beats == IF due THEN <<Heartbeat(n, raft[n])>> ELSE <<>>
           out == [p \in Node |-> ToPeers(n, beats)[p] \o replicate(n)[p]]
<1>1. /\ Transmit(n, out) \/ net' = net
      /\ raft' = raft /\ chain' = chain /\ submitted' = submitted
  BY ZenonT(30) DEF Leader_apply_tick
<1>2. CASE net' = net
  <2>1. Requestless(n, n) BY <1>2, LossyRequestless
  <2> QED BY <1>1, <2>1, IdleMovesNone, ZenonT(30)
<1>3. CASE Transmit(n, out)
  <2>1. PICK T : T = {AppendEntries(n, p) : p \in Node} \cup {Heartbeat(n, raft[n])} BY ZenonT(30)
  <2>2. /\ replicate(n) \in [Node -> Seq(T)]
        /\ <<Heartbeat(n, raft[n])>> \in Seq(T)
        /\ \A m \in T : m.type # "ClientRequest"
    BY <2>1, LeaderOutbox, ZenonT(30)
  <2>3. beats \in Seq(T) BY <2>2
  <2> HIDE DEF beats
  <2>4. ToPeers(n, beats) \in [Node -> Seq(T)] BY <2>3, OutboxOver
  <2>5. out \in [Node -> Seq(T)] BY <2>2, <2>4
  <2> HIDE DEF out
  <2>6. Carried(n, n, out) BY <1>3, <2>5, TransmitPositions
  <2>7. Requestless(n, n) BY <2>2, <2>5, <2>6, SendsNoRequest, ZenonT(30)
  <2> QED BY <1>1, <2>7, IdleMovesNone, ZenonT(30)
<1> QED BY <1>1, <1>2, <1>3

\* The handlers that only take a message, or answer it with blocks.
LEMMA IdleHandlers ==
  ASSUME TypeInv, NEW s \in Node, NEW n \in Node,
         \/ Leader_apply_heartbeat_response(s, n)
         \/ Leader_apply_append_entries(s, n)
         \/ Ignore(s, n)
  PROVE  MovesNone(n)
<1>1. /\ raft' = raft /\ chain' = chain /\ submitted' = submitted
      /\ \E type : Receives(s, n, type)
      /\ Exchange(s, n, Nothing) \/ Exchange(s, n, replicate(n))
  BY ZenonT(30) DEF Leader_apply_heartbeat_response, Leader_apply_append_entries, Ignore
<1>2. PICK T : T = {AppendEntries(n, p) : p \in Node} \cup {Heartbeat(n, raft[n])} BY ZenonT(30)
<1>3. /\ replicate(n) \in [Node -> Seq(T)]
      /\ <<Heartbeat(n, raft[n])>> \in Seq(T)
      /\ \A m \in T : m.type # "ClientRequest"
  BY <1>2, LeaderOutbox, ZenonT(30)
<1>4. Nothing \in [Node -> Seq(T)] BY <1>3, OutboxOver, ZenonT(30)
<1>5. Requestless(s, n) BY <1>1, <1>3, <1>4, ExchangeQuiet, ZenonT(30)
<1> QED BY <1>1, <1>5, IdleMovesNone, ZenonT(30)

\* Crashes, and connections that fail.
LEMMA FailuresMoveNone ==
  ASSUME TypeInv, NEW s \in Node, NEW n \in Node,
         Crash(n) \/ send_task_fails(n) \/ Disconnect(s, n)
  PROVE  MovesNone(n)
<1>1. /\ raft' = raft /\ chain' = chain /\ submitted' = submitted
      /\ net' = net \/ net' = [net EXCEPT ![s][n] = <<>>]
  BY ZenonT(30) DEF Crash, send_task_fails, Disconnect, Link_fails
<1>2. ASSUME NEW t \in Node, NEW d \in Node PROVE net'[t][d] = net[t][d] \/ net'[t][d] = <<>>
  <2>1. CASE net' = net BY <2>1
  <2>2. CASE net' = [net EXCEPT ![s][n] = <<>>] BY <2>2, SMTT(30) DEF TypeInv
  <2> QED BY <1>1, <2>1, <2>2
<1>3. Requestless(n, n) BY <1>2, LossyRequestless
<1> QED BY <1>1, <1>3, IdleMovesNone, ZenonT(30)
-----------------------------------------------------------------------------
(* Handlers that move requests *)

\* The positions of a request on the links after a step of n that sends `out`.
Comes(s, n, out, req) ==
  \A t, d \in Node : \A i \in Positions(net[t][d], req)' :
    /\ i \in Nat \ {0}
    /\ \/ Earlier(s, n, t, d, i) \in Positions(net[t][d], req)
       \/ t = n /\ \E j \in Positions(out[d], req) : i = Len(net[n][d]) + j

\* Where a request on a link comes from when a message is handled.
LEMMA CarriedPositions ==
  ASSUME NEW s \in Node, NEW n \in Node, NEW out, Carried(s, n, out), NEW req
  PROVE  Comes(s, n, out, req)
<1> SUFFICES ASSUME NEW t \in Node, NEW d \in Node, NEW i \in Positions(net[t][d], req)'
             PROVE  /\ i \in Nat \ {0}
                    /\ \/ Earlier(s, n, t, d, i) \in Positions(net[t][d], req)
                       \/ t = n /\ \E j \in Positions(out[d], req) : i = Len(net[n][d]) + j
  BY DEF Comes
<1>1. i \in DOMAIN net'[t][d] /\ net'[t][d][i].type = "ClientRequest" /\ net'[t][d][i].id = req
  BY DEF Positions
<1>2. /\ i \in Nat \ {0}
      /\ \/ /\ Earlier(s, n, t, d, i) \in DOMAIN net[t][d]
            /\ net'[t][d][i] = net[t][d][Earlier(s, n, t, d, i)]
         \/ /\ t = n
            /\ \E j \in DOMAIN out[d] : i = Len(net[n][d]) + j /\ net'[t][d][i] = out[d][j]
  BY <1>1, SMTT(30) DEF Carried
<1> QED BY <1>1, <1>2 DEF Positions

\* A request at the end of a queue.
LEMMA AppendPositions ==
  ASSUME NEW S, NEW queue \in Seq(S), NEW m \in S, NEW req, NEW i \in Positions(Append(queue, m), req)
  PROVE  i \in Positions(queue, req) \/ (i = Len(queue) + 1 /\ m.type = "ClientRequest" /\ m.id = req)
<1>1. /\ i \in 1..(Len(queue) + 1)
      /\ Append(queue, m)[i].type = "ClientRequest" /\ Append(queue, m)[i].id = req
  BY DEF Positions
<1>2. CASE i = Len(queue) + 1
  <2>1. Append(queue, m)[i] = m BY <1>2
  <2> QED BY <1>1, <1>2, <2>1
<1>3. CASE i # Len(queue) + 1
  <2>1. i \in DOMAIN queue /\ Append(queue, m)[i] = queue[i] BY <1>1, <1>3
  <2> QED BY <1>1, <2>1 DEF Positions
<1> QED BY <1>2, <1>3

\* A request that arrives has not been made before, or leaves its link.
LEMMA ArrivesFields ==
  ASSUME TypeInv, RequestInv, NEW s \in Node, NEW n \in Node, NEW req \in ClientRequest,
         Arrives(s, n, req)
  PROVE  /\ \/ s = n /\ req.id \notin submitted
            \/ s # n /\ 1 \in Positions(net[s][n], req.id)
         /\ req.id \in Request
         /\ req.id \in submitted'
         /\ submitted \subseteq submitted'
<1>1. req.id \in Request BY DEF ClientRequest
<1>2. CASE s = n /\ req.id \notin submitted /\ submitted' = submitted \cup {req.id} BY <1>1, <1>2
<1>3. CASE Receives(s, n, "ClientRequest") /\ req = Head(net[s][n]) /\ submitted' = submitted
  <2>1. s # n /\ net[s][n] # <<>> /\ req.type = "ClientRequest" BY <1>3, ReceivesFields
  <2>2. net[s][n] \in Seq(FiniteCommand) BY DEF TypeInv
  <2>3. 1 \in DOMAIN net[s][n] /\ net[s][n][1] = req BY <1>3, <2>1, <2>2
  <2>4. 1 \in Positions(net[s][n], req.id) BY <2>1, <2>3 DEF Positions
  <2>5. <<"link", <<s, n>>, 1>> \in Places(req.id) BY <2>4, ProxiedIs DEF Places
  <2>6. req.id \in submitted BY <1>1, <2>5 DEF RequestInv
  <2> QED BY <1>1, <1>3, <2>1, <2>4, <2>6
<1> QED BY <1>2, <1>3 DEF Arrives

\* One request moves to one place, the others stay.
LEMMA ArrivalRequests ==
  ASSUME TypeInv, RequestInv, NEW s \in Node, NEW n \in Node, NEW req \in ClientRequest,
         Arrives(s, n, req), NEW place, Moves(s, n, req.id, {place}),
         \A r \in Request \ {req.id} : Moves(s, n, r, {})
  PROVE  RequestInv'
<1> SUFFICES ASSUME NEW r \in Request, NEW p \in Places(r)', NEW q \in Places(r)'
             PROVE  p = q /\ r \in submitted'
  BY DEF RequestInv
<1>1. CASE r = req.id
  <2>1. /\ \/ s = n /\ r \notin submitted
           \/ s # n /\ 1 \in Positions(net[s][n], r)
        /\ r \in submitted'
    BY <1>1, ArrivesFields, ZenonT(30)
  <2>2. Moves(s, n, r, {place}) BY <1>1
  <2> QED BY <2>1, <2>2, RequestMoves, ZenonT(30)
<1>2. CASE r # req.id
  <2>1. Moves(s, n, r, {}) BY <1>2
  <2> QED BY <2>1, RequestStays, ZenonT(30)
<1> QED BY <1>1, <1>2

\* follower.rs:apply_client_request, with a known leader.
LEMMA ProxiedRequest ==
  ASSUME TypeInv, RequestInv, NEW s \in Node, NEW n \in Node, NEW req \in ClientRequest,
         Arrives(s, n, req), NEW l \in Node, NEW mine \in ClientRequest, mine.id = req.id,
         Hand(s, n, To(l, <<mine>>)), QueuesStay, BlocksStay
  PROVE  RequestInv'
<1> DEFINE out == To(l, <<mine>>)
           place == <<"link", <<n, l>>, Len(net[n][l]) + 1>>
<1>1. <<mine>> \in Seq(ClientRequest) OBVIOUS
<1>2. out \in [Node -> Seq(ClientRequest)] BY <1>1, OutboxOver, ZenonT(30)
<1>3. Carried(s, n, out) BY <1>2, HandPositions, ZenonT(30)
<1>4. ASSUME NEW d \in Node, NEW r, NEW j \in Positions(out[d], r)
      PROVE  d = l /\ j = 1 /\ r = req.id
  <2>1. (d # l /\ out[d] = <<>>) \/ (d = l /\ out[d] = <<mine>>) BY DEF To
  <2>2. CASE out[d] = <<>> BY <2>2 DEF Positions
  <2>3. CASE d = l /\ out[d] = <<mine>> BY <2>3 DEF Positions
  <2> QED BY <2>1, <2>2, <2>3
<1>5. submitted \subseteq submitted' BY ArrivesFields
<1> HIDE DEF out
<1>6. ASSUME NEW r \in Request, NEW New, r = req.id => place \in New PROVE Moves(s, n, r, New)
  <2>1. ASSUME NEW t \in Node, NEW d \in Node, NEW i \in Positions(net[t][d], r)'
        PROVE  /\ i \in Nat \ {0}
               /\ <<"link", <<t, d>>, i>> \in New \/ Earlier(s, n, t, d, i) \in Positions(net[t][d], r)
    <3>1. /\ i \in Nat \ {0}
          /\ \/ Earlier(s, n, t, d, i) \in Positions(net[t][d], r)
             \/ t = n /\ \E j \in Positions(out[d], r) : i = Len(net[n][d]) + j
      <4>1. Comes(s, n, out, r) BY <1>3, CarriedPositions, ZenonT(30)
      <4> QED BY <4>1 DEF Comes
    <3>2. ASSUME t = n, NEW j \in Positions(out[d], r), i = Len(net[n][d]) + j
          PROVE  <<"link", <<t, d>>, i>> \in New
      <4>1. d = l /\ j = 1 /\ r = req.id BY <1>4
      <4> QED BY <1>6, <3>2, <4>1
    <3> QED BY <3>1, <3>2
  <2> QED BY <1>5, <2>1, QueuePositions, BlockData, ZenonT(30) DEF Moves
<1>7. Moves(s, n, req.id, {place}) BY <1>6, ArrivesFields
<1>8. \A r \in Request \ {req.id} : Moves(s, n, r, {}) BY <1>6
<1> QED BY <1>7, <1>8, ArrivalRequests, ZenonT(30)

\* Handing a request on without a message.
LEMMA HandNothing ==
  ASSUME TypeInv, NEW s \in Node, NEW n \in Node, NEW req, Arrives(s, n, req),
         Hand(s, n, Nothing)
  PROVE  Requestless(s, n)
<1>1. PICK T : T = {} BY ZenonT(30)
<1>2. <<>> \in Seq(T) /\ \A m \in T : m.type # "ClientRequest" BY <1>1
<1>3. Nothing \in [Node -> Seq(T)] BY <1>2, OutboxOver, ZenonT(30)
<1>4. Carried(s, n, Nothing) BY <1>3, HandPositions, ZenonT(30)
<1> QED BY <1>2, <1>3, <1>4, SendsNoRequest, ZenonT(30)

\* follower.rs:apply_client_request without a known leader, and candidate.rs:apply_client_request.
LEMMA QueuedRequest ==
  ASSUME TypeInv, RequestInv, NEW s \in Node, NEW n \in Node, NEW req \in ClientRequest,
         Arrives(s, n, req), NEW mine \in ClientRequest, mine.id = req.id,
         raft'[n].queued_reqs = Append(raft[n].queued_reqs, mine),
         \A m \in Node \ {n} : raft'[m] = raft[m],
         Hand(s, n, Nothing), BlocksStay
  PROVE  RequestInv'
<1> DEFINE place == <<"queue", n, Len(raft[n].queued_reqs) + 1>>
<1>1. Requestless(s, n) BY HandNothing
<1>2. submitted \subseteq submitted' BY ArrivesFields
<1>3. raft[n].queued_reqs \in Seq(ClientRequest) BY ZenonT(30) DEF TypeInv, RaftState
<1>4. ASSUME NEW r \in Request, NEW New, r = req.id => place \in New PROVE Moves(s, n, r, New)
  <2>1. ASSUME NEW m \in Node, NEW i \in Positions(raft[m].queued_reqs, r)'
        PROVE  <<"queue", m, i>> \in New \/ i \in Positions(raft[m].queued_reqs, r)
    <3>1. i \in Positions(raft'[m].queued_reqs, r) BY DEF Positions
    <3>2. CASE m # n
      <4>1. raft'[m] = raft[m] BY <3>2
      <4> QED BY <3>1, <4>1
    <3>3. CASE m = n
      <4>1. i \in Positions(Append(raft[n].queued_reqs, mine), r) BY <3>1, <3>3, ZenonT(30)
      <4>2. \/ i \in Positions(raft[n].queued_reqs, r)
            \/ i = Len(raft[n].queued_reqs) + 1 /\ mine.id = r
        BY <1>3, <4>1, AppendPositions
      <4> QED BY <1>4, <3>3, <4>2
    <3> QED BY <3>2, <3>3
  <2>2. ASSUME NEW t \in Node, NEW d \in Node, NEW i \in Positions(net[t][d], r)'
        PROVE  i \in Nat \ {0} /\ Earlier(s, n, t, d, i) \in Positions(net[t][d], r)
    BY <1>1, RequestlessPositions, ZenonT(30)
  <2> QED BY <1>2, <2>1, <2>2, BlockData DEF Moves
<1>5. Moves(s, n, req.id, {place}) BY <1>4, ArrivesFields
<1>6. \A r \in Request \ {req.id} : Moves(s, n, r, {}) BY <1>4
<1> QED BY <1>5, <1>6, ArrivalRequests, ZenonT(30)

\* leader.rs:apply_client_request.
LEMMA AppendedRequest ==
  ASSUME TypeInv, RequestInv, NEW s \in Node, NEW n \in Node, NEW req \in ClientRequest,
         Arrives(s, n, req), Leader_apply_client_request(s, n, req)
  PROVE  RequestInv'
<1> DEFINE a == Chain_append(chain[n], req.id)
           block == [id |-> chain[n].id_gen, next |-> chain[n].head, data |-> req.id]
           place == <<"block", n, block>>
<1>1. /\ Is(n, "Leader")
      /\ Hand(s, n, Nothing)
      /\ \/ UNCHANGED <<raft, chain>>
         \/ \E sent : Leader_acknowledge(n, a, sent, n, a.head)
  BY ZenonT(30) DEF Leader_apply_client_request
<1>2. Requestless(s, n) BY <1>1, HandNothing, ZenonT(30)
<1>3. submitted \subseteq submitted' BY ArrivesFields
<1>4. CASE UNCHANGED <<raft, chain>>
  <2>1. MovesNone(n) BY <1>2, <1>3, <1>4, IdleMovesNone, ZenonT(30)
  <2> QED BY <1>2, <2>1, QuietRequests, ZenonT(30) DEF MovesNone
<1>5. CASE \E sent : Leader_acknowledge(n, a, sent, n, a.head)
  <2> DEFINE q == [raft[n] EXCEPT !.progress = advance(raft[n].progress, n, a.head)]
  <2>1. /\ raft' = [raft EXCEPT ![n] = q]
        /\ chain' = [chain EXCEPT ![n] = a] \/ \E k : chain' = [chain EXCEPT ![n] = Chain_commit(a, k)]
    BY <1>5, ZenonT(30) DEF Leader_acknowledge
  <2>2. raft[n] \in RaftState /\ chain[n] \in FiniteChain BY DEF TypeInv
  <2>3. q.role = raft[n].role /\ q.queued_reqs = raft[n].queued_reqs
    BY <2>2, ZenonT(30) DEF RaftState
  <2>4. a.db = Insert(chain[n].db, block) /\ \A k : Chain_commit(a, k).db = a.db
    <3>1. a \in FiniteChain BY <2>2, ChainAppendType DEF ClientRequest, Request
    <3>2. a.db = Insert(chain[n].db, block) BY <2>2 DEF Chain_append, FiniteChain, ChainState
    <3> HIDE DEF a
    <3>3. \A k : Chain_commit(a, k).db = a.db BY <3>1 DEF Chain_commit, FiniteChain, ChainState
    <3> QED BY <3>2, <3>3
  <2> HIDE DEF a, q
  <2>5. chain'[n].db \subseteq chain[n].db \cup {block} /\ \A p \in Node \ {n} : chain'[p] = chain[p]
    <3>1. chain'[n].db = a.db /\ \A p \in Node \ {n} : chain'[p] = chain[p] BY <2>1, <2>4 DEF TypeInv
    <3> QED BY <2>4, <3>1 DEF Insert
  <2>6. raft'[n] = q /\ \A p \in Node \ {n} : raft'[p] = raft[p] BY <2>1 DEF TypeInv
  <2>7. Leaders' = Leaders BY <2>3, <2>6 DEF Leaders
  <2>8. QueuesStay BY <2>1, <2>3, OneQueue, ZenonT(30)
  <2>9. ASSUME NEW r \in Request, NEW New, r = req.id => place \in New PROVE Moves(s, n, r, New)
    <3>1. ASSUME NEW l \in Leaders', NEW b \in chain'[l].db, b.data = r
          PROVE  <<"block", l, b>> \in New \/ (l \in Leaders /\ b \in chain[l].db)
      <4>1. l \in Leaders /\ l \in Node BY <2>7 DEF Leaders
      <4>2. CASE l # n BY <2>5, <4>1, <4>2
      <4>3. CASE l = n
        <5>1. b \in chain[n].db \/ b = block BY <2>5, <4>3
        <5>2. ASSUME b = block PROVE <<"block", l, b>> \in New
          <6>1. r = req.id BY <3>1, <5>2
          <6> QED BY <2>9, <4>3, <5>2, <6>1
        <5> QED BY <4>1, <4>3, <5>1, <5>2
      <4> QED BY <4>2, <4>3
    <3>2. ASSUME NEW t \in Node, NEW d \in Node, NEW i \in Positions(net[t][d], r)'
          PROVE  i \in Nat \ {0} /\ Earlier(s, n, t, d, i) \in Positions(net[t][d], r)
      BY <1>2, RequestlessPositions, ZenonT(30)
    <3> QED BY <1>3, <2>8, <3>1, <3>2, QueuePositions, ZenonT(30) DEF Moves
  <2>10. Moves(s, n, req.id, {place}) BY <2>9, ArrivesFields
  <2>11. \A r \in Request \ {req.id} : Moves(s, n, r, {}) BY <2>9
  <2> QED BY <2>10, <2>11, ArrivalRequests, ZenonT(30)
<1> QED BY <1>1, <1>4, <1>5

\* follower.rs:apply_heartbeat: the queue goes to the leader.
LEMMA FlushedRequests ==
  ASSUME TypeInv, RequestInv, NEW s \in Node, NEW n \in Node, Follower_apply_heartbeat(s, n)
  PROVE  RequestInv'
<1> DEFINE m == Head(net[s][n])
           l == m.leader_id
           queued == raft[n].queued_reqs
           q == [term(raft[n], m.term) EXCEPT
                   !.leader_id = m.leader_id, !.voted_for = m.leader_id, !.queued_reqs = <<>>,
                   !.proxied_reqs = @ \cup {queued[i].id : i \in DOMAIN queued}]
<1>1. /\ Is(n, "Follower")
      /\ Receives(s, n, "Heartbeat")
      /\ raft' = [raft EXCEPT ![n] = q]
      /\ \E c : chain' = [chain EXCEPT ![n] = c]
      /\ \E c, h : Exchange(s, n, To(l, Append(queued, [type |-> "HeartbeatResponse", commit |-> c,
                                                        has_committed |-> h])))
      /\ submitted' = submitted
  BY ZenonT(30) DEF Follower_apply_heartbeat
<1>2. s # n /\ net[s][n] # <<>> /\ m.term \in Nat /\ l \in Node BY <1>1, ReceivesFields, CommandFields
<1>3. raft[n] \in RaftState /\ queued \in Seq(ClientRequest) BY ZenonT(30) DEF TypeInv, RaftState
<1>4. q.role = raft[n].role /\ q.queued_reqs = <<>>
  <2>1. term(raft[n], m.term) \in RaftState /\ term(raft[n], m.term).role = raft[n].role
    BY <1>2, <1>3, TermFields, ZenonT(30)
  <2> HIDE DEF m, queued
  <2> QED BY <2>1, ZenonT(30) DEF RaftState
<1>5. raft'[n].queued_reqs = <<>> /\ QueuesStay
  <2> HIDE DEF q
  <2>1. raft'[n] = q BY <1>1 DEF TypeInv
  <2> QED BY <1>1, <1>4, <2>1, OneQueue, ZenonT(30)
<1>6. BlocksStay
  <2>1. n \notin Leaders BY <1>1 DEF Is, Leaders
  <2>2. PICK c : chain' = [chain EXCEPT ![n] = c] BY <1>1, ZenonT(30)
  <2> HIDE DEF q
  <2> QED BY <1>1, <1>4, <2>1, <2>2, RoutineBlocks, ZenonT(30)
<1>7. PICK response : /\ response.type = "HeartbeatResponse"
                      /\ Exchange(s, n, To(l, Append(queued, response)))
  <2>1. \A c, h : [type |-> "HeartbeatResponse", commit |-> c, has_committed |-> h].type
                    = "HeartbeatResponse" OBVIOUS
  <2> HIDE DEF l, queued
  <2> QED BY <1>1, <2>1, ZenonT(30)
<1> DEFINE out == To(l, Append(queued, response))
           T == ClientRequest \cup {response}
<1> HIDE DEF m, l, queued, q
<1>8. queued \in Seq(T) /\ Append(queued, response) \in Seq(T) BY <1>3
<1>9. out \in [Node -> Seq(T)] BY <1>8, OutboxOver, ZenonT(30)
<1>10. Carried(s, n, out) BY <1>2, <1>7, <1>9, ExchangePositions, ZenonT(30)
<1>11. ASSUME NEW d \in Node, NEW r, NEW j \in Positions(out[d], r)
       PROVE  d = l /\ j \in Positions(queued, r)
  <2>1. (d # l /\ out[d] = <<>>) \/ (d = l /\ out[d] = Append(queued, response)) BY DEF To
  <2>2. CASE out[d] = <<>> BY <2>2 DEF Positions
  <2>3. CASE d = l /\ out[d] = Append(queued, response)
    <3>1. response \in T OBVIOUS
    <3>2. j \in Positions(Append(queued, response), r) BY <2>3
    <3> HIDE DEF T
    <3>3. j \in Positions(queued, r) \/ response.type = "ClientRequest"
      BY <1>8, <3>1, <3>2, AppendPositions, ZenonT(30)
    <3> QED BY <1>7, <2>3, <3>3
  <2> QED BY <2>1, <2>2, <2>3
<1> HIDE DEF out
<1> SUFFICES ASSUME NEW req \in Request, NEW x \in Places(req)', NEW y \in Places(req)'
             PROVE  x = y /\ req \in submitted'
  BY DEF RequestInv
<1> DEFINE New == Flushed(n, l, req)
<1>12. Moves(s, n, req, New)
  <2>1. ASSUME NEW t \in Node, NEW d \in Node, NEW i \in Positions(net[t][d], req)'
        PROVE  /\ i \in Nat \ {0}
               /\ \/ <<"link", <<t, d>>, i>> \in New
                  \/ Earlier(s, n, t, d, i) \in Positions(net[t][d], req)
    <3>1. Comes(s, n, out, req) BY <1>10, CarriedPositions, ZenonT(30)
    <3>2. /\ i \in Nat \ {0}
          /\ \/ Earlier(s, n, t, d, i) \in Positions(net[t][d], req)
             \/ t = n /\ \E j \in Positions(out[d], req) : i = Len(net[n][d]) + j
      BY <3>1 DEF Comes
    <3>3. ASSUME t = n, NEW j \in Positions(out[d], req), i = Len(net[n][d]) + j
          PROVE  <<"link", <<t, d>>, i>> \in New
      <4>1. d = l /\ j \in Positions(queued, req) BY <1>11
      <4> QED BY <3>3, <4>1 DEF Flushed, queued
    <3> QED BY <3>2, <3>3
  <2>2. submitted \subseteq submitted' BY <1>1
  <2> HIDE DEF New
  <2> QED BY <1>5, <1>6, <2>1, <2>2, QueuePositions, BlockData, ZenonT(30) DEF Moves
<1> QED BY <1>2, <1>5, <1>12, RequestFlushed, ZenonT(30)

\* Handlers of client requests.
LEMMA ProposedRequest ==
  ASSUME TypeInv, RequestInv, NEW s \in Node, NEW n \in Node, NEW req \in ClientRequest,
         Propose(s, n, req)
  PROVE  RequestInv'
<1>1. raft[n] \in RaftState /\ chain = [chain EXCEPT ![n] = chain[n]] BY DEF TypeInv
<1>2. Arrives(s, n, req)
  BY ZenonT(30) DEF Propose, Follower_apply_client_request, Candidate_apply_client_request,
                    Leader_apply_client_request
<1> DEFINE mine == [req EXCEPT !.address = n]
           leader == raft[n].leader_id
<1>3. mine \in ClientRequest /\ mine.id = req.id BY DEF ClientRequest
<1> HIDE DEF mine
<1>4. ASSUME NEW x \in ClientRequest, x.id = req.id, chain' = chain, Hand(s, n, Nothing),
             raft' = [raft EXCEPT ![n].queued_reqs = Append(@, x)]
      PROVE  RequestInv'
  <2> DEFINE q == [raft[n] EXCEPT !.queued_reqs = Append(@, x)]
  <2>1. q.role = raft[n].role /\ q.queued_reqs = Append(raft[n].queued_reqs, x)
    BY <1>1, ZenonT(30) DEF RaftState
  <2>2. raft' = [raft EXCEPT ![n] = q] BY <1>4, ZenonT(30)
  <2> HIDE DEF q
  <2>3. raft'[n] = q /\ \A p \in Node \ {n} : raft'[p] = raft[p] BY <2>2 DEF TypeInv
  <2>4. BlocksStay BY <1>1, <1>4, <2>1, <2>2, RoutineBlocks, ZenonT(30)
  <2>5. raft'[n].queued_reqs = Append(raft[n].queued_reqs, x) BY <2>1, <2>3
  <2> QED BY <1>2, <1>4, <2>3, <2>4, <2>5, QueuedRequest, ZenonT(30)
<1>5. CASE Follower_apply_client_request(s, n, req)
  <2>1. /\ chain' = chain
        /\ \/ /\ leader # None
              /\ raft' = [raft EXCEPT ![n].proxied_reqs = @ \cup {req.id}]
              /\ Hand(s, n, To(leader, <<mine>>))
           \/ /\ raft' = [raft EXCEPT ![n].queued_reqs = Append(@, mine)]
              /\ Hand(s, n, Nothing)
    BY <1>5, ZenonT(30) DEF Follower_apply_client_request, mine
  <2>2. CASE /\ leader # None
             /\ raft' = [raft EXCEPT ![n].proxied_reqs = @ \cup {req.id}]
             /\ Hand(s, n, To(leader, <<mine>>))
    <3> DEFINE q == [raft[n] EXCEPT !.proxied_reqs = @ \cup {req.id}]
    <3>1. q.role = raft[n].role /\ q.queued_reqs = raft[n].queued_reqs
      BY <1>1, ZenonT(30) DEF RaftState
    <3>2. raft' = [raft EXCEPT ![n] = q] BY <2>2, ZenonT(30)
    <3> HIDE DEF q
    <3>3. QueuesStay BY <3>1, <3>2, OneQueue, ZenonT(30)
    <3>4. BlocksStay BY <1>1, <2>1, <3>1, <3>2, RoutineBlocks, ZenonT(30)
    <3>5. leader \in Node BY <1>1, <2>2 DEF RaftState
    <3> QED BY <1>2, <1>3, <2>2, <3>3, <3>4, <3>5, ProxiedRequest, ZenonT(30)
  <2>3. CASE /\ raft' = [raft EXCEPT ![n].queued_reqs = Append(@, mine)]
             /\ Hand(s, n, Nothing)
    BY <1>3, <1>4, <2>1, <2>3, ZenonT(30)
  <2> QED BY <2>1, <2>2, <2>3, ZenonT(30)
<1>6. CASE Candidate_apply_client_request(s, n, req)
  <2>1. /\ chain' = chain
        /\ raft' = [raft EXCEPT ![n].queued_reqs = Append(@, req)]
        /\ Hand(s, n, Nothing)
    BY <1>6, ZenonT(30) DEF Candidate_apply_client_request
  <2> QED BY <1>4, <2>1, ZenonT(30)
<1>7. CASE Leader_apply_client_request(s, n, req) BY <1>2, <1>7, AppendedRequest
<1> QED BY <1>5, <1>6, <1>7, ZenonT(30) DEF Propose

\* Every step keeps each request in one place.
LEMMA NextRequests ==
  ASSUME TypeInv, AtMostOneLeader', ChainsAreLeaders, RequestInv, Next
  PROVE  RequestInv'
<1>1. ASSUME NEW n \in Node, MovesNone(n) PROVE RequestInv'
  BY <1>1, QuietRequests, ZenonT(30) DEF MovesNone
<1>2. ASSUME NEW s \in Node, NEW n \in Node, Apply(s, n) PROVE RequestInv'
  BY <1>1, <1>2, FlushedRequests, FollowerAppendMovesNone, ElectionMovesNone,
     LeaderAcknowledgeMovesNone, IdleHandlers, ZenonT(30) DEF Apply
<1>3. ASSUME NEW n \in Node, Tick(n) PROVE RequestInv'
  <2>1. CASE Follower_apply_tick(n) \/ Candidate_apply_tick(n)
    <3>1. seek_election(n) /\ raft[n].role # "Leader"
      BY <2>1 DEF Follower_apply_tick, Candidate_apply_tick, Is
    <3> QED BY <1>1, <3>1, SeekMovesNone
  <2>2. CASE \E due \in BOOLEAN : Leader_apply_tick(n, due) BY <1>1, <2>2, LeaderTickMovesNone, ZenonT(30)
  <2> QED BY <1>3, <2>1, <2>2 DEF Tick
<1>4. ASSUME NEW s \in Node, NEW n \in Node,
             Crash(n) \/ send_task_fails(n) \/ Disconnect(s, n)
      PROVE  RequestInv'
  BY <1>1, <1>4, FailuresMoveNone
<1> QED BY <1>2, <1>3, <1>4, ProposedRequest, ZenonT(30) DEF Next

\* No request is anywhere at first.
LEMMA InitRequests == Init => RequestInv
<1> SUFFICES ASSUME Init, NEW req \in Request PROVE Places(req) = {}
  BY DEF RequestInv
<1>1. \A n \in Node : /\ raft[n].role = "Follower" /\ raft[n].queued_reqs = <<>>
                      /\ \A d \in Node : net[n][d] = <<>>
  BY DEF Init, Tcp_Init, Follower_new
<1>2. Leaders = {} BY <1>1 DEF Leaders
<1>3. Positions(<<>>, req) = {} BY DEF Positions
<1>4. Appended(req) = {} BY <1>2, ZenonT(30) DEF Appended
<1> QED BY <1>1, <1>3, <1>4, ZenonT(30) DEF Places, Waiting, Proxied

\* A step that changes nothing.
LEMMA NothingMoves ==
  ASSUME RequestInv, UNCHANGED vars
  PROVE  RequestInv'
<1>1. raft' = raft /\ chain' = chain /\ net' = net /\ submitted' = submitted BY DEF vars
<1>2. Leaders' = Leaders BY <1>1 DEF Leaders
<1> SUFFICES ASSUME NEW req PROVE Places(req)' = Places(req)
  BY <1>1, ZenonT(30) DEF RequestInv
<1>3. Waiting(req)' = Waiting(req) BY <1>1 DEF Waiting, Positions
<1>4. Proxied(req)' = Proxied(req) BY <1>1 DEF Proxied, Positions
<1>5. Appended(req)' = Appended(req) BY <1>1, <1>2 DEF Appended
<1> QED BY <1>3, <1>4, <1>5 DEF Places
=============================================================================
