------------------------- MODULE RaftDeliveryLemmas -------------------------
(***************************************************************************)
(* What the steps of replication do to the queues of the state machine     *)
(* drivers: DeliveryInv for each of the kinds of steps, and what the       *)
(* invariants say of the log and of the state machines.                    *)
(***************************************************************************)
EXTENDS RaftLemmas
-----------------------------------------------------------------------------
(* Queues of instructions *)

\* An instruction more.
LEMMA AppendedSlots ==
  ASSUME NEW q \in Seq(Instruction), NEW x \in Instruction, NEW s
  PROVE  s \in Slots(Append(q, x)) <=>
           \/ s \in Slots(q)
           \/ x.type = "Apply" /\ \E b \in x.blocks : s = <<Len(q) + 1, b>>
<1> DEFINE r == Append(q, x)
<1>1. /\ r[Len(q) + 1] = x
      /\ \A i \in DOMAIN q : r[i] = q[i]
      /\ \A i : i \in DOMAIN r <=> i \in DOMAIN q \/ i = Len(q) + 1
  OBVIOUS
<1> HIDE DEF r
<1>2. s \in Slots(r) <=> \E i \in DOMAIN r : IsSlot(r, i, s) BY SlotIs, ZenonT(30)
<1>3. s \in Slots(q) <=> \E i \in DOMAIN q : IsSlot(q, i, s) BY SlotIs, ZenonT(30)
<1>4. \A i \in DOMAIN q : IsSlot(r, i, s) <=> IsSlot(q, i, s) BY <1>1, ZenonT(30) DEF IsSlot
<1>5. IsSlot(r, Len(q) + 1, s) <=> x.type = "Apply" /\ \E b \in x.blocks : s = <<Len(q) + 1, b>>
  BY <1>1, ZenonT(30) DEF IsSlot
<1>6. s \in Slots(r) <=> s \in Slots(q) \/ IsSlot(r, Len(q) + 1, s)
  BY <1>1, <1>2, <1>3, <1>4, ZenonT(30)
<1> QED BY <1>5, <1>6, ZenonT(30) DEF r

\* What is told stays told.
LEMMA NotifiedStays ==
  ASSUME NEW q \in Seq(Instruction), NEW x \in Instruction, NEW b,
         NEW k \in Int, NEW m \in Int, k <= m, k <= Len(q), Notified(q, b, k)
  PROVE  Notified(Append(q, x), b, m)
<1>1. PICK j \in 1..k : /\ q[j].type = "Notify"
                        /\ q[j].block_id = b.id
                        /\ q[j].id = b.data
  BY ZenonT(30) DEF Notified
<1>2. j \in 1..m /\ Append(q, x)[j] = q[j] OBVIOUS
<1> QED BY <1>1, <1>2, ZenonT(30) DEF Notified

\* A queue that ends with a notice tells of its block.
LEMMA NotifiedLast ==
  ASSUME NEW q \in Seq(Instruction), NEW x \in Instruction, NEW b,
         x.type = "Notify", x.block_id = b.id, x.id = b.data
  PROVE  Notified(Append(q, x), b, Len(q) + 1)
<1>1. Len(q) + 1 \in 1..(Len(q) + 1) /\ Append(q, x)[Len(q) + 1] = x OBVIOUS
<1> QED BY <1>1, ZenonT(30) DEF Notified

\* A notice applies no block.
LEMMA NoticeAppliesNone ==
  ASSUME NEW q \in Seq(Instruction), NEW x \in Instruction, x.type = "Notify"
  PROVE  Slots(Append(q, x)) = Slots(q)
<1>1. x.type # "Apply" OBVIOUS
<1>2. \A s : s \in Slots(Append(q, x)) <=> s \in Slots(q) BY <1>1, AppendedSlots, ZenonT(30)
<1> QED BY <1>2, ZenonT(30)

\* The chain the blocks are of may grow.
LEMMA AppliesOfMore ==
  ASSUME NEW q, NEW db, NEW more, NEW ids, AppliesInOrder(q, db, ids), db \subseteq more
  PROVE  AppliesInOrder(q, more, ids)
BY ZenonT(30) DEF AppliesInOrder

\* Later blocks come after the ones applied.
LEMMA AppliesMore ==
  ASSUME NEW q \in Seq(Instruction), NEW x \in Instruction, x.type = "Apply",
         NEW db \in SUBSET Block, NEW ids \in SUBSET Nat, AppliesInOrder(q, db, ids),
         x.blocks \subseteq db, \A i \in ids, b \in x.blocks : i < b.id
  PROVE  AppliesInOrder(Append(q, x), db, ids \cup Ids(x.blocks))
<1> DEFINE r == Append(q, x)
           New == {<<Len(q) + 1, b>> : b \in x.blocks}
<1>1. \A s : s \in Slots(r) <=> s \in Slots(q) \/ s \in New BY AppendedSlots, ZenonT(30)
<1>2. \A s \in New : s[1] = Len(q) + 1 /\ s[2] \in x.blocks OBVIOUS
<1>3. \A s \in Slots(q) : s[1] \in 1..Len(q) /\ s[2] \in db /\ s[2].id \in ids
  BY SlotFields, ZenonT(30) DEF AppliesInOrder
<1>4. \A b \in x.blocks : <<Len(q) + 1, b>> \in New /\ <<Len(q) + 1, b>>[2] = b OBVIOUS
<1> HIDE DEF r, New
<1>5. \A s \in Slots(r) : s[2] \in db BY <1>1, <1>2, <1>3, ZenonT(30)
<1>6. ASSUME NEW s \in Slots(r), NEW t \in Slots(r), s[1] < t[1] PROVE s[2].id < t[2].id
  <2>1. CASE s \in Slots(q) /\ t \in Slots(q) BY <1>6, <2>1 DEF AppliesInOrder
  <2>2. CASE s \in Slots(q) /\ t \in New BY <1>2, <1>3, <2>2, ZenonT(30)
  <2>3. CASE s \in New /\ t \in Slots(q)
    <3>1. s[1] = Len(q) + 1 /\ t[1] \in 1..Len(q) /\ Len(q) \in Nat BY <1>2, <1>3, <2>3
    <3> QED BY <1>6, <3>1
  <2>4. CASE s \in New /\ t \in New
    <3>1. s[1] = Len(q) + 1 /\ t[1] = Len(q) + 1 /\ Len(q) \in Nat BY <1>2, <2>4
    <3> QED BY <1>6, <3>1
  <2> QED BY <1>1, <2>1, <2>2, <2>3, <2>4, ZenonT(30)
<1>7. ASSUME NEW i PROVE i \in {s[2].id : s \in Slots(r)} <=> i \in ids \cup Ids(x.blocks)
  <2>1. i \in {s[2].id : s \in Slots(r)} <=> \E s \in Slots(r) : i = s[2].id BY ZenonT(30)
  <2>2. i \in ids <=> \E s \in Slots(q) : i = s[2].id BY ZenonT(30) DEF AppliesInOrder
  <2>3. i \in Ids(x.blocks) <=> \E b \in x.blocks : i = b.id BY ZenonT(30) DEF Ids
  <2>4. (\E b \in x.blocks : i = b.id) <=> \E s \in New : i = s[2].id BY <1>2, <1>4, ZenonT(30)
  <2> QED BY <1>1, <2>1, <2>2, <2>3, <2>4, ZenonT(30)
<1>8. {s[2].id : s \in Slots(r)} = ids \cup Ids(x.blocks) BY <1>7, ZenonT(30)
<1> QED BY <1>5, <1>6, <1>8, ZenonT(30) DEF AppliesInOrder, r

\* An empty queue applies nothing.
LEMMA AppliesNone ==
  ASSUME NEW db
  PROVE  AppliesInOrder(<<>>, db, {})
<1>1. PICK T : T = {} BY ZenonT(30)
<1>2. Slots(<<>>) = T /\ \A s : s \notin T BY <1>1, NoSlots, ZenonT(30)
<1>3. {s[2].id : s \in T} = T BY <1>2, ZenonT(30)
<1> QED BY <1>1, <1>2, <1>3, ZenonT(30) DEF AppliesInOrder
-----------------------------------------------------------------------------
(* The order of execution *)

\* As many slots as ids.
LEMMA CountedById ==
  ASSUME NEW T, NEW K \in Nat,
         \A t \in T : t[2].id \in 1..K,
         \A k \in 1..K : \E t \in T : t[2].id = k,
         \A s, t \in T : s[2].id = t[2].id => s = t
  PROVE  Cardinality(T) = K
<1> DEFINE f == [k \in 1..K |-> CHOOSE t \in T : t[2].id = k]
<1>1. \A k \in 1..K : f[k] \in T /\ f[k][2].id = k OBVIOUS
<1>2. f \in [1..K -> T] BY <1>1
<1> HIDE DEF f
<1>3. \A i, k \in 1..K : f[i] = f[k] => i = k BY <1>1
<1>4. \A t \in T : \E k \in 1..K : f[k] = t BY <1>1
<1>5. f \in Bijection(1..K, T) BY <1>2, <1>3, <1>4, ZenonT(30) DEF Bijection, Injection, Surjection, IsInjective
<1>6. ExistsBijection(1..K, T) BY <1>5 DEF ExistsBijection
<1> QED BY <1>6, FS_CountingElements

\* The proposals of the blocks 1 to K of a store, in order.
Line(db, K) == [k \in 1..K |-> (CHOOSE b \in db : b.id = k).data]

\* Slots whose blocks are the blocks 1 to K of a store, in order.
Lists(slots, db, K) ==
  /\ \A s \in slots : s[2] \in db /\ s[2].id \in 1..K
  /\ \A k \in 1..K : \E s \in slots : s[2].id = k
  /\ \A s, t \in slots : s[2].id = t[2].id => s = t
  /\ \A s, t \in slots : Precedes(s, t) <=> s[2].id <= t[2].id

\* What slots that list a store execute.
LEMMA InOrderIsLine ==
  ASSUME NEW slots, NEW db, OnePerId(db), NEW K \in Nat, Lists(slots, db, K)
  PROVE  InOrder(slots) = Line(db, K)
<1> DEFINE rank(s) == Cardinality({t \in slots : Precedes(t, s)})
           at(k) == CHOOSE s \in slots : rank(s) = k
<1>1. Cardinality(slots) = K BY CountedById DEF Lists
<1>2. ASSUME NEW s \in slots PROVE rank(s) = s[2].id
  <2> DEFINE T == {t \in slots : Precedes(t, s)}
             i == s[2].id
  <2>1. i \in 1..K /\ i \in Nat BY DEF Lists
  <2>2. \A t \in T : t \in slots /\ t[2].id \in 1..K /\ t[2].id <= i BY DEF Lists
  <2>3. \A t \in T : t[2].id \in 1..i BY <2>1, <2>2
  <2>4. ASSUME NEW k \in 1..i PROVE \E t \in T : t[2].id = k
    <3>1. k \in 1..K /\ k <= i BY <2>1
    <3>2. PICK t \in slots : t[2].id = k BY <3>1 DEF Lists
    <3>3. t \in T BY <3>1, <3>2 DEF Lists
    <3> QED BY <3>2, <3>3
  <2>5. \A x, t \in T : x[2].id = t[2].id => x = t BY <2>2 DEF Lists
  <2> HIDE DEF T
  <2>6. Cardinality(T) = i BY <2>1, <2>3, <2>4, <2>5, CountedById
  <2> QED BY <2>6 DEF T
<1> HIDE DEF rank
<1>3. ASSUME NEW k \in 1..K PROVE at(k)[2].data = (CHOOSE b \in db : b.id = k).data
  <2>1. PICK s \in slots : s[2].id = k BY DEF Lists
  <2>2. rank(s) = k BY <1>2, <2>1
  <2>3. at(k) \in slots /\ rank(at(k)) = k BY <2>2
  <2>4. at(k)[2].id = k BY <1>2, <2>3
  <2> HIDE DEF at
  <2>5. at(k)[2] \in db BY <2>3 DEF Lists
  <2>6. (CHOOSE b \in db : b.id = k) \in db /\ (CHOOSE b \in db : b.id = k).id = k BY <2>4, <2>5, ZenonT(30)
  <2>7. (CHOOSE b \in db : b.id = k) = at(k)[2] BY <2>4, <2>5, <2>6 DEF OnePerId
  <2> QED BY <2>7, ZenonT(30)
<1>4. InOrder(slots) = [k \in 1..Cardinality(slots) |-> at(k)[2].data] BY ZenonT(30) DEF InOrder, rank
<1> HIDE DEF at
<1>5. [k \in 1..K |-> at(k)[2].data] = Line(db, K) BY <1>3 DEF Line
<1> QED BY <1>1, <1>4, <1>5

\* What a driver executes that is given the blocks 1 to K, the first block aside.
LEMMA ExecutesLine ==
  ASSUME NEW q \in Seq(Instruction), NEW db \in SUBSET Block, OnePerId(db), NEW ids \in SUBSET Nat,
         AppliesInOrder(q, db, ids), NEW K \in Nat, ids \ {0} = 1..K
  PROVE  InOrder({s \in Slots(q) : s[2].id # 0}) = Line(db, K)
<1> DEFINE T == {s \in Slots(q) : s[2].id # 0}
<1>1. ASSUME NEW s \in T
      PROVE  s \in Slots(q) /\ s[2] \in db /\ s[2].id \in 1..K /\ s[1] \in Nat /\ s = <<s[1], s[2]>>
  <2>1. s \in Slots(q) /\ s[2].id # 0 OBVIOUS
  <2>2. s[2] \in db /\ s[2].id \in ids BY <2>1 DEF AppliesInOrder
  <2>3. s[1] \in 1..Len(q) /\ s = <<s[1], s[2]>> BY <2>1, SlotFields
  <2> HIDE DEF T
  <2> QED BY <2>1, <2>2, <2>3
<1>2. ASSUME NEW k \in 1..K PROVE \E s \in T : s[2].id = k
  <2>1. k \in ids /\ k # 0 OBVIOUS
  <2>2. PICK s \in Slots(q) : s[2].id = k BY <2>1 DEF AppliesInOrder
  <2> QED BY <2>1, <2>2
<1> HIDE DEF T
<1>3. \A s, t \in T : s[1] < t[1] => s[2].id < t[2].id BY <1>1 DEF AppliesInOrder
<1>4. \A s \in T : s[2].id \in Nat /\ s[1] \in Nat BY <1>1
<1>5. ASSUME NEW s \in T, NEW t \in T, s[2].id = t[2].id PROVE s = t
  <2>1. s[1] = t[1] BY <1>3, <1>4, <1>5
  <2>2. s[2] = t[2] BY <1>1, <1>5 DEF OnePerId
  <2> QED BY <1>1, <2>1, <2>2
<1>6. ASSUME NEW s \in T, NEW t \in T PROVE Precedes(s, t) <=> s[2].id <= t[2].id
  BY <1>3, <1>4 DEF Precedes
<1>7. Lists(T, db, K) BY <1>1, <1>2, <1>5, <1>6 DEF Lists
<1> QED BY <1>7, InOrderIsLine DEF T

\* The log of committed blocks 1 to K.
LEMMA LogsLine ==
  ASSUME NEW B, NEW db \in SUBSET Block, OnePerId(db), B \subseteq db, NEW K \in Nat, Ids(B) \ {0} = 1..K
  PROVE  InOrder({<<1, b>> : b \in {b \in B : b.id # 0}}) = Line(db, K)
<1> DEFINE C == {b \in B : b.id # 0}
           T == {<<1, b>> : b \in C}
<1>1. \A b \in C : b \in db /\ b.id \in 1..K BY DEF Ids
<1>2. \A k \in 1..K : \E b \in C : b.id = k
  <2> SUFFICES ASSUME NEW k \in 1..K PROVE \E b \in C : b.id = k
    OBVIOUS
  <2>1. k \in Ids(B) /\ k # 0 OBVIOUS
  <2> QED BY <2>1 DEF Ids
<1> HIDE DEF C
<1>3. \A s \in T : s[1] = 1 /\ s[2] \in C /\ s = <<1, s[2]>> OBVIOUS
<1>4. \A b \in C : <<1, b>> \in T /\ <<1, b>>[2] = b OBVIOUS
<1> HIDE DEF T
<1>5. \A s \in T : s[2] \in db /\ s[2].id \in 1..K BY <1>1, <1>3
<1>6. \A k \in 1..K : \E s \in T : s[2].id = k BY <1>2, <1>4, ZenonT(30)
<1>7. ASSUME NEW s \in T, NEW t \in T, s[2].id = t[2].id PROVE s = t
  <2>1. s[2] = t[2] BY <1>5, <1>7 DEF OnePerId
  <2> QED BY <1>3, <2>1
<1>8. ASSUME NEW s \in T, NEW t \in T PROVE Precedes(s, t) <=> s[2].id <= t[2].id
  <2>1. s[1] = 1 /\ t[1] = 1 /\ ~(1 < 1) BY <1>3
  <2> QED BY <2>1 DEF Precedes
<1>9. Lists(T, db, K) BY <1>5, <1>6, <1>7, <1>8 DEF Lists
<1> QED BY <1>9, InOrderIsLine DEF T, C

\* A line is a sequence.
LEMMA LineType ==
  ASSUME NEW db, NEW K \in Nat
  PROVE  /\ Line(db, K) \in Seq({(CHOOSE b \in db : b.id = k).data : k \in 1..K})
         /\ Len(Line(db, K)) = K /\ DOMAIN Line(db, K) = 1..K
<1> DEFINE D == {(CHOOSE b \in db : b.id = k).data : k \in 1..K}
<1>1. Line(db, K) \in [1..K -> D] BY ZenonT(30) DEF Line
<1> HIDE DEF D
<1>2. Line(db, K) \in Seq(D) /\ Len(Line(db, K)) = K /\ DOMAIN Line(db, K) = 1..K BY <1>1
<1> QED BY <1>2, ZenonT(30) DEF D

\* A block of the line.
LEMMA LineElement ==
  ASSUME NEW db, OnePerId(db), NEW K \in Nat, NEW b \in db, b.id \in 1..K
  PROVE  Line(db, K)[b.id] = b.data
<1> DEFINE c == CHOOSE x \in db : x.id = b.id
<1>1. c \in db /\ c.id = b.id OBVIOUS
<1>2. c = b BY <1>1 DEF OnePerId
<1> QED BY <1>2 DEF Line

\* A longer line of a larger store begins with the shorter one.
LEMMA LineGrows ==
  ASSUME NEW db, NEW more, OnePerId(more), db \subseteq more, NEW K \in Nat, NEW M \in Nat, K <= M,
         1..K \subseteq Ids(db)
  PROVE  \A k \in 1..K : Line(more, M)[k] = Line(db, K)[k]
<1> SUFFICES ASSUME NEW k \in 1..K PROVE Line(more, M)[k] = Line(db, K)[k]
  OBVIOUS
<1>1. PICK b \in db : b.id = k BY DEF Ids
<1>2. OnePerId(db) /\ b \in more BY DEF OnePerId
<1>3. b.id \in 1..K /\ b.id \in 1..M BY <1>1
<1>4. Line(db, K)[b.id] = b.data BY <1>2, <1>3, LineElement
<1>5. Line(more, M)[b.id] = b.data BY <1>2, <1>3, LineElement
<1> QED BY <1>1, <1>4, <1>5

\* A line of a larger store is the same line.
LEMMA LineStays ==
  ASSUME NEW db, NEW more, OnePerId(more), db \subseteq more, NEW K \in Nat, 1..K \subseteq Ids(db)
  PROVE  Line(more, K) = Line(db, K)
<1>1. \A k \in 1..K : Line(more, K)[k] = Line(db, K)[k] BY LineGrows
<1> QED BY <1>1 DEF Line

\* The beginning of a line is a line.
LEMMA LinePart ==
  ASSUME NEW db, NEW K \in Nat, NEW M \in Nat, K <= M
  PROVE  SubSeq(Line(db, M), 1, K) = Line(db, K)
<1>1. Line(db, M) \in Seq({(CHOOSE b \in db : b.id = k).data : k \in 1..M}) /\ Len(Line(db, M)) = M
  BY LineType
<1> DEFINE f(k) == (CHOOSE b \in db : b.id = k).data
<1>2. Line(db, M) = [k \in 1..M |-> f(k)] /\ Line(db, K) = [k \in 1..K |-> f(k)] BY DEF Line
<1> HIDE DEF f
<1>3. SubSeq([k \in 1..M |-> f(k)], 1, K) = [k \in 1..K |-> f(k)] OBVIOUS
<1> QED BY <1>2, <1>3

\* No slots execute nothing.
LEMMA NoOrder == InOrder({}) = <<>>
<1>1. Cardinality({}) = 0 BY FS_EmptySet
<1>2. 1..0 = {} OBVIOUS
<1> DEFINE f(k) == (CHOOSE s \in {} : Cardinality({t \in {} : Precedes(t, s)}) = k)[2].data
<1>3. InOrder({}) = [k \in 1..Cardinality({}) |-> f(k)] BY ZenonT(30) DEF InOrder
<1> HIDE DEF f
<1>4. [k \in 1..0 |-> f(k)] = <<>> OBVIOUS
<1> QED BY <1>1, <1>3, <1>4
-----------------------------------------------------------------------------
(* The leader's driver *)

\* What the driver of a leader with chain c is given.
DriverKnows(q, c) ==
  /\ \A b \in c.db : b.id # 0 => Notified(q, b, Len(q))
  /\ AppliesInOrder(q, c.db, 1..c.commit)
  /\ \A s \in Slots(q) : Notified(q, s[2], s[1] - 1)

\* The driver is told of an appended block (leader.rs:apply_client_request).
LEMMA DriverIsTold ==
  ASSUME NEW c \in FiniteChain, Unbroken(c), OnePerId(c.db), NEW q \in Seq(Instruction), DriverKnows(q, c),
         NEW data \in Data, NEW x \in Instruction,
         x.type = "Notify", x.id = data, x.block_id = Chain_append(c, data).head
  PROVE  DriverKnows(Append(q, x), Chain_append(c, data))
<1> DEFINE a == Chain_append(c, data)
           r == Append(q, x)
           block == [id |-> c.id_gen, next |-> c.head, data |-> data]
<1>1. a.db = Insert(c.db, block) /\ a.head = c.id_gen /\ a.commit = c.commit BY AppendFields
<1>2. c.db \subseteq a.db BY AppendUnbroken
<1>3. block.id = c.id_gen /\ block.data = data OBVIOUS
<1>4. \A b \in a.db : b \in c.db \/ b = block BY <1>1 DEF Insert
<1>5. Len(r) = Len(q) + 1 /\ Len(q) \in Nat OBVIOUS
<1>6. Slots(r) = Slots(q) BY NoticeAppliesNone
<1>7. x.block_id = a.head OBVIOUS
<1> HIDE DEF a, block
<1>8. ASSUME NEW b \in a.db, b.id # 0 PROVE Notified(r, b, Len(r))
  <2>1. CASE b \in c.db
    <3>1. Notified(q, b, Len(q)) BY <1>8, <2>1 DEF DriverKnows
    <3>2. Len(q) \in Int /\ Len(q) + 1 \in Int /\ Len(q) <= Len(q) + 1 /\ Len(q) <= Len(q) BY <1>5
    <3> QED BY <1>5, <3>1, <3>2, NotifiedStays
  <2>2. CASE b = block BY <1>1, <1>3, <1>5, <1>7, <2>2, NotifiedLast
  <2> QED BY <1>4, <2>1, <2>2
<1>9. AppliesInOrder(r, a.db, 1..a.commit)
  <2>1. AppliesInOrder(q, a.db, 1..a.commit) BY <1>1, <1>2, AppliesOfMore DEF DriverKnows
  <2> QED BY <1>6, <2>1, ZenonT(30) DEF AppliesInOrder
<1>10. ASSUME NEW s \in Slots(r) PROVE Notified(r, s[2], s[1] - 1)
  <2>1. s \in Slots(q) BY <1>6
  <2>2. Notified(q, s[2], s[1] - 1) BY <2>1 DEF DriverKnows
  <2>3. s[1] \in 1..Len(q) BY <2>1, SlotFields
  <2>4. s[1] - 1 \in Int /\ s[1] - 1 <= s[1] - 1 /\ s[1] - 1 <= Len(q) BY <1>5, <2>3
  <2> QED BY <2>2, <2>4, NotifiedStays
<1> QED BY <1>8, <1>9, <1>10 DEF DriverKnows, a

\* The blocks that a leader applies when it commits: the ones above the block
\* it had committed (leader.rs:commit).
LEMMA CommittedIds ==
  ASSUME NEW c \in FiniteChain, Unbroken(c), Chain_has(c, c.commit), NEW k \in Nat,
         k > c.commit, Chain_has(c, k)
  PROVE  Ids(Skip1(Range_incl(c, c.commit, k))) = (c.commit + 1)..k
<1> DEFINE R == Range_incl(c, c.commit, k)
<1>1. c.commit \in Nat /\ c.head \in Nat /\ \A b \in c.db : b.id \in Nat
  BY DEF FiniteChain, ChainState, Block
<1>2. Ids(c.db) = 0..c.head BY DEF Unbroken
<1>3. k \in 0..c.head BY <1>2, HasIds, ZenonT(30)
<1>4. PICK z \in c.db : z.id = c.commit BY DEF Chain_has
<1>5. \A b : b \in R <=> b \in c.db /\ c.commit <= b.id /\ b.id <= k BY DEF Range_incl
<1>6. z \in R BY <1>1, <1>4, <1>5
<1> HIDE DEF R
<1>7. \A b : b \in Skip1(R) <=> b \in R /\ \E y \in R : y.id < b.id BY DEF Skip1
<1>8. ASSUME NEW i \in Ids(Skip1(R)) PROVE i \in (c.commit + 1)..k
  <2>1. PICK b \in Skip1(R) : b.id = i BY DEF Ids
  <2>2. PICK y \in R : y.id < b.id BY <1>7, <2>1
  <2>3. y.id \in Nat /\ b.id \in Nat /\ c.commit <= y.id /\ b.id <= k BY <1>1, <1>5, <1>7, <2>1, <2>2
  <2> QED BY <1>1, <2>1, <2>2, <2>3
<1>9. ASSUME NEW i \in (c.commit + 1)..k PROVE i \in Ids(Skip1(R))
  <2>1. i \in 0..c.head BY <1>1, <1>3
  <2>2. PICK b \in c.db : b.id = i BY <1>2, <2>1 DEF Ids
  <2>3. b \in R /\ z.id < b.id BY <1>1, <1>4, <1>5, <2>2
  <2>4. b \in Skip1(R) BY <1>6, <1>7, <2>3, ZenonT(30)
  <2> QED BY <2>2, <2>4 DEF Ids
<1> QED BY <1>8, <1>9, ZenonT(30) DEF R

\* The leader commits and applies (leader.rs:commit).
LEMMA DriverApplies ==
  ASSUME NEW c \in FiniteChain, Unbroken(c), Chain_has(c, c.commit), NEW k \in Nat,
         k > c.commit, Chain_has(c, k), NEW q \in Seq(Instruction), DriverKnows(q, c),
         NEW x \in Instruction, x.type = "Apply", x.blocks = Skip1(Range_incl(c, c.commit, k))
  PROVE  DriverKnows(Append(q, x), Chain_commit(c, k))
<1> DEFINE r == Append(q, x)
           d == Chain_commit(c, k)
<1>1. d.db = c.db /\ d.commit = k BY CommitFields
<1>2. c.commit \in Nat /\ c.db \in SUBSET Block BY DEF FiniteChain, ChainState
<1>3. Ids(x.blocks) = (c.commit + 1)..k BY CommittedIds
<1>4. x.blocks \subseteq c.db BY DEF Skip1, Range_incl
<1>5. Len(r) = Len(q) + 1 /\ Len(q) \in Nat OBVIOUS
<1> HIDE DEF d
<1>6. ASSUME NEW b \in d.db, b.id # 0 PROVE Notified(r, b, Len(r))
  <2>1. Notified(q, b, Len(q)) BY <1>1, <1>6 DEF DriverKnows
  <2>2. Len(q) \in Int /\ Len(q) + 1 \in Int /\ Len(q) <= Len(q) + 1 /\ Len(q) <= Len(q) BY <1>5
  <2> QED BY <1>5, <2>1, <2>2, NotifiedStays
<1>7. AppliesInOrder(r, d.db, 1..d.commit)
  <2>1. AppliesInOrder(q, c.db, 1..c.commit) BY DEF DriverKnows
  <2>2. ASSUME NEW i \in 1..c.commit, NEW b \in x.blocks PROVE i < b.id
    <3>1. b.id \in (c.commit + 1)..k BY <1>3 DEF Ids
    <3>2. c.commit \in Nat BY <1>2
    <3> QED BY <3>1, <3>2
  <2>3. 1..c.commit \in SUBSET Nat BY <1>2
  <2>4. AppliesInOrder(r, c.db, 1..c.commit \cup Ids(x.blocks))
    BY <1>2, <1>4, <2>1, <2>2, <2>3, AppliesMore
  <2>5. 1..c.commit \cup (c.commit + 1)..k = 1..k BY <1>2
  <2> QED BY <1>1, <1>3, <2>4, <2>5, ZenonT(30)
<1>8. ASSUME NEW s \in Slots(r) PROVE Notified(r, s[2], s[1] - 1)
  <2>1. CASE s \in Slots(q)
    <3>1. Notified(q, s[2], s[1] - 1) BY <2>1 DEF DriverKnows
    <3>2. s[1] \in 1..Len(q) BY <2>1, SlotFields
    <3>3. s[1] - 1 \in Int /\ s[1] - 1 <= s[1] - 1 /\ s[1] - 1 <= Len(q) BY <1>5, <3>2
    <3> QED BY <3>1, <3>3, NotifiedStays
  <2>2. CASE s \notin Slots(q)
    <3>a. \E b \in x.blocks : s = <<Len(q) + 1, b>>
      <4>1. \/ s \in Slots(q)
            \/ x.type = "Apply" /\ \E b \in x.blocks : s = <<Len(q) + 1, b>>
        BY AppendedSlots
      <4> QED BY <2>2, <4>1, ZenonT(30)
    <3>1. PICK b \in x.blocks : s = <<Len(q) + 1, b>> BY <3>a, ZenonT(30)
    <3>2. s[1] - 1 = Len(q) /\ s[2] = b BY <1>5, <3>1
    <3>3. b.id # 0
      <4>1. b.id \in (c.commit + 1)..k BY <1>3 DEF Ids
      <4> QED BY <1>2, <4>1
    <3>4. Notified(q, b, Len(q)) BY <1>4, <3>3 DEF DriverKnows
    <3>5. Len(q) \in Int /\ Len(q) <= Len(q) BY <1>5
    <3> QED BY <3>2, <3>4, <3>5, NotifiedStays
  <2> QED BY <2>1, <2>2
<1> QED BY <1>6, <1>7, <1>8 DEF DriverKnows, d
-----------------------------------------------------------------------------
(* Steps *)

\* Before the first leader nothing is committed and only the first block stored.
LEMMA NothingYet ==
  ASSUME TypeInv, ReplicationInv, Leaders = {}, NEW n \in Node
  PROVE  chain[n].commit = 0 /\ \A b \in chain[n].db : b.id = 0
<1>1. ~(chain[n].commit > 0) BY ZenonT(30) DEF ReplicationInv, CommittedByMajority
<1>2. chain[n].commit \in Nat BY DEF TypeInv, FiniteChain, ChainState
<1>3. \A b \in chain[n].db : b = GenesisBlock BY ZenonT(30) DEF ReplicationInv, ChainsAreLeaders
<1> QED BY <1>1, <1>2, <1>3 DEF GenesisBlock

\* A node whose chain and driver are left alone, while the leader's chain grows.
LEMMA OtherDrivers ==
  ASSUME DriversFollow, NEW l \in Leaders, NEW p \in Node \ {l},
         chain'[p].commit = chain[p].commit, fsm'[p] = fsm[p], chain[l].db \subseteq chain'[l].db
  PROVE  AppliesInOrder(fsm'[p], chain'[l].db, 0..(chain'[p].commit - 1))
<1>1. AppliesInOrder(fsm[p], chain[l].db, 0..(chain[p].commit - 1)) BY DEF DriversFollow
<1>2. AppliesInOrder(fsm[p], chain'[l].db, 0..(chain[p].commit - 1)) BY <1>1, AppliesOfMore
<1> QED BY <1>2

\* What is to be shown of a step, leader by leader.
LEMMA DeliveryAfter ==
  ASSUME Leaders' = {} => \A n \in Node : fsm'[n] = <<>>,
         \A n \in Node : \A b \in chain'[n].db : 0..b.id \subseteq Ids(chain'[n].db),
         \A l \in Leaders' :
            /\ DriverKnows(fsm'[l], chain'[l])
            /\ \A n \in Node \ {l} :
                 AppliesInOrder(fsm'[n], chain'[l].db, 0..(chain'[n].commit - 1))
  PROVE  DeliveryInv'
<1>1. GapFree' BY DEF GapFree, Ids
<1>2. DriversFollow' BY ZenonT(30) DEF DriversFollow, DriverKnows
<1>3. NotifiedBeforeApplied' BY ZenonT(30) DEF NotifiedBeforeApplied, DriverKnows
<1> QED BY <1>1, <1>2, <1>3 DEF DeliveryInv

\* What the driver of a leader knows.
LEMMA LeaderDriver ==
  ASSUME DeliveryInv, NEW l \in Leaders
  PROVE  DriverKnows(fsm[l], chain[l])
BY ZenonT(30) DEF DeliveryInv, DriversFollow, NotifiedBeforeApplied, DriverKnows

\* A step that neither stores nor applies: a leader it makes has nothing to tell.
LEMMA QuietDelivers ==
  ASSUME TypeInv, ReplicationInv, DeliveryInv, AtMostOneLeader', Leaders \subseteq Leaders',
         chain' = chain, fsm' = fsm
  PROVE  DeliveryInv'
<1>1. ASSUME NEW n \in Node, NEW b \in chain'[n].db PROVE 0..b.id \subseteq Ids(chain'[n].db)
  BY DEF DeliveryInv, GapFree
<1>2. Leaders' = {} => \A n \in Node : fsm'[n] = <<>> BY DEF DeliveryInv
<1>3. ASSUME NEW l \in Leaders'
      PROVE  /\ DriverKnows(fsm'[l], chain'[l])
             /\ \A n \in Node \ {l} :
                  AppliesInOrder(fsm'[n], chain'[l].db, 0..(chain'[n].commit - 1))
  <2>1. CASE Leaders # {}
    <3>1. l \in Leaders BY <2>1 DEF AtMostOneLeader
    <3>2. DriverKnows(fsm[l], chain[l]) BY <3>1, LeaderDriver
    <3>3. \A n \in Node \ {l} : AppliesInOrder(fsm[n], chain[l].db, 0..(chain[n].commit - 1))
      BY <3>1, ZenonT(30) DEF DeliveryInv, DriversFollow
    <3> QED BY <3>2, <3>3, ZenonT(30)
  <2>2. CASE Leaders = {}
    <3>1. l \in Node BY DEF Leaders
    <3>2. \A n \in Node : fsm[n] = <<>> BY <2>2 DEF DeliveryInv
    <3>3. \A n \in Node : chain[n].commit = 0 /\ \A b \in chain[n].db : b.id = 0
      BY <2>2, NothingYet, ZenonT(30)
    <3>4. 1..0 = {} /\ 0..(0 - 1) = {} OBVIOUS
    <3>5. AppliesInOrder(fsm[l], chain[l].db, 1..chain[l].commit)
      BY <3>1, <3>2, <3>3, <3>4, AppliesNone
    <3>6. Slots(fsm[l]) = {} BY <3>1, <3>2, NoSlots
    <3>7. DriverKnows(fsm[l], chain[l])
      BY <3>1, <3>3, <3>5, <3>6 DEF DriverKnows
    <3>8. ASSUME NEW n \in Node PROVE AppliesInOrder(fsm[n], chain[l].db, 0..(chain[n].commit - 1))
      BY <3>2, <3>3, <3>4, AppliesNone
    <3> QED BY <3>7, <3>8, ZenonT(30)
  <2> QED BY <2>1, <2>2
<1> QED BY <1>1, <1>2, <1>3, DeliveryAfter

\* What is known of a step outside elections.
Settled ==
  /\ TypeInv /\ TypeInv'
  /\ AtMostOneLeader
  /\ ReplicationInv
  /\ ChainIsClosed
  /\ DeliveryInv
  /\ Leaders' = Leaders

\* The leader's chain and driver are left alone by a step of another node.
LEMMA OthersSee ==
  ASSUME Settled, NEW n \in Node, n \notin Leaders,
         \A p \in Node \ {n} : chain'[p] = chain[p] /\ fsm'[p] = fsm[p],
         \A b \in chain'[n].db : 0..b.id \subseteq Ids(chain'[n].db),
         Leaders = {} => fsm'[n] = <<>>,
         \A l \in Leaders : AppliesInOrder(fsm'[n], chain[l].db, 0..(chain'[n].commit - 1))
  PROVE  DeliveryInv'
<1>1. ASSUME NEW p \in Node, NEW b \in chain'[p].db PROVE 0..b.id \subseteq Ids(chain'[p].db)
  <2>1. CASE p = n BY <1>1, <2>1
  <2>2. CASE p # n BY <1>1, <2>2 DEF Settled, DeliveryInv, GapFree
  <2> QED BY <2>1, <2>2
<1>2. Leaders' = {} => \A p \in Node : fsm'[p] = <<>> BY DEF Settled, DeliveryInv
<1>3. ASSUME NEW l \in Leaders'
      PROVE  /\ DriverKnows(fsm'[l], chain'[l])
             /\ \A p \in Node \ {l} :
                  AppliesInOrder(fsm'[p], chain'[l].db, 0..(chain'[p].commit - 1))
  <2>1. l \in Leaders /\ l \in Node \ {n} BY DEF Settled, Leaders
  <2>2. chain'[l] = chain[l] /\ fsm'[l] = fsm[l] BY <2>1
  <2>3. DriverKnows(fsm[l], chain[l]) BY <2>1, LeaderDriver DEF Settled
  <2>4. ASSUME NEW p \in Node \ {l}
        PROVE  AppliesInOrder(fsm'[p], chain'[l].db, 0..(chain'[p].commit - 1))
    <3>1. CASE p = n BY <2>1, <2>2, <3>1
    <3>2. CASE p # n
      <4>1. AppliesInOrder(fsm[p], chain[l].db, 0..(chain[p].commit - 1))
        BY <2>1 DEF Settled, DeliveryInv, DriversFollow
      <4> QED BY <2>2, <3>2, <4>1
    <3> QED BY <3>1, <3>2
  <2> QED BY <2>2, <2>3, <2>4
<1> QED BY <1>1, <1>2, <1>3, DeliveryAfter

\* follower.rs:apply_append_entries.
LEMMA StoreDelivers ==
  ASSUME NEW n \in Node, Settled, Stores(n)
  PROVE  DeliveryInv'
<1> DEFINE Part(blocks, all) == \A b \in blocks, x \in all : x.id <= b.id => x \in blocks
           Extends(all) == \E blocks \in SUBSET all :
                             /\ chain' = [chain EXCEPT ![n] = Chain_extend(chain[n], blocks)]
                             /\ Part(blocks, all)
<1>a. PICK s \in Node : \E m \in Messages(s, n) : m.type = "AppendEntries" /\ Extends(m.blocks)
  BY ZenonT(30) DEF Stores
<1>b. PICK m \in Messages(s, n) : m.type = "AppendEntries" /\ Extends(m.blocks)
  BY <1>a, ZenonT(30)
<1>1. n \notin Leaders /\ fsm' = fsm BY DEF Stores
<1>2. PICK blocks \in SUBSET m.blocks : /\ chain' = [chain EXCEPT ![n] = Chain_extend(chain[n], blocks)]
                                        /\ Part(blocks, m.blocks)
  BY <1>b, ZenonT(30)
<1> DEFINE c == chain[n]
           e == Chain_extend(c, blocks)
<1>3. /\ m.blocks \in SUBSET Block /\ IsFiniteSet(m.blocks)
      /\ \A b \in m.blocks : 0..b.id \subseteq Ids(m.blocks) \cup Ids(c.db)
  <2>1. m.blocks \in SUBSET Block /\ IsFiniteSet(m.blocks)
    BY <1>b, MessageType, CommandFields DEF Settled
  <2> QED BY <1>b, <2>1 DEF Settled, ReplicationInv, MessagesAreTrue
<1>4. blocks \in SUBSET Block /\ IsFiniteSet(blocks) BY <1>3, FS_Subset
<1>5. c \in FiniteChain BY DEF Settled, TypeInv
<1>6. chain'[n] = e /\ \A p \in Node \ {n} : chain'[p] = chain[p] BY <1>2 DEF Settled, TypeInv
<1>7. e.commit = c.commit BY <1>5, ExtendCommit
<1>8. Ids(c.db) \cup Ids(blocks) \subseteq Ids(e.db) BY <1>4, <1>5, ExtendIds
<1>9. \A b \in e.db : b \in c.db \/ b \in blocks
  <2>1. CASE blocks = {} BY <2>1 DEF Chain_extend
  <2>2. CASE blocks # {} BY <1>4, <1>5, <2>2, ExtendFields
  <2> QED BY <2>1, <2>2
<1> HIDE DEF e
<1>10. ASSUME NEW b \in e.db, NEW i \in 0..b.id PROVE i \in Ids(e.db)
  <2>1. CASE b \in c.db
    <3>1. i \in Ids(c.db) BY <2>1 DEF Settled, DeliveryInv, GapFree
    <3> QED BY <1>8, <3>1
  <2>2. CASE b \in blocks
    <3>1. i \in Ids(m.blocks) \/ i \in Ids(c.db) BY <1>3, <2>2
    <3>2. CASE i \in Ids(m.blocks)
      <4>1. PICK x \in m.blocks : x.id = i BY <3>2 DEF Ids
      <4>2. b.id \in Nat BY <1>4, <2>2 DEF Block
      <4>3. x.id <= b.id BY <4>1, <4>2
      <4>4. x \in blocks BY <1>2, <2>2, <4>3
      <4> QED BY <1>8, <4>1, <4>4 DEF Ids
    <3> QED BY <1>8, <3>1, <3>2
  <2> QED BY <1>9, <2>1, <2>2
<1>11. ASSUME NEW l \in Leaders
       PROVE  AppliesInOrder(fsm'[n], chain[l].db, 0..(chain'[n].commit - 1))
  <2>1. AppliesInOrder(fsm[n], chain[l].db, 0..(chain[n].commit - 1))
    BY <1>1 DEF Settled, DeliveryInv, DriversFollow
  <2> QED BY <1>1, <1>6, <1>7, <2>1
<1>12. Leaders = {} => fsm'[n] = <<>> BY <1>1 DEF Settled, DeliveryInv
<1>13. \A b \in chain'[n].db : 0..b.id \subseteq Ids(chain'[n].db) BY <1>6, <1>10
<1>14. \A p \in Node \ {n} : chain'[p] = chain[p] /\ fsm'[p] = fsm[p] BY <1>1, <1>6
<1> QED BY <1>1, <1>11, <1>12, <1>13, <1>14, OthersSee

\* The blocks that a follower applies when it commits: from the one it had
\* committed up to the new one, which is left out (follower.rs:apply_heartbeat).
LEMMA LearnedIds ==
  ASSUME NEW c \in FiniteChain, NEW k \in Nat, Chain_has(c, k),
         \A b \in c.db : 0..b.id \subseteq Ids(c.db)
  PROVE  Ids(Range_excl(c, c.commit, k)) = c.commit..(k - 1)
<1>1. c.commit \in Nat /\ \A b \in c.db : b.id \in Nat BY DEF FiniteChain, ChainState, Block
<1>2. \A i \in 0..k : \E b \in c.db : b.id = i BY DEF Chain_has, Ids
<1> DEFINE R == Range_excl(c, c.commit, k)
<1>3. \A b : b \in R <=> b \in c.db /\ c.commit <= b.id /\ b.id < k BY DEF Range_excl
<1> HIDE DEF R
<1>4. ASSUME NEW i \in Ids(R) PROVE i \in c.commit..(k - 1)
  <2>1. PICK b \in R : b.id = i BY DEF Ids
  <2> QED BY <1>1, <1>3, <2>1
<1>5. ASSUME NEW i \in c.commit..(k - 1) PROVE i \in Ids(R)
  <2>1. i \in 0..k BY <1>1
  <2>2. PICK b \in c.db : b.id = i BY <1>2, <2>1
  <2>3. b \in R BY <1>1, <1>3, <2>2
  <2> QED BY <2>2, <2>3 DEF Ids
<1> QED BY <1>4, <1>5, ZenonT(30) DEF R

\* follower.rs:apply_heartbeat.
LEMMA CommitDelivers ==
  ASSUME NEW n \in Node, Settled, Commits(n)
  PROVE  DeliveryInv'
<1> DEFINE Said(k) ==
             /\ Chain_has(chain[n], k)
             /\ k > chain[n].commit
             /\ chain' = [chain EXCEPT ![n] = Chain_commit(chain[n], k)]
             /\ fsm' = [fsm EXCEPT ![n] = Append(@,
                  [type |-> "Apply", blocks |-> Range_excl(chain[n], chain[n].commit, k)])]
<1>a. PICK s \in Node : \E m \in Messages(s, n) : m.type = "Heartbeat" /\ Said(m.commit)
  BY ZenonT(30) DEF Commits
<1>b. PICK m \in Messages(s, n) : m.type = "Heartbeat" /\ Said(m.commit) BY <1>a, ZenonT(30)
<1>1. n \notin Leaders BY DEF Commits
<1> DEFINE c == chain[n]
           d == Chain_commit(c, m.commit)
           blocks == Range_excl(c, c.commit, m.commit)
           x == [type |-> "Apply", blocks |-> blocks]
<1>2. m.commit \in Nat BY <1>b, MessageType, CommandFields DEF Settled
<1>3. c \in FiniteChain /\ fsm[n] \in Seq(Instruction) BY DEF Settled, TypeInv
<1>4. c.commit \in Nat /\ c.db \in SUBSET Block BY <1>3 DEF FiniteChain, ChainState
<1>5. blocks \subseteq c.db BY DEF Range_excl
<1>6. x \in Instruction /\ x.type = "Apply" /\ x.blocks = blocks
  <2>1. blocks \in SUBSET Block BY <1>4, <1>5
  <2> HIDE DEF blocks
  <2> QED BY <2>1 DEF Instruction
<1>7. d.db = c.db /\ d.commit = m.commit BY <1>3, <1>b, CommitFields
<1>8. Ids(blocks) = c.commit..(m.commit - 1)
  <2>1. \A b \in c.db : 0..b.id \subseteq Ids(c.db) BY DEF Settled, DeliveryInv, GapFree
  <2> QED BY <1>2, <1>3, <1>b, <2>1, LearnedIds
<1> HIDE DEF blocks
<1>9. /\ chain'[n] = d /\ fsm'[n] = Append(fsm[n], x)
      /\ \A p \in Node \ {n} : chain'[p] = chain[p] /\ fsm'[p] = fsm[p]
  <2> HIDE DEF d, x
  <2>1. chain' = [chain EXCEPT ![n] = d] /\ fsm' = [fsm EXCEPT ![n] = Append(@, x)]
    BY <1>b, ZenonT(30) DEF d, x, blocks
  <2>2. chain \in [Node -> FiniteChain] /\ fsm \in [Node -> Seq(Instruction)]
    BY DEF Settled, TypeInv
  <2> QED BY <2>1, <2>2
<1> HIDE DEF d, x
<1>10. ASSUME NEW l \in Leaders
       PROVE  AppliesInOrder(fsm'[n], chain[l].db, 0..(chain'[n].commit - 1))
  <2>1. AppliesInOrder(fsm[n], chain[l].db, 0..(c.commit - 1))
    BY <1>1 DEF Settled, DeliveryInv, DriversFollow
  <2>2. l \in Node BY DEF Leaders
  <2>3. chain[l].db \in SUBSET Block BY <2>2, ZenonT(30) DEF Settled, TypeInv, FiniteChain, ChainState
  <2>4. blocks \subseteq chain[l].db
    <3>1. c.db \subseteq chain[l].db BY LeaderHasAll DEF Settled, ReplicationInv
    <3> QED BY <1>5, <3>1
  <2>5. ASSUME NEW i \in 0..(c.commit - 1), NEW b \in blocks PROVE i < b.id
    <3>1. b.id \in c.commit..(m.commit - 1) BY <1>8 DEF Ids
    <3> QED BY <1>2, <1>4, <3>1
  <2>6. 0..(c.commit - 1) \in SUBSET Nat BY <1>4
  <2>7. AppliesInOrder(Append(fsm[n], x), chain[l].db, 0..(c.commit - 1) \cup Ids(blocks))
    BY <1>3, <1>6, <2>1, <2>3, <2>4, <2>5, <2>6, AppliesMore, ZenonT(30)
  <2>8. 0..(c.commit - 1) \cup c.commit..(m.commit - 1) = 0..(m.commit - 1) BY <1>2, <1>4, <1>b
  <2> QED BY <1>7, <1>8, <1>9, <2>7, <2>8, ZenonT(30)
<1>11. Leaders # {}
  <2>1. m.commit > 0 BY <1>2, <1>4, <1>b
  <2>2. m.commit <= chain[s].commit BY <1>b DEF Settled, ReplicationInv, MessagesAreTrue
  <2>3. chain[s].commit \in Nat BY DEF Settled, TypeInv, FiniteChain, ChainState
  <2>4. chain[s].commit > 0 BY <1>2, <2>1, <2>2, <2>3
  <2> QED BY <2>4, ZenonT(30) DEF Settled, ReplicationInv, CommittedByMajority
<1>12. \A b \in chain'[n].db : 0..b.id \subseteq Ids(chain'[n].db)
  BY <1>7, <1>9 DEF Settled, DeliveryInv, GapFree
<1> QED BY <1>1, <1>9, <1>10, <1>11, <1>12, OthersSee, ZenonT(30)

\* leader.rs:apply_append_response, apply_client_request.
LEMMA CountDelivers ==
  ASSUME NEW n \in Node, Settled, Counts(n)
  PROVE  DeliveryInv'
<1> DEFINE Heard(a, sent, p, h) == a = chain[n] /\ sent = <<>> /\ 0..h \subseteq Ids(chain[p].db)
           Appends(a, sent, p, h) ==
             /\ p = n /\ h = a.head
             /\ \E data \in Data : a = Chain_append(chain[n], data) /\ Notifies(sent, h, data)
<1>1. PICK a \in FiniteChain, p \in Node, h \in Nat :
        \E sent : /\ Leader_acknowledge(n, a, sent, p, h)
                  /\ Heard(a, sent, p, h) \/ Appends(a, sent, p, h)
  BY ZenonT(30) DEF Counts
<1>2. PICK sent : /\ Leader_acknowledge(n, a, sent, p, h)
                  /\ Heard(a, sent, p, h) \/ Appends(a, sent, p, h)
  BY <1>1, ZenonT(30)
<1>3. n \in Leaders BY DEF Counts
<1>4. chain[n] \in FiniteChain /\ fsm[n] \in Seq(Instruction) BY DEF Settled, TypeInv
<1>5. Unbroken(chain[n]) BY <1>3, LeaderUnbroken DEF Settled, ReplicationInv
<1>6. OnePerId(chain[n].db) BY DEF Settled, ReplicationInv, ChainsAreLeaders, OnePerId
<1>7. DriverKnows(fsm[n], chain[n]) BY <1>3, LeaderDriver DEF Settled
<1>8. Chain_has(chain[n], chain[n].commit) BY DEF Settled, ChainIsClosed
<1> DEFINE q == fsm[n] \o sent
<1>9. /\ q \in Seq(Instruction) /\ DriverKnows(q, a) /\ Unbroken(a)
      /\ chain[n].db \subseteq a.db /\ a.commit = chain[n].commit /\ Chain_has(a, a.commit)
  <2>1. CASE Heard(a, sent, p, h)
    <3>1. q = fsm[n] BY <1>4, <2>1
    <3>2. a = chain[n] BY <2>1
    <3> HIDE DEF q
    <3> QED BY <1>4, <1>5, <1>7, <1>8, <3>1, <3>2
  <2>2. CASE Appends(a, sent, p, h)
    <3>1. PICK data \in Data : a = Chain_append(chain[n], data) /\ Notifies(sent, h, data)
      BY <2>2, ZenonT(30)
    <3>2. h = a.head BY <2>2
    <3>3. a.commit = chain[n].commit BY <1>4, <3>1, AppendFields, ZenonT(30)
    <3>4. Unbroken(a) /\ chain[n].db \subseteq a.db BY <1>4, <1>5, <1>6, <3>1, AppendUnbroken
    <3>5. Chain_has(a, a.commit) BY <1>8, <3>3, <3>4, ZenonT(30) DEF Chain_has
    <3>6. PICK x \in Instruction : /\ sent = <<x>> /\ x.type = "Notify"
                                   /\ x.id = data /\ x.block_id = h
      <4>1. PICK address \in Node \cup {Client} :
              sent = <<[type |-> "Notify", id |-> data, block_id |-> h, address |-> address]>>
        BY <3>1, ZenonT(30) DEF Notifies
      <4> DEFINE x == [type |-> "Notify", id |-> data, block_id |-> h, address |-> address]
      <4>2. x \in Instruction BY DEF Instruction, Request
      <4>3. sent = <<x>> /\ x.type = "Notify" /\ x.id = data /\ x.block_id = h BY <4>1
      <4> HIDE DEF x
      <4> QED BY <4>2, <4>3, ZenonT(30)
    <3>7. q = Append(fsm[n], x) BY <1>4, <3>6
    <3>8. DriverKnows(Append(fsm[n], x), a)
      BY <1>4, <1>5, <1>6, <1>7, <3>1, <3>2, <3>6, DriverIsTold
    <3>9. q \in Seq(Instruction) BY <1>4, <3>6, <3>7
    <3> HIDE DEF q
    <3> QED BY <3>3, <3>4, <3>5, <3>7, <3>8, <3>9
  <2> QED BY <1>2, <2>1, <2>2
<1> HIDE DEF q
<1>10. q = fsm[n] \o sent BY DEF q
<1>11. /\ \A m \in Node \ {n} : chain'[m] = chain[m] /\ fsm'[m] = fsm[m]
       /\ \/ chain'[n] = a /\ fsm'[n] = q
          \/ \E k \in Nat :
               /\ k > a.commit /\ Chain_has(a, k)
               /\ chain'[n] = Chain_commit(a, k)
               /\ fsm'[n] = Append(q, [type |-> "Apply",
                                       blocks |-> Skip1(Range_incl(a, a.commit, k))])
  BY <1>2, <1>9, <1>10, AcknowledgedQueue, ZenonT(30) DEF Settled
<1>12. /\ DriverKnows(fsm'[n], chain'[n])
       /\ chain'[n].db = a.db /\ chain'[n].head = a.head
  <2>1. CASE chain'[n] = a /\ fsm'[n] = q BY <1>9, <2>1
  <2>2. ASSUME NEW k \in Nat, k > a.commit, Chain_has(a, k), chain'[n] = Chain_commit(a, k),
               fsm'[n] = Append(q, [type |-> "Apply",
                                    blocks |-> Skip1(Range_incl(a, a.commit, k))])
        PROVE  /\ DriverKnows(fsm'[n], chain'[n])
               /\ chain'[n].db = a.db /\ chain'[n].head = a.head
    <3> DEFINE blocks == Skip1(Range_incl(a, a.commit, k))
               x == [type |-> "Apply", blocks |-> blocks]
    <3>1. blocks \in SUBSET Block BY DEF Skip1, Range_incl, FiniteChain, ChainState
    <3> HIDE DEF blocks
    <3>2. x \in Instruction /\ x.type = "Apply" /\ x.blocks = blocks BY <3>1 DEF Instruction
    <3>3. chain'[n].db = a.db /\ chain'[n].head = a.head BY <2>2, CommitFields
    <3>4. x.blocks = Skip1(Range_incl(a, a.commit, k)) BY <3>2 DEF blocks
    <3>5. fsm'[n] = Append(q, x) BY <2>2, ZenonT(30) DEF blocks
    <3> HIDE DEF x
    <3>6. DriverKnows(Append(q, x), Chain_commit(a, k))
      BY <1>9, <2>2, <3>2, <3>4, DriverApplies, ZenonT(30)
    <3> QED BY <2>2, <3>3, <3>5, <3>6
  <2> QED BY <1>11, <2>1, <2>2, ZenonT(30)
<1>13. ASSUME NEW m \in Node, NEW b \in chain'[m].db PROVE 0..b.id \subseteq Ids(chain'[m].db)
  <2>1. CASE m = n
    <3>1. Ids(chain'[m].db) = 0..a.head /\ a.head \in Nat
      BY <1>9, <1>12, <2>1 DEF Unbroken, FiniteChain, ChainState
    <3>2. b.id \in 0..a.head BY <3>1 DEF Ids
    <3> QED BY <3>1, <3>2
  <2>2. CASE m # n BY <1>11, <2>2, ZenonT(30) DEF Settled, DeliveryInv, GapFree
  <2> QED BY <2>1, <2>2
<1>14. ASSUME NEW l \in Leaders'
       PROVE  /\ DriverKnows(fsm'[l], chain'[l])
              /\ \A m \in Node \ {l} :
                   AppliesInOrder(fsm'[m], chain'[l].db, 0..(chain'[m].commit - 1))
  <2>1. l = n BY <1>3, ZenonT(30) DEF Settled, AtMostOneLeader
  <2>2. chain[n].db \subseteq chain'[n].db BY <1>9, <1>12, ZenonT(30)
  <2>3. ASSUME NEW m \in Node \ {l}
        PROVE  AppliesInOrder(fsm'[m], chain'[l].db, 0..(chain'[m].commit - 1))
    <3>1. m \in Node \ {n} BY <2>1
    <3>2. chain'[m].commit = chain[m].commit /\ fsm'[m] = fsm[m] BY <1>11, <3>1
    <3> QED BY <1>3, <2>1, <2>2, <3>1, <3>2, OtherDrivers, ZenonT(30) DEF Settled, DeliveryInv
  <2> QED BY <1>12, <2>1, <2>3, ZenonT(30)
<1>15. Leaders' # {} BY <1>3 DEF Settled
<1> QED BY <1>13, <1>14, <1>15, DeliveryAfter, ZenonT(30)
-----------------------------------------------------------------------------
(* The log and the state machines *)

\* How far the driver of a follower is that has committed k.
Lag(k) == IF k = 0 THEN 0 ELSE k - 1

\* The log is the leader's chain up to its committed block, the leader's state
\* machine has all of it, and any other what precedes the committed block of its
\* node.
MachinesFollow ==
  /\ Leaders = {} => CommittedLog = <<>> /\ \A n \in Node : Executed(n) = <<>>
  /\ \A l \in Leaders :
       /\ CommittedLog = Line(chain[l].db, chain[l].commit)
       /\ Executed(l) = CommittedLog
       /\ \A n \in Node \ {l} : Executed(n) = Line(chain[l].db, Lag(chain[n].commit))

\* The committed blocks are those of the leader up to its committed one.
LEMMA CommittedIsLeaders ==
  ASSUME TypeInv, AtMostOneLeader, ReplicationInv, ChainIsClosed, NEW l \in Leaders
  PROVE  /\ Committed \subseteq chain[l].db
         /\ Ids(Committed) = 0..chain[l].commit
         /\ 0..chain[l].commit \subseteq Ids(chain[l].db)
         /\ \A n \in Node : chain[n].commit <= chain[l].commit
<1> DEFINE c == chain[l]
<1>1. l \in Node /\ Unbroken(c) BY LeaderUnbroken DEF ReplicationInv
<1>2. c \in FiniteChain BY <1>1 DEF TypeInv
<1>3. c.commit \in Nat /\ c.head \in Nat /\ Ids(c.db) = 0..c.head
  BY <1>1, <1>2 DEF FiniteChain, ChainState, Unbroken
<1>4. c.commit \in Ids(c.db) BY <1>1, HasIds DEF ChainIsClosed
<1>5. \A n \in Node : chain[n].commit \in Nat /\ \A b \in chain[n].db : b.id \in Nat
  BY DEF TypeInv, FiniteChain, ChainState, Block
<1>6. ASSUME NEW n \in Node PROVE chain[n].commit <= c.commit
  <2>1. chain[n].commit \in Nat BY <1>5
  <2>2. CASE chain[n].commit > 0
    <3>1. PICK k \in Leaders : chain[n].commit <= chain[k].commit
      BY <2>2, ZenonT(30) DEF ReplicationInv, CommittedByMajority
    <3>2. k = l BY ZenonT(30) DEF AtMostOneLeader
    <3> QED BY <3>1, <3>2
  <2>3. CASE ~(chain[n].commit > 0) BY <1>3, <2>1, <2>3
  <2> QED BY <2>2, <2>3
<1>7. \A b : b \in Committed <=> \E n \in Node : b \in chain[n].db /\ b.id <= chain[n].commit
  <2> DEFINE T(n) == {b \in chain[n].db : b.id <= chain[n].commit}
  <2>1. \A b : b \in Committed <=> \E n \in Node : b \in T(n) BY ZenonT(30) DEF Committed
  <2>2. \A n, b : b \in T(n) <=> b \in chain[n].db /\ b.id <= chain[n].commit BY ZenonT(30)
  <2> HIDE DEF T
  <2> QED BY <2>1, <2>2, ZenonT(30)
<1>8. Committed \subseteq c.db
  <2>1. \A n \in Node : chain[n].db \subseteq c.db BY LeaderHasAll DEF ReplicationInv
  <2> QED BY <1>7, <2>1, ZenonT(30)
<1>9. ASSUME NEW b \in Committed PROVE b.id \in 0..c.commit
  <2>1. PICK n \in Node : b \in chain[n].db /\ b.id <= chain[n].commit BY <1>7, ZenonT(30)
  <2>2. chain[n].commit \in Nat /\ b.id \in Nat /\ chain[n].commit <= c.commit BY <1>5, <1>6, <2>1
  <2> QED BY <1>3, <2>1, <2>2
<1>10. 0..c.commit \subseteq Ids(c.db) BY <1>3, <1>4
<1>11. ASSUME NEW i \in 0..c.commit PROVE i \in Ids(Committed)
  <2>1. PICK b \in c.db : b.id = i BY <1>10 DEF Ids
  <2>2. b.id <= c.commit BY <2>1
  <2>3. b \in Committed BY <1>1, <1>7, <2>2, ZenonT(30)
  <2> QED BY <2>1, <2>3 DEF Ids
<1>12. Ids(Committed) = 0..c.commit BY <1>9, <1>11 DEF Ids
<1> QED BY <1>6, <1>8, <1>10, <1>12

\* The invariants of the cluster say what the state machines have been given.
LEMMA InvariantsMap ==
  ASSUME TypeInv, AtMostOneLeader, ReplicationInv, ChainIsClosed, DeliveryInv
  PROVE  MachinesFollow
<1>1. ASSUME Leaders = {} PROVE CommittedLog = <<>> /\ \A n \in Node : Executed(n) = <<>>
  <2>1. \A n \in Node : \A b \in chain[n].db : b.id = 0 BY <1>1, NothingYet, ZenonT(30)
  <2>2. {b \in Committed : b.id # 0} = {} BY <2>1, ZenonT(30) DEF Committed
  <2>3. {<<1, b>> : b \in {b \in Committed : b.id # 0}} = {} BY <2>2, ZenonT(30)
  <2>4. CommittedLog = <<>> BY <2>3, NoOrder, ZenonT(30) DEF CommittedLog
  <2>5. ASSUME NEW n \in Node PROVE Executed(n) = <<>>
    <3>1. fsm[n] = <<>> BY <1>1 DEF DeliveryInv
    <3>2. {s \in Slots(fsm[n]) : s[2].id # 0} = {} BY <3>1, NoSlots, ZenonT(30)
    <3> QED BY <3>2, NoOrder, ZenonT(30) DEF Executed
  <2> QED BY <2>4, <2>5
<1>2. ASSUME NEW l \in Leaders
      PROVE  /\ CommittedLog = Line(chain[l].db, chain[l].commit)
             /\ Executed(l) = CommittedLog
             /\ \A n \in Node \ {l} : Executed(n) = Line(chain[l].db, Lag(chain[n].commit))
  <2> DEFINE db == chain[l].db
             K == chain[l].commit
  <2>1. l \in Node BY DEF Leaders
  <2>2. OnePerId(db) BY <2>1 DEF ReplicationInv, ChainsAreLeaders, OnePerId
  <2>3. db \in SUBSET Block /\ K \in Nat BY <2>1, ZenonT(30) DEF TypeInv, FiniteChain, ChainState
  <2>4. Committed \subseteq db /\ Ids(Committed) = 0..K BY CommittedIsLeaders
  <2>5. 0..K \ {0} = 1..K /\ 1..K \ {0} = 1..K BY <2>3
  <2>6. \A n \in Node : fsm[n] \in Seq(Instruction) /\ chain[n].commit \in Nat
    BY DEF TypeInv, FiniteChain, ChainState
  <2> HIDE DEF db, K
  <2>7. CommittedLog = Line(db, K)
    <3>1. Ids(Committed) \ {0} = 1..K BY <2>4, <2>5
    <3> QED BY <2>2, <2>3, <2>4, <3>1, LogsLine DEF CommittedLog
  <2>8. Executed(l) = Line(db, K)
    <3>1. AppliesInOrder(fsm[l], db, 1..K) BY DEF DeliveryInv, DriversFollow, db, K
    <3>2. 1..K \in SUBSET Nat BY <2>3
    <3> QED BY <2>1, <2>2, <2>3, <2>5, <2>6, <3>1, <3>2, ExecutesLine DEF Executed
  <2>9. ASSUME NEW n \in Node \ {l} PROVE Executed(n) = Line(db, Lag(chain[n].commit))
    <3> DEFINE k == chain[n].commit
    <3>1. AppliesInOrder(fsm[n], db, 0..(k - 1)) BY DEF DeliveryInv, DriversFollow, db
    <3>2. k \in Nat /\ fsm[n] \in Seq(Instruction) BY <2>6
    <3> HIDE DEF k
    <3>3. Lag(k) \in Nat /\ 0..(k - 1) \ {0} = 1..Lag(k) /\ 0..(k - 1) \in SUBSET Nat BY <3>2 DEF Lag
    <3> QED BY <2>2, <2>3, <3>1, <3>2, <3>3, ExecutesLine DEF Executed, k
  <2> QED BY <2>7, <2>8, <2>9 DEF db, K
<1> QED BY <1>1, <1>2 DEF MachinesFollow

\* The log holds proposals that clients have made, each once.
LogIsProposed ==
  \A i, j \in DOMAIN CommittedLog :
    CommittedLog[i] \in submitted /\ (CommittedLog[i] = CommittedLog[j] => i = j)

\* A block of the leader is a place of its request.
LEMMA BlockPlace ==
  ASSUME NEW l \in Leaders, NEW b \in chain[l].db
  PROVE  <<"block", l, b>> \in Places(b.data)
<1> DEFINE T(n) == {<<"block", n, x>> : x \in {x \in chain[n].db : x.data = b.data}}
<1>1. <<"block", l, b>> \in T(l) BY ZenonT(30)
<1>2. Appended(b.data) = UNION {T(n) : n \in Leaders} BY DEF Appended
<1> HIDE DEF T
<1>3. <<"block", l, b>> \in Appended(b.data) BY <1>1, <1>2, ZenonT(30)
<1> QED BY <1>3, ZenonT(30) DEF Places

\* The log holds proposals, each once.
LEMMA LogOfProposals ==
  ASSUME TypeInv, AtMostOneLeader, ReplicationInv, ChainIsClosed, DeliveryInv, RequestInv,
         MachinesFollow
  PROVE  LogIsProposed
<1>1. CASE Leaders = {}
  <2>1. CommittedLog = <<>> BY <1>1 DEF MachinesFollow
  <2>2. DOMAIN <<>> = {} OBVIOUS
  <2>3. DOMAIN CommittedLog = {} BY <2>1, <2>2
  <2> QED BY <2>3 DEF LogIsProposed
<1>2. ASSUME NEW l \in Leaders PROVE LogIsProposed
  <2> DEFINE db == chain[l].db
             K == chain[l].commit
  <2>1. l \in Node BY DEF Leaders
  <2>2. OnePerId(db) BY <2>1 DEF ReplicationInv, ChainsAreLeaders, OnePerId
  <2>3. K \in Nat BY <2>1 DEF TypeInv, FiniteChain, ChainState
  <2>4. CommittedLog = Line(db, K) BY ZenonT(30) DEF MachinesFollow
  <2>5. DOMAIN CommittedLog = 1..K BY <2>3, <2>4, LineType, ZenonT(30)
  <2>6. 0..K \subseteq Ids(db) BY CommittedIsLeaders
  <2>7. fsm[l] \in Seq(Instruction) BY <2>1 DEF TypeInv
  <2> HIDE DEF K
  <2>8. ASSUME NEW i \in 1..K
        PROVE  \E b \in db : b.id = i /\ b.data = CommittedLog[i] /\ b.data \in Request
    <3>1. i \in 0..K /\ i # 0 BY <2>3
    <3>2. PICK b \in db : b.id = i BY <2>6, <3>1 DEF Ids
    <3>3. CommittedLog[i] = b.data BY <2>2, <2>3, <2>4, <3>2, LineElement
    <3>4. Notified(fsm[l], b, Len(fsm[l])) BY <3>1, <3>2 DEF DeliveryInv, DriversFollow
    <3>5. PICK j \in 1..Len(fsm[l]) : fsm[l][j].type = "Notify" /\ fsm[l][j].id = b.data
      BY <3>4, ZenonT(30) DEF Notified
    <3>6. fsm[l][j] \in Instruction BY <2>7
    <3>7. b.data \in Request BY <3>5, <3>6 DEF Instruction
    <3> QED BY <3>2, <3>3, <3>7
  <2>9. ASSUME NEW i \in 1..K, NEW j \in 1..K
        PROVE  CommittedLog[i] \in submitted /\ (CommittedLog[i] = CommittedLog[j] => i = j)
    <3>1. PICK b \in db : b.id = i /\ b.data = CommittedLog[i] /\ b.data \in Request
      BY <2>8, ZenonT(30)
    <3>2. PICK c \in db : c.id = j /\ c.data = CommittedLog[j] /\ c.data \in Request
      BY <2>8, ZenonT(30)
    <3>3. <<"block", l, b>> \in Places(b.data) /\ <<"block", l, c>> \in Places(c.data)
      BY BlockPlace, ZenonT(30)
    <3>4. b.data \in submitted BY <3>1, <3>3, ZenonT(30) DEF RequestInv
    <3>5. ASSUME b.data = c.data PROVE b = c
      <4>1. <<"block", l, b>> = <<"block", l, c>> BY <3>1, <3>3, <3>5, ZenonT(30) DEF RequestInv
      <4> QED BY <4>1
    <3> QED BY <3>1, <3>2, <3>4, <3>5
  <2> QED BY <2>5, <2>9 DEF LogIsProposed
<1> QED BY <1>1, <1>2
-----------------------------------------------------------------------------
(* What a step does to the log and the state machines *)

\* Nothing that can be seen.
Unseen == CommittedLog' = CommittedLog /\ \A n \in Node : Executed(n)' = Executed(n)

\* A state machine catches up.
Learns ==
  /\ submitted' = submitted
  /\ CommittedLog' = CommittedLog
  /\ \E n \in Node, k \in 1..Len(CommittedLog) :
       /\ Len(Executed(n)) < k
       /\ Executed(n)' = SubSeq(CommittedLog, 1, k)
       /\ \A p \in Node \ {n} : Executed(p)' = Executed(p)

\* The log gets longer, and the leader's state machine has all of it.
Lengthens ==
  /\ Len(CommittedLog) < Len(CommittedLog')
  /\ SubSeq(CommittedLog', 1, Len(CommittedLog)) = CommittedLog
  /\ \E n \in Node : /\ Executed(n)' = CommittedLog'
                     /\ \A p \in Node \ {n} : Executed(p)' = Executed(p)

\* What is known of a step and of the states it leads from and to.
Mapped ==
  /\ TypeInv /\ TypeInv'
  /\ AtMostOneLeader
  /\ ReplicationInv /\ ReplicationInv'
  /\ ChainIsClosed
  /\ MachinesFollow /\ MachinesFollow'
  /\ Leaders' = Leaders

\* The log is where the leader has committed.
LEMMA LogIs ==
  ASSUME Mapped, NEW l \in Leaders
  PROVE  /\ l \in Node
         /\ chain[l].commit \in Nat /\ chain'[l].commit \in Nat
         /\ OnePerId(chain[l].db) /\ OnePerId(chain'[l].db)
         /\ 1..chain[l].commit \subseteq Ids(chain[l].db)
         /\ CommittedLog = Line(chain[l].db, chain[l].commit)
         /\ CommittedLog' = Line(chain'[l].db, chain'[l].commit)
         /\ Executed(l) = CommittedLog
         /\ Executed(l)' = CommittedLog'
         /\ \A n \in Node \ {l} :
              /\ Executed(n) = Line(chain[l].db, Lag(chain[n].commit))
              /\ Executed(n)' = Line(chain'[l].db, Lag(chain'[n].commit))
              /\ chain[n].commit \in Nat /\ chain'[n].commit \in Nat
              /\ chain[n].commit <= chain[l].commit
<1>1. l \in Node /\ l \in Leaders' BY DEF Mapped, Leaders
<1>2. \A n \in Node : chain[n] \in FiniteChain /\ chain'[n] \in FiniteChain BY DEF Mapped, TypeInv
<1>3. \A n \in Node : chain[n].commit \in Nat /\ chain'[n].commit \in Nat
  BY <1>2 DEF FiniteChain, ChainState
<1>4. OnePerId(chain[l].db) BY <1>1, ZenonT(30) DEF Mapped, ReplicationInv, ChainsAreLeaders, OnePerId
<1>5. OnePerId(chain'[l].db) BY <1>1, ZenonT(30) DEF Mapped, ReplicationInv, ChainsAreLeaders, OnePerId
<1>6. /\ CommittedLog = Line(chain[l].db, chain[l].commit)
      /\ Executed(l) = CommittedLog
      /\ \A n \in Node \ {l} : Executed(n) = Line(chain[l].db, Lag(chain[n].commit))
  BY ZenonT(30) DEF Mapped, MachinesFollow
<1>7. /\ CommittedLog' = Line(chain'[l].db, chain'[l].commit)
      /\ Executed(l)' = CommittedLog'
      /\ \A n \in Node \ {l} : Executed(n)' = Line(chain'[l].db, Lag(chain'[n].commit))
  BY <1>1, ZenonT(30) DEF Mapped, MachinesFollow, Line, Lag
<1>8. /\ 0..chain[l].commit \subseteq Ids(chain[l].db)
      /\ \A n \in Node : chain[n].commit <= chain[l].commit
  BY CommittedIsLeaders, ZenonT(30) DEF Mapped
<1>9. 1..chain[l].commit \subseteq Ids(chain[l].db) BY <1>1, <1>3, <1>8
<1> QED BY <1>1, <1>3, <1>4, <1>5, <1>6, <1>7, <1>8, <1>9

\* A step that leaves the chains and the queues alone shows nothing.
LEMMA QuietEvolves ==
  ASSUME chain' = chain, fsm' = fsm
  PROVE  Unseen
<1> DEFINE Known(c) == UNION {{b \in c[n].db : b.id <= c[n].commit} : n \in Node}
           Log(bs) == InOrder({<<1, b>> : b \in {b \in bs : b.id # 0}})
           Run(queue) == InOrder({s \in Slots(queue) : s[2].id # 0})
<1>1. Committed = Known(chain) /\ Committed' = Known(chain') BY DEF Committed
<1>2. CommittedLog = Log(Committed) /\ CommittedLog' = Log(Committed') BY DEF CommittedLog
<1>3. \A n \in Node : Executed(n) = Run(fsm[n]) /\ Executed(n)' = Run(fsm'[n]) BY DEF Executed
<1> HIDE DEF Known, Log, Run
<1>4. CommittedLog' = CommittedLog BY <1>1, <1>2
<1> QED BY <1>3, <1>4 DEF Unseen

\* A follower that stores blocks shows nothing.
LEMMA StoreEvolves ==
  ASSUME NEW n \in Node, Mapped, Stores(n)
  PROVE  Unseen
<1>1. n \notin Leaders /\ fsm' = fsm BY DEF Stores
<1>a. PICK c : chain' = [chain EXCEPT ![n] = c] BY ZenonT(30) DEF Stores
<1>2. \A p \in Node \ {n} : chain'[p] = chain[p] BY <1>a DEF Mapped, TypeInv
<1>3. \A p \in Node : Executed(p)' = Executed(p) BY <1>1 DEF Executed
<1>4. CommittedLog' = CommittedLog
  <2>1. CASE Leaders = {} BY <2>1 DEF Mapped, MachinesFollow
  <2>2. ASSUME NEW l \in Leaders PROVE CommittedLog' = CommittedLog
    <3>1. l \in Node \ {n} /\ CommittedLog = Line(chain[l].db, chain[l].commit) BY <1>1, LogIs
    <3>2. CommittedLog' = Line(chain'[l].db, chain'[l].commit) BY LogIs
    <3>3. chain'[l] = chain[l] BY <1>2, <3>1
    <3> QED BY <3>1, <3>2, <3>3
  <2> QED BY <2>1, <2>2
<1> QED BY <1>3, <1>4 DEF Unseen

\* A follower that commits up to k applies what precedes k.
LEMMA CommitEvolves ==
  ASSUME NEW n \in Node, Mapped, Commits(n)
  PROVE  Unseen \/ Learns
<1>1. PICK k : /\ Chain_has(chain[n], k) /\ k > chain[n].commit
               /\ chain' = [chain EXCEPT ![n] = Chain_commit(chain[n], k)]
  BY ZenonT(30) DEF Commits
<1>2. chain[n] \in FiniteChain /\ chain'[n] \in FiniteChain BY DEF Mapped, TypeInv
<1>3. chain[n].commit \in Nat /\ chain'[n].commit \in Nat BY <1>2 DEF FiniteChain, ChainState
<1>4. \A p \in Node \ {n} : chain'[p] = chain[p] BY <1>1 DEF Mapped, TypeInv
<1>5. chain'[n].commit > chain[n].commit
  <2>1. chain'[n] = Chain_commit(chain[n], k) BY <1>1 DEF Mapped, TypeInv
  <2>2. chain'[n].commit = k BY <1>1, <1>2, <2>1, CommitFields
  <2> QED BY <1>1, <2>2
<1>6. PICK l \in Leaders : chain'[n].commit <= chain'[l].commit
  <2>1. chain'[n].commit > 0 BY <1>3, <1>5
  <2> QED BY <2>1 DEF Mapped, ReplicationInv, CommittedByMajority
<1>7. l \in Node \ {n} BY LogIs DEF Commits
<1> DEFINE db == chain[l].db
           K == chain[l].commit
           old == Lag(chain[n].commit)
           new == Lag(chain'[n].commit)
<1>a. chain'[l] = chain[l] BY <1>4, <1>7
<1>b. /\ CommittedLog = Line(db, K) /\ CommittedLog' = Line(chain'[l].db, chain'[l].commit)
      /\ Executed(l) = CommittedLog /\ Executed(l)' = CommittedLog'
      /\ K \in Nat
  BY LogIs, ZenonT(30)
<1>c. ASSUME NEW p \in Node \ {l}
      PROVE  /\ Executed(p) = Line(db, Lag(chain[p].commit))
             /\ Executed(p)' = Line(chain'[l].db, Lag(chain'[p].commit))
  BY LogIs, ZenonT(30)
<1>8. CommittedLog' = CommittedLog BY <1>a, <1>b
<1>9. ASSUME NEW p \in Node \ {n} PROVE Executed(p)' = Executed(p)
  <2>1. CASE p = l BY <1>8, <1>b, <2>1, ZenonT(30)
  <2>2. CASE p # l
    <3>1. chain'[p] = chain[p] BY <1>4
    <3>2. Executed(p) = Line(db, Lag(chain[p].commit)) BY <1>c, <2>2, ZenonT(30)
    <3>3. Executed(p)' = Line(chain'[l].db, Lag(chain'[p].commit)) BY <1>c, <2>2, ZenonT(30)
    <3> QED BY <1>a, <3>1, <3>2, <3>3
  <2> QED BY <2>1, <2>2
<1>10. Executed(n) = Line(db, old) /\ Executed(n)' = Line(db, new)
  <2>1. n \in Node \ {l} BY <1>7
  <2>2. Executed(n) = Line(db, old) BY <1>c, <2>1, ZenonT(30)
  <2>3. Executed(n)' = Line(chain'[l].db, new) BY <1>c, <2>1, ZenonT(30)
  <2> QED BY <1>a, <2>2, <2>3
<1>11. CommittedLog = Line(db, K) /\ K \in Nat /\ chain'[n].commit <= K
  BY <1>6, <1>a, <1>b
<1>12. old \in Nat /\ new \in Nat /\ old <= new /\ new <= K BY <1>3, <1>5, <1>11 DEF Lag
<1>13. Len(CommittedLog) = K /\ Len(Executed(n)) = old BY <1>10, <1>11, <1>12, LineType, ZenonT(30)
<1>14. Executed(n)' = SubSeq(CommittedLog, 1, new) BY <1>10, <1>11, <1>12, LinePart
<1> HIDE DEF old, new, K, db
<1>15. CASE old = new
  <2>1. \A p \in Node : Executed(p)' = Executed(p) BY <1>9, <1>10, <1>15, ZenonT(30)
  <2> QED BY <1>8, <2>1 DEF Unseen
<1>16. CASE old # new
  <2>1. new \in 1..Len(CommittedLog) /\ Len(Executed(n)) < new BY <1>11, <1>12, <1>13, <1>16
  <2>2. submitted' = submitted BY DEF Commits
  <2> QED BY <1>8, <1>9, <1>14, <2>1, <2>2 DEF Learns
<1> QED BY <1>15, <1>16

\* A leader that counts commits further or shows nothing.
LEMMA CountEvolves ==
  ASSUME NEW n \in Node, Mapped, Counts(n)
  PROVE  Unseen \/ Lengthens
<1>1. n \in Leaders BY DEF Counts
<1>2. PICK a \in FiniteChain, p \in Node, h \in Nat :
        \E sent : /\ Leader_acknowledge(n, a, sent, p, h)
                  /\ a = chain[n] \/ \E data \in Data : a = Chain_append(chain[n], data)
  BY ZenonT(30) DEF Counts
<1>3. PICK sent : /\ Leader_acknowledge(n, a, sent, p, h)
                  /\ a = chain[n] \/ \E data \in Data : a = Chain_append(chain[n], data)
  BY <1>2, ZenonT(30)
<1>4. chain[n] \in FiniteChain BY DEF Mapped, TypeInv
<1>5. chain[n].db \subseteq a.db /\ a.commit = chain[n].commit
  <2>1. Unbroken(chain[n]) BY <1>1, LeaderUnbroken DEF Mapped, ReplicationInv
  <2>2. OnePerId(chain[n].db) BY DEF Mapped, ReplicationInv, ChainsAreLeaders, OnePerId
  <2>3. CASE a = chain[n] BY <2>3
  <2>4. ASSUME NEW data \in Data, a = Chain_append(chain[n], data)
        PROVE  chain[n].db \subseteq a.db /\ a.commit = chain[n].commit
    <3>1. a.commit = chain[n].commit BY <1>4, <2>4, AppendFields, ZenonT(30)
    <3> QED BY <1>4, <2>1, <2>2, <2>4, <3>1, AppendUnbroken, ZenonT(30)
  <2> QED BY <1>3, <2>3, <2>4
<1>6. /\ \A q \in Node \ {n} : chain'[q] = chain[q]
      /\ chain'[n] = a \/ \E k : k > a.commit /\ chain'[n] = Chain_commit(a, k)
  BY <1>3, ZenonT(30) DEF Leader_acknowledge, Mapped, TypeInv
<1>7. /\ chain'[n].db = a.db
      /\ chain'[n].commit = a.commit \/ chain'[n].commit > a.commit
  BY <1>6, CommitFields
<1> DEFINE db == chain[n].db
           more == chain'[n].db
           K == chain[n].commit
           M == chain'[n].commit
<1>8. /\ K \in Nat /\ M \in Nat /\ OnePerId(db) /\ OnePerId(more)
      /\ 1..K \subseteq Ids(db)
      /\ CommittedLog = Line(db, K) /\ CommittedLog' = Line(more, M)
      /\ Executed(n) = CommittedLog /\ Executed(n)' = CommittedLog'
  BY <1>1, LogIs, ZenonT(30)
<1>9. db \subseteq more /\ K <= M BY <1>5, <1>7, <1>8
<1>10. ASSUME NEW q \in Node \ {n} PROVE Executed(q)' = Executed(q)
  <2> DEFINE j == Lag(chain[q].commit)
  <2>1. /\ Executed(q) = Line(db, j) /\ chain[q].commit \in Nat
        /\ chain[q].commit <= K
    BY <1>1, <1>10, LogIs
  <2>2. Executed(q)' = Line(more, j) BY <1>1, <1>6, <1>10, LogIs, ZenonT(30)
  <2>3. j \in Nat /\ j <= K
    <3>1. K \in Nat BY <1>8
    <3> HIDE DEF K
    <3> QED BY <2>1, <3>1 DEF Lag
  <2>4. 1..j \subseteq Ids(db) BY <1>8, <2>3
  <2> HIDE DEF j, db, more, K
  <2> QED BY <1>8, <1>9, <2>1, <2>2, <2>3, <2>4, LineStays
<1> HIDE DEF db, more, K, M
<1>11. CASE K = M
  <2>1. CommittedLog' = CommittedLog BY <1>8, <1>9, <1>11, LineStays
  <2> QED BY <1>8, <1>10, <2>1 DEF Unseen
<1>12. CASE K < M
  <2>1. Len(CommittedLog) = K /\ Len(CommittedLog') = M BY <1>8, LineType, ZenonT(30)
  <2>2. Line(more, K) = Line(db, K) BY <1>8, <1>9, LineStays, ZenonT(30)
  <2>3. SubSeq(CommittedLog', 1, K) = CommittedLog BY <1>8, <1>9, <2>2, LinePart
  <2> QED BY <1>8, <1>10, <1>12, <2>1, <2>3 DEF Lengthens
<1> QED BY <1>8, <1>9, <1>11, <1>12

\* No driver is told anything at first.
LEMMA InitDelivery == Init => DeliveryInv
<1> SUFFICES ASSUME Init PROVE DeliveryInv
  OBVIOUS
<1>1. \A n \in Node : raft[n].role = "Follower" /\ fsm[n] = <<>> BY DEF Init, Follower_new
<1>2. Leaders = {} BY <1>1 DEF Leaders
<1>3. \A n \in Node : chain[n].db = {GenesisBlock} BY DEF Init, Chain_new, Insert
<1>4. GapFree
  <2> SUFFICES ASSUME NEW n \in Node, NEW b \in chain[n].db PROVE 0..b.id \subseteq Ids(chain[n].db)
    BY DEF GapFree
  <2>1. b.id = 0 BY <1>3 DEF GenesisBlock
  <2>2. b.id \in Ids(chain[n].db) BY DEF Ids
  <2> QED BY <2>1, <2>2
<1> QED BY <1>1, <1>2, <1>4, ZenonT(30) DEF DeliveryInv, DriversFollow, NotifiedBeforeApplied
=============================================================================
