----------------------------- MODULE LogProofs ------------------------------
(***************************************************************************)
(* The log of a partition keeps what it has acknowledged, for all messages *)
(* and all sizes: LogSpec => []AckedIsStored and LogSpec =>                *)
(* []CountersMatch, by the inductive invariant LogInv.                     *)
(***************************************************************************)
EXTENDS Log, FiniteSetTheorems, SequenceTheorems, TLAPS

-----------------------------------------------------------------------------
(* Files *)

\* The greater of two numbers.
LEMMA MaxOfTwo ==
  ASSUME NEW a \in Nat, NEW b \in Nat
  PROVE  Max({a, b}) \in Nat /\ Max({a, b}) >= a /\ Max({a, b}) >= b
<1>1. \E x \in {a, b} : \A y \in {a, b} : x >= y
  <2>1. CASE a >= b BY <2>1
  <2>2. CASE ~(a >= b) BY <2>2
  <2> QED BY <2>1, <2>2
<1>2. Max({a, b}) \in {a, b} /\ \A y \in {a, b} : Max({a, b}) >= y BY <1>1, ZenonT(30) DEF Max
<1> QED BY <1>2

\* The smaller of two numbers.
LEMMA MinOfTwo ==
  ASSUME NEW a \in Nat, NEW b \in Nat
  PROVE  Min({a, b}) \in {a, b} /\ Min({a, b}) <= a /\ Min({a, b}) <= b
<1>1. \E x \in {a, b} : \A y \in {a, b} : x =< y
  <2>1. CASE a <= b BY <2>1
  <2>2. CASE ~(a <= b) BY <2>2
  <2> QED BY <2>1, <2>2
<1>2. Min({a, b}) \in {a, b} /\ \A y \in {a, b} : Min({a, b}) =< y BY <1>1, ZenonT(30) DEF Min
<1> QED BY <1>2

\* The file after a write: longer, with the message, and the same before it.
LEMMA WriteAll ==
  ASSUME NEW f \in Seq(Byte), NEW p \in Nat, p <= Len(f), NEW buf \in Seq(Byte)
  PROVE  LET g == write_all(f, p, buf)
         IN /\ g \in Seq(Byte)
            /\ Len(g) >= Len(f) /\ Len(g) >= p + Len(buf)
            /\ \A i \in 1..Len(buf) : g[p + i] = buf[i]
            /\ \A i \in 1..p : g[i] = f[i]
<1> DEFINE M == Max({Len(f), p + Len(buf)})
           g == write_all(f, p, buf)
<1>1. Len(f) \in Nat /\ Len(buf) \in Nat OBVIOUS
<1>2. M \in Nat /\ M >= Len(f) /\ M >= p + Len(buf) /\ M \in {Len(f), p + Len(buf)}
  <2>1. \E x \in {Len(f), p + Len(buf)} : \A y \in {Len(f), p + Len(buf)} : x >= y
    <3>1. CASE Len(f) >= p + Len(buf) BY <1>1, <3>1
    <3>2. CASE ~(Len(f) >= p + Len(buf)) BY <1>1, <3>2
    <3> QED BY <3>1, <3>2
  <2>2. M \in {Len(f), p + Len(buf)} BY <2>1, ZenonT(30) DEF Max
  <2> QED BY <1>1, <2>2, MaxOfTwo
<1> HIDE DEF M
<1>3. g = [i \in 1..M |-> IF i > p /\ i <= p + Len(buf) THEN buf[i - p] ELSE f[i]]
  BY DEF write_all, M
<1>4. ASSUME NEW i \in 1..M
      PROVE  (IF i > p /\ i <= p + Len(buf) THEN buf[i - p] ELSE f[i]) \in Byte
  <2>1. CASE i > p /\ i <= p + Len(buf)
    <3>1. i - p \in 1..Len(buf) BY <1>1, <1>2, <2>1
    <3> QED BY <2>1, <3>1
  <2>2. CASE ~(i > p /\ i <= p + Len(buf))
    <3>1. i \in 1..Len(f) BY <1>1, <1>2, <2>2
    <3> QED BY <2>2, <3>1
  <2> QED BY <2>1, <2>2
<1>5. g \in [1..M -> Byte] BY <1>3, <1>4
<1>6. g \in Seq(Byte) /\ Len(g) = M BY <1>2, <1>5
<1>7. \A i \in 1..Len(buf) : p + i \in 1..M /\ p + i > p /\ p + i <= p + Len(buf) /\ (p + i) - p = i
  BY <1>1, <1>2
<1>8. \A i \in 1..p : i \in 1..M /\ ~(i > p) BY <1>1, <1>2
<1> HIDE DEF g
<1>9. \A i \in 1..Len(buf) : g[p + i] = buf[i] BY <1>3, <1>7
<1>10. \A i \in 1..p : g[i] = f[i] BY <1>3, <1>8
<1> QED BY <1>2, <1>6, <1>9, <1>10 DEF g

\* What it is for a message to be in a file, byte by byte.
LEMMA InFile ==
  ASSUME NEW f \in Seq(Byte), NEW m \in Seq(Byte), NEW a \in Nat, a + Len(m) <= Len(f)
  PROVE  SubSeq(f, a + 1, a + Len(m)) = m <=> \A i \in 1..Len(m) : f[a + i] = m[i]
<1> DEFINE s == SubSeq(f, a + 1, a + Len(m))
<1>1. s \in Seq(Byte) /\ Len(s) = Len(m) OBVIOUS
<1>2. \A i \in 1..Len(m) : s[i] = f[a + i] OBVIOUS
<1> HIDE DEF s
<1>3. s = m <=> \A i \in 1..Len(m) : s[i] = m[i] BY <1>1
<1> QED BY <1>2, <1>3, ZenonT(30) DEF s
-----------------------------------------------------------------------------
(* Writes *)

Write == [base : Bases, start : Nat, message : Message]

\* The write w holds the position x.
Holds(w, x) == \E i \in 1..Len(w.message) : x = w.start + i

\* What writes hold, one write at a time.
LEMMA HeldIs ==
  ASSUME NEW A, NEW x
  PROVE  x \in Held(A) <=> \E w \in A : Holds(w, x)
<1> DEFINE T(w) == {w.start + i : i \in 1..Len(w.message)}
<1>1. x \in Held(A) <=> \E w \in A : x \in T(w) BY ZenonT(30) DEF Held
<1>2. \A w : x \in T(w) <=> Holds(w, x) BY ZenonT(30) DEF Holds
<1> HIDE DEF T
<1> QED BY <1>1, <1>2, ZenonT(30)

\* No writes hold nothing.
LEMMA HeldNone == Held({}) = {}
<1>1. PICK E : E = {} BY ZenonT(30)
<1>2. \A x : x \in Held(E) => FALSE BY <1>1, HeldIs
<1> QED BY <1>1, <1>2

\* A write behind all others holds as much more as its message is long.
LEMMA HeldMore ==
  ASSUME NEW A \in SUBSET Write, NEW w \in Write, IsFiniteSet(A),
         \A v \in A : v.start + Len(v.message) <= w.start
  PROVE  /\ w \notin A
         /\ IsFiniteSet(A \cup {w})
         /\ Cardinality(A \cup {w}) = Cardinality(A) + 1
         /\ Cardinality(Held(A)) \in Nat
         /\ Cardinality(Held(A \cup {w})) = Cardinality(Held(A)) + Len(w.message)
<1> DEFINE s == w.start
           k == Len(w.message)
           New == (s + 1)..(s + k)
<1>1. \A v \in Write : v.start \in Nat /\ Len(v.message) \in Nat /\ Len(v.message) > 0
  BY MessageAssumption DEF Write
<1>2. s \in Nat /\ k \in Nat /\ k > 0 BY <1>1
<1>3. w \notin A BY <1>1, <1>2
<1>4. Held(A) \subseteq 1..s
  <2> SUFFICES ASSUME NEW x \in Held(A) PROVE x \in 1..s
    OBVIOUS
  <2>1. PICK v \in A : Holds(v, x) BY HeldIs, ZenonT(30)
  <2>2. PICK i \in 1..Len(v.message) : x = v.start + i BY <2>1 DEF Holds
  <2>3. v.start \in Nat /\ Len(v.message) \in Nat /\ v.start + Len(v.message) <= s BY <1>1
  <2> QED BY <1>2, <2>2, <2>3
<1>5. Held(A \cup {w}) = Held(A) \cup New
  <2>1. ASSUME NEW x PROVE x \in New <=> Holds(w, x)
    <3>1. ASSUME x \in New PROVE x - s \in 1..k /\ x = s + (x - s) BY <1>2, <3>1
    <3>2. ASSUME NEW i \in 1..k, x = s + i PROVE x \in New BY <1>2, <3>2
    <3> QED BY <3>1, <3>2 DEF Holds
  <2> HIDE DEF New, s, k
  <2>2. ASSUME NEW x PROVE x \in Held(A \cup {w}) <=> x \in Held(A) \/ Holds(w, x)
    <3>1. x \in Held(A \cup {w}) <=> \E v \in A \cup {w} : Holds(v, x) BY HeldIs
    <3>2. x \in Held(A) <=> \E v \in A : Holds(v, x) BY HeldIs
    <3> QED BY <3>1, <3>2, ZenonT(30)
  <2> QED BY <2>1, <2>2, ZenonT(30)
<1>6. IsFiniteSet(1..s) /\ IsFiniteSet(New) /\ Cardinality(New) = k
  <2>1. s + 1 \in Int /\ s + k \in Int /\ 1 \in Int /\ s \in Int BY <1>2
  <2>2. IsFiniteSet(1..s) BY <2>1, FS_Interval, ZenonT(30)
  <2>3. IsFiniteSet(New) /\ Cardinality(New) = IF s + 1 > s + k THEN 0 ELSE (s + k) - (s + 1) + 1
    BY <2>1, FS_Interval, ZenonT(30)
  <2> QED BY <1>2, <2>2, <2>3
<1>7. IsFiniteSet(Held(A)) BY <1>4, <1>6, FS_Subset, ZenonT(30)
<1>8. Held(A) \cap New = {} BY <1>2, <1>4
<1> HIDE DEF New, s, k
<1>9. Cardinality(Held(A) \cup New) = Cardinality(Held(A)) + Cardinality(New) - Cardinality({})
  BY <1>6, <1>7, <1>8, FS_Union, ZenonT(30)
<1>10. Cardinality(Held(A)) \in Nat BY <1>7, FS_CardinalityType, ZenonT(30)
<1>11. Cardinality({}) = 0 BY FS_EmptySet
<1>12. Cardinality(Held(A \cup {w})) = Cardinality(Held(A)) + Len(w.message)
  <2>1. Cardinality(Held(A \cup {w})) = Cardinality(Held(A)) + k - 0
    BY <1>5, <1>6, <1>9, <1>11, ZenonT(30)
  <2> QED BY <1>2, <1>10, <2>1 DEF k
<1>13. IsFiniteSet(A \cup {w}) /\ Cardinality(A \cup {w}) = Cardinality(A) + 1
  BY <1>3, FS_AddElement, ZenonT(30)
<1> QED BY <1>3, <1>10, <1>12, <1>13

\* What is stored before the cursor stays when the file is written at the cursor.
LEMMA StoredStays ==
  ASSUME NEW f \in Seq(Byte), NEW p \in Nat, p <= Len(f), NEW buf \in Seq(Byte),
         NEW m \in Seq(Byte), NEW a \in Nat, a + Len(m) <= p, Contains(f, a, m)
  PROVE  Contains(write_all(f, p, buf), a, m)
<1> DEFINE g == write_all(f, p, buf)
<1>1. /\ g \in Seq(Byte) /\ Len(g) >= Len(f)
      /\ \A i \in 1..p : g[i] = f[i]
  BY WriteAll, ZenonT(30)
<1> HIDE DEF g
<1>2. a + Len(m) <= Len(f) /\ a + Len(m) <= Len(g) BY <1>1
<1>3. \A i \in 1..Len(m) : f[a + i] = m[i] BY <1>2, InFile, ZenonT(30) DEF Contains
<1>4. \A i \in 1..Len(m) : a + i \in 1..p OBVIOUS
<1>5. \A i \in 1..Len(m) : g[a + i] = m[i] BY <1>1, <1>3, <1>4
<1>6. SubSeq(g, a + 1, a + Len(m)) = m BY <1>1, <1>2, <1>5, InFile
<1> QED BY <1>2, <1>6 DEF g, Contains

\* What has been written is in the file.
LEMMA StoredNow ==
  ASSUME NEW f \in Seq(Byte), NEW p \in Nat, p <= Len(f), NEW buf \in Seq(Byte)
  PROVE  Contains(write_all(f, p, buf), p, buf)
<1> DEFINE g == write_all(f, p, buf)
<1>1. /\ g \in Seq(Byte) /\ Len(g) >= p + Len(buf)
      /\ \A i \in 1..Len(buf) : g[p + i] = buf[i]
  BY WriteAll, ZenonT(30)
<1> HIDE DEF g
<1>2. p + Len(buf) <= Len(g) BY <1>1
<1>3. SubSeq(g, p + 1, p + Len(buf)) = buf BY <1>1, <1>2, InFile
<1> QED BY <1>2, <1>3 DEF g, Contains
-----------------------------------------------------------------------------
(* The operations *)

Segment == [base : Bases, next_offset : Nat, bytes : Nat, cursor : Nat]

\* A segment is empty when it is made (segment.rs:new).
LEMMA NewSegment ==
  ASSUME NEW base \in Bases
  PROVE  /\ Segment_new(base) \in Segment
         /\ Segment_new(base).base = base /\ Segment_new(base).next_offset = 0
         /\ Segment_new(base).bytes = 0 /\ Segment_new(base).cursor = 0
BY DEF Segment_new, Segment

\* A list of one.
LEMMA OneElement ==
  ASSUME NEW S, NEW q \in Seq(S), Len(q) = 1
  PROVE  DOMAIN q = {1} /\ q[1] \in S
<1>1. DOMAIN q = 1..1 OBVIOUS
<1>2. 1..1 = {1} OBVIOUS
<1> QED BY <1>1, <1>2

\* A log of one segment, with another in its place.
LEMMA OneReplaced ==
  ASSUME NEW S, NEW q \in Seq(S), Len(q) = 1, NEW t \in S
  PROVE  /\ [q EXCEPT ![1] = t] \in Seq(S)
         /\ Len([q EXCEPT ![1] = t]) = 1
         /\ [q EXCEPT ![1] = t][1] = t
OBVIOUS

\* A log that has just been opened over files.
LEMMA Opened ==
  ASSUME files' \in [Bases -> Seq(Byte)], segments' = <<Segment_new(0)>>, poisoned' = FALSE,
         acked' = {}, failed' = {}
  PROVE  LogInv'
<1>1. 0 \in Bases BY SizeAssumption DEF Bases
<1>2. segments' \in Seq(Segment) /\ Len(segments') = 1 /\ segments'[1] = Segment_new(0)
  BY <1>1, NewSegment
<1>3. DOMAIN segments' = {1} BY <1>2
<1>4. Cardinality({}) = 0 /\ IsFiniteSet({}) BY FS_EmptySet
<1>5. acked' \cup failed' = {} OBVIOUS
<1>6. \A i \in DOMAIN segments' : segments'[i].cursor <= Len(files'[segments'[i].base])
  <2>1. Len(files'[0]) \in Nat BY <1>1
  <2> QED BY <1>1, <1>2, <1>3, <2>1, NewSegment
<1>7. segments'[1].next_offset = 0 /\ segments'[1].bytes = 0 /\ segments'[1].base = 0
  BY <1>1, <1>2, NewSegment
<1>8. LogTypeOK' BY <1>2, <1>4, ZenonT(30) DEF LogTypeOK, Segment
<1>9. WritesAreStored' BY <1>5, <1>6 DEF WritesAreStored
<1>10. FirstHoldsAcked'
  <2>1. Cardinality(acked') = 0 /\ Cardinality(Held(acked')) = 0 BY <1>4, HeldNone, ZenonT(30)
  <2>2. Held(acked)' = Held(acked') BY DEF Held
  <2>3. \A w \in acked' : FALSE OBVIOUS
  <2> QED BY <1>2, <1>7, <2>1, <2>2, <2>3 DEF FirstHoldsAcked
<1>11. OthersAreEmpty' BY <1>2, <1>3 DEF OthersAreEmpty
<1>12. FailsOnce' BY DEF FailsOnce
<1> QED BY <1>8, <1>9, <1>10, <1>11, <1>12 DEF LogInv

\* The log when it is first opened.
LEMMA InitInv == LogInit => LogInv
<1> SUFFICES ASSUME LogInit PROVE LogInv
  OBVIOUS
<1>1. 0 \in Bases BY SizeAssumption DEF Bases
<1>2. segments \in Seq(Segment) /\ Len(segments) = 1 /\ segments[1] = Segment_new(0)
  BY <1>1, NewSegment DEF LogInit
<1>3. DOMAIN segments = {1} BY <1>2
<1>4. Cardinality({}) = 0 /\ IsFiniteSet({}) BY FS_EmptySet
<1>5. acked \cup failed = {} /\ acked = {} /\ failed = {} /\ poisoned = FALSE BY DEF LogInit
<1>6. \A i \in DOMAIN segments : segments[i].cursor <= Len(files[segments[i].base])
  BY <1>1, <1>2, <1>3, NewSegment DEF LogInit
<1>7. segments[1].next_offset = 0 /\ segments[1].bytes = 0 /\ segments[1].base = 0
  BY <1>1, <1>2, NewSegment
<1>8. files \in [Bases -> Seq(Byte)] BY DEF LogInit
<1>9. LogTypeOK BY <1>2, <1>4, <1>5, <1>8, ZenonT(30) DEF LogTypeOK, Segment
<1>10. WritesAreStored BY <1>5, <1>6 DEF WritesAreStored
<1>11. FirstHoldsAcked
  <2>1. Cardinality(acked) = 0 /\ Cardinality(Held(acked)) = 0 BY <1>4, <1>5, HeldNone, ZenonT(30)
  <2>2. \A w \in acked : FALSE BY <1>5
  <2> QED BY <1>2, <1>7, <2>1, <2>2 DEF FirstHoldsAcked
<1>12. OthersAreEmpty BY <1>2, <1>3 DEF OthersAreEmpty
<1>13. FailsOnce BY <1>5 DEF FailsOnce
<1> QED BY <1>9, <1>10, <1>11, <1>12, <1>13 DEF LogInv

\* A read moves the cursor on, and not past the end of the file.
LEMMA ReadStep ==
  ASSUME LogInv, NEW k \in Nat, k > 0, Log_read(k)
  PROVE  LogInv'
<1> DEFINE s == segments[1]
           m == Len(files[s.base])
           c == Min({s.cursor + k, Max({s.cursor, m})})
<1>1. /\ Len(segments) = 1 /\ segments \in Seq(Segment)
      /\ s \in Segment /\ DOMAIN segments = {1} /\ files \in [Bases -> Seq(Byte)]
  <2>1. segments \in Seq(Segment) /\ files \in [Bases -> Seq(Byte)]
    BY DEF LogInv, LogTypeOK, Segment
  <2>2. Len(segments) = 1 BY DEF LogInv, OthersAreEmpty, Log_read
  <2>3. DOMAIN segments = {1} /\ s \in Segment BY <2>1, <2>2, OneElement, ZenonT(30)
  <2> QED BY <2>1, <2>2, <2>3
<1>2. s.cursor \in Nat /\ m \in Nat /\ s.cursor <= m
  <2>1. s.cursor \in Nat /\ s.base \in Bases BY <1>1 DEF Segment
  <2>2. m \in Nat BY <1>1, <2>1
  <2> QED BY <1>1, <2>1, <2>2 DEF LogInv, WritesAreStored
<1>3. c \in Nat /\ s.cursor <= c /\ c <= m
  <2>1. Max({s.cursor, m}) = m
    <3>1. \E x \in {s.cursor, m} : \A y \in {s.cursor, m} : x >= y BY <1>2
    <3>2. Max({s.cursor, m}) \in {s.cursor, m} BY <3>1, ZenonT(30) DEF Max
    <3> QED BY <1>2, <3>2, MaxOfTwo
  <2>2. s.cursor + k \in Nat BY <1>2
  <2> DEFINE least == Min({s.cursor + k, m})
  <2>3. least \in {s.cursor + k, m} /\ least <= m BY <1>2, <2>2, MinOfTwo, ZenonT(30)
  <2>4. c = least BY <2>1, ZenonT(30)
  <2> HIDE DEF least, c
  <2> QED BY <1>2, <2>2, <2>3, <2>4
<1>4. segments' = [segments EXCEPT ![1].cursor = c]
  <2>1. segments' = [segments EXCEPT ![Len(segments)].cursor =
                       Min({@ + k, Max({@, Len(files[segments[Len(segments)].base])})})]
    BY DEF Log_read, active_segment
  <2> QED BY <1>1, <2>1
<1> HIDE DEF c, m
<1>5. /\ segments' \in Seq(Segment) /\ Len(segments') = 1 /\ DOMAIN segments' = {1}
      /\ segments'[1].cursor = c /\ segments'[1].base = s.base
      /\ segments'[1].next_offset = s.next_offset /\ segments'[1].bytes = s.bytes
  <2> DEFINE t == [s EXCEPT !.cursor = c]
  <2>1. segments' = [segments EXCEPT ![1] = t] BY <1>4
  <2>2. /\ t \in Segment /\ t.cursor = c /\ t.base = s.base
        /\ t.next_offset = s.next_offset /\ t.bytes = s.bytes
    BY <1>1, <1>3, ZenonT(30) DEF Segment
  <2> HIDE DEF t
  <2>3. segments' \in Seq(Segment) /\ Len(segments') = 1 /\ DOMAIN segments' = {1} /\ segments'[1] = t
    <3>1. segments \in Seq(Segment) /\ Len(segments) = 1 /\ t \in Segment BY <1>1, <2>2
    <3>2. segments' \in Seq(Segment) /\ Len(segments') = 1 /\ segments'[1] = t
      BY <2>1, <3>1, OneReplaced
    <3>3. DOMAIN segments' = {1} BY <3>2, OneElement, ZenonT(30)
    <3> QED BY <3>2, <3>3
  <2> QED BY <2>2, <2>3
<1>6. UNCHANGED <<files, poisoned, acked, failed>> BY DEF Log_read
<1>7. \A w \in acked : w.start + Len(w.message) <= c
  <2> SUFFICES ASSUME NEW w \in acked PROVE w.start + Len(w.message) <= c
    OBVIOUS
  <2>1. w.start \in Nat /\ Len(w.message) \in Nat BY MessageAssumption DEF LogInv, LogTypeOK
  <2>2. w.start + Len(w.message) <= s.cursor BY DEF LogInv, FirstHoldsAcked
  <2> QED BY <1>2, <1>3, <2>1, <2>2
<1>8. LogTypeOK' BY <1>5, <1>6 DEF LogInv, LogTypeOK, Segment
<1>9. WritesAreStored' BY <1>3, <1>5, <1>6 DEF LogInv, WritesAreStored, Stored, m
<1>10. FirstHoldsAcked' BY <1>5, <1>6, <1>7 DEF LogInv, FirstHoldsAcked, Held
<1>11. OthersAreEmpty' BY <1>5 DEF OthersAreEmpty
<1>12. FailsOnce' BY <1>6 DEF LogInv, FailsOnce
<1> QED BY <1>8, <1>9, <1>10, <1>11, <1>12 DEF LogInv

\* A write at the cursor c of the file b.
WritesAt(b, c, buf) ==
  /\ c <= Len(files[b])
  /\ files' = [files EXCEPT ![b] = write_all(@, c, buf)]

\* A write lengthens its file and shortens none.
LEMMA WriteFiles ==
  ASSUME LogTypeOK, NEW b \in Bases, NEW c \in Nat, NEW buf \in Message, WritesAt(b, c, buf)
  PROVE  /\ files' \in [Bases -> Seq(Byte)]
         /\ \A x \in Bases : Len(files'[x]) >= Len(files[x])
         /\ Len(files'[b]) >= c + Len(buf)
         /\ \A w \in Write : w.base = b /\ w.start = c /\ w.message = buf => Stored(w)'
         /\ \A w \in Write :
              Stored(w) /\ (w.base # b \/ w.start + Len(w.message) <= c) => Stored(w)'
<1> DEFINE f == files[b]
           g == write_all(f, c, buf)
<1>1. f \in Seq(Byte) /\ buf \in Seq(Byte) /\ c <= Len(f)
  BY MessageAssumption DEF LogTypeOK, WritesAt
<1>2. g \in Seq(Byte) /\ Len(g) >= Len(f) /\ Len(g) >= c + Len(buf) BY <1>1, WriteAll, ZenonT(30)
<1>3. files \in [Bases -> Seq(Byte)] BY DEF LogTypeOK
<1> HIDE DEF g
<1>4. files' \in [Bases -> Seq(Byte)] /\ files'[b] = g
  BY <1>2, <1>3 DEF g, WritesAt
<1>5. \A x \in Bases : x # b => files'[x] = files[x] BY <1>3 DEF WritesAt
<1>6. ASSUME NEW x \in Bases PROVE Len(files'[x]) >= Len(files[x])
  <2>1. CASE x = b BY <1>2, <1>4, <2>1
  <2>2. CASE x # b
    <3>1. Len(files[x]) \in Nat BY <1>3
    <3> QED BY <1>5, <2>2, <3>1
  <2> QED BY <2>1, <2>2
<1>7. ASSUME NEW w \in Write, w.base = b, w.start = c, w.message = buf PROVE Stored(w)'
  <2>1. Contains(g, c, buf) BY <1>1, StoredNow, ZenonT(30) DEF g
  <2> QED BY <1>4, <1>7, <2>1 DEF Stored
<1>8. ASSUME NEW w \in Write, Stored(w), w.base # b \/ w.start + Len(w.message) <= c
      PROVE  Stored(w)'
  <2>1. w.base \in Bases /\ w.start \in Nat /\ w.message \in Seq(Byte)
    BY MessageAssumption DEF Write
  <2>2. CASE w.base # b
    <3>1. files'[w.base] = files[w.base] BY <1>5, <2>1, <2>2
    <3> QED BY <1>8, <3>1 DEF Stored
  <2>3. CASE w.base = b
    <3>1. w.start + Len(w.message) <= c BY <1>8, <2>3
    <3>2. Contains(f, w.start, w.message) BY <1>8, <2>3 DEF Stored
    <3>3. Contains(g, w.start, w.message)
      BY <1>1, <2>1, <3>1, <3>2, StoredStays, ZenonT(30) DEF g
    <3> QED BY <1>4, <2>3, <3>3 DEF Stored
  <2> QED BY <2>2, <2>3
<1> QED BY <1>2, <1>4, <1>6, <1>7, <1>8

\* A segment after a write (segment.rs:write).
LEMMA WrittenSegment ==
  ASSUME NEW s \in Segment, NEW buf \in Message, NEW fits
  PROVE  LET t == Segment_write(s, buf, fits)
         IN /\ t \in Segment /\ t.base = s.base /\ t.cursor = s.cursor + Len(buf)
            /\ fits => t.next_offset = s.next_offset + 1 /\ t.bytes = s.bytes + Len(buf)
            /\ ~fits => t.next_offset = s.next_offset /\ t.bytes = s.bytes
<1>1. Len(buf) \in Nat BY MessageAssumption
<1> DEFINE u == [s EXCEPT !.cursor = @ + Len(buf)]
           v == [u EXCEPT !.next_offset = @ + 1, !.bytes = @ + Len(buf)]
<1>2. /\ u \in Segment /\ u.base = s.base /\ u.cursor = s.cursor + Len(buf)
      /\ u.next_offset = s.next_offset /\ u.bytes = s.bytes
  BY <1>1 DEF Segment
<1>3. Segment_write(s, buf, fits) = IF fits THEN v ELSE u BY DEF Segment_write
<1> HIDE DEF u
<1> DEFINE k == u.next_offset + 1
           b == u.bytes + Len(buf)
<1>4. k \in Nat /\ b \in Nat BY <1>1, <1>2 DEF Segment
<1>5. v = [u EXCEPT !.next_offset = k, !.bytes = b] BY <1>2 DEF Segment
<1>6. k = s.next_offset + 1 /\ b = s.bytes + Len(buf) BY <1>2
<1> HIDE DEF v, k, b
<1>7. v \in Segment /\ v.base = u.base /\ v.cursor = u.cursor /\ v.next_offset = k /\ v.bytes = b
  BY <1>2, <1>4, <1>5, ZenonT(30) DEF Segment
<1> QED BY <1>2, <1>3, <1>6, <1>7, ZenonT(30)

\* What a write does once the list of segments is settled.
Wrote(rolled, buf) ==
  LET last == Len(rolled)
      segment == rolled[last]
      fits == index_fits(segment.base, entry_of(segment, buf))
      write == [base |-> segment.base, start |-> segment.cursor, message |-> buf]
  IN /\ files' = [files EXCEPT ![segment.base] = write_all(@, segment.cursor, buf)]
     /\ segments' = [rolled EXCEPT ![last] = Segment_write(@, buf, fits)]
     /\ poisoned' = ~fits
     /\ acked' = IF fits THEN acked \cup {write} ELSE acked
     /\ failed' = IF fits THEN failed ELSE {write}

\* The one segment of a log in which no write has panicked.
LEMMA OnlySegment ==
  ASSUME LogInv, ~poisoned
  PROVE  /\ Len(segments) = 1 /\ segments \in Seq(Segment) /\ DOMAIN segments = {1}
         /\ segments[1] \in Segment /\ segments[1].base = 0
         /\ segments[1].cursor <= Len(files[0])
         /\ failed = {} /\ acked \in SUBSET Write
<1>1. Len(segments) = 1 /\ segments \in Seq(Segment)
  BY DEF LogInv, LogTypeOK, OthersAreEmpty, Segment
<1>2. DOMAIN segments = {1} /\ segments[1] \in Segment BY <1>1, OneElement, ZenonT(30)
<1>3. segments[1].base = 0 BY DEF LogInv, FirstHoldsAcked
<1>4. segments[1].cursor <= Len(files[0]) BY <1>2, <1>3 DEF LogInv, WritesAreStored
<1>5. failed = {} /\ acked \in SUBSET Write BY DEF LogInv, FailsOnce, LogTypeOK, Write
<1> QED BY <1>1, <1>2, <1>3, <1>4, <1>5

\* A write into the segment there is.
LEMMA WriteInPlace ==
  ASSUME LogInv, ~poisoned, NEW buf \in Message, Wrote(segments, buf)
  PROVE  LogInv'
<1> DEFINE s == segments[1]
           fits == index_fits(0, entry_of(s, buf))
           t == Segment_write(s, buf, fits)
<1>1. /\ Len(segments) = 1 /\ segments \in Seq(Segment) /\ DOMAIN segments = {1}
      /\ s \in Segment /\ s.base = 0 /\ s.cursor <= Len(files[0])
      /\ failed = {} /\ acked \in SUBSET Write
  BY OnlySegment
<1>a. PICK w : w = [base |-> 0, start |-> s.cursor, message |-> buf] BY ZenonT(30)
<1>2. /\ files' = [files EXCEPT ![0] = write_all(@, s.cursor, buf)]
      /\ segments' = [segments EXCEPT ![1] = t]
      /\ poisoned' = ~fits
      /\ acked' = IF fits THEN acked \cup {w} ELSE acked
      /\ failed' = IF fits THEN failed ELSE {w}
  BY <1>1, <1>a, ZenonT(30) DEF Wrote
<1>3. s.cursor \in Nat /\ s.next_offset \in Nat /\ s.bytes \in Nat BY <1>1 DEF Segment
<1>4. 0 \in Bases /\ Len(buf) \in Nat /\ Len(buf) > 0 /\ buf \in Seq(Byte)
  BY SizeAssumption, MessageAssumption DEF Bases
<1>5. w \in Write /\ w.base = 0 /\ w.start = s.cursor /\ w.message = buf BY <1>3, <1>4, <1>a DEF Write
<1>6. /\ t \in Segment /\ t.base = 0 /\ t.cursor = s.cursor + Len(buf)
      /\ fits => t.next_offset = s.next_offset + 1 /\ t.bytes = s.bytes + Len(buf)
      /\ ~fits => t.next_offset = s.next_offset /\ t.bytes = s.bytes
  <2>1. s \in Segment /\ s.base = 0 BY <1>1
  <2> HIDE DEF s, fits
  <2>2. /\ t \in Segment /\ t.base = s.base /\ t.cursor = s.cursor + Len(buf)
        /\ fits => t.next_offset = s.next_offset + 1 /\ t.bytes = s.bytes + Len(buf)
        /\ ~fits => t.next_offset = s.next_offset /\ t.bytes = s.bytes
    BY <2>1, WrittenSegment
  <2> HIDE DEF t
  <2> QED BY <2>1, <2>2, ZenonT(30)
<1> HIDE DEF t, fits
<1>7. segments' \in Seq(Segment) /\ Len(segments') = 1 /\ segments'[1] = t
  <2>1. segments \in Seq(Segment) /\ Len(segments) = 1 /\ t \in Segment BY <1>1, <1>6
  <2>2. segments' = [segments EXCEPT ![1] = t] BY <1>2
  <2> QED BY <2>1, <2>2, OneReplaced
<1>8. DOMAIN segments' = {1} BY <1>7, OneElement, ZenonT(30)
<1>9. WritesAt(0, s.cursor, buf) BY <1>1, <1>2 DEF WritesAt
<1>10. /\ files' \in [Bases -> Seq(Byte)]
       /\ Len(files'[0]) >= s.cursor + Len(buf)
       /\ Stored(w)'
       /\ \A v \in Write : Stored(v) /\ v.start + Len(v.message) <= s.cursor => Stored(v)'
  BY <1>3, <1>4, <1>5, <1>9, WriteFiles, ZenonT(30) DEF LogInv
<1>11. \A v \in acked : /\ v.base = 0 /\ v.start + Len(v.message) <= s.cursor
                        /\ v \in Write /\ Stored(v) /\ v.start \in Nat /\ Len(v.message) \in Nat
  BY <1>1, MessageAssumption DEF LogInv, FirstHoldsAcked, WritesAreStored, Write
<1>12. IsFiniteSet(acked) /\ s.next_offset = Cardinality(acked) /\ s.bytes = Cardinality(Held(acked))
  BY DEF LogInv, LogTypeOK, FirstHoldsAcked
<1>13. /\ w \notin acked /\ IsFiniteSet(acked \cup {w})
       /\ Cardinality(acked \cup {w}) = Cardinality(acked) + 1
       /\ Cardinality(Held(acked \cup {w})) = Cardinality(Held(acked)) + Len(buf)
  <2>1. \A v \in acked : v.start + Len(v.message) <= w.start BY <1>5, <1>11, ZenonT(30)
  <2> QED BY <1>1, <1>5, <1>12, <2>1, HeldMore, ZenonT(30)
<1>14. acked' \cup failed' = acked \cup {w} /\ acked' \subseteq acked \cup {w} BY <1>1, <1>2
<1>15. LogTypeOK'
  <2>1. poisoned' \in BOOLEAN BY <1>2
  <2>2. IsFiniteSet(acked') BY <1>2, <1>12, <1>13
  <2>3. acked' \cup failed' \subseteq Write BY <1>1, <1>5, <1>14
  <2> QED BY <1>7, <1>10, <2>1, <2>2, <2>3 DEF LogTypeOK, Segment, Write
<1>16. WritesAreStored'
  <2>1. \A v \in acked' \cup failed' : Stored(v)' BY <1>10, <1>11, <1>14
  <2>2. \A i \in DOMAIN segments' : segments'[i].cursor <= Len(files'[segments'[i].base])
    <3>1. t.cursor <= Len(files'[0]) BY <1>6, <1>10
    <3> QED BY <1>6, <1>7, <1>8, <3>1
  <2> QED BY <2>1, <2>2 DEF WritesAreStored
<1>17. FirstHoldsAcked'
  <2>1. \A v \in acked' : v.base = 0 /\ v.start + Len(v.message) <= t.cursor
    <3>1. \A v \in acked : v.start + Len(v.message) <= s.cursor + Len(buf) BY <1>3, <1>4, <1>11
    <3>2. w.base = 0 /\ w.start + Len(w.message) <= s.cursor + Len(buf) BY <1>3, <1>4, <1>5
    <3> QED BY <1>6, <1>11, <1>14, <3>1, <3>2
  <2>2. t.next_offset = Cardinality(acked') /\ t.bytes = Cardinality(Held(acked'))
    <3>1. CASE fits BY <1>2, <1>6, <1>12, <1>13, <3>1, ZenonT(30)
    <3>2. CASE ~fits BY <1>2, <1>6, <1>12, <3>2, ZenonT(30)
    <3> QED BY <3>1, <3>2
  <2>3. Held(acked)' = Held(acked') BY DEF Held
  <2> QED BY <1>6, <1>7, <2>1, <2>2, <2>3 DEF FirstHoldsAcked
<1>18. OthersAreEmpty' BY <1>7, <1>8 DEF OthersAreEmpty
<1>19. FailsOnce' BY <1>1, <1>2, <1>13, ZenonT(30) DEF FailsOnce
<1> QED BY <1>15, <1>16, <1>17, <1>18, <1>19 DEF LogInv

\* A list of one element, another one behind it, and that one replaced.
LEMMA TwoElements ==
  ASSUME NEW S, NEW q \in Seq(S), Len(q) = 1, NEW a \in S
  PROVE  /\ Append(q, a) \in Seq(S) /\ Len(Append(q, a)) = 2
         /\ Append(q, a)[1] = q[1] /\ Append(q, a)[2] = a
<1>1. Append(q, a) \in Seq(S) OBVIOUS
<1>2. Len(Append(q, a)) = 2 OBVIOUS
<1>3. Append(q, a)[1] = q[1] OBVIOUS
<1>4. Append(q, a)[Len(q) + 1] = a BY AppendProperties
<1>5. Len(q) + 1 = 2 OBVIOUS
<1> QED BY <1>1, <1>2, <1>3, <1>4, <1>5

\* A sequence with one element replaced.
LEMMA LastReplaced ==
  ASSUME NEW S, NEW q \in Seq(S), NEW k \in DOMAIN q, NEW t \in S
  PROVE  /\ [q EXCEPT ![k] = t] \in Seq(S)
         /\ Len([q EXCEPT ![k] = t]) = Len(q)
         /\ \A j \in DOMAIN q : j # k => [q EXCEPT ![k] = t][j] = q[j]
         /\ [q EXCEPT ![k] = t][k] = t
OBVIOUS

\* A full segment has acknowledged writes.
LEMMA FullIsWritten ==
  ASSUME LogInv, ~poisoned, full(segments[1])
  PROVE  segments[1].next_offset # 0
<1>1. segments[1].bytes > 0 /\ segments[1].bytes \in Nat BY OnlySegment, SizeAssumption DEF full, Segment
<1>2. segments[1].bytes = Cardinality(Held(acked)) /\ segments[1].next_offset = Cardinality(acked)
  BY DEF LogInv, FirstHoldsAcked
<1>3. acked # {}
  <2>1. Cardinality(Held({})) = 0 BY HeldNone, FS_EmptySet
  <2> QED BY <1>1, <1>2, <2>1
<1>4. IsFiniteSet(acked) BY DEF LogInv, LogTypeOK
<1> QED BY <1>2, <1>3, <1>4, FS_EmptySet

\* The first write of a segment that is not the first panics: its entry has a
\* negative place in the index.
LEMMA NoEntryFits ==
  ASSUME NEW n \in Nat, n # 0, NEW buf
  PROVE  ~index_fits(n, entry_of(Segment_new(n), buf))
<1>1. entry_of(Segment_new(n), buf).offset = 0 BY DEF entry_of, Entry, Segment_new
<1> QED BY <1>1 DEF index_fits

\* A write that opens the next segment first.
LEMMA WriteBehind ==
  ASSUME LogInv, ~poisoned, full(segments[1]), NEW n, n = segments[1].next_offset, n < MaxOffset,
         NEW buf \in Message, Wrote(Append(segments, Segment_new(n)), buf)
  PROVE  LogInv'
<1>1. /\ Len(segments) = 1 /\ segments \in Seq(Segment) /\ DOMAIN segments = {1}
      /\ segments[1] \in Segment /\ segments[1].base = 0 /\ segments[1].cursor <= Len(files[0])
      /\ failed = {} /\ acked \in SUBSET Write
  BY OnlySegment
<1>2. n \in Nat /\ n # 0 /\ n \in Bases /\ 0 \in Bases
  BY <1>1, FullIsWritten, SizeAssumption DEF Segment, Bases
<1> DEFINE s == Segment_new(n)
           t == Segment_write(s, buf, FALSE)
<1>a. PICK w : w = [base |-> n, start |-> 0, message |-> buf] BY ZenonT(30)
<1>3. s \in Segment /\ s.base = n /\ s.next_offset = 0 /\ s.bytes = 0 /\ s.cursor = 0
  BY <1>2, NewSegment
<1>4. Len(buf) \in Nat /\ Len(buf) > 0 /\ buf \in Seq(Byte) BY MessageAssumption
<1>5. w \in Write /\ w.base = n /\ w.start = 0 /\ w.message = buf BY <1>2, <1>a DEF Write
<1>6. /\ t \in Segment /\ t.base = n /\ t.cursor = 0 + Len(buf)
      /\ t.next_offset = 0 /\ t.bytes = 0
  <2> HIDE DEF s
  <2> QED BY <1>3, WrittenSegment, ZenonT(30)
<1>7. ~index_fits(n, entry_of(s, buf)) BY <1>2, NoEntryFits
<1> HIDE DEF s, t
<1>8. PICK r : r = Append(segments, s) BY ZenonT(30)
<1>9. r \in Seq(Segment) /\ Len(r) = 2 /\ r[1] = segments[1] /\ r[2] = s
  <2>1. segments \in Seq(Segment) /\ Len(segments) = 1 /\ s \in Segment BY <1>1, <1>3
  <2> QED BY <1>8, <2>1, TwoElements
<1>10. /\ files' = [files EXCEPT ![n] = write_all(@, 0, buf)]
       /\ segments' = [r EXCEPT ![2] = t]
       /\ poisoned' = TRUE
       /\ acked' = acked
       /\ failed' = {w}
  <2>1. index_fits(n, entry_of(s, buf)) = FALSE BY <1>7 DEF index_fits
  <2>2. Segment_write(s, buf, FALSE) = t BY DEF t
  <2>3. Wrote(r, buf) BY <1>8 DEF s
  <2>4. /\ files' = [files EXCEPT ![s.base] = write_all(@, s.cursor, buf)]
        /\ segments' = [r EXCEPT ![2] = Segment_write(r[2], buf, index_fits(s.base, entry_of(s, buf)))]
        /\ poisoned' = ~index_fits(s.base, entry_of(s, buf))
        /\ acked' = IF index_fits(s.base, entry_of(s, buf))
                    THEN acked \cup {[base |-> s.base, start |-> s.cursor, message |-> buf]} ELSE acked
        /\ failed' = IF index_fits(s.base, entry_of(s, buf))
                     THEN failed ELSE {[base |-> s.base, start |-> s.cursor, message |-> buf]}
    BY <1>9, <2>3, ZenonT(30) DEF Wrote
  <2> QED BY <1>3, <1>9, <1>a, <2>1, <2>2, <2>4, ZenonT(30)
<1>11. segments' \in Seq(Segment) /\ Len(segments') = 2 /\ segments'[1] = segments[1] /\ segments'[2] = t
  <2>1. r \in Seq(Segment) /\ Len(r) = 2 /\ t \in Segment /\ r[1] = segments[1] BY <1>6, <1>9
  <2>2. segments' = [r EXCEPT ![2] = t] BY <1>10
  <2>3. 2 \in DOMAIN r /\ 1 \in DOMAIN r /\ 1 # 2 BY <2>1
  <2>4. /\ segments' \in Seq(Segment) /\ Len(segments') = Len(r)
        /\ \A j \in DOMAIN r : j # 2 => segments'[j] = r[j]
        /\ segments'[2] = t
    BY <2>1, <2>2, <2>3, LastReplaced
  <2> QED BY <2>1, <2>3, <2>4
<1>12. DOMAIN segments' = {1, 2}
  <2>1. DOMAIN segments' = 1..2 BY <1>11
  <2>2. 1..2 = {1, 2} OBVIOUS
  <2> QED BY <2>1, <2>2
<1>13. LogTypeOK BY DEF LogInv
<1>14. WritesAt(n, 0, buf)
  <2>1. files[n] \in Seq(Byte) BY <1>2, <1>13 DEF LogTypeOK
  <2>2. 0 <= Len(files[n]) BY <2>1
  <2> QED BY <1>10, <2>2 DEF WritesAt
<1>15. /\ files' \in [Bases -> Seq(Byte)]
       /\ \A x \in Bases : Len(files'[x]) >= Len(files[x])
       /\ Len(files'[n]) >= 0 + Len(buf)
       /\ Stored(w)'
  <2>1. 0 \in Nat OBVIOUS
  <2> QED BY <1>2, <1>5, <1>13, <1>14, <2>1, WriteFiles, ZenonT(30)
<1>16. \A v \in acked : v.base = 0 /\ Stored(v) BY DEF LogInv, FirstHoldsAcked, WritesAreStored
<1>17. LogTypeOK'
  <2>1. IsFiniteSet(acked') BY <1>10, <1>13 DEF LogTypeOK
  <2>2. acked' \cup failed' \subseteq Write BY <1>1, <1>5, <1>10
  <2> QED BY <1>10, <1>11, <1>15, <2>1, <2>2, ZenonT(30) DEF LogTypeOK, Segment, Write
<1>18. WritesAreStored'
  <2>1. \A v \in acked' \cup failed' : Stored(v)'
    <3> SUFFICES ASSUME NEW v \in acked' \cup failed' PROVE Stored(v)'
      OBVIOUS
    <3>1. CASE v = w BY <1>15, <3>1
    <3>2. CASE v \in acked
      <4>1. files'[0] = files[0] BY <1>2, <1>10, <1>13 DEF LogTypeOK
      <4> QED BY <1>16, <3>2, <4>1 DEF Stored
    <3> QED BY <1>10, <3>1, <3>2
  <2>2. segments'[1].cursor <= Len(files'[segments'[1].base])
    <3>1. files'[0] = files[0] BY <1>2, <1>10, <1>13 DEF LogTypeOK
    <3> QED BY <1>1, <1>11, <3>1
  <2>3. segments'[2].cursor <= Len(files'[segments'[2].base])
    <3>1. files'[n] \in Seq(Byte) BY <1>2, <1>15
    <3>2. Len(files'[n]) \in Nat BY <3>1
    <3> QED BY <1>4, <1>6, <1>11, <1>15, <3>2
  <2> QED BY <1>12, <2>1, <2>2, <2>3 DEF WritesAreStored
<1>19. FirstHoldsAcked'
  <2>1. Held(acked)' = Held(acked) BY <1>10 DEF Held
  <2>2. FirstHoldsAcked BY DEF LogInv
  <2> QED BY <1>10, <1>11, <2>1, <2>2 DEF FirstHoldsAcked
<1>20. OthersAreEmpty'
  <2>1. segments'[2].base # 0 /\ segments'[2].next_offset = 0 /\ segments'[2].bytes = 0
    BY <1>2, <1>6, <1>11
  <2> QED BY <1>10, <1>12, <2>1 DEF OthersAreEmpty
<1>21. FailsOnce'
  <2>1. w \notin acked BY <1>2, <1>5, <1>16
  <2> QED BY <1>10, <2>1 DEF FailsOnce
<1> QED BY <1>17, <1>18, <1>19, <1>20, <1>21 DEF LogInv

\* A write keeps LogInv (mod.rs:write).
LEMMA WriteStep ==
  ASSUME LogInv, NEW buf \in Message, Log_write(buf)
  PROVE  LogInv'
<1>1. ~poisoned BY DEF Log_write
<1>2. Len(segments) = 1 BY <1>1, OnlySegment
<1>3. active_segment = segments[1] /\ newest_offset = segments[1].next_offset
  BY <1>2, ZenonT(30) DEF active_segment, newest_offset
<1>4. CASE full(segments[1])
  <2>1. rollover = Append(segments, Segment_new(segments[1].next_offset)) BY <1>3, ZenonT(30) DEF rollover
  <2>2. Wrote(rollover, buf) BY <1>3, <1>4, ZenonT(30) DEF Log_write, Wrote
  <2>3. segments[1].next_offset < MaxOffset BY <1>3 DEF Log_write
  <2>4. PICK n : n = segments[1].next_offset BY ZenonT(30)
  <2>5. Wrote(Append(segments, Segment_new(n)), buf) BY <2>1, <2>2, <2>4, ZenonT(30)
  <2>6. n < MaxOffset BY <2>3, <2>4
  <2> QED BY <1>1, <1>4, <2>4, <2>5, <2>6, WriteBehind, ZenonT(30)
<1>5. CASE ~full(segments[1])
  <2>1. Wrote(segments, buf) BY <1>3, <1>5, ZenonT(30) DEF Log_write, Wrote
  <2> QED BY <1>1, <2>1, WriteInPlace, ZenonT(30)
<1> QED BY <1>4, <1>5

\* Opening the log again keeps LogInv (mod.rs:new).
LEMMA OpenStep ==
  ASSUME LogInv, Log_new
  PROVE  LogInv'
<1>1. files' \in [Bases -> Seq(Byte)] BY DEF Log_new, LogInv, LogTypeOK
<1> QED BY <1>1, Opened, ZenonT(30) DEF Log_new

\* LogInv is inductive.
LEMMA NextInv == LogInv /\ [LogNext]_logVars => LogInv'
<1> SUFFICES ASSUME LogInv, [LogNext]_logVars PROVE LogInv'
  OBVIOUS
<1>1. CASE Log_new BY <1>1, OpenStep
<1>2. CASE \E buf \in Message : Log_write(buf) BY <1>2, WriteStep
<1>3. CASE \E k \in 1..MAX_SEGMENT_BYTES : Log_read(k)
  <2>1. PICK k \in 1..MAX_SEGMENT_BYTES : Log_read(k) BY <1>3
  <2>2. k \in Nat /\ k > 0 BY SizeAssumption
  <2> QED BY <2>1, <2>2, ReadStep, ZenonT(30)
<1>4. CASE UNCHANGED logVars
  BY <1>4 DEF logVars, LogInv, LogTypeOK, WritesAreStored, FirstHoldsAcked, OthersAreEmpty, FailsOnce,
     Stored, Held
<1> QED BY <1>1, <1>2, <1>3, <1>4 DEF LogNext
-----------------------------------------------------------------------------
(* Theorems *)

\* The log keeps LogInv, with any messages, sizes and number of openings: what
\* was acknowledged is in the first file behind its cursor, and a log that goes
\* on to a second segment has failed (mod.rs:write, segment.rs:write).
THEOREM LogIsKept == LogSpec => []LogInv
<1>1. LogInit => LogInv BY InitInv
<1>2. LogInv /\ [LogNext]_logVars => LogInv' BY NextInv
<1> QED BY <1>1, <1>2, PTL DEF LogSpec

\* What a write that returned has put into its file stays there while the log
\* is open (mod.rs:write, segment.rs:write).
THEOREM AckedStaysStored == LogSpec => []AckedIsStored
<1>1. LogInv => AckedIsStored BY DEF LogInv, WritesAreStored, AckedIsStored
<1> QED BY <1>1, LogIsKept, PTL

\* The counters of every segment are those of the writes that returned, and the
\* one write that may have failed is in its file (segment.rs:write).
THEOREM CountersAreTrue == LogSpec => []CountersMatch
<1>1. ASSUME LogInv PROVE CountersMatch
  <2>1. /\ poisoned <=> failed # {}
        /\ \A write \in failed : Stored(write) /\ write \notin acked
    BY <1>1 DEF LogInv, FailsOnce, WritesAreStored
  <2>2. ASSUME NEW i \in DOMAIN segments, NEW writes, writes = {w \in acked : w.base = segments[i].base}
        PROVE  segments[i].next_offset = Cardinality(writes) /\ segments[i].bytes = Cardinality(Held(writes))
    <3>1. CASE i = 1
      <4>1. writes = acked BY <1>1, <2>2, <3>1 DEF LogInv, FirstHoldsAcked
      <4> QED BY <1>1, <3>1, <4>1 DEF LogInv, FirstHoldsAcked
    <3>2. CASE i # 1
      <4>1. segments[i].base # 0 /\ segments[i].next_offset = 0 /\ segments[i].bytes = 0
        BY <1>1, <3>2 DEF LogInv, OthersAreEmpty
      <4>2. writes = {} BY <1>1, <2>2, <4>1 DEF LogInv, FirstHoldsAcked
      <4> QED BY <4>1, <4>2, HeldNone, FS_EmptySet, ZenonT(30)
    <3> QED BY <3>1, <3>2
  <2> QED BY <2>1, <2>2, ZenonT(30) DEF CountersMatch
<1> QED BY <1>1, LogIsKept, PTL
=============================================================================
