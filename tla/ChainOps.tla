------------------------------ MODULE ChainOps ------------------------------
(***************************************************************************)
(* The block store of one node: the operations of raft/chain.rs as         *)
(* functions on the value of a Chain.                                      *)
(*                                                                         *)
(* A chain is [db, id_gen, head, commit]: the set of stored blocks (at     *)
(* most one per id), the next id of the generator, and the ids of the head *)
(* and of the committed block.  A block id is the number its eight         *)
(* big-endian bytes encode, so the byte order of the store is the order of *)
(* the numbers.                                                            *)
(*                                                                         *)
(* The store is one sled tree, and the committed id is kept in that same   *)
(* tree under the key "commit", which sorts after every block id.  The key *)
(* exists exactly when commit > 0: every caller of commit passes an id     *)
(* larger than the current one.                                            *)
(*                                                                         *)
(* A vector of blocks that a range of the store produced is modelled by    *)
(* its set: the ids are distinct and the vector is in ascending order.     *)
(***************************************************************************)
EXTENDS Naturals, FiniteSets

CONSTANT Data    \* payloads of blocks; the first block has the payload Genesis
CONSTANT Genesis

\* The first block is empty, a proposal is a serialized transition.
ASSUME GenesisAssumption == Genesis \notin Data

Block == [id : Nat, next : Nat, data : Data \cup {Genesis}]

ChainState == [db : SUBSET Block, id_gen : Nat, head : Nat, commit : Nat]

Ids(blocks) == {b.id : b \in blocks}

Insert(db, block) == {b \in db : b.id # block.id} \cup {block}

GenesisBlock == [id |-> 0, next |-> 0, data |-> Genesis]

\* Mutant: the stored commit id is not read.
Chain_new_uncommitted(db, commit) ==
  [db |-> Insert(db, GenesisBlock), id_gen |-> 1, head |-> 0, commit |-> 0]

\* Chain::new over what the store holds: the generator and the head restart
\* at the committed id; with nothing committed, init() stores the first block
\* and draws its id.
Chain_new(db, commit) ==
  IF commit = 0
  THEN [db |-> Insert(db, GenesisBlock), id_gen |-> 1, head |-> 0, commit |-> 0]
  ELSE [db |-> db, id_gen |-> commit, head |-> commit, commit |-> commit]

Chain_has(c, block_id) == \E b \in c.db : b.id = block_id

\* The assertion of append: the drawn id is above the head.
Chain_can_append(c) == c.id_gen > c.head

\* Mutant: the id follows the committed block's.
Chain_append_after_commit(c, data) ==
  [c EXCEPT !.db = Insert(@, [id |-> c.commit + 1, next |-> c.commit, data |-> data]),
            !.head = c.commit + 1,
            !.id_gen = c.commit + 2]

\* Mutant: the generator is read and not advanced.
Chain_append_same_id(c, data) ==
  [c EXCEPT !.db = Insert(@, [id |-> c.id_gen, next |-> c.head, data |-> data]),
            !.head = c.id_gen]

\* Mutant: the parent is off by one.
Chain_append_grandparent(c, data) ==
  [c EXCEPT !.db = Insert(@, [id |-> c.id_gen, next |-> c.head - 1, data |-> data]),
            !.id_gen = @ + 1,
            !.head = c.id_gen]

\* Mutant: the block is not inserted.
Chain_append_unstored(c, data) ==
  [c EXCEPT !.id_gen = @ + 1, !.head = c.id_gen]

Chain_append(c, data) ==
  [c EXCEPT !.db = Insert(@, [id |-> c.id_gen, next |-> c.head, data |-> data]),
            !.id_gen = @ + 1,
            !.head = c.id_gen]

\* extend, applied to a vector of blocks in order until one has a parent that
\* is not stored.  Extendable is the part before that block.
Extendable(c, blocks) ==
  {b \in blocks :
     \A x \in blocks : x.id <= b.id =>
        \/ Chain_has(c, x.next)
        \/ \E y \in blocks : y.id = x.next /\ y.id < x.id}

\* Every block is stored over any block of the same id, and the head is the
\* last block stored, even when that is below the head of before.
Chain_extend(c, blocks) ==
  IF blocks = {} THEN c
  ELSE [c EXCEPT !.db = {b \in @ : b.id \notin Ids(blocks)} \cup blocks,
                 !.head = CHOOSE h \in Ids(blocks) : \A i \in Ids(blocks) : i <= h]

\* commit panics on an id that is not stored, and then changes nothing.
Chain_commit(c, block_id) ==
  IF Chain_has(c, block_id) THEN [c EXCEPT !.commit = block_id] ELSE c

\* The blocks of range(lo..).
RangeFrom(c, lo) == {b \in c.db : lo <= b.id}

\* Mutant: the bound is included.
Range_excl_closed(c, lo, hi) == {b \in c.db : lo <= b.id /\ b.id <= hi}

\* The blocks of range(lo..hi), and of range(lo..=hi).
Range_excl(c, lo, hi) == {b \in c.db : lo <= b.id /\ b.id < hi}
Range_incl(c, lo, hi) == {b \in c.db : lo <= b.id /\ b.id <= hi}

\* Mutant: skip(2).
Skip2Take(blocks, k) ==
  {b \in blocks : Cardinality({x \in blocks : x.id < b.id}) \in 2..(k + 1)}

\* iterator.skip(1).take(k), which for k = 1 is also nth(1).
Skip1Take(blocks, k) ==
  {b \in blocks : Cardinality({x \in blocks : x.id < b.id}) \in 1..k}

\* iterator.skip(1).
Skip1(blocks) == {b \in blocks : \E x \in blocks : x.id < b.id}

\* Reading `count` entries of range(lo..) runs past the last block onto the
\* key "commit", whose value does not deserialize as a block: a panic.
ReadsCommitKey(c, lo, count) ==
  c.commit > 0 /\ Cardinality(RangeFrom(c, lo)) < count
=============================================================================
