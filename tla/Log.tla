-------------------------------- MODULE Log --------------------------------
(***************************************************************************)
(* The log of a partition (broker/log): segments, each a file of messages  *)
(* and an index of their positions.  The files stay when a log is opened   *)
(* again, which starts over at their first byte.                           *)
(***************************************************************************)
EXTENDS Integers, Sequences, FiniteSets, Functions, FiniteSetsExt

CONSTANTS Message,            \* non-empty sequences of bytes
          BYTE,               \* the number of values of a byte, 256 in the code
          WORD,               \* the bytes of an integer, 8 in the code
          MAX_SEGMENT_BYTES,  \* when a segment is full
          MAX_BYTES_INDEX,    \* the size of an index
          MaxOffset,          \* bound on the offsets of a segment
          MaxOpens            \* bound on the times the log is opened again

Byte == 0..(BYTE - 1)

\* write_all (produce.rs, mod.rs) writes nothing when there is nothing to write.
ASSUME MessageAssumption == \A buf \in Message : buf \in Seq(Byte) /\ Len(buf) > 0

ASSUME SizeAssumption ==
  /\ MAX_SEGMENT_BYTES \in Nat \ {0}
  /\ MaxOffset \in Nat

VARIABLES files,     \* the bytes of each log file, by base offset
          indexes,   \* the bytes of each index file, by base offset
          segments,  \* the segments of the open log, the active one last
          poisoned,  \* whether a writer has panicked with the lock
          opens,     \* how often the log has been opened again
          acked,     \* the writes that returned since it was opened
          failed     \* the write that panicked since it was opened, if any

logVars == <<files, indexes, segments, poisoned, opens, acked, failed>>
-----------------------------------------------------------------------------
(* Index *)

\* An integer as big-endian bytes, and back.
write_u64(value) == [i \in 1..WORD |-> (value \div BYTE^(WORD - i)) % BYTE]
read_u64(bytes) == MapThenSumSet(LAMBDA i : bytes[i] * BYTE^(WORD - i), 1..WORD)

Entry(offset, position) == [offset |-> offset, position |-> position]
Entry_into(entry) == write_u64(entry.offset) \o write_u64(entry.position)
Entry_from(bytes) == Entry(read_u64(bytes), read_u64(SubSeq(bytes, WORD + 1, 2 * WORD)))

Index_new == [i \in 0..(MAX_BYTES_INDEX - 1) |-> 0]

\* The bytes that fit are written even when the rest is a panic.
write_at(mmap, bytes, offset) ==
  [i \in DOMAIN mmap |->
     IF i >= offset /\ i < offset + Len(bytes) THEN bytes[i - offset + 1] ELSE mmap[i]]

\* The subtraction may not underflow and the entry has to fit.
index_fits(base, entry) ==
  LET relative == entry.offset - base
  IN relative >= 0 /\ relative + 2 * WORD <= MAX_BYTES_INDEX

\* An entry is written at the byte of its relative offset.
write_entry(mmap, base, entry) ==
  LET relative == entry.offset - base
  IN IF relative < 0 THEN mmap
     ELSE write_at(mmap, Entry_into(Entry(relative, entry.position)), relative)

Window(mmap, i) == [j \in 1..(2 * WORD) |-> mmap[i + j - 1]]

read_entry(mmap, base, i) ==
  LET e == Entry_from(Window(mmap, i)) IN [e EXCEPT !.offset = @ + base]

\* The first window of the file that reads as an entry of the offset.
find_entry(mmap, offset) ==
  LET found == {i \in 0..(MAX_BYTES_INDEX - 2 * WORD) : Entry_from(Window(mmap, i)).offset = offset}
  IN IF found = {} THEN {} ELSE {Entry_from(Window(mmap, Min(found)))}
-----------------------------------------------------------------------------
(* Segments *)

\* cursor is the position of the file that reads and writes share.
Segment_new(base) == [base |-> base, next_offset |-> 0, bytes |-> 0, cursor |-> 0]

full(segment) == segment.bytes >= MAX_SEGMENT_BYTES

\* The file after buf is written at a position of it.
write_all(file, position, buf) ==
  [i \in 1..Max({Len(file), position + Len(buf)}) |->
     IF i > position /\ i <= position + Len(buf) THEN buf[i - position] ELSE file[i]]

\* Mutant: the counters advance before the entry is in the index.
Segment_write_counts_first(segment, buf, indexed) ==
  [segment EXCEPT !.cursor = @ + Len(buf), !.next_offset = @ + 1, !.bytes = @ + Len(buf)]

\* The message is written; the counters advance when its entry is in the index.
Segment_write(segment, buf, indexed) ==
  LET written == [segment EXCEPT !.cursor = @ + Len(buf)]
  IN IF indexed
     THEN [written EXCEPT !.next_offset = @ + 1, !.bytes = @ + Len(buf)]
     ELSE written

\* Mutant: the position of the end of the message.
entry_of_end(segment, buf) == Entry(segment.next_offset, segment.bytes + Len(buf))
entry_of(segment, buf) == Entry(segment.next_offset, segment.bytes)
-----------------------------------------------------------------------------
(* The log *)

active_segment == segments[Len(segments)]

\* Mutant: the next segment starts the first file over.
rollover_in_place == Append(segments, Segment_new(0))

newest_offset == active_segment.next_offset
rollover == Append(segments, Segment_new(newest_offset))

Bases == 0..MaxOffset

LogInit ==
  /\ files = [b \in Bases |-> <<>>]
  /\ indexes = [b \in Bases |-> Index_new]
  /\ segments = <<Segment_new(0)>>
  /\ poisoned = FALSE
  /\ opens = 0
  /\ acked = {}
  /\ failed = {}

\* Opening the log of a path again, in a new process.
Log_new ==
  /\ opens < MaxOpens
  /\ opens' = opens + 1
  /\ segments' = <<Segment_new(0)>>
  /\ poisoned' = FALSE
  /\ acked' = {}
  /\ failed' = {}
  /\ UNCHANGED <<files, indexes>>

\* A write that does not find the lock poisoned.  The message is in the file
\* before its entry is in the index, and the lock is held if that panics.
Log_write(buf) ==
  /\ ~poisoned
  /\ newest_offset < MaxOffset
  /\ LET rolled == IF full(active_segment) THEN rollover ELSE segments
         last == Len(rolled)
         segment == rolled[last]
         entry == entry_of(segment, buf)
         fits == index_fits(segment.base, entry)
         write == [base |-> segment.base, start |-> segment.cursor, message |-> buf]
     IN /\ files' = [files EXCEPT ![segment.base] = write_all(@, segment.cursor, buf)]
        /\ indexes' = [indexes EXCEPT ![segment.base] = write_entry(@, segment.base, entry)]
        /\ segments' = [rolled EXCEPT ![last] = Segment_write(@, buf, fits)]
        /\ poisoned' = ~fits
        /\ acked' = IF fits THEN acked \cup {write} ELSE acked
        /\ failed' = IF fits THEN failed ELSE {write}
  /\ UNCHANGED opens

\* A read of up to k bytes goes on where the last read or write ended.
Log_read(k) ==
  /\ ~poisoned
  /\ segments' = [segments EXCEPT ![Len(segments)].cursor =
       Min({@ + k, Max({@, Len(files[active_segment.base])})})]
  /\ UNCHANGED <<files, indexes, poisoned, opens, acked, failed>>

LogNext ==
  \/ Log_new
  \/ \E buf \in Message : Log_write(buf)
  \/ \E k \in 1..MAX_SEGMENT_BYTES : Log_read(k)

LogSpec == LogInit /\ [][LogNext]_logVars
-----------------------------------------------------------------------------
(* Properties *)

Contains(file, start, message) ==
  /\ start + Len(message) <= Len(file)
  /\ SubSeq(file, start + 1, start + Len(message)) = message

Stored(write) == Contains(files[write.base], write.start, write.message)

\* What a write that returned has put into its file stays there as long as the
\* log is open, through rollovers, reads that move the shared cursor and files
\* that hold bytes of an earlier opening (mod.rs:write, segment.rs:write).
AckedIsStored == \A write \in acked : Stored(write)

Last(base) == {w \in acked : w.base = base /\ \A v \in acked : v.base = base => v.start <= w.start}

\* The index finds the newest message of a segment: entries overlap, and the
\* last one is whole, where find_entry looks first, also among bytes of an
\* earlier opening.  Its position counts the bytes written since the log was
\* opened; reads of older bytes come on top (index.rs:write_entry).
NewestIsIndexed ==
  \A i \in DOMAIN segments :
    LET s == segments[i]
        newest == s.next_offset - 1
        skipped == s.cursor - s.bytes
    IN \A w \in Last(s.base) : ~poisoned =>
         LET e == read_entry(indexes[s.base], s.base, newest - s.base)
         IN /\ e.offset = newest
            /\ e.position <= w.start /\ w.start <= e.position + skipped
            /\ find_entry(indexes[s.base], newest - s.base) = {[e EXCEPT !.offset = newest - s.base]}

\* The positions of a file that hold the messages of the writes.
Held(writes) == UNION {{w.start + i : i \in 1..Len(w.message)} : w \in writes}

\* A log fails at most once, with one message that is in the file and was not
\* acknowledged; the counters of every segment are those of the writes that
\* returned, how many there are and how much of the file they hold: none has a
\* byte of another (segment.rs:write advances them last).
CountersMatch ==
  /\ poisoned <=> failed # {}
  /\ \A write \in failed : Stored(write) /\ write \notin acked
  /\ \A i \in DOMAIN segments :
       LET writes == {w \in acked : w.base = segments[i].base}
       IN /\ segments[i].next_offset = Cardinality(writes)
          /\ segments[i].bytes = Cardinality(Held(writes))

LogTypeOK ==
  /\ files \in [Bases -> Seq(Byte)]
  /\ segments \in Seq([base : Bases, next_offset : Nat, bytes : Nat, cursor : Nat])
  /\ poisoned \in BOOLEAN
  /\ IsFiniteSet(acked)
  /\ acked \cup failed \subseteq [base : Bases, start : Nat, message : Message]

WritesAreStored ==
  /\ \A i \in DOMAIN segments : segments[i].cursor <= Len(files[segments[i].base])
  /\ \A write \in acked \cup failed : Stored(write)

\* What was acknowledged is in the first file, behind its cursor.
FirstHoldsAcked ==
  /\ Len(segments) > 0
  /\ segments[1].base = 0
  /\ segments[1].next_offset = Cardinality(acked)
  /\ segments[1].bytes = Cardinality(Held(acked))
  /\ \A write \in acked :
       write.base = 0 /\ write.start + Len(write.message) <= segments[1].cursor

\* Another segment is there only when the write that opened it has panicked.
OthersAreEmpty ==
  /\ \A i \in DOMAIN segments : i # 1 =>
       /\ segments[i].base # 0
       /\ segments[i].next_offset = 0
       /\ segments[i].bytes = 0
  /\ Len(segments) = 1 \/ poisoned

FailsOnce ==
  /\ poisoned <=> failed # {}
  /\ \A write \in failed : write \notin acked

\* The inductive invariant behind AckedIsStored and CountersMatch.
LogInv == LogTypeOK /\ WritesAreStored /\ FirstHoldsAcked /\ OthersAreEmpty /\ FailsOnce
=============================================================================
