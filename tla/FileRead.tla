------------------------------ MODULE FileRead ------------------------------
(***************************************************************************)
(* store.rs, Store::read and the geometry of Store::block: which blocks a    *)
(* range of a file needs, where they are stored, how long each must be, and  *)
(* the cache of decoded blocks the threads share.  How one block's key is    *)
(* found is BlockRead's subject, and how its bytes come off the disk is      *)
(* WindowCache's.                                                            *)
(*                                                                          *)
(* The byte at position p of file f is the pair <<f, p>>.                    *)
(***************************************************************************)
EXTENDS Integers, Sequences

CONSTANTS
  Threads,
  Files,        \* files with a record
  Record,       \* [Files -> [size, mode, dat, offset, stored]], stored: length of each block
  Yields,       \* [Files -> Seq(Nat)]: what each block decodes to, in bytes
  Damaged,      \* pairs <<f, i>>: stored blocks that do not decode to their checksum
  DatLen,       \* [dats -> Nat]
  NoDat,
  BLOCK_SIZE,
  MaxBlocks,    \* no record has more blocks
  U64,          \* the number of values of a u64; the release build wraps
  Ranges,       \* pairs <<offset, len>> that a frontend may ask for
  CacheBytes    \* capacity of the block cache

VARIABLES
  blocks,       \* the cache of decoded blocks, keyed by (dat, offset of the stored block)
  pc,           \* "idle", "look", "decode", "got" or "done"
  file,         \* the file the call is about
  range,        \* <<offset, end>> of a read
  pos,          \* the next byte wanted
  got,          \* what the last call of block returned
  out           \* what the read has collected, or its error

readVars == <<blocks, pc, file, range, pos, got, out>>

Error(class) == [ok |-> FALSE, class |-> class]
Ok(bytes) == [ok |-> TRUE, bytes |-> bytes]

\* The bytes of file f from one position up to another.
Content(f, from, to) == [i \in 1..(to - from) |-> <<f, from + i - 1>>]

num_blocks(f) == Len(Record[f].stored)

StoredBlocks ==
  {<<f, i>> \in Files \X (0..MaxBlocks) : Record[f].dat # NoDat /\ i < num_blocks(f)}

\* own_table: the end of each stored block is the start of the next.
offsets(f) ==
  LET at[i \in 0..num_blocks(f)] ==
        IF i = 0 THEN Record[f].offset ELSE at[i - 1] + Record[f].stored[i]
  IN  at

Smaller(a, b) == IF a < b THEN a ELSE b

\* block_range: the decoded bytes block i must hold.  In a record with more blocks
\* than its size needs, the end comes before the start.
block_range(f, i) == <<i * BLOCK_SIZE, Smaller((i + 1) * BLOCK_SIZE, Record[f].size)>>

DecodedLen(f, i) == (block_range(f, i)[2] - block_range(f, i)[1]) % U64

BlockKey(f, i) == <<Record[f].dat, offsets(f)[i]>>

\* What block makes of stored block i when it is not cached.
Decoded(f, i) ==
  CASE DatLen[Record[f].dat] < offsets(f)[i + 1] -> Error("short")
    [] <<f, i>> \in Damaged -> Error("checksum")
    [] Yields[f][i + 1] # DecodedLen(f, i) -> Error("size")
    [] OTHER -> Ok(Content(f, i * BLOCK_SIZE, i * BLOCK_SIZE + Yields[f][i + 1]))

Cache == INSTANCE ByteLru WITH cache <- blocks, Capacity <- CacheBytes, Size <- Len,
           Keys <- {BlockKey(b[1], b[2]) : b \in StoredBlocks},
           Values <- {Content(b[1], b[2] * BLOCK_SIZE, b[2] * BLOCK_SIZE + Yields[b[1]][b[2] + 1]) :
                        b \in StoredBlocks}

ReadTypeOK ==
  /\ blocks.bytes \in Nat
  /\ file \in [Threads -> Files]
  /\ pos \in [Threads -> Nat]
  /\ \A t \in Threads : range[t] \in Nat \X Nat

AnyFile == CHOOSE f \in Files : TRUE
Nothing == Ok(<<>>)

ReadInit ==
  /\ blocks = Cache!New
  /\ file = [t \in Threads |-> AnyFile]
  /\ range = [t \in Threads |-> <<0, 0>>]
  /\ pos = [t \in Threads |-> 0]
  /\ got = [t \in Threads |-> Nothing]
  /\ out = [t \in Threads |-> Nothing]

Goto(t, to) == pc' = [pc EXCEPT ![t] = to]

\* block, up to the look into the cache.  The block asked for is the one that
\* holds position pos.
Look(t) ==
  LET f == file[t]
      i == pos[t] \div BLOCK_SIZE
      key == BlockKey(f, i)
      answer(a) == got' = [got EXCEPT ![t] = a] /\ Goto(t, "got")
  IN  /\ pc[t] = "look"
      /\ \/ Record[f].dat = NoDat /\ answer(Error("nodat")) /\ UNCHANGED blocks
         \/ /\ Record[f].dat # NoDat /\ i >= num_blocks(f)
            /\ answer(Error("nosuchblock")) /\ UNCHANGED blocks
         \/ /\ <<f, i>> \in StoredBlocks /\ key \in Cache!Cached(blocks)
            /\ answer(Ok(Cache!EntryOf(blocks, key).val))
            /\ blocks' = Cache!Get(blocks, key)
         \/ /\ <<f, i>> \in StoredBlocks /\ key \notin Cache!Cached(blocks)
            /\ Goto(t, "decode") /\ UNCHANGED <<blocks, got>>
      /\ UNCHANGED <<file, range, pos, out>>

\* The rest of block: read, decode, check, and remember unless the block is plain.
Decode(t) ==
  LET f == file[t]
      i == pos[t] \div BLOCK_SIZE
  IN  /\ pc[t] = "decode"
      /\ got' = [got EXCEPT ![t] = Decoded(f, i)]
      /\ blocks' = IF Decoded(f, i).ok /\ Record[f].mode # "Plain"
                   THEN Cache!Insert(blocks, BlockKey(f, i), Decoded(f, i).bytes)
                   ELSE blocks
      /\ Goto(t, "got")
      /\ UNCHANGED <<file, range, pos, out>>

\* read: its early return and its first block.
Request(t) ==
  /\ pc[t] = "idle"
  /\ \E f \in Files, r \in Ranges :
       LET end == Smaller(r[1] + r[2], Record[f].size)
           empty == r[1] >= Record[f].size \/ r[2] = 0
       IN  /\ file' = [file EXCEPT ![t] = f]
           /\ range' = [range EXCEPT ![t] = IF empty THEN <<0, 0>> ELSE <<r[1], end>>]
           /\ pos' = [pos EXCEPT ![t] = r[1]]
           /\ Goto(t, IF empty THEN "done" ELSE "look")
  /\ UNCHANGED <<blocks, got, out>>

\* Mutant of TakenFrom: the rest of the block, whatever the end of the range.
TakenFromAll(block, at, wanted) == SubSeq(block, at + 1, Len(block))

\* The part of a block a read takes: from `at` on, no more than `wanted` bytes.
TakenFrom(block, at, wanted) == SubSeq(block, at + 1, at + Smaller(wanted, Len(block) - at))

\* read: what it does with one block's bytes or error.
Take(t) ==
  LET at == pos[t] % BLOCK_SIZE
      part == TakenFrom(got[t].bytes, at, range[t][2] - pos[t])
      fail(e) == out' = [out EXCEPT ![t] = e] /\ Goto(t, "done") /\ UNCHANGED pos
  IN  /\ pc[t] = "got"
      /\ \/ /\ got[t].ok => at >= Len(got[t].bytes)
            /\ fail(IF got[t].ok THEN Error("nosuchblock") ELSE got[t])
         \/ /\ got[t].ok /\ at < Len(got[t].bytes)
            /\ out' = [out EXCEPT ![t] = Ok(@.bytes \o part)]
            /\ pos' = [pos EXCEPT ![t] = @ + Len(part)]
            /\ Goto(t, IF pos[t] + Len(part) < range[t][2] THEN "look" ELSE "done")
      /\ got' = [got EXCEPT ![t] = Nothing]
      /\ UNCHANGED <<blocks, file, range>>

Answer(t) ==
  /\ pc[t] = "done"
  /\ Goto(t, "idle")
  /\ range' = [range EXCEPT ![t] = <<0, 0>>]
  /\ pos' = [pos EXCEPT ![t] = 0]
  /\ out' = [out EXCEPT ![t] = Nothing]
  /\ UNCHANGED <<blocks, file, got>>

ReadStep(t) == Request(t) \/ Look(t) \/ Decode(t) \/ Take(t) \/ Answer(t)

-----------------------------------------------------------------------------
\* A read that succeeds returns exactly the bytes of the range it was asked for,
\* cut at the end of the file: nothing missing in the middle, nothing of another
\* block, whatever is cached, evicted or damaged meanwhile, and also when a
\* record has a block too many, a block too few or a block of no bytes that
\* shares its place in the dat, and so its cache key, with the next file's.
ReadExact ==
  \A t \in Threads :
    pc[t] = "done" /\ out[t].ok => out[t].bytes = Content(file[t], range[t][1], range[t][2])

\* The running count of the block cache is what it really holds, and fits,
\* although blocks differ in length and two threads may store the same one.
CountsExact == Cache!BytesExact

\* Storing a decoded block evicts only the least recently used ones and not one
\* more than it needs, and the block is there afterwards.
EvictsOnlyOld ==
  [][\A t \in Threads :
       LET f == file[t]
           i == pos[t] \div BLOCK_SIZE
       IN  /\ pc[t] = "decode" /\ pc'[t] = "got"
           /\ got'[t].ok /\ Record[f].mode # "Plain"
           => Cache!EvictsLeastRecentOnly(BlockKey(f, i), got'[t].bytes)]_readVars
=============================================================================
