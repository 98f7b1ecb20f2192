------------------------------ MODULE Formats ------------------------------
(***************************************************************************)
(* format/blob.rs, format/manifest.rs, format/checksums.rs and parse_blob   *)
(* of store.rs: reading one version blob.                                   *)
(*                                                                          *)
(* A buffer is a sequence of words: a u16 or a u32 of the formats is one     *)
(* word, a u64 two (low, high), a character of a name one, so sizes and      *)
(* offsets count words.  Offsets start at 0, as in the code.                 *)
(*                                                                          *)
(* The machine reads one buffer: a blob as it was published, the same blob   *)
(* with one word changed, cut short or continued, or a manifest whose links  *)
(* are arbitrary.                                                            *)
(***************************************************************************)
EXTENDS Integers, FiniteSets, SequencesExt, BinarySearch

CONSTANTS
  MAGIC_PLAIN, MAGIC_COMPRESSED,  \* first word of a plain and of a compressed blob
  MAGIC,                          \* first and last word of a checksum table
  BLOCK_SIZE,
  W,                              \* words are below W, which stands for 2^32
  PACK,                           \* 2^24: a record packs mode * PACK + number of blocks
  Base,                           \* the modulus of the manifest's adler32 sums
  Versions,                       \* versions to publish: [meta, nodes, strings, records, ...]
  Publish(_),                     \* the words of a version's blob
  Links,                          \* manifests to read on their own: [nodes, strings]
  PublishManifest(_),             \* the words of such a manifest
  Noise,                          \* words that damage may write
  MaxAlloc                        \* the largest buffer the process can get

VARIABLES
  source,   \* what was published: [kind |-> "version" | "manifest", of, words]
  data,     \* the buffer, possibly damaged since
  parsed    \* what the reader made of it: [done, ok, died, val]

vars == <<source, data, parsed>>

NO_NODE == W - 1
NO_FILE == W - 1

(* format/mod.rs: reads within a buffer. *)
Has(d, at, n) == at + n <= Len(d)
u32_at(d, at) == d[at + 1]
u64_at(d, at) == d[at + 1] + W * d[at + 2]
Slice(d, from, to) == SubSeq(d, from + 1, to)

\* The sum of f[lo] .. f[hi].
RECURSIVE Sum(_, _, _)
Sum(f, lo, hi) ==
  LET mid == (lo + hi) \div 2
  IN  IF lo > hi THEN 0 ELSE IF lo = hi THEN f[lo] ELSE Sum(f, lo, mid) + Sum(f, mid + 1, hi)

Err == [ok |-> FALSE, died |-> FALSE]
Ok(x) == [ok |-> TRUE, died |-> FALSE, val |-> x]
\* Asking for more memory than there can be ends the process.
Died == [ok |-> FALSE, died |-> TRUE]

(***************************************************************************)
(* blob.rs                                                                  *)
(***************************************************************************)
FORMAT == 0
MANIFEST_FINGERPRINT == 2
MANIFEST == 3
CHECKSUMS == 4
DAT_CRC == 7
OWN_CRC == 10
PREV_VERSION == 11
PREV_CRC == 12
DAT_SIZE == 13

\* The loop of Blob::parse from pos on.  An entry that does not fit ends it.
RECURSIVE EntriesFrom(_, _)
EntriesFrom(d, pos) ==
  LET klen == u32_at(d, pos)
      at == pos + 2 + klen
      end == at + u32_at(d, pos + 1)
      fits == Has(d, pos, 2) /\ Has(d, end, 0)
  IN  IF pos >= u32_at(d, 1) THEN <<>>
      ELSE IF ~fits THEN <<[fits |-> FALSE]>>
      ELSE <<[fits |-> TRUE, key |-> Slice(d, pos + 2, at), value |-> Slice(d, at, end),
              value_offset |-> at]>> \o EntriesFrom(d, end)

BlobParse(d) ==
  IF ~Has(d, 0, 2) \/ u32_at(d, 0) # MAGIC_PLAIN \/ u32_at(d, 1) > Len(d) THEN Err
  ELSE LET entries == EntriesFrom(d, 3)
       IN  IF \A i \in DOMAIN entries : entries[i].fits THEN Ok(entries) ELSE Err

\* The first entry with the key, as get, require and value_offset find it.
Holds(b, key) == \E i \in DOMAIN b : b[i].key = <<key>>
Entry(b, key) == b[SelectInSeq(b, LAMBDA e : e.key = <<key>>)]
Value(b, key) == Entry(b, key).value

IsU32(b, key) == Holds(b, key) /\ Len(Value(b, key)) = 1
u32(b, key) == u32_at(Value(b, key), 0)
IsU32OrU64(b, key) == Holds(b, key) /\ Len(Value(b, key)) \in {1, 2}
u32_or_u64(b, key) == IF Len(Value(b, key)) = 1 THEN u32(b, key) ELSE u64_at(Value(b, key), 0)

\* zlib: the stream ends at its first 0 word; what follows is not looked at.
Inflate(z) ==
  LET end == SelectInSeq(z, LAMBDA w : w = 0)
  IN  IF end = 0 THEN Err ELSE Ok([i \in 1..(end - 1) |-> z[i] - 1])

\* A header of six words (magic, packed size, unpacked size, level), then zlib.
\* The room for the unpacked size is taken before anything is unpacked.
Decompress(d) ==
  LET end == IF u64_at(d, 1) < Len(d) THEN u64_at(d, 1) ELSE Len(d)
      out == Inflate(Slice(d, 6, end))
  IN  IF ~Has(d, 0, 5) \/ u32_at(d, 0) # MAGIC_COMPRESSED \/ end < 6 THEN Err
      ELSE IF u64_at(d, 3) > MaxAlloc THEN Died
      ELSE IF out.ok /\ Len(out.val) = u64_at(d, 3) THEN out ELSE Err

VersionMeta(b) ==
  IF /\ \A k \in {PREV_VERSION, PREV_CRC, FORMAT, OWN_CRC, DAT_CRC} : IsU32(b, k)
     /\ IsU32OrU64(b, DAT_SIZE)
  THEN Ok([format |-> u32(b, FORMAT), own_crc |-> u32(b, OWN_CRC),
           dat_crc |-> u32(b, DAT_CRC), dat_size |-> u32_or_u64(b, DAT_SIZE),
           prev |-> IF u32(b, PREV_VERSION) = W - 1 THEN <<>>
                    ELSE <<u32(b, PREV_VERSION), u32(b, PREV_CRC)>>])
  ELSE Err

(***************************************************************************)
(* manifest.rs                                                              *)
(***************************************************************************)
HEADER_SIZE == 14
NODE_SIZE == 7

\* adler32 with seed 0: the sum of the words, and the sum of the sums so far.
Adler32(d) ==
  LET n == Len(d)
      sums == Sum([i \in 1..n |-> ((n + 1 - i) * d[i]) % Base], 1, n)
  IN  (sums % Base) * Base + (Sum(d, 1, n) % Base)

\* The checksum, with the fingerprint and checksum fields treated as zero.
Checksum(d) == Adler32([d EXCEPT ![13] = 0, ![14] = 0])

NodeAt(d, i) ==
  LET f(j) == u32_at(d, HEADER_SIZE + i * NODE_SIZE + j)
  IN  [name_offset |-> f(0), count_or_size |-> f(1), file_id |-> f(2), flags |-> f(3),
       parent |-> f(4), next_sibling |-> f(5), first_child |-> f(6)]

is_dir(node) == node.file_id = NO_FILE

\* A name is what stands at its offset, up to the first 0 or the table's end.
NameAt(strings, offset) ==
  LET rest == Slice(strings, offset, Len(strings))
      end == SelectInSeq(rest, LAMBDA c : c = 0)
  IN  IF end = 0 THEN rest ELSE SubSeq(rest, 1, end - 1)

\* Comparison of two names, and of two (parent, name) pairs: -1, 0 or 1.
Sign(x, y) == IF x < y THEN -1 ELSE IF x > y THEN 1 ELSE 0
NameOrder(s, t) ==
  LET differ == {i \in (DOMAIN s) \cap (DOMAIN t) : s[i] # t[i]}
      first == CHOOSE i \in differ : \A j \in differ : i <= j
  IN  IF differ = {} THEN Sign(Len(s), Len(t)) ELSE Sign(s[first], t[first])
KeyOrder(x, y) == IF x[1] # y[1] THEN Sign(x[1], y[1]) ELSE NameOrder(x[2], y[2])

\* Nodes are numbered from 0.
node(m, i) == m.nodes[i + 1]
Indexes(m) == 0..(Len(m.nodes) - 1)
name(m, i) == NameAt(m.string_table, node(m, i).name_offset)
sort_key(m, i) == <<node(m, i).parent, name(m, i)>>

\* The checks on one node: its name, its parent and its two links.
NodeInRange(m, i) ==
  /\ node(m, i).name_offset <= Len(m.string_table)
  /\ node(m, i).parent \in Indexes(m) \cup {NO_NODE}
  /\ {node(m, i).first_child, node(m, i).next_sibling} \subseteq Indexes(m) \cup {0, NO_NODE}

ManifestParse(d) ==
  LET hdr(i) == u32_at(d, i)
      nodes_end == HEADER_SIZE + hdr(3) * NODE_SIZE
      strings_end == nodes_end + hdr(7)
      m == [version_id |-> hdr(2), depot_info |-> hdr(11), fingerprint |-> hdr(12),
            nodes |-> [i \in 1..hdr(3) |-> NodeAt(d, i - 1)],
            string_table |-> Slice(d, nodes_end, strings_end)]
      parented == {i \in Indexes(m) : node(m, i).parent # NO_NODE}
      before(i, j) == LET order == KeyOrder(sort_key(m, i), sort_key(m, j))
                      IN  order < 0 \/ (order = 0 /\ i < j)
  IN  IF /\ Has(d, 0, HEADER_SIZE)
         /\ hdr(0) \in {3, 4}
         /\ hdr(5) = BLOCK_SIZE
         /\ hdr(6) = Len(d)
         /\ hdr(13) = Checksum(d)
         /\ Has(d, strings_end, 0)
         /\ \A i \in Indexes(m) : NodeInRange(m, i)
      THEN Ok([by_name |-> SetToSortSeq(parented, before)] @@ m)
      ELSE Err

root(m) == LET roots == {i \in Indexes(m) : node(m, i).parent = NO_NODE}
           IN  IF roots = {} THEN 0 ELSE CHOOSE i \in roots : \A j \in roots : i <= j

\* Children::next until it returns None.
RECURSIVE ChildrenFrom(_, _, _)
ChildrenFrom(m, next, remaining) ==
  IF next \in {0, NO_NODE} \/ remaining = 0 \/ next \notin Indexes(m) THEN <<>>
  ELSE <<next>> \o ChildrenFrom(m, node(m, next).next_sibling, remaining - 1)

\* Mutant of children: a file's size counts as its number of children.
childrenOfAny(m, dir) == ChildrenFrom(m, node(m, dir).first_child, node(m, dir).count_or_size)

children(m, dir) ==
  ChildrenFrom(m, node(m, dir).first_child,
               IF is_dir(node(m, dir)) THEN node(m, dir).count_or_size ELSE 0)

\* Mutant of child_by_name: searches by name alone.
child_by_name_only(m, dir, nm) ==
  LET at == BinarySearch(Len(m.by_name), LAMBDA i : NameOrder(name(m, m.by_name[i]), nm))
  IN  IF at = 0 THEN NO_NODE ELSE m.by_name[at]

\* NO_NODE when there is no such child.
child_by_name(m, dir, nm) ==
  LET at == BinarySearch(Len(m.by_name), LAMBDA i : KeyOrder(sort_key(m, m.by_name[i]), <<dir, nm>>))
  IN  IF at = 0 THEN NO_NODE ELSE m.by_name[at]

(***************************************************************************)
(* checksums.rs                                                             *)
(***************************************************************************)
\* One record at the cursor: size, offset (two words each from version 1 on),
\* mode and number of blocks, then each block's stored size and checksum.
\* The cursor c is [ok, pos, out].
ReadRecord(t, version, c, file_id) ==
  LET n == IF version = 0 THEN 3 ELSE 5
      packed == u32_at(t, c.pos + n - 1)
      num_blocks == packed % PACK
      first == c.pos + n
  IN  IF /\ c.ok
         /\ file_id < W
         /\ Has(t, c.pos, n)
         /\ packed \div PACK \in 0..3
         /\ Has(t, first, 2 * num_blocks)
      THEN [ok |-> TRUE, pos |-> first + 2 * num_blocks,
            out |-> Append(c.out,
              [file_id |-> file_id, mode |-> packed \div PACK,
               size |-> IF version = 0 THEN u32_at(t, c.pos) ELSE u64_at(t, c.pos),
               offset |-> IF version = 0 THEN u32_at(t, c.pos + 1) ELSE u64_at(t, c.pos + 2),
               blocks |-> [b \in 1..num_blocks |->
                 [compressed_size |-> u32_at(t, first + 2 * b - 2),
                  checksum |-> u32_at(t, first + 2 * b - 1)]]])]
      ELSE [c EXCEPT !.ok = FALSE]

\* One fileblock: its records follow where the last fileblock's ended.
ReadFileblock(t, version, c, fb) ==
  LET at == 8 + 4 * fb
      read(d, k) == ReadRecord(t, version, d, u32_at(t, at) + k - 1)
  IN  IF c.ok /\ Has(t, at, 3) /\ u32_at(t, at + 2) = c.pos
      THEN FoldLeft(read, c, [k \in 1..u32_at(t, at + 1) |-> k])
      ELSE [c EXCEPT !.ok = FALSE]

ChecksumsParse(t) ==
  LET h(i) == u32_at(t, i)
      start == 8 + 4 * h(2)
      read(c, fb) == ReadFileblock(t, h(1), c, fb - 1)
      c == FoldLeft(read, [ok |-> TRUE, pos |-> start, out |-> <<>>], [fb \in 1..h(2) |-> fb])
      most == {0} \cup {Len(c.out[i].blocks) : i \in DOMAIN c.out}
  IN  IF /\ Has(t, 0, 8)
         /\ h(0) = MAGIC
         /\ h(1) <= 1
         /\ h(6) = BLOCK_SIZE
         /\ h(4) = 8 /\ h(5) = start
         /\ c.ok
         /\ Has(t, c.pos, 1) /\ u32_at(t, c.pos) = MAGIC
         /\ Len(c.out) = h(3)
         /\ h(7) \in most /\ \A n \in most : n <= h(7)
      THEN Ok(c.out)
      ELSE Err

(***************************************************************************)
(* store.rs: parse_blob                                                     *)
(***************************************************************************)
\* Stands for crc32: a change of one word always changes it.
Crc(d) == Sum([i \in DOMAIN d |-> ((d[i] + 1) * ((i % 1009) + 1)) % 4099], 1, Len(d)) % 4099

\* Mutant of OwnCrc: zeroes the word before the stored crc.
OwnCrcMisplaced(bytes, top) == Crc([bytes EXCEPT ![Entry(top, OWN_CRC).value_offset] = 0])

\* The crc of the whole blob with its own value zeroed.
OwnCrc(bytes, top) == Crc([bytes EXCEPT ![Entry(top, OWN_CRC).value_offset + 1] = 0])

ParseBlob(bytes) ==
  LET top == BlobParse(bytes)
      meta == VersionMeta(top.val)
      wrapper == Decompress(Value(top.val, MANIFEST))
      inner == BlobParse(wrapper.val)
      manifest == ManifestParse(Value(inner.val, 0))
      records == ChecksumsParse(Value(top.val, CHECKSUMS))
      opened == top.ok /\ meta.ok /\ Holds(top.val, MANIFEST)
  IN  IF opened /\ wrapper.died THEN Died
      ELSE IF
         /\ opened /\ wrapper.ok
         /\ inner.ok /\ Holds(inner.val, 0) /\ manifest.ok
         /\ IsU32(top.val, MANIFEST_FINGERPRINT)
         /\ u32(top.val, MANIFEST_FINGERPRINT) = manifest.val.fingerprint
         /\ OwnCrc(bytes, top.val) = meta.val.own_crc
         /\ Holds(top.val, CHECKSUMS) /\ records.ok
      THEN Ok([meta |-> meta.val, manifest |-> manifest.val, records |-> records.val])
      ELSE Err

(***************************************************************************)
(* The machine: publish, damage at most once, read.                         *)
(***************************************************************************)
Unread == [done |-> FALSE]

Buffer(kind, of, words) ==
  source = [kind |-> kind, of |-> of, words |-> words] /\ data = words

FormatsInit ==
  /\ \/ \E v \in Versions : Buffer("version", v, Publish(v))
     \/ \E l \in Links : Buffer("manifest", l, PublishManifest(l))
  /\ parsed = Unread

Intact == source.kind = "version" /\ data = source.words

Damage ==
  /\ ~parsed.done /\ Intact
  /\ \/ \E i \in DOMAIN data, w \in Noise : data' = [data EXCEPT ![i] = w]
     \/ \E n \in 0..(Len(data) - 1) : data' = SubSeq(data, 1, n)
     \/ \E w \in Noise : data' = Append(data, w)
  /\ UNCHANGED <<source, parsed>>

Read ==
  /\ ~parsed.done
  /\ parsed' = [done |-> TRUE] @@
       (IF source.kind = "version" THEN ParseBlob(data) ELSE ManifestParse(data))
  /\ UNCHANGED <<source, data>>

FormatsNext == Damage \/ Read

-----------------------------------------------------------------------------
\* The words of a blob that hold its manifest's unpacked size.
UnpackedSize(words) ==
  LET at == Entry(BlobParse(words).val, MANIFEST).value_offset
  IN  {at + 4, at + 5}

\* A blob is read as what was published or not at all: the readers take apart
\* what the publisher put together, and the crc of key 10, computed around its
\* own value, refuses every blob with a word changed, missing or added, however
\* the damage misleads the readers that run before it (parse_blob).  The refusal
\* is an error, unless the damage is in the unpacked size of the manifest, which
\* is trusted before any sum is checked.
ReadAsPublished ==
  parsed.done /\ source.kind = "version" =>
    /\ parsed.ok = Intact
    /\ parsed.died =>
         /\ Len(data) = Len(source.words)
         /\ \A i \in DOMAIN data : data[i] # source.words[i] => i \in UnpackedSize(source.words)
    /\ Intact =>
         /\ parsed.val.records = source.of.records
         /\ parsed.val.manifest.nodes = source.of.nodes
         /\ parsed.val.manifest.string_table = source.of.string_table
         /\ [parsed.val.meta EXCEPT !.own_crc = 0] = source.of.meta

\* blob_bytes_cached: "parse_blob verifies the blob's own crc32 (key 10) anyway,
\* so corruption surfaces there and parse_uncached refetches", which takes an
\* error to refetch upon.
\* Does not hold as it stands: see "Other divergences" in the README.
DamageIsAnError == parsed.done => ~parsed.died

\* Whatever links a well-summed manifest holds, once it is accepted a walk over
\* a node's children only meets real nodes, never the root slot 0, ends within
\* the directory's count, and finds nothing below a file (Children, "a corrupt
\* chain cannot loop").
WalksStayInside ==
  parsed.done /\ parsed.ok /\ source.kind = "manifest" =>
    \A dir \in Indexes(parsed.val) :
      LET walk == children(parsed.val, dir)
      IN  /\ ToSet(walk) \subseteq Indexes(parsed.val) \ {0}
          /\ Len(walk) <= node(parsed.val, dir).count_or_size
          /\ walk # <<>> => is_dir(node(parsed.val, dir))

\* child_by_name's binary search over the nodes sorted by (parent, name) finds
\* a node with that parent and name exactly when a scan of all nodes would.
LookupMatchesScan ==
  parsed.done /\ parsed.ok /\ source.kind = "manifest" =>
    \A dir, like \in Indexes(parsed.val) :
      LET nm == name(parsed.val, like)
          scan == {i \in Indexes(parsed.val) :
                     node(parsed.val, i).parent = dir /\ name(parsed.val, i) = nm}
          found == child_by_name(parsed.val, dir, nm)
      IN  IF scan = {} THEN found = NO_NODE ELSE found \in scan
=============================================================================
