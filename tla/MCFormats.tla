----------------------------- MODULE MCFormats -----------------------------
(***************************************************************************)
(* Instance of Formats and Calendar: two published versions, all the links   *)
(* three nodes can hold, and the days of a 400-year cycle.                   *)
(***************************************************************************)
EXTENDS Formats, Calendar

(* The publisher: the inverse of the readers.  It is not part of the program. *)
Words64(n) == <<n % W, n \div W>>
BlobWords(entries) ==   \* entries: sequence of <<key, value>>
  LET body == FlattenSeq([i \in DOMAIN entries |->
                <<1, Len(entries[i][2]), entries[i][1]>> \o entries[i][2]])
  IN  <<MAGIC_PLAIN, 3 + Len(body), 0>> \o body

Compressed(d) ==
  LET z == [i \in DOMAIN d |-> d[i] + 1] \o <<0>>
  IN  <<MAGIC_COMPRESSED>> \o Words64(6 + Len(z)) \o Words64(Len(d)) \o <<9>> \o z

NodeWords(n) == <<n.name_offset, n.count_or_size, n.file_id, n.flags, n.parent,
                  n.next_sibling, n.first_child>>

MCPublishManifest(m) ==
  LET nodes == FlattenSeq([i \in DOMAIN m.nodes |-> NodeWords(m.nodes[i])])
      size == 14 + Len(nodes) + Len(m.string_table)
      d == <<3, 0, 7, Len(m.nodes), 1, BLOCK_SIZE, size, Len(m.string_table), 0, 0, 0, 5, 21, 0>>
           \o nodes \o m.string_table
  IN  [d EXCEPT ![14] = Checksum(d)]

RecordWords(version, r) ==
  (IF version = 0 THEN <<r.size, r.offset>> ELSE Words64(r.size) \o Words64(r.offset))
  \o <<r.mode * PACK + Len(r.blocks)>>
  \o FlattenSeq([b \in DOMAIN r.blocks |-> <<r.blocks[b].compressed_size, r.blocks[b].checksum>>])

\* One fileblock per run of consecutive ids: here, one per record.
ChecksumWords(version, rs) ==
  LET words == [i \in DOMAIN rs |-> RecordWords(version, rs[i])]
      at(i) == 8 + 4 * Len(rs) + Len(FlattenSeq(SubSeq(words, 1, i - 1)))
      most == Max({0} \cup {Len(rs[i].blocks) : i \in DOMAIN rs})
  IN  <<MAGIC, version, Len(rs), Len(rs), 8, 8 + 4 * Len(rs), BLOCK_SIZE, most>>
      \o FlattenSeq([i \in DOMAIN rs |-> <<rs[i].file_id, 1, at(i), 0>>])
      \o FlattenSeq(words) \o <<MAGIC>>

MCPublish(v) ==
  LET prev == IF v.meta.prev = <<>> THEN <<W - 1, 0>> ELSE v.meta.prev
      size == IF v.meta.format = 3 THEN <<v.meta.dat_size>> ELSE Words64(v.meta.dat_size)
      manifest == BlobWords(<<<<0, MCPublishManifest(v)>>>>)
      entries == <<<<FORMAT, <<v.meta.format>>>>, <<MANIFEST_FINGERPRINT, <<21>>>>,
                   <<MANIFEST, Compressed(manifest)>>,
                   <<CHECKSUMS, ChecksumWords(v.meta.format - 3, v.records)>>,
                   <<DAT_CRC, <<v.meta.dat_crc>>>>, <<OWN_CRC, <<0>>>>,
                   <<PREV_VERSION, <<prev[1]>>>>, <<PREV_CRC, <<prev[2]>>>>, <<DAT_SIZE, size>>>>
      d == BlobWords(entries)
      slot == Entry(BlobParse(d).val, OWN_CRC).value_offset
  IN  [d EXCEPT ![slot + 1] = Crc(d)]

Node(offset, count, file, parent, next, first) ==
  [name_offset |-> offset, count_or_size |-> count, file_id |-> file, flags |-> 0,
   parent |-> parent, next_sibling |-> next, first_child |-> first]

\* The names "", "a" and "ab" ("b" is the end of "ab"), characters as words.
Strings == <<0, 1, 0, 1, 2, 0>>
Block(size, sum) == [compressed_size |-> size, checksum |-> sum]
Record(id, mode, offset, size, blocks) ==
  [file_id |-> id, mode |-> mode, offset |-> offset, size |-> size, blocks |-> blocks]

MCVersions ==
  {[meta |-> [format |-> 3, own_crc |-> 0, dat_crc |-> 99, dat_size |-> 12, prev |-> <<>>],
    nodes |-> <<Node(0, 1, NO_FILE, NO_NODE, 0, 1), Node(1, 6, 4, 0, 0, 0)>>,
    string_table |-> Strings,
    records |-> <<Record(4, 1, 0, 6, <<Block(3, 70), Block(2, 71)>>)>>],
   [meta |-> [format |-> 4, own_crc |-> 0, dat_crc |-> 98, dat_size |-> W + 2, prev |-> <<0, 55>>],
    nodes |-> <<Node(0, 0, NO_FILE, NO_NODE, 0, 0)>>,
    string_table |-> <<0>>,
    records |-> <<Record(0, 3, W + 1, 1, <<Block(1, 72)>>), Record(7, 0, 0, 0, <<>>)>>]}

\* A root and two nodes with any links, the node past the end (3) included.
Targets == {0, 1, 2, 3, NO_NODE}
MCLinks ==
  {[nodes |-> <<Node(0, 2, NO_FILE, NO_NODE, 0, first),
                Node(1, count, NO_FILE, up[1], next[1], down[1]),
                Node(nm, count, file, up[2], next[2], down[2])>>,
    string_table |-> Strings] :
     first \in {1, NO_NODE}, count \in {0, 3}, file \in {5, NO_FILE}, nm \in {1, 4, 7},
     up \in {0, 1, 3} \X {0, 1}, next \in Targets \X {1, 2}, down \in {0, 2} \X {1, 3}}

\* A behaviour either reads a buffer or walks the days.
NoBuffer == source = [kind |-> "none"] /\ data = <<>> /\ parsed = [done |-> TRUE] @@ Err

Init == CalendarInit /\ (FormatsInit \/ NoBuffer)

Next == \/ FormatsNext /\ UNCHANGED <<day, civil>>
        \/ source.kind = "none" /\ NextDay /\ UNCHANGED vars

Spec == Init /\ [][Next]_<<vars, day, civil>>
=============================================================================
