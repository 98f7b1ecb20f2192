------------------------------ MODULE KeyStore ------------------------------
(***************************************************************************)
(* keys/mod.rs: the AES keys the program knows.  A key comes from the        *)
(* built-in table, from a line of the keys file or from a --key argument.    *)
(*                                                                          *)
(* A line is [kind |-> "comment"] (blank lines too), [kind |-> "bad"] (no    *)
(* `=`, no number, no 16 bytes of hex), [kind |-> "depot", depot, key], or   *)
(* [kind |-> "blob", depot, crc, key] for DEPOT@BLOBCRC=HEX.                 *)
(***************************************************************************)
EXTENDS Integers, FiniteSets, SequencesExt, BinarySearch

CONSTANTS
  Built,    \* the keys built into the program: a function from depots to keys
  NoKey

\* keys/table.rs: (depot, key) pairs sorted by depot.
TABLE ==
  LET depots == SetToSortSeq(DOMAIN Built, <)
  IN  [i \in DOMAIN depots |-> [depot |-> depots[i], key |-> Built[depots[i]]]]

\* KeyStore::new.  `ok` is FALSE once a line could not be read, which ends the
\* program.
EmptyStore == [ok |-> TRUE, overrides |-> <<>>, blob_overrides |-> <<>>]

\* f with k mapped to v, whether or not it was mapped before.
Put(f, k, v) == [x \in DOMAIN f \cup {k} |-> IF x = k THEN v ELSE f[x]]

\* Mutant of insert_spec: the crc of DEPOT@CRC is dropped.
insert_spec_for_depot(ks, line) ==
  IF line.kind = "bad" THEN [ks EXCEPT !.ok = FALSE]
  ELSE [ks EXCEPT !.overrides = Put(@, line.depot, line.key)]

insert_spec(ks, line) ==
  CASE line.kind = "bad" -> [ks EXCEPT !.ok = FALSE]
    [] line.kind = "depot" -> [ks EXCEPT !.overrides = Put(@, line.depot, line.key)]
    [] line.kind = "blob" -> [ks EXCEPT !.blob_overrides = Put(@, <<line.depot, line.crc>>, line.key)]

\* load_file: line by line, up to the first that is wrong.
load_file(ks, lines) ==
  LET load(s, line) == IF line.kind = "comment" \/ ~s.ok THEN s ELSE insert_spec(s, line)
  IN  FoldLeft(load, ks, lines)

get(ks, depot) ==
  IF depot \in DOMAIN ks.overrides THEN ks.overrides[depot]
  ELSE LET at == BinarySearch(Len(TABLE), LAMBDA i : TABLE[i].depot - depot)
       IN  IF at = 0 THEN NoKey ELSE TABLE[at].key

get_for_blob(ks, depot, crc) ==
  IF <<depot, crc>> \in DOMAIN ks.blob_overrides THEN ks.blob_overrides[<<depot, crc>>]
  ELSE get(ks, depot)

\* Every key there is, for the search; its order does not matter here.
candidates(ks) ==
  Range(ks.blob_overrides) \cup Range(ks.overrides) \cup {TABLE[i].key : i \in DOMAIN TABLE}
=============================================================================
