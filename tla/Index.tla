-------------------------------- MODULE Index --------------------------------
(* index.rs: Index::load reads the listings of blobs/ and dats/, which come   *)
(* in any order, and names the versions of every depot; the lookups the tree  *)
(* and the store make in the result.                                          *)
(*                                                                            *)
(* A file is a model value; what its name says, and the date blobs_dates.txt  *)
(* gives it, are chosen at the start and never change.  A version directory's *)
(* name is <<version>> or <<version, crc>>, a by-date link's <<stamp, name>>. *)
(* The ids the index hands out are positions in `blobs` and `dats`; 0 is none.*)
EXTENDS Integers, SequencesExt, FiniteSets

CONSTANTS BlobFiles, DatFiles,   \* the files of blobs/ and dats/
          Junk,                  \* those whose name does not parse
          Depots,
          BlobIdents, DatIdents, \* bound: the [depot, version, crc] names may give
          Dates                  \* bound: the dates, 0 for none

ASSUME IndexAssumption ==
  /\ Depots \subseteq Nat /\ Dates \subseteq Nat
  /\ \A k \in BlobIdents \cup DatIdents : k.depot \in Depots /\ k.version \in Nat /\ k.crc \in Nat

VARIABLES name,        \* what parse_name makes of each file name
          date,        \* blobs_dates.txt
          incomplete,  \* the dats that end in .!qB
          phase, todo, \* the listing being read and what is left of it
          blobs, blob_by_key,
          dats, dat_by_key,
          depots,      \* Depot.blobs
          names, by_name, by_date_link, date_order

archive == <<name, date, incomplete>>
depot_maps == <<names, by_name, by_date_link, date_order>>
vars == <<archive, phase, todo, blobs, blob_by_key, dats, dat_by_key, depots, depot_maps>>

Idents == BlobIdents \cup DatIdents

\* No two blobs share depot, version and crc: the checksum is the blob's own.
\* Dats may, a complete one and one still being downloaded.
Init ==
  /\ name \in [(BlobFiles \cup DatFiles) \ Junk -> Idents]
  /\ \A f \in DOMAIN name : name[f] \in IF f \in DatFiles THEN DatIdents ELSE BlobIdents
  /\ \A f, g \in BlobFiles \ Junk : f # g => name[f] # name[g]
  /\ date \in [BlobFiles \ Junk -> Dates]
  /\ incomplete \in SUBSET (DatFiles \ Junk)
  /\ phase = "blobs" /\ todo = BlobFiles
  /\ blobs = <<>> /\ blob_by_key = [k \in Idents |-> 0]
  /\ dats = <<>> /\ dat_by_key = [k \in Idents |-> 0]
  /\ depots = [d \in Depots |-> <<>>]
  /\ names = [d \in Depots |-> <<>>]
  /\ by_name = [d \in Depots |-> <<>>] /\ by_date_link = [d \in Depots |-> <<>>]
  /\ date_order = [d \in Depots |-> <<>>]

Skip(f) ==
  /\ f \in todo \cap Junk
  /\ todo' = todo \ {f}
  /\ UNCHANGED <<archive, phase, blobs, blob_by_key, dats, dat_by_key, depots, depot_maps>>

LoadBlobAs(f, id) ==
  /\ phase = "blobs" /\ f \in todo \ Junk
  /\ todo' = todo \ {f}
  /\ blob_by_key' = [blob_by_key EXCEPT ![name[f]] = id]
  /\ blobs' = Append(blobs, f)
  /\ depots' = [depots EXCEPT ![name[f].depot] = Append(@, id)]
  /\ UNCHANGED <<archive, phase, dats, dat_by_key, depot_maps>>

LoadBlob(f) == LoadBlobAs(f, Len(blobs) + 1)

BlobsListed ==
  /\ phase = "blobs" /\ todo = {}
  /\ phase' = "dats" /\ todo' = DatFiles
  /\ UNCHANGED <<archive, blobs, blob_by_key, dats, dat_by_key, depots, depot_maps>>

LoadDatAs(f, keeps) ==
  /\ phase = "dats" /\ f \in todo \ Junk
  /\ todo' = todo \ {f}
  /\ dat_by_key' = [dat_by_key EXCEPT ![name[f]] = IF keeps THEN @ ELSE Len(dats) + 1]
  /\ dats' = Append(dats, f)
  /\ UNCHANGED <<archive, phase, blobs, blob_by_key, depots, depot_maps>>

\* Mutant of LoadDat: the file listed last wins.
LoadDatLast(f) == LoadDatAs(f, FALSE)

\* A complete file with the same identity stays in place.
LoadDat(f) ==
  LET prev == dat_by_key[name[f]]
  IN  LoadDatAs(f, prev # 0 /\ dats[prev] \notin incomplete)

BlobName(id) == name[blobs[id]]
BlobDate(id) == date[blobs[id]]

Before(a, b) ==
  \/ BlobName(a).version < BlobName(b).version
  \/ BlobName(a).version = BlobName(b).version /\ BlobName(a).crc < BlobName(b).crc

\* Mutant of NameOf: the plain version number even among forks.
NameOfPlain(ids, id) == <<BlobName(id).version>>

\* The version number, with the crc when other blobs have the same number.
NameOf(ids, id) ==
  LET v == BlobName(id).version
  IN  IF Cardinality({i \in DOMAIN ids : BlobName(ids[i]).version = v}) > 1
        THEN <<v, BlobName(id).crc>> ELSE <<v>>

\* The digits of a number, and the order of texts
Decimal[n \in Nat] == IF n < 10 THEN <<n>> ELSE Append(Decimal[n \div 10], n % 10)
TextBefore(s, t) ==
  \/ IsStrictPrefix(s, t)
  \/ \E i \in DOMAIN s \cap DOMAIN t : s[i] < t[i] /\ \A j \in 1..(i - 1) : s[j] = t[j]

\* Link names sort as text: by stamp, a version without a date ("unknown") after
\* all the others; then by the version, "10" before "9", since what follows it,
\* nothing or "-" and the crc, sorts before every digit; then by the crc, which
\* has eight hex digits.
LinkBefore(a, b) ==
  LET stamp(id) == IF BlobDate(id) = 0 THEN <<1>> ELSE <<0, BlobDate(id)>>
      version(id) == Decimal[BlobName(id).version]
  IN  \/ TextBefore(stamp(a), stamp(b))
      \/ stamp(a) = stamp(b) /\ TextBefore(version(a), version(b))
      \/ stamp(a) = stamp(b) /\ version(a) = version(b) /\ BlobName(a).crc < BlobName(b).crc

\* HashMap from an iterator of pairs: the last pair of a key stays
Collect(ks, vs) ==
  [k \in Range(ks) |-> vs[CHOOSE i \in DOMAIN ks :
                            ks[i] = k /\ \A j \in DOMAIN ks : ks[j] = k => j <= i]]

\* The loop at the end of load, over every depot.
NameDepots ==
  LET sorted == [d \in Depots |-> SortSeq(depots[d], Before)]
      named(d) == [i \in DOMAIN sorted[d] |-> NameOf(sorted[d], sorted[d][i])]
      links(d) == [i \in DOMAIN sorted[d] |-> <<BlobDate(sorted[d][i]), named(d)[i]>>]
  IN  /\ phase = "dats" /\ todo = {}
      /\ phase' = "ready"
      /\ depots' = sorted
      /\ names' = [d \in Depots |-> [i \in DOMAIN sorted[d] |-> <<named(d)[i], links(d)[i]>>]]
      /\ by_name' = [d \in Depots |-> Collect(named(d), sorted[d])]
      /\ by_date_link' = [d \in Depots |-> Collect(links(d), sorted[d])]
      /\ date_order' = [d \in Depots |-> SortSeq(sorted[d], LinkBefore)]
      /\ UNCHANGED <<archive, todo, blobs, blob_by_key, dats, dat_by_key>>

\* A listing that cannot be read ends the load, and the program with it.
ListingFails ==
  /\ phase \in {"blobs", "dats"}
  /\ phase' = "failed"
  /\ UNCHANGED <<archive, todo, blobs, blob_by_key, dats, dat_by_key, depots, depot_maps>>

Next ==
  \/ \E f \in todo : Skip(f) \/ LoadBlob(f) \/ LoadDat(f)
  \/ BlobsListed \/ NameDepots \/ ListingFails

Spec == Init /\ [][Next]_vars

-----------------------------------------------------------------------------
\* Depot::nth, name_of, date_link_of and lookup_name, lookup_date_link
Nth(d, id) == names[d][CHOOSE i \in DOMAIN depots[d] : depots[d][i] = id]
NameOfBlob(d, id) == Nth(d, id)[1]
DateLinkOf(d, id) == Nth(d, id)[2]
LookupName(d, n) == IF n \in DOMAIN by_name[d] THEN by_name[d][n] ELSE 0
LookupDateLink(d, l) == IF l \in DOMAIN by_date_link[d] THEN by_date_link[d][l] ELSE 0

BlobsWithVersion(d, v) == SelectSeq(depots[d], LAMBDA id : BlobName(id).version = v)

\* Mutant of Latest: the last of the forks, whatever its date.
LatestLast(d) == IF depots[d] = <<>> THEN 0 ELSE Last(depots[d])

\* The last of the most recently dated blobs with the highest version.
Latest(d) ==
  IF depots[d] = <<>> THEN 0
  ELSE LET forks == BlobsWithVersion(d, BlobName(Last(depots[d])).version)
           newest == SelectSeq(forks, LAMBDA id :
                       \A i \in DOMAIN forks : BlobDate(forks[i]) <= BlobDate(id))
       IN  Last(newest)

-----------------------------------------------------------------------------
TypeOK ==
  /\ phase \in {"blobs", "dats", "ready", "failed"}
  /\ Range(blobs) \subseteq BlobFiles \ Junk /\ Range(dats) \subseteq DatFiles \ Junk
  /\ blob_by_key \in [Idents -> 0..Len(blobs)]
  /\ dat_by_key \in [Idents -> 0..Len(dats)]
  /\ \A d \in Depots : Range(depots[d]) \subseteq 1..Len(blobs)

\* "Prefer a complete file over an in-progress one with the same identity":
\* in whatever order dats/ is listed, find_dat gives a dat of the identity
\* asked for if one was listed, and a complete one if there is one.
CompleteDatWins ==
  \A k \in Idents :
    LET same == {f \in Range(dats) : name[f] = k}
        found == dat_by_key[k]
    IN  IF same = {} THEN found = 0
        ELSE /\ found # 0 /\ dats[found] \in same
             /\ dats[found] \in incomplete => same \subseteq incomplete

\* Every blob is found under its own version name and its own by-date link,
\* and under its identity, so no version of the archive is out of reach.
BlobsReachable ==
  /\ TypeOK
  /\ phase = "ready" =>
       \A id \in 1..Len(blobs) :
         LET d == BlobName(id).depot
         IN  /\ LookupName(d, NameOfBlob(d, id)) = id
             /\ LookupDateLink(d, DateLinkOf(d, id)) = id
             /\ blob_by_key[BlobName(id)] = id
             /\ \E i \in DOMAIN date_order[d] : date_order[d][i] = id

\* "highest version, and among forks the most recently dated one": latest is
\* decided by what the files are, never by the order they were listed in.
LatestIsNewest ==
  phase = "ready" =>
    \A d \in Depots :
      LET mine == {f \in BlobFiles \ Junk : name[f].depot = d}
          later(f, g) ==
            \/ name[f].version > name[g].version
            \/ name[f].version = name[g].version /\ date[f] > date[g]
            \/ name[f].version = name[g].version /\ date[f] = date[g] /\ name[f].crc > name[g].crc
      IN  IF mine = {} THEN Latest(d) = 0
          ELSE \A g \in mine \ {blobs[Latest(d)]} : later(blobs[Latest(d)], g)

=============================================================================
