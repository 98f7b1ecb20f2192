------------------------------- MODULE MCTree -------------------------------
EXTENDS FuseReply, WinView, TLC

\* Names of a manifest.  upper differs from lower in case, and broken is not UTF-8:
\* it is shown as fffd.  LATEST is "latest" in capitals.
CONSTANTS top, maps, cfg, lower, upper, broken, fffd, LATEST

Loc(size, dat) == [size |-> size, dat |-> dat]
File(n, p, next, size, loc) ==
  [name |-> n, parent |-> p, next_sibling |-> next, first_child |-> 0, count |-> size, dir |-> FALSE,
   loc |-> loc]
Dir(n, p, next, first, count) ==
  [name |-> n, parent |-> p, next_sibling |-> next, first_child |-> first, count |-> count,
   dir |-> TRUE, loc |-> NoLoc]

\* In Whole, an empty directory, two nested ones of the same name, files whose names differ
\* in case only, one without a record and one without its dat, and links that end
\* with 0 and with NO_NODE.
Whole ==
  0 :> Dir(top, NO_NODE, 0, 1, 4) @@ 1 :> Dir(maps, 0, 2, 5, 2)
    @@ 2 :> File(lower, 0, 3, 4, Loc(5, "there")) @@ 3 :> Dir(cfg, 0, 4, 0, 0)
    @@ 4 :> File(upper, 0, 0, 4, NoLoc) @@ 5 :> Dir(maps, 1, 6, 7, 1)
    @@ 6 :> File(broken, 1, NO_NODE, 3, Loc(3, "missing")) @@ 7 :> File(lower, 5, NO_NODE, 2, Loc(2, "there"))

\* The other manifest has a file as its root.
MCManifests == {Whole, 0 :> File(top, NO_NODE, 0, 4, NoLoc)}

\* bound: at most one blob has a manifest other than Whole, or none; and dats are
\* incomplete only where the blobs are whole and without dates, since the two
\* listings are loaded apart
MCInit ==
  /\ TreeInit
  /\ Cardinality({f \in DOMAIN manifest : manifest[f] # Whole}) <= 1
  /\ incomplete # {} => \A f \in DOMAIN manifest : manifest[f] = Whole /\ date[f] = 0
MCSpec == MCInit /\ [][TreeNext]_treeVars

MCLossy(n) == IF n = broken THEN fffd ELSE n
MCFold(n) == IF n = upper THEN lower ELSE IF n = LATEST THEN LatestName ELSE n
MCSpellings == {lower, upper, LATEST}

\* Two forks of one version and another version, in one depot, and a version in
\* another depot.
MCBlobIdents ==
  [depot : {1}, version : {10}, crc : {1, 2}] \cup [depot : {1, 2}, version : {9}, crc : {1}]

MCDatIdents == {[depot |-> 1, version |-> 1, crc |-> 1]}

Symmetry == Permutations(BlobFiles \ Junk) \cup Permutations(DatFiles \ Junk)

=============================================================================
