------------------------------- MODULE MCCli -------------------------------
EXTENDS Cli

\* Blocks of two bytes.  `whole` has a short last block; `extra` has a block that
\* starts behind its end, and `short` has one too few; `empty` stores one block of
\* no bytes where the first of `next` starts, which is damaged; `void` stores no
\* block; the dat of `lost` is missing and that of `cut` ends inside its second
\* block.
Rec(size, mode, dat, offset, stored) ==
  [size |-> size, mode |-> mode, dat |-> dat, offset |-> offset, stored |-> stored]

MCRecord ==
  [whole |-> Rec(3, "Compressed", 1, 0, <<2, 1>>),
   extra |-> Rec(1, "Plain", 1, 3, <<1, 2>>),
   empty |-> Rec(0, "Encrypted", 1, 7, <<0>>),
   next  |-> Rec(2, "Encrypted", 1, 7, <<2>>),
   short |-> Rec(3, "Encrypted", 1, 9, <<2>>),
   void  |-> Rec(0, "Plain", 1, 11, <<>>),
   lost  |-> Rec(2, "Compressed", 0, 0, <<1>>),
   cut   |-> Rec(4, "Encrypted", 2, 0, <<1, 2>>)]

MCYields ==
  [whole |-> <<2, 1>>, extra |-> <<1, 2>>, empty |-> <<0>>, next |-> <<2>>,
   short |-> <<2>>, void |-> <<>>, lost |-> <<2>>, cut |-> <<2, 2>>]
MCFiles == DOMAIN MCRecord
MCDamaged == {<<"next", 0>>}
MCDatLen == <<12, 2>>
MCRanges == {<<0, 4>>, <<1, 2>>, <<0, 1>>, <<1, 0>>}
\* In version "round" the second file is below a directory that is its own
\* grandparent.
MCFileNodes ==
  [tree |-> <<"lost", "whole", "none", "next", "empty", "void", "extra", "cut">>,
   round |-> <<"whole", "void", "lost">>]
MCParents ==   \* the directories come after the files, the root first
  [tree |-> <<9, 9, 10, 10, 10, 10, 10, 10, NoNode, 9>>,
   round |-> <<4, 5, 4, NoNode, 6, 5>>]

\* Two blobs of depot 2 with different keys, one of them not the depot's own; a
\* third whose key nobody has unless it is given as an argument.
Blob(state, depot, crc, key) == [state |-> state, depot |-> depot, crc |-> crc, key |-> key]
MCBuilt == 1 :> "k1" @@ 2 :> "k2" @@ 5 :> "k5"
MCBlobInfo ==
  [a |-> Blob("probed", 2, 1, "k1"), b |-> Blob("probed", 2, 2, "k5"), c |-> Blob("probed", 3, 1, "k3"),
   d |-> Blob("unparsed", 3, 2, "k3"), e |-> Blob("nosample", 3, 3, "k3"), f |-> Blob("plain", 4, 1, "k1")]
MCBlobs == <<"a", "d", "b", "e", "c", "f">>

Source(exists, prefix, colon, host, slash, path) ==
  [exists |-> exists, prefix |-> prefix, colon |-> colon, host |-> host, slash |-> slash, path |-> path]
Local   == Source(TRUE, FALSE, TRUE, "h", FALSE, "/dump")
Url     == Source(FALSE, TRUE, TRUE, "h", FALSE, "/dump")
Scp     == Source(FALSE, FALSE, TRUE, "h", FALSE, "")
Missing == Source(FALSE, FALSE, TRUE, "h", TRUE, "/dump")
MCContents ==
  "local" :> [blobs |-> <<"b1", "b2">>, dats |-> <<"d1">>]
  @@ "/dump" :> [blobs |-> <<"b1", "b2">>, dats |-> <<"d3", "d4">>]
  @@ "." :> [blobs |-> <<"b5">>, dats |-> <<>>]

Run(command, s, keys_file, ks, search) ==
  [command |-> command, source |-> s, version |-> "tree", files |-> s = Url,
   keys_file |-> keys_file, keys |-> ks, key_search |-> search, no_blob_cache |-> s # Local]
OverRound(command) == [Run(command, Local, FALSE, <<>>, TRUE) EXCEPT !.version = "round", !.files = TRUE]
KeyFor3 == [kind |-> "depot", depot |-> 3, key |-> "k3"]
KeyForA == [kind |-> "blob", depot |-> 2, crc |-> 1, key |-> "k2"]
MCInvocations ==
  {Run("mount", Local, FALSE, <<>>, TRUE), Run("verify", Local, FALSE, <<>>, TRUE),
   Run("inspect", Url, FALSE, <<>>, TRUE), Run("inspect", Scp, FALSE, <<[kind |-> "bad"]>>, TRUE),
   Run("inspect", Missing, FALSE, <<>>, TRUE), OverRound("verify"), OverRound("inspect"),
   Run("key-audit", Local, FALSE, <<>>, TRUE), Run("key-audit", Local, TRUE, <<KeyFor3>>, TRUE),
   Run("key-audit", Local, TRUE, <<KeyForA>>, TRUE), Run("key-audit", Local, TRUE, <<>>, FALSE)}
=============================================================================
