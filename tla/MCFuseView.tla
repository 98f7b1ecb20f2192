----------------------------- MODULE MCFuseView -----------------------------
EXTENDS FuseView, TLC

CONSTANTS dir, file

\* The root, one directory in it, and one file in that.
MCKids == (Root :> <<dir>>) @@ (dir :> <<file>>) @@ (file :> <<>>)
MCParentOf == (Root :> Root) @@ (dir :> Root) @@ (file :> dir)

Symmetry == Permutations(Threads) \cup Permutations(Readers)

=============================================================================
