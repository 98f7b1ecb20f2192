------------------------------- MODULE MCSftp -------------------------------
EXTENDS Sftp, TLC

CONSTANTS a, b

\* One file of several batches and one that ends inside the ranges.
MCSizeOf == (a :> 5) @@ (b :> 3)

\* A range of two batches, and one of a single batch that runs past the end of b.
MCRanges == {<<0, 5>>, <<1, 3>>}

Symmetry == Permutations(Threads) \cup Permutations(Ids)

=============================================================================
