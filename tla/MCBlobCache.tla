----------------------------- MODULE MCBlobCache -----------------------------
EXTENDS BlobCache, TLC

CONSTANTS t1, t2, t3, m1, m2

\* Two threads in one mount and one in another.
MCMountOf == (t1 :> m1) @@ (t2 :> m1) @@ (t3 :> m2)

Symmetry == Permutations({t1, t2})

=============================================================================
