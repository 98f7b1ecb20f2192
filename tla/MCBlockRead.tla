----------------------------- MODULE MCBlockRead -----------------------------
EXTENDS BlockRead, TLC

CONSTANTS alpha, beta, gamma, delta,   \* source blobs
          ka, kb, kx, ky,              \* keys; ky is in no KeyStore
          a1, a2, b1, c1, b2, b3, b4, d1   \* blocks

\* alpha has an override that its depot's key contradicts; beta opens only with
\* another depot's key, so it takes the search, on
\* whichever of its two encrypted blocks is read first; nothing known opens gamma;
\* delta's dat is missing.
MCSources == {alpha, beta, gamma, delta}
MCTrueKey == (alpha :> ka) @@ (beta :> kb) @@ (gamma :> ky) @@ (delta :> kb)
MCBlobOverride == (alpha :> ka) @@ (beta :> NoKey) @@ (gamma :> NoKey) @@ (delta :> NoKey)
MCDepotKey == (alpha :> kx) @@ (beta :> kx) @@ (gamma :> NoKey) @@ (delta :> kb)

MCBlocks == {a1, a2, b1, c1, b2, b3, b4, d1}
MCSourceOf == (a1 :> alpha) @@ (a2 :> alpha) @@ (b1 :> beta) @@ (c1 :> gamma)
                @@ (b2 :> beta) @@ (b3 :> beta) @@ (b4 :> beta) @@ (d1 :> delta)
MCModeOf == (a1 :> "CompressedEncrypted") @@ (a2 :> "Encrypted") @@ (b1 :> "Encrypted")
              @@ (c1 :> "Encrypted") @@ (b2 :> "Compressed") @@ (b3 :> "Plain")
              @@ (b4 :> "CompressedEncrypted") @@ (d1 :> "Encrypted")

Symmetry == Permutations(Threads)

=============================================================================
