--------------------------- MODULE MCVersionTable ---------------------------
EXTENDS VersionTable, TLC

CONSTANTS v0, v1, v2, x, y    \* blobs

\* v1's parent is recorded with a crc that is not in the dump: the only blob of
\* version 0 stands in.  x and y are each other's parent.  v2's parent crc is
\* not in the dump and there are two blobs of its version, so its chain starts
\* with it.
MCVersion == (v0 :> 0) @@ (v1 :> 1) @@ (v2 :> 2) @@ (x :> 4) @@ (y :> 4)
MCCrc == (v0 :> 10) @@ (v1 :> 11) @@ (v2 :> 13) @@ (x :> 14) @@ (y :> 15)
MCPrev == (v0 :> NoPrev)
            @@ (v1 :> [version |-> 0, crc |-> 99])
            @@ (v2 :> [version |-> 4, crc |-> 99])
            @@ (x :> [version |-> 4, crc |-> 15])
            @@ (y :> [version |-> 4, crc |-> 14])
MCRecords == (v0 :> {1}) @@ (v1 :> {2}) @@ (v2 :> {3}) @@ (x :> {1}) @@ (y :> {2})

=============================================================================
