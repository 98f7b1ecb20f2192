---------------------------- MODULE MCWindowCache ----------------------------
EXTENDS WindowCache

\* Across both windows and past the end, inside the second one, and all of it
\* past the end.
MCRanges == {<<1, 6>>, <<3, 5>>, <<6, 8>>}

=============================================================================
