\* Three blobs of two depots, forks and dates among them, each with a manifest or
\* one of them not readable, or with a file as its root; dats of one identity, complete or not; all listed in any order.
CONSTANTS
  BlobFiles = {b1, b2, b3, j}
  DatFiles = {d1, d2}
  Junk = {j}
  Depots = {1, 2}
  BlobIdents <- MCBlobIdents
  Dates = {0, 1, 2}
  DatIdents <- MCDatIdents
  Manifests <- MCManifests
  Unparsed = Unparsed
  NoLoc = NoLoc
  NO_NODE = 99
  NoKey = NoKey
  LatestName = LatestName
  ByDateName = ByDateName
  Lossy <- MCLossy
  Fold <- MCFold
  DotName = DotName
  DotDotName = DotDotName
  Spellings <- MCSpellings
  top = top
  maps = maps
  cfg = cfg
  lower = lower
  upper = upper
  broken = broken
  fffd = fffd
  LATEST = LATEST
SYMMETRY Symmetry
CHECK_DEADLOCK FALSE
SPECIFICATION MCSpec
INVARIANT BlobsReachable
INVARIANT LatestIsNewest
INVARIANT CompleteDatWins
INVARIANT ListingsMatchLookups
INVARIANT ServedAsListed
INVARIANT WinOpensWhatItLists
