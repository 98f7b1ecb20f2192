\* Two threads, two files, and a cache that holds one handle.
CONSTANTS
  a = a  b = b
  Threads = {t1, t2}
  Files = {a, b}
  NoFile = NoFile
  SizeOf <- MCSizeOf
  Ids = {h1, h2, h3}
  NoId = NoId
  Ranges <- MCRanges
  HANDLE_CACHE = 1
  MAX_READ = 2
  MAX_IN_FLIGHT = 2
  MaxFaults = 1
SYMMETRY Symmetry
SPECIFICATION Spec
INVARIANT ReadIsExact
INVARIANT CachedHandlesOpen
PROPERTY EveryRoundAdvances
