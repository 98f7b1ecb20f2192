\* Windows of three bytes over a dat of five: a whole window and one cut short
\* by the end of the file, which on disk may be shorter or longer than indexed.
\* The cache has no room for both, so they evict each other while in use.
CONSTANTS
  Threads = {t1, t2}
  RAW_WINDOW = 3
  DatSize = 5
  DiskSizes = {4, 5, 6}
  Capacity = 3
  Ranges <- MCRanges
  MaxEnd = 8
SPECIFICATION FairSpec
INVARIANT OutIsExact
INVARIANT NoDuplicateFetch
PROPERTY ReadsReturn
