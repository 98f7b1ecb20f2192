\* A handle is evicted and closed under a read.
CONSTANTS
  a = a  b = b
  Threads = {t1, t2}
  Files = {a, b}
  NoFile = NoFile
  SizeOf <- MCSizeOf
  Ids = {h1, h2, h3}
  NoId = NoId
  Ranges <- MCRanges
  HANDLE_CACHE = 1
  MAX_READ = 2
  MAX_IN_FLIGHT = 2
  MaxFaults = 0
SPECIFICATION Spec
INVARIANT ShortOnlyAtEof
