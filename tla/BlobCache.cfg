\* Two threads of one mount and one of another.
CONSTANTS
  t1 = t1  t2 = t2  t3 = t3  m1 = m1  m2 = m2
  Threads = {t1, t2, t3}
  Mounts = {m1, m2}
  MountOf <- MCMountOf
  Inodes = {1, 2, 3, 4}
  NoInode = 0
  Pieces = 2
  HasSha = FALSE
  Deliveries = {"good", "bad", "short", "error"}
  MaxFaults = 3
SYMMETRY Symmetry
SPECIFICATION Spec
INVARIANT CacheNeverToBlame
INVARIANT NoDuplicateParse
INVARIANT WholeAtRest
PROPERTY EntryStaysWhole
