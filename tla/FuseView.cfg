\* Two session threads, two open directories, a tree that fails at times, and a
\* kernel that keeps the attributes of the file.
CONSTANTS
  dir = dir  file = file
  Threads = {t1, t2}
  Readers = {r1, r2}
  Keys = {Root, dir, file}
  Root = Root
  NoKey = NoKey  NoReader = NoReader
  Kids <- MCKids
  Dirs = {Root, dir}
  ParentOf <- MCParentOf
  MaxOpens = 2
  Stats = {file}
  TreeFails = TRUE
SYMMETRY Symmetry
SPECIFICATION Spec
INVARIANT IInv
INVARIANT ListingExact
PROPERTY InodesStable
