SPECIFICATION Spec
CHECK_DEADLOCK FALSE
CONSTANTS
  Threads = {t1, t2}
  Files <- MCFiles
  Record <- MCRecord
  Yields <- MCYields
  Damaged <- MCDamaged
  DatLen <- MCDatLen
  NoDat = 0
  BLOCK_SIZE = 2
  MaxBlocks = 3
  U64 = 64
  Ranges <- MCRanges
  CacheBytes = 3
  Built <- MCBuilt
  NoKey = NoKey
  FileNodes <- MCFileNodes
  Parents <- MCParents
  NoNode = NoNode
  Blobs <- MCBlobs
  BlobInfo <- MCBlobInfo
  Contents <- MCContents
  MaxKeys = 2
  Invocations <- MCInvocations
  MaxLines = 4
INVARIANT ReadExact
INVARIANT CountsExact
INVARIANT ListingComplete
 
INVARIANT AuditTruth
PROPERTY EvictsOnlyOld
PROPERTY CommandsEnd
