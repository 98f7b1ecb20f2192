SPECIFICATION Spec
CONSTANTS
  MAGIC_PLAIN = 501
  MAGIC_COMPRESSED = 431
  MAGIC = 4000
  BLOCK_SIZE = 8
  W = 4096
  PACK = 256
  Base = 61
  Versions <- MCVersions
  Publish <- MCPublish
  Links <- MCLinks
  PublishManifest <- MCPublishManifest
  Noise = {0, 1, 10, 4095}
  MaxAlloc = 8192
  LastDay = 146097
  Seconds = {0, 43199, 86399}
INVARIANT ReadAsPublished
INVARIANT WalksStayInside
INVARIANT LookupMatchesScan
INVARIANT DatesRoundTrip
CHECK_DEADLOCK FALSE
