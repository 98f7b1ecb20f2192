CONSTANTS
  v0 = v0  v1 = v1  v2 = v2  x = x  y = y
  Threads = {t1, t2}
  Blobs = {v0, v1, v2, x, y}
  NoBlob = NoBlob
  NoPrev = NoPrev
  Version <- MCVersion
  Crc <- MCCrc
  Prev <- MCPrev
  Files = {1, 2, 3}
  Records <- MCRecords
  TableCap = 2
  MaxChain = 4
  MaxLayers = 2
SPECIFICATION FairSpec
INVARIANT TableIsAncestry
INVARIANT TableIsUnion
PROPERTY CallsReturn
