CONSTANTS
  alpha = alpha  beta = beta  gamma = gamma  delta = delta
  ka = ka  kb = kb  kx = kx  ky = ky
  a1 = a1  a2 = a2  b1 = b1  c1 = c1  b2 = b2  b3 = b3  b4 = b4  d1 = d1
  Threads = {t1, t2}
  Sources <- MCSources
  Blocks <- MCBlocks
  SourceOf <- MCSourceOf
  ModeOf <- MCModeOf
  Unfinished = {a1}
  Misfits = {}
  NoDat = {delta}
  AesKeys = {ka, kb, kx, ky}
  NoKey = NoKey
  TrueKey <- MCTrueKey
  BlobOverride <- MCBlobOverride
  DepotKey <- MCDepotKey
  Known = {ka, kb, kx}
  Coincides = {}
  KeySearch = TRUE
  Verify = TRUE
  CacheBlocks = 2
SYMMETRY Symmetry
SPECIFICATION Spec
INVARIANT NoneMeansNothingDecrypts
