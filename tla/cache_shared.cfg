SPECIFICATION CacheFileSpec
CONSTANTS
  Worker = {w1, w2}
  NoWorker = NoWorker
  Shared = TRUE
  MaxPage = 5
  MaxTxn = 5
  MaxReader = 2
INVARIANTS CacheFileTypeOK SnapshotKept CrashSafe OneWriter
PROPERTIES NothingLost StoreKept
