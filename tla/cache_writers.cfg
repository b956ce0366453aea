SPECIFICATION CacheFileSpec
CONSTANTS
  Worker = {w1, w2}
  NoWorker = NoWorker
  Shared = FALSE
  MaxPage = 5
  MaxTxn = 5
  MaxReader = 2
INVARIANT OneWriter
