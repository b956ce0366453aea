\* The Android screen when all its pipelines share one thread: what the list
\* holds, while the server changes its pages, and what its indicators show.
SPECIFICATION FairScreenSpec
CONSTANTS
  ItemPerPage = 2
  Radix = 10
  MaxPage = 3
  MaxVersion = 1
  NoOne = NoOne
  Sizes = {1, 2}
  MaxItems = 0
  MaxQueue = 2
  MaxPosted = 0
  w1 = w1
  w2 = w2
  Worker = {w1}
  Platform = "android"
  WorkerOf <- OneWorkerOf
INVARIANTS
  ScreenTypeOK
  InOrder
PROPERTIES
  EarlierPagesKept
  SpinnerStops
  MoreStops
