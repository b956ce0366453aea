\* The iOS screen, two workers, the values of loadings on their way to the main
\* thread.
SPECIFICATION FairScreenSpec
CONSTANTS
  ItemPerPage = 1
  Radix = 10
  MaxPage = 2
  MaxVersion = 0
  NoOne = NoOne
  Sizes = {0}
  MaxItems = 0
  MaxQueue = 1
  MaxPosted = 1
  w1 = w1
  w2 = w2
  Worker = {w1, w2}
  Platform = "ios"
  WorkerOf <- IosWorkerOf
INVARIANTS
  SpinnerHonest
PROPERTIES
  SpinnerStops
