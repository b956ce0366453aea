\* Is the list in order once the number of a page has two digits?
SPECIFICATION ScreenSpec
CONSTANTS
  ItemPerPage = 2
  Radix = 3
  MaxPage = 3
  MaxVersion = 0
  NoOne = NoOne
  Sizes = {0, 2}
  MaxItems = 0
  MaxQueue = 2
  MaxPosted = 0
  w1 = w1
  w2 = w2
  Worker = {w1}
  Platform = "android"
  WorkerOf <- OneWorkerOf
INVARIANTS
  InOrder
