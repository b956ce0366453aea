\* Two workers inside the controller at once, unsubscribe from the main thread.
SPECIFICATION FairSpec
CONSTANTS
  ItemPerPage = 1
  Radix = 10
  MaxPage = 1
  MaxVersion = 0
  Worker = {w1, w2}
  NoOne = NoOne
  Sizes = {0, 1}
  MaxItems = 6
PROPERTIES
  KeepsContract
  EveryBeginEnds
