SPECIFICATION FairScreenSpec
CONSTANTS
  a = a
  b = b
  none = none
  typist = typist
  tapper = tapper
  Worker <- AndroidWorker
  Key <- AndroidKey
  Blank = none
  Typist = typist
  Tapper = typist
  NoKey = NoKey
  NoPhotos = NoPhotos
  NoTotal = NoTotal
  Platform = "Android"
  Buffer = 2
  MaxInbox = 1
  MaxBlocks = 2
INVARIANTS ScreenTypeOK OneSearch SettledOnTyped FoundIsRemembered
PROPERTIES TypedIsSearched EveryBeginEnds
