SPECIFICATION ScreenSpec
CONSTANTS
  a = a
  b = b
  none = none
  typist = typist
  tapper = tapper
  Worker <- IOSWorker
  Key <- IOSKey
  Blank = none
  Typist = typist
  Tapper = tapper
  NoKey = NoKey
  NoPhotos = NoPhotos
  NoTotal = NoTotal
  Platform = "iOS"
  Buffer = 1
  MaxInbox = 1
  MaxBlocks = 2
INVARIANT ShowsTheLast
PROPERTY KeepsContract
