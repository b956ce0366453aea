SPECIFICATION FairPhotoSpec
CONSTANTS
  Controller <- MCController
  Silent = {}
  Strict = {}
  Watched = "detail"
INVARIANTS PhotoTypeOK DrawnTogether OneAtATime
PROPERTIES KeepsContract EveryBeginEnds ScreenFills
