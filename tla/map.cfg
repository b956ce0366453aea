SPECIFICATION FairMapSpec
CONSTANTS
  Controller = {"map"}
  Silent = {"map"}
  Strict = {"map"}
  Watched = "map"
INVARIANT MapTypeOK
PROPERTIES KeepsContract PhotosListed
