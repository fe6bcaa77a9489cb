\* Four requests to a gallery of two photos, to which two are added.
SPECIFICATION FairSpec
CONSTANTS
  Requests = {1, 2, 3, 4}
  Images <- MCImages
  Loads <- MCLoads
  Galleries <- MCGalleries
  NoOne = NoOne
INVARIANTS
  TypeOK
  AtMostOneCover
  RefusedOnlyInRace
  OnlyPromotionsDeadlock
PROPERTIES
  CoverKept
  Answered
