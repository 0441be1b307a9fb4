SPECIFICATION FairSpec
CONSTANTS
  Sizes = {0, 1, 4}
  Samples <- Boundaries
  Manners = {TRUE, FALSE}
  MaxFrames = 3
  MaxRead = 32
INVARIANTS
  SizesKept
  Intact
  UpstreamLength
  DownstreamLength
PROPERTIES
  EverythingArrives
