SPECIFICATION Spec
CONSTANTS
  Sizes = {0, 2}
  Samples <- Boundaries
  Manners = {FALSE}
  MaxFrames = 2
  MaxRead = 16
INVARIANTS
  IntactAlways
