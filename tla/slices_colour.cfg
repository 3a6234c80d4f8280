SPECIFICATION Spec
CONSTANTS
  Grey = FALSE
  Geometries <- MCColour
  MAX_PAYLOAD = 8
  HeaderLen = 2
  MAX_OUT_JPG_BUF = 20
  Fills <- MCFills
  Square = 1
  Lossy = FALSE
  MaxFrames = 1
INVARIANTS
PictureReproduced
