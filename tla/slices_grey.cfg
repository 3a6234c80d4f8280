SPECIFICATION Spec
CONSTANTS
  Grey = TRUE
  Geometries <- MCGeometries
  MAX_PAYLOAD = 8
  HeaderLen = 2
  MAX_OUT_JPG_BUF = 20
  Fills <- MCFills
  Square = 1
  Lossy = TRUE
  MaxFrames = 2
INVARIANTS
TypeOK
ValidIffFits
OnlyWholeDecoded
PictureReproduced
