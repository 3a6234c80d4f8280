SPECIFICATION Spec
CONSTANTS
  JpgFlag = TRUE
  NPck = 2
  PckPerFrame = 2
  LastMarked = TRUE
  NumFrameSkip = 1
  AbsClock = TRUE
  SeqMod <- MCSeqMod
  FrameMod <- MCFrameMod
  TsMod <- MCTsMod
  TsStep <- MCTsStep
  MAX_REORDER_PACKETS <- MCReorder
  MaxFrames = 5
  MaxTick <- MCMaxTick
  MaxDup = 0
  MaxRestarts = 1
  Ordered = TRUE
  Lossy = TRUE
INVARIANTS
TypeOK
ShownOnceInOrder
PictureNotMixed
PictureComplete
PROPERTIES
ImplementsFrameDisplay
