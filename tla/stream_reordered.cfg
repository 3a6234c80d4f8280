SPECIFICATION Spec
CONSTANTS
  JpgFlag = TRUE
  NPck = 2
  PckPerFrame = 2
  LastMarked = TRUE
  NumFrameSkip = 0
  AbsClock = FALSE
  SeqMod <- MCSeqMod
  FrameMod <- MCFrameMod
  TsMod <- MCTsMod
  TsStep <- MCTsStep
  MAX_REORDER_PACKETS <- MCReorder
  MaxFrames = 3
  MaxTick <- MCMaxTick
  MaxDup = 1
  MaxRestarts = 0
  Ordered = FALSE
  Lossy = FALSE
INVARIANTS
GeometrySet
PictureNotMixed
NoFrameSkipped
EveryPacketUsed
