SPECIFICATION SFairSpec
CONSTANTS
  JpgFlag = TRUE
  NPck = 2
  PckPerFrame = 2
  LastMarked = TRUE
  NumFrameSkip = 1
  AbsClock = TRUE
  SeqMod <- MCSeqMod
  FrameMod <- MCFrameMod
  TsMod <- MCTsMod
  TsStep <- MCTsStep
  MAX_REORDER_PACKETS <- MCReorder
  MaxFrames = 5
  MaxTick = 1
  MaxDup = 0
  MaxRestarts = 0
  Ordered = TRUE
  Lossy = FALSE
  Requested = 4
  MaxPictures = 5
INVARIANTS
CTypeOK
FrameStable
BuffersConserved
NoPictureForgotten
InvalidConserved
PROPERTIES
DelayOfShownFrame
ShowsTheCamera
EveryPictureShown
