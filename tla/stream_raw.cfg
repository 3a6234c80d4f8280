SPECIFICATION RawFairSpec
CONSTANTS
  JpgFlag = FALSE
  NPck = 3
  PckPerFrame = 4
  LastMarked = FALSE
  NumFrameSkip = 1
  AbsClock = FALSE
  SeqMod <- MCSeqMod
  FrameMod <- MCFrameMod
  TsMod <- MCTsMod
  TsStep <- MCTsStep
  MAX_REORDER_PACKETS <- MCReorder
  MaxFrames = 5
  MaxTick = 1
  MaxDup = 0
  MaxRestarts = 0
  Ordered = TRUE
  Lossy = TRUE
  Width = 4
  Height = 2
  MAX_PAYLOAD_RTP = 4
  Square = 1
INVARIANTS
RawBytesInPlace
ShownOnceInOrder
PROPERTIES
DueFrameShown
