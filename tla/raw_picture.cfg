SPECIFICATION RawSpec
CONSTANTS
  JpgFlag = FALSE
  NPck = 3
  PckPerFrame = 4
  LastMarked = TRUE
  NumFrameSkip = 0
  AbsClock = FALSE
  SeqMod <- MCSeqMod
  FrameMod <- MCFrameMod
  TsMod <- MCTsMod
  TsStep <- MCTsStep
  MAX_REORDER_PACKETS <- MCReorder
  MaxFrames = 2
  MaxTick = 1
  MaxDup = 0
  MaxRestarts = 0
  Ordered = TRUE
  Lossy = FALSE
  Width = 4
  Height = 2
  MAX_PAYLOAD_RTP = 5
  Square = 1
PROPERTIES
RawPictureShown
