SPECIFICATION Spec
CONSTANTS
  Second = 2
  ClockMod = 16
  IntMod = 64
  NPck = 2
  Pcks <- MCPcks
  Gaps <- MCGaps
  Encodings <- MCEncodings
  MaxDelay = 3
  MaxInvalid = 1
  MaxFrames = 4
  Starts <- MCStarts
  NoMin = 9
  NoMinDelay = 9
INVARIANTS
TypeOK
LineIsOfItsWindow
FrameInOneLine
