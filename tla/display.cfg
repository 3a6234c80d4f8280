SPECIFICATION FairSpec
CONSTANTS
  Rows = 3
  MaxFrames = 3
  MaxEvents = 2
INVARIANTS
TypeOK
CompletedPutHolds
LastPictureStays
PROPERTIES
RowsNeverOlder
EveryPutShown
