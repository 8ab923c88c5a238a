SPECIFICATION FairSpec
CONSTANTS
  MaxText = 8
  Window = 5
  Overlap = 2
  MaxPieces = 3
PROPERTY Ends
CHECK_DEADLOCK FALSE
