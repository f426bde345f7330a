SPECIFICATION Spec
CONSTANTS
  MaxPlays = 4
  MaxStops = 2
  MayDie = TRUE
CHECK_DEADLOCK FALSE
INVARIANT PlayingMeansPlaying
