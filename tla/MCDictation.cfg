\* Two stops for an ordinary turn and one for an owned turn, whose recogniser
\* may hang in a feed; the turn ends, so TLC may stop.
CONSTANTS
  Owned = FALSE
  MaxStops = 2
  OwnedStops = 1
SPECIFICATION MCSpec
INVARIANTS
  AbortInTimeIsCancelled
  QuiescedStop
  MicIsAlwaysAccounted
PROPERTIES
  ImplementsContract
  OrdinaryTurnsEnd
  StopAnswered
CHECK_DEADLOCK FALSE
