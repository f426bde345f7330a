\* A stop, while the worker of the turn gets its player.
CONSTANTS
  N = 2
  Clips = 1
  Dictations = 0
  SinksFail = FALSE
  Subscribed = {}
  None = None
SPECIFICATION Spec
INVARIANTS
  StopIsNoFault
