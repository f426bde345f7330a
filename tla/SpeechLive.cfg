\* A turn of two clips and one of one, every worker and every clip fair.
CONSTANTS
  N = 2
  Clips = 2
  Dictations = 0
  SinksFail = FALSE
  Subscribed = {}
  None = None
SPECIFICATION FairSpec
PROPERTIES
  EveryTurnEnds
