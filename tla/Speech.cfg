\* Two read-aloud turns, the first with a subscriber, and a dictation; sinks fail.
CONSTANTS
  N = 2
  Clips = 1
  Dictations = 1
  SinksFail = TRUE
  Subscribed = {1}
  None = None
SPECIFICATION Spec
INVARIANTS
  OnlyTheCurrentSounds
  SpeakersAreClaimed
PROPERTIES
  StopIsHonoured
