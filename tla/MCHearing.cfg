\* Three threads on one resource; seven bytes in frames of two and a queue of two; windows of three frames of
\* five levels; two turns of three frames with two words; three transactions
\* of two processes.
CONSTANTS
  Threads = {"t1", "t2", "t3"}
  Want = 2
  QueueSize = 2
  MaxBytes = 7
  Levels = {0, 1, 2, 3, 5}
  MinRms = 1
  Margin = 2
  StartFrames = 2
  SuppressedFrames = 3
  EndFrames = 2
  Window = 3
  Words = {"one", "two"}
  MaxFrames = 3
  MaxTurns = 2
  Writers = {"p", "q"}
  Subjects = {"dictation", "other"}
  Digests = {"d1", "d2"}
  MaxOps = 3
SPECIFICATION HearingSpec
INVARIANTS
  ClosedIsProven
  LossIsCounted
  FloorIsTheRooms
  TextIsTheTurns
PROPERTIES
  LateChildDies
  CallsReturn
  CaptureEnds
  OthersAreKept
CHECK_DEADLOCK FALSE
