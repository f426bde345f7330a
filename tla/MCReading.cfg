\* A text of five tokens; an engine with a budget or none and a probe beside it; a
\* player of four clips and two stops; a document of three passages;
\* two owned utterances, one result kept and one restart; three signals on the bus.
CONSTANTS
  MaxRaw = 5
  MaxChars = 4
  MaxChunk = 3
  BoxRun = 1
  Budgets = {3}
  Unbounded = 9
  Cap = 2
  IOWait = 1
  ReapWait = 1
  MaxClips = 2
  MaxProbes = 1
  MaxPlays = 4
  MaxStops = 2
  MayDie = TRUE
  Passages = 3
  MaxCommands = 5
  Owners = {"o"}
  Utterances = {"u", "v"}
  Signatures = {"s"}
  Adjustable = {"s"}
  Kept = 1
  Lease = 1
  MaxTurns = 2
  MaxRestarts = 1
  MaxSignals = 3
SPECIFICATION Spec
INVARIANTS
  SpokenIsTheText
  PlayerIsTrue
  HeardIsShown
PROPERTIES
  ClipsAreLabelled
  CallsEnd
  ReadsOn
  RetriesAreHarmless
  OwnersAreTold
  DelayIsReturned
CHECK_DEADLOCK FALSE
