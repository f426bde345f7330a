\* Three daemons, one of them killed; the protocol's own limits; three requests, two of them at once; two files
\* and two writes; three pids for three processes; two launches; four jobs in a
\* table of two; two programs that write the settings.
CONSTANTS
  Nobody = Nobody
  Procs = {p1, p2, p3}
  Pids = {1, 2, 3}
  Serial = TRUE
  OwnPidReused = FALSE
  MaxCrashes = 1
  MaxRequest = 196608
  MaxReply = 65535
  MaxProse = 4096
  Marker = 13
  Skeleton = 200
  RequestSizes = {196608, 196609}
  ProseSizes = {0, 2048, 2049, 4097}
  FieldSizes = {0, 45000, 52000, 70000}
  CharSizes = {1, 6}
  MaxAudio = 8
  Header = 2
  Times = {0, 1, 2, 3}
  Lengths = {0, 4, 8, 9}
  N = 3
  MaxInFlight = 2
  MaxStalled = 2
  Limit = 1
  Block = 1
  MaxSize = 2
  Growing = {1}
  Agreed = "agreed"
  Other = {"x"}
  Files = {1, 2}
  Racy = 2
  MaxHash = 1
  Lag = 1
  MaxClock = 9
  MaxWrites = 2
  Restores = FALSE
  Numbers = {1, 2, 3}
  Members = {1, 2, 3}
  Launches = {"a", "b"}
  MaxFailures = 3
  Jobs = {"j1", "j2", "j3", "j4"}
  Outcomes = {"completed", "failed"}
  MaxEntries = 2
  Programs = {"p", "q"}
  OwnKeys = {"k", "h"}
  OtherKeys = {"f"}
  Values = {"x", "y"}
  Documents <- Found
SPECIFICATION EdgesSpec
INVARIANTS
  OneOwner
  ReplyFits
  BuiltIsTrue
  LoadsTheAgreed
  GroupIsGone
  NothingStranded
  LedgerIsTrue
PROPERTIES
  RefusedByTheLiving
  IngestIsAccounted
  SettingsAreKept
SYMMETRY Symmetry
CHECK_DEADLOCK FALSE
