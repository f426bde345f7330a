\* One owner, two utterances, one result kept and one restart: a result is kept
\* before the speakers are taken, and stays when they are refused.
CONSTANTS
  Owners = {"o"}
  Utterances = {"u", "v"}
  Signatures = {"s"}
  Adjustable = {"s"}
  Kept = 1
  Lease = 1
  MaxTurns = 2
  MaxRestarts = 1
SPECIFICATION Spec
INVARIANT ActiveIsRunning
CHECK_DEADLOCK FALSE
