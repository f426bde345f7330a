SPECIFICATION Spec
CONSTANTS
  Resources = {r1, r2}
  Leased = {r1}
  Providers = {r1}
  Agents = {a1, a2}
  Ids = {i1, i2, i3}
  None = None
SYMMETRY Symmetry
INVARIANTS NothingLost OneCleanup LeaseIsKept
