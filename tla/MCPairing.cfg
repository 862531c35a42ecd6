CONSTANTS
  Nobody = Nobody
  d1 = d1
  d2 = d2
  Devices = {d1, d2}
  MaxConns = 2
  maxPendingHandshakes = 2
  FailCap = 1
  maxAuthFailures = 2
  maxPasswordRounds = 2
  DefaultAttempts = 2
  maxRepairRounds = 1
  MaxRounds = 2
  MaxStarts = 1
  MaxFaults = 1
SPECIFICATION Spec
INVARIANTS ReturnsToFirst  LoserReleased
SYMMETRY Symmetric
CHECK_DEADLOCK FALSE
