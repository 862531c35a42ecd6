CONSTANTS
  Nobody = Nobody
  d1 = d1
  d2 = d2
  Devices = {d1}
  MaxConns = 2
  maxPendingHandshakes = 1
  FailCap = 1
  maxAuthFailures = 1
  maxPasswordRounds = 1
  DefaultAttempts = 1
  maxRepairRounds = 1
  MaxRounds = 3
  MaxStarts = 2
  MaxFaults = 2
SPECIFICATION FairSpec
INVARIANTS RefusedOnlyIfLeft KeysAgree
CHECK_DEADLOCK FALSE
PROPERTIES PairingEnds
