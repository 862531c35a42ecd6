SPECIFICATION FairSpec
CONSTANTS
    PasswordAttempts = 3
    Chunks = 3
    PackerQueue = 1
    Window = 1
    MaxVerifyRounds = 1
    Modes = {"files", "stream", "raw", "tar"}
    Faults = {"cancel", "idle", "slow"}
CHECK_DEADLOCK FALSE
INVARIANTS SuccessIsShared  CancelNotRetried GateHeld
PROPERTIES SessionOver
