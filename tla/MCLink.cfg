SPECIFICATION FairSpec
CONSTANTS
    maxCandidatesPerSide = 1
    MaxGather = 1
    MaxRebinds = 1
    MaxInFlight = 1
    MaxFaults = 1
CHECK_DEADLOCK FALSE
INVARIANTS  Released RegisteredIsRecorded
PROPERTIES LinkEnds SlotReclaimed
