SPECIFICATION FairSpec
CONSTANTS
    b1 = b1
    b2 = b2
    Names = {1, 2}
    Files = {1}
    Inodes = {1, 2, 3, 4}
    NoIno = NoIno
    NoMeta = NoMeta
    NoFile = NoFile
    NoReport = NoReport
    Blocks = {b1, b2}
    Junk = Junk
    MaxSize = 2
    MaxTime = 1
    Transfers = {x1}
    Checksum = TRUE
    commitMaxFiles = 1
    Unsyncable = {}
    SourceData <- Pair
    UserData <- Twin
    Faults = {"hide", "break"}
INVARIANT SkippedIsSame
PROPERTIES SessionEnds ConsentKept
