SPECIFICATION Spec
CONSTANTS
    b1 = b1
    b2 = b2
    Names = {1}
    Files = {1}
    Inodes = {1, 2, 3, 4}
    NoIno = NoIno
    NoMeta = NoMeta
    NoFile = NoFile
    NoReport = NoReport
    Blocks = {b1, b2}
    Junk = Junk
    MaxSize = 1
    MaxTime = 1
    Transfers = {x1, x2}
    Checksum = FALSE
    commitMaxFiles = 1
    Unsyncable = {}
    SourceData <- OneEach
    UserData = {}
    Faults = {"break"}
VIEW View
INVARIANT VerifiedContent
