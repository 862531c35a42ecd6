SPECIFICATION Spec
CONSTANTS
    b1 = b1
    b2 = b2
    Names = {1, 2}
    Files = {1, 2}
    Inodes = {1, 2, 3, 4, 5, 6}
    NoIno = NoIno
    NoMeta = NoMeta
    NoFile = NoFile
    NoReport = NoReport
    Blocks = {b1, b2}
    Junk = Junk
    MaxSize = 1
    MaxTime = 1
    Transfers = {x1}
    Checksum = FALSE
    commitMaxFiles = 2
    Unsyncable = {}
    SourceData <- OneOrNone
    UserData = {}
    Faults = {"hide", "break", "kill", "power"}
VIEW View
INVARIANT DoneSurvives
