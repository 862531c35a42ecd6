SPECIFICATION Spec
CONSTANTS
    b1 = b1
    b2 = b2
    Names = {1}
    Files = {1}
    Inodes = {1, 2, 3, 4}
    NoIno = NoIno
    NoMeta = NoMeta
    NoFile = NoFile
    NoReport = NoReport
    Blocks = {b1, b2}
    Junk = Junk
    MaxSize = 3
    MaxTime = 2
    Transfers = {x1}
    Checksum = FALSE
    commitMaxFiles = 1
    Unsyncable = {}
    SourceData <- Growing
    UserData <- OneBlock
    Faults = {"edit", "hide", "user", "break", "kill", "power"}
VIEW View
INVARIANTS VerifiedContent 
 
