SPECIFICATION MCSpec
CONSTANTS
    Case <- MCCase
    Worker = {w1}
    Negative <- MCNegative
    Deaf <- MCDeaf
    Main = "main"
    Fault = {"oserror", "ioerror", "print", "interrupt"}
    Files <- MCFiles
    ArchGuess = "ia32"
    System = "linux"
INVARIANTS
    Accounted
    SuccessIsReal
    NoOrphans
    ParsedAsWritten
PROPERTIES
    AllThreadsEnd
CHECK_DEADLOCK FALSE
