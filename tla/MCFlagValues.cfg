SPECIFICATION Spec
CONSTANTS
    Letters <- MCLetters
    Numbers = {"0", "1", "2"}
    Enum = {"1", "x"}
    Modules = {"main", "lib"}
    Programs <- MCPrograms
    Defs <- MCDefs
    OtherDefs <- MCOtherDefs
    Argvs <- MCArgvs
    Defaults <- MCDefaults
    FlagFiles <- MCFiles
    MaxSteps = 5
INVARIANTS
    PrefixesUnique
    CommandLineWins
    RoundTrip
    ListsRegistered
CHECK_DEADLOCK FALSE
