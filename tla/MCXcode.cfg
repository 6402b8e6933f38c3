SPECIFICATION Spec
CONSTANTS
    SourceTrees <- MCSourceTrees
    LProj <- MCLProj
    Objects <- MCObjects
    NameOrder <- MCNameOrder
    Cwd <- MCCwd
    Sources <- MCSources
    Libraries <- MCLibraries
    StandardDirs <- MCStandardDirs
    Unprefixed <- MCUnprefixed
    Inputs <- MCInputs
INVARIANTS
    FilesKept
    WellOwned
    RemoteProducts
    NeverRaises
    SettingsOwn
PROPERTIES
    IDsStable
CHECK_DEADLOCK FALSE
