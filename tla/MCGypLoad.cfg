SPECIFICATION MCSpec
CONSTANTS
    PathSections <- MCPathSections
    NonConfigurationKeys <- MCNonConfigurationKeys
    InvalidConfigurationKeys <- MCInvalidConfigurationKeys
    Output <- MCOutput
    Order <- MCOrder
    Content <- MCContent
    GlobalIncludes <- NoFiles
    Depth <- Here
    MultipleToolsets = TRUE
    Processes = 2
    Environments <- MCEnvironments
    BuildFilesIn <- MCBuildFilesIn
    ValidConfigs = {"Debug"}
    MaxRuns = 3
    MCRoots <- RootLists
    MCSamples <- Samples
INVARIANTS RegenerateSame ParallelIsSerial OrderIrrelevant ItemsKept NothingLeft ScopesNest
PROPERTY LoadingEnds
CHECK_DEADLOCK FALSE
