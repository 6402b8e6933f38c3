SPECIFICATION MCSpec
CONSTANTS
    Targets <- MCTargets
    build_files <- MCBuildFiles
    InFile <- MCInFile
    WildcardFile <- MCWildcardFile
    circular_check = TRUE
    StaticLibraryDependenciesAdjusted = TRUE
    SortedDependencies = FALSE
    Generators = {"ninja", "make", "android"}
    Flavors = {"linux", "mac"}
    LimitToTargetAll = FALSE
INVARIANTS DependenciesFirst CycleDetected Runs GeneratedFirst ToolsBuilt LinkedWithAll SettingsArrive AllBuilt OutputsDistinct
CHECK_DEADLOCK FALSE
