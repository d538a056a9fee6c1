SPECIFICATION LiveSpec
CONSTANTS
    Mixes <- MCMixes
INVARIANTS RestoreIsExact
PROPERTIES WritesAroundRestore TrafficResumes
CHECK_DEADLOCK FALSE
