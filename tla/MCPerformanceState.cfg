SPECIFICATION Spec
CONSTANTS
    Series <- All
    MaxRuns = 7
    HistoryLimit = 2
    MaxArtifacts = 2
    MaxCommits = 2
    MaxForced <- Forced
    MaxReruns <- Reruns
    MaxPages <- Published
    MaxFaults <- Faults
INVARIANTS HistoryKept SkippedIsMeasured
PROPERTY ChangesMeasured
CHECK_DEADLOCK FALSE
