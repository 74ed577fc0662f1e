SPECIFICATION Spec
CONSTANTS
    Series = {"daily"}
    MaxRuns = 9
    HistoryLimit = 2
    MaxArtifacts = 3
    MaxCommits = 2
    MaxForced <- Forced
    MaxReruns <- Reruns
    MaxPages <- PublishedTwice
    MaxFaults <- Faults
PROPERTY FailureKeepsSnapshot
