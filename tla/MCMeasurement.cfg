SPECIFICATION Spec
CONSTANTS
    Controllers <- AllControllers
    Roles <- TwoRoles
    CaseCount <- MCCaseCount
    BuildRounds = 2
    Warmups = 1
    Samples = 2
    SelfBuilds = 2
    Generations = 2
    MaxFailures = 2
INVARIANTS NoSurvivor PublishedIsGenuine QualifiedExactly
PROPERTY CohortEnds
