SPECIFICATION FairSpec
CONSTANTS
    Runs = {r1}
    IntakePcs = 1
    MaxPcs = 3
    EnrichmentMaxAge = 1
    RsMaxAge = 1
    AnalysisMaxAge = 1
    MaxDay = 1
    MaxStarts = 2
    MaxCrashes = 0
    MaxFaults = 1
CHECK_DEADLOCK FALSE
PROPERTIES
    FailureKeepsRelationship
