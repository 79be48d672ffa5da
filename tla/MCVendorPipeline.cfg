SPECIFICATION Spec
CONSTANTS
    Runs = {r1, r2}
    IntakePcs = 1
    MaxPcs = 3
    EnrichmentMaxAge = 1
    RsMaxAge = 1
    AnalysisMaxAge = 1
    MaxDay = 1
    MaxStarts = 3
    MaxCrashes = 1
    MaxFaults = 1
SYMMETRY Symmetric
CHECK_DEADLOCK FALSE
PROPERTIES
    AnalysisHasItsInputs
    PartsAreKept
    FreshRelationshipsStay
