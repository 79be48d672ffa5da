SPECIFICATION FairSpec
CONSTANTS
    acme = acme
    beta = beta
    corp = corp
    Keys <- MCKeys
    Sources <- MCSources
    MaxCrashes = 2
    MaxFaults = 1
INVARIANTS
    RegisteredHaveProfiles
    CompletedCoversSource
    ReportsAgree
    UninterruptedRegisterIsComplete
PROPERTIES
    NoRework
    CheckpointOnlyGrows
    EnrichmentSurvives
    EventuallyCompleted
