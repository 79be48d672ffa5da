SPECIFICATION Spec
CONSTANTS
    InitialPlans <- MCInitialPlans
    Proposals <- MCProposals
    IdBound = 5
    MaxReplans = 3
    MaxSteps = 5
    MaxCrashes = 1
    MaxFaults = 0
INVARIANTS
    RecordedStepsInPlan
