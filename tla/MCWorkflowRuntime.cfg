SPECIFICATION FairSpec
CONSTANTS
    InitialPlans <- MCInitialPlans
    Proposals <- MCProposals
    IdBound = 5
    MaxReplans = 3
    MaxSteps = 5
    MaxCrashes = 2
    MaxFaults = 1
INVARIANTS
    TypeOK
    MemoryIsDurable
    OneOutcome
    CompletedIsComplete
    DeadlockIsReal
    FailedMeansAborted
    RecordedStepsStayInPlan
    PlannerSeesEveryStep
PROPERTIES
    RecordsNeverRemoved
    StartIsJustified
    TerminalIsFinal
    RevisionsBounded
    ImplementsLedger
    EventuallySettles
