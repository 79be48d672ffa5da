SPECIFICATION Spec
INVARIANTS
    EvidenceBeforeProfile
    RisksReachHumans
    DisputedIsNotTrusted
    DependencyIsBacked
    WeakDataIsFlagged
    CriticalSilenceIsLoud
    FailuresNeverFlatter
CONSTANTS
    MaxFaults = 1
    Topics = {"acquired", "defunct", "active"}
    MaxAnswers = 2
    MaxTold = 1
    OddFields = {"category", "company_size_band"}
    Amounts <- MCAmounts
    MaxArrivals = 2
    MaxDocuments = 2
    Extractions <- MCExtractions
    OddQuestions = {"Q1", "Q3"}
    Histories <- MCHistories
