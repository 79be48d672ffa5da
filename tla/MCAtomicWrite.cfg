SPECIFICATION FairSpec
CONSTANTS
    Writers = {t1, t2}
    named = named
    nameless = nameless
    invalid = invalid
    text = text
    acme = acme
    beta = beta
    Contents <- MCContents
    Valid <- MCValid
    Texts <- MCTexts
    NameOf <- MCNameOf
    NoName = NoName
    Part = Part
    Immutable = TRUE
    MaxWrites = 3
    MaxCrashes = 1
    MaxFaults = 4
CHECK_DEADLOCK FALSE
INVARIANTS
    ReadersSeeWholeDocuments
    NoTmpLeftBehind
    BlobFollowsFile
PROPERTIES
    NameIsKept
    CallsReturn
