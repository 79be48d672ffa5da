SPECIFICATION Spec
CONSTANTS
    Writers = {t1, t2}
    named = named
    nameless = nameless
    invalid = invalid
    text = text
    acme = acme
    beta = beta
    Contents <- MCContents
    Valid <- MCValid
    Texts <- MCTexts
    NameOf <- MCNameOf
    NoName = NoName
    Part = Part
    Immutable = TRUE
    MaxWrites = 2
    MaxCrashes = 0
    MaxFaults = 0
CHECK_DEADLOCK FALSE
INVARIANT WholeDocuments
