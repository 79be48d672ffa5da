SPECIFICATION Spec
CONSTANTS
    acme = acme
    beta = beta
    corp = corp
    Keys <- MCKeys
    Sources <- MCSources
    MaxCrashes = 0
    MaxFaults = 0
INVARIANT TotalMatches
