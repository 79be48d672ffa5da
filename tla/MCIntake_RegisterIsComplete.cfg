SPECIFICATION Spec
CONSTANTS
    acme = acme
    beta = beta
    corp = corp
    Keys <- MCKeys
    Sources <- MCSources
    MaxCrashes = 1
    MaxFaults = 0
INVARIANT RegisterIsComplete
