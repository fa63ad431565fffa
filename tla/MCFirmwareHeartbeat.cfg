SPECIFICATION FairSpec
CONSTANTS
    N = 2
    Packages = {"good"}
    FlipResults = {TRUE, FALSE}
    HeartbeatStarts = {TRUE}
    MaxFaults = 0
    MaxCuts = 0
PROPERTIES UpdateReturns
