SPECIFICATION FairSpec
CONSTANTS
    N = 2
    Packages = {"absent", "foreign", "damaged", "empty", "corrupt", "good"}
    FlipResults = {TRUE, FALSE}
    HeartbeatStarts = {TRUE, FALSE}
    MaxFaults = 2
    MaxCuts = 1
INVARIANTS TypeOK RecordedMeansInstalled
PROPERTIES InstallsImage GoodPackageInstalled StartEnds
