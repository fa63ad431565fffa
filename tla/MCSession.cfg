SPECIFICATION Spec
CONSTANTS
    Games = {"one", "two"}
    Cores <- CoreNames
    Gpsp = "gpsp"
    Setups <- All
    MaxMapped = 2
    Fps = 2
    Second = 3
    Word = 24
    maxSkips = 2
    MaxElapsed = 14
    MaxRun = 4
INVARIANTS TypeOK RomOfTheGame BalancedCores ScreenAsAsked PausePicture Paced
CHECK_DEADLOCK FALSE
