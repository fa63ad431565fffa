SPECIFICATION Spec
CONSTANTS
    Games = {"one", "two", "wide"}
    Wide = {"wide"}
    MaxEvents = 3
    Setups <- BothSetups
    MaxLines = 2
    SavFile <- Sav
    SlotFile <- Slot
INVARIANTS TypeOK ListsAsChosen StateAsSaved
PROPERTY CutSpares
