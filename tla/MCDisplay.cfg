SPECIFICATION FairSpec
CONSTANTS
    MaxFlips = 4
    InitOutcomes = {"direct", "threaded", "noscaler", "nodriver"}
    SpuriousWakeups = TRUE
INVARIANTS
    TypeOK
    NoLostWakeup
    SlotStable
    FrameNotTorn
PROPERTIES
    OneFrameInFlight
    EveryFrameShown
    FlipReturns
