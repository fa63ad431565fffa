SPECIFICATION FairSpec
CONSTANTS
    Setups <- AllSetups
    QueueSize = 2
    RFTimeout = 2
    TimerSize = 5
    RepeatAt = 2
    RepeatFrom = 0
    HeldAtPlug <- Held
    MaxPlugs = 2
INVARIANTS TypeOK NoGhostKeys RepeatCadence
PROPERTIES Settles RecoversIfNoticed SilentPadReleases
