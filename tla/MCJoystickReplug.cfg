SPECIFICATION FairSpec
CONSTANTS
    Setups <- Factory
    QueueSize = 3
    RFTimeout = 2
    TimerSize = 5
    RepeatAt = 2
    RepeatFrom = 0
    HeldAtPlug <- Held
    MaxPlugs = 2
PROPERTIES PadComesBack
