SPECIFICATION FairSpec
CONSTANTS
    Tours <- AllTours
    Threads = {t1, t2}
    Period = 2
    Selections <- Games
    Shots <- GameShots
    Packed = {"two", "none"}
    Blank = blank
INVARIANTS TypeOK StoppedMeansGone NoForeignPaint
PROPERTIES StopReturns ThumbnailFollows
