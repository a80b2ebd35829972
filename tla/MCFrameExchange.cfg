SPECIFICATION FairSpec
CONSTANTS
    SlotCount = 4
    NULL = NULL
    MaxFrames = 5
INVARIANTS TypeOK WriterIsFree LatestIsKept HeldFramesAreWhole
PROPERTIES HeldFramesAreImmutable DisplayNeverGoesBack PublicationIsShown
