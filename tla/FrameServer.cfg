CONSTANTS
    maxx = 3
    maxy = 1
    Colours = {0, 1}
    MaxFrames = 1
    MaxTyped = 2
SPECIFICATION FairServerSpec
INVARIANTS
    UpperLeftExact
    CoveredWithMargin
    StaleIsMarked
    KeyOnce
PROPERTIES
    FrameCopied
