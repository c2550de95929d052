CONSTANTS
    maxx = 1
    maxy = 1
    Colours = {0}
    MaxFrames = 0
    MaxTyped = 3
SPECIFICATION ServerSpec
PROPERTIES
    SavedKeyWritten
