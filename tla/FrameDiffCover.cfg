CONSTANTS
    maxx = 4
    maxy = 3
SPECIFICATION ScanSpec
INVARIANTS
    CoversModified
CHECK_DEADLOCK FALSE
