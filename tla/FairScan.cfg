SPECIFICATION ScanSpec
CONSTANTS
    Ids = {1, 2, 3, 4, 5}
    Limit = 2
    Poison = {1}
    Isolated = TRUE
    MaxRestarts = 1
INVARIANTS WaitIsBounded
PROPERTIES NoStarvation
