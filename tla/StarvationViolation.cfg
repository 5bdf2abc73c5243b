SPECIFICATION ScanSpec
CONSTANTS
    Ids = {1, 2, 3}
    Limit = 3
    Poison = {1}
    Isolated = FALSE
    MaxRestarts = 0
PROPERTIES NoStarvation
