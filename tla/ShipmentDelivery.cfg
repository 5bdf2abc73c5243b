SPECIFICATION LiveSpec
CONSTANTS
    MaxAttempts = 2
    MaxRetried = 1
    MaxEdits = 2
    MaxDeleted = 1
    Prompts = {TRUE, FALSE}
    Invoice = inv
    None = None
CHECK_DEADLOCK FALSE
INVARIANTS TypeOK OneOutbound OutboundIsTrue
PROPERTIES DeletionIsNoticed
