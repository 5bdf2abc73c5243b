SPECIFICATION Spec
CONSTANTS
    MaxAttempts = 2
    MaxEdits = 1
    MaxTasks = 1
    MaxRuns = 1
    MaxRetried = 1
    Prompts = {TRUE, FALSE}
    Original = original
    Invoice = inv
    None = None
CHECK_DEADLOCK FALSE
INVARIANTS TypeOK NoDuplicateOrder SyncedIsTrue NothingIsForgotten TaskIsTruthful
