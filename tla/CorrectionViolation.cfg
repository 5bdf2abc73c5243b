SPECIFICATION Spec
CONSTANTS
    Receipts = {r1}
    MaxAttempts = 2
    MaxClaims = 2
    MaxRounds = 2
    PrepareLimit = 2
    VerifyLimit = 2
    Twins = FALSE
    Prompt = TRUE
    Invoice = inv
    None = None
CHECK_DEADLOCK FALSE
INVARIANTS CorrectionWaitsForRetry
