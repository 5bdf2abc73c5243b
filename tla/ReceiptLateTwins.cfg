SPECIFICATION Spec
CONSTANTS
    Receipts = {r1, r2}
    MaxAttempts = 2
    MaxClaims = 2
    MaxRounds = 1
    PrepareLimit = 1
    VerifyLimit = 1
    Twins = TRUE
    Prompt = FALSE
    Invoice = inv
    None = None
SYMMETRY Symmetry
CHECK_DEADLOCK FALSE
INVARIANTS UnresolvedIsParked
PROPERTIES UnknownIsDecided IdentityIsStable
