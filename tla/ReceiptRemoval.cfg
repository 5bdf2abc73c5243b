SPECIFICATION Spec
CONSTANTS
    Calls = {c1, c2}
    Verifier = verifier
    Changer = changer
    MaxTerms = 1
    Document = d
    Invoice = inv
    None = None
SYMMETRY Symmetry
CHECK_DEADLOCK FALSE
INVARIANTS TypeOK OutcomeIsTrue RemovalIsIntended
PROPERTIES PendingIsFrozen
