SPECIFICATION Spec
CONSTANTS
    Invoices = {i1, i2}
    Claims = {c1, r1}
    Removals = {r1}
    Writers = {w1}
    ExternalIds = {x1, x2}
    MaxEpoch = 2
    MaxEvidence = 2
    None = None
SYMMETRY Symmetry
CHECK_DEADLOCK FALSE
INVARIANTS TypeOK ExclusiveSender PhaseMatchesDuties KeyIsExclusive
PROPERTIES RouteChangesAreFenced ContradictionFreezes ResponsibilitySpec
