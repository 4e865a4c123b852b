SPECIFICATION Spec
CONSTANTS
    Proofs = {p1, p2}
    Outputs = {b1}
    MaxAsked = 2
CHECK_DEADLOCK FALSE
INVARIANTS
    ToldTheTruth
