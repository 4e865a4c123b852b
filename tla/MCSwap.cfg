SPECIFICATION Spec
CONSTANTS
    p1 = p1  p2 = p2  p3 = p3
    b1 = b1  b2 = b2  b3 = b3  b4 = b4
    r1 = r1  r2 = r2  r3 = r3
    Requests = {r1, r2, r3}
    Proofs <- MCProofs
    Outputs <- MCOutputs
    Units <- MCUnits
    ProofAmount <- MCProofAmount
    ProofFeePpk <- MCProofFeePpk
    ProofUnit <- MCProofUnit
    OutputAmount <- MCOutputAmount
    OutputUnit <- MCOutputUnit
    Word = 256
    MaxLen = 2
    Faults = {"signer", "database", "cleanup", "commit", "crash"}
SYMMETRY MCSymmetry
INVARIANTS
    NoDoubleSpend AllOrNothing AnswerIsTrue PendingIsOwned Conservation
PROPERTIES
    Ledger
