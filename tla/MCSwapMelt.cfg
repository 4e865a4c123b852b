SPECIFICATION BothSpec
CONSTANTS
    p1 = p1  p2 = p2  b1 = b1  b2 = b2  q1 = q1  q2 = q2  m1 = m1  m2 = m2
    r1 = r1  r2 = r2
    Melters = {m1, m2}
    Pollers = {w1}
    Boot = boot
    Quotes = {q1, q2}
    Internal = {q2}
    Proofs = {p1, p2}
    Outputs = {b1, b2}
    NoQuote = NoQuote
    ProofAmount <- MCProofAmount
    Need <- MCNeed
    Blanks <- MCBlanks
    Absent = {"error", "PENDING", "UNKNOWN", "FAILED"}
    Serial = TRUE
    Subscribers = TRUE
    Faults = {"database", "lightning", "crash"}
    Requests = {r1}
    Units <- MCUnits
    ProofUnit <- MCProofUnit
    ProofFeePpk <- MCProofFeePpk
    OutputAmount <- MCOutputAmount
    OutputUnit <- MCOutputUnit
    Word = 256
    MaxLen = 1
    SwapFaults = {"signer", "database", "cleanup", "commit", "crash"}
CHECK_DEADLOCK FALSE
INVARIANTS
    Covered UnpaidHoldsNothing PaysOnce SpentForSomething
PROPERTIES
    Ledger PaidIsFinal
