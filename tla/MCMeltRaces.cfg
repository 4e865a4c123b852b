SPECIFICATION Spec
CONSTANTS
    p1 = p1  p2 = p2  b1 = b1  b2 = b2  q1 = q1  q2 = q2  m1 = m1  m2 = m2  m3 = m3
    Melters = {m1, m2}
    Pollers = {w1}
    Boot = boot
    Quotes = {q1, q2}
    Internal = {q2}
    Proofs = {p1, p2}
    Outputs = {b1, b2}
    NoQuote = NoQuote
    ProofAmount <- MCProofAmount
    Need <- MCEach
    Blanks <- MCBlanks
    Absent = {"error", "PENDING", "UNKNOWN", "FAILED"}
    Serial = FALSE
    Subscribers = TRUE
    Faults = {"database", "lightning", "crash"}
SYMMETRY MCSymmetry
CHECK_DEADLOCK FALSE
INVARIANTS
    PaidQuoteIsPaid
PROPERTIES
    ChangeFollowsPayment
