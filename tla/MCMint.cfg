SPECIFICATION Spec
CONSTANTS
    b1 = b1  b2 = b2  b3 = b3  q1 = q1  q2 = q2
    Minters = {m1, m2, m3}
    Pollers = {w1}
    Quotes = {q1, q2}
    Outputs = {b1, b2, b3}
    NoQuote = NoQuote
    QuoteAmount <- MCQuoteAmount
    OutputAmount <- MCOutputAmount
    Serial = TRUE
    Faults = {"database", "lightning", "crash"}
CHECK_DEADLOCK FALSE
INVARIANTS
    NoInflation
PROPERTIES
    PaidStaysPaid Issuance
