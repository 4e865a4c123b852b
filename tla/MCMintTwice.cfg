SPECIFICATION Spec
CONSTANTS
    b1 = b1  b2 = b2  b3 = b3  q1 = q1  q2 = q2
    Minters = {m1, m2}
    Pollers = {w1}
    Quotes = {q1, q2}
    Outputs = {b1, b2, b3}
    NoQuote = NoQuote
    QuoteAmount <- MCQuoteAmount
    OutputAmount <- MCOutputAmount
    Serial = FALSE
    Faults = {}
CHECK_DEADLOCK FALSE
INVARIANTS
    IssuedOnce
