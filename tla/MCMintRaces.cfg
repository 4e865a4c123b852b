SPECIFICATION FairSpec
CONSTANTS
    b1 = b1  b2 = b2  b3 = b3  q1 = q1  q2 = q2
    Minters = {m1, m2}
    Pollers = {w1, w2}
    Quotes = {q1}
    Outputs = {b1, b2}
    NoQuote = NoQuote
    QuoteAmount <- MCQuoteAmount
    OutputAmount <- MCOutputAmount
    Serial = FALSE
    Faults = {}
CHECK_DEADLOCK FALSE
INVARIANTS
    IssuedOnlyIfPaid
PROPERTIES
    PaymentIsSeen
