SPECIFICATION ServicesSpec
CONSTANTS
    r1 = r1  r2 = r2
    Units = {"sat", "usd"}
    Sat = "sat"
    Fees = {0, 1}
    Asks <- MCAsks
    MaxVersion = 1
    Rotations = {r1, r2}
    out1 = out1  in1 = in1  h1 = h1  h2 = h2  h3 = h3
    OutSwaps = {out1}
    InSwaps = {in1}
    Handlers = {h1, h2, h3}
    Absent = {"UNKNOWN", "FAILED", "PENDING"}
    i1 = i1  i2 = i2  i3 = i3
    Items = {i1, i2, i3}
    Lag = 2
    MaxClock = 6
    a1 = a1  a2 = a2  a3 = a3  good = good  bad = bad
    AuthRequests = {a1, a2, a3}
    AuthProofs = {good, bad}
    Valid = {good}
    k1 = k1  k2 = k2  k3 = k3  x1 = x1  x2 = x2  o1 = o1  o2 = o2
    Keys = {k1, k2, k3}
    Coordinate <- MCCoordinate
    Outputs = {o1, o2}
    MaxSignatures = 2
    Locktimes = {0, 1}
    Times = {1, 2}
    Invoices = {3, 5, 8}
    RouteFees = {0, 4}
    PerSat = 3
    FeeShare = 2
    InputFees = {0, 1}
    Surplus = {0, 1, 3, 6}
    MaxBlanks = 3
    Word = 32
    MaxCalls = 3
SYMMETRY MCSymmetry
CHECK_DEADLOCK FALSE
INVARIANTS
    ServicesTypeOK SignedIsVerifiable ActivePerUnit PaidOnce StateMatchesPayment CountedOnce AdmitsOnce
    AcceptedAsLocked ChangeIsOverpaid RoundingIsBounded QuoteMatchesNode
PROPERTIES
    NeverRevived
