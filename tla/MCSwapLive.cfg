SPECIFICATION FairNotifySpec
CONSTANTS
    p1 = p1  p2 = p2  b1 = b1  b2 = b2
    r1 = r1  r2 = r2  a1 = a1  a2 = a2  c1 = c1
    Requests = {r1, r2}
    Proofs <- MCProofs
    Outputs <- MCOutputs
    Units <- MCUnits
    ProofAmount <- MCProofAmount
    ProofFeePpk <- MCProofFeePpk
    ProofUnit <- MCProofUnit
    OutputAmount <- MCOutputAmount
    OutputUnit <- MCOutputUnit
    Word = 256
    MaxLen = 1
    Faults = {"signer", "database"}
    Clients = {c1}
    FilterLists <- MCOneFilter
    Capacity = 1
    Attempts = {a1}
    MeltInputs <- MCMeltInputs
    PoolSize = 2
CHECK_DEADLOCK FALSE
INVARIANTS
    NotifyTypeOK NoPanic ToldTruth
PROPERTIES
    PendingResolves EveryRequestEnds SubscriberLearns WatchRemoved
