CONSTANTS
    m1 = m1
    m2 = m2
    e1 = e1
    e2 = e2
    NoModel = NoModel
    NoAnswer = NoAnswer
    NoKey = NoKey
    NoFlight = NoFlight
    Requests = {r1, r2}
    Models <- OneModel
    Entities <- OneEntity
    Loaded <- OneLoaded
    OnlineVector <- MCOnlineVector
    Sensitive <- MCSensitive
    Payloads <- NoPayload
    Inputs <- SameInputs
    Faults <- SweepFaults
    Expiry = FALSE
    MaxSweeps = 2
    BatchSize = 1
SPECIFICATION Spec
CHECK_DEADLOCK FALSE
SYMMETRY Symmetry
INVARIANTS SweepLeavesOnlyLateWrites
