CONSTANTS
    m1 = m1
    m2 = m2
    e1 = e1
    e2 = e2
    NoModel = NoModel
    NoAnswer = NoAnswer
    NoKey = NoKey
    NoFlight = NoFlight
    Requests = {r1, r2}
    Models <- MCModels
    Entities <- MCEntities
    Loaded <- MCLoaded
    OnlineVector <- MCOnlineVector
    Sensitive <- MCSensitive
    Payloads <- PartPayloads
    Inputs <- PartInputs
    Faults <- NoFaults
    Expiry = FALSE
    MaxSweeps = 0
    BatchSize = 1
SPECIFICATION Spec
CHECK_DEADLOCK FALSE
INVARIANTS AnswersOwnEntity
