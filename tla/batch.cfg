CONSTANTS
    m1 = m1
    m2 = m2
    anon = anon
    r1 = r1
    r2 = r2
    Runner <- MCRunner
    Anon = anon
    NoModel = NoModel
    NoAnswer = NoAnswer
    NoKey = NoKey
    NoFlight = NoFlight
    Requests = {r1, r2, r3}
    Models <- MCModels
    Entities <- MCEntities
    Loaded <- MCLoaded
    OnlineVector <- MCOnlineVector
    Sensitive <- MCSensitive
    Payloads <- MCPayloads
    Rows <- MixedRows
    Inputs <- OneOrNoModel
    Faults <- BatchFaults
    Expiry = TRUE
    MaxSweeps = 0
    BatchSize = 1
SPECIFICATION FairBatchSpec
CHECK_DEADLOCK FALSE
INVARIANTS BatchTypeOK RowsAnsweredInOrder
PROPERTIES BatchEnds
