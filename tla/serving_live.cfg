CONSTANTS
    m1 = m1
    m2 = m2
    e1 = e1
    e2 = e2
    NoModel = NoModel
    NoAnswer = NoAnswer
    NoKey = NoKey
    NoFlight = NoFlight
    Requests = {r1, r2, r3}
    Models <- MCModels
    Entities <- MCEntities
    Loaded <- MCLoaded
    OnlineVector <- MCOnlineVector
    Sensitive <- MCSensitive
    Payloads <- WholePayloads
    Inputs <- SameInputs
    Faults <- LiveFaults
    Expiry = FALSE
    MaxSweeps = 0
    BatchSize = 1
SPECIFICATION FairSpec
CHECK_DEADLOCK FALSE
INVARIANTS TypeOK FlightHasLeader WaitersAreRegistered CachedByOwnModel
PROPERTIES ImplementsFlights EveryRequestEnds
