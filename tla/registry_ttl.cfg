CONSTANTS
    logistic = logistic
    tree = tree
    NoRow = NoRow
    NoModel = NoModel
    NoClient = NoClient
    NoEntry = NoEntry
    Trainers <- MCTrainers
    Clients <- MCClients
    Runs = {j1, j2}
    Rollbacks = {}
    Readers = {r1}
    Accuracies = {1}
    Overlap = FALSE
    Expiry = TRUE
    Faults <- NoFaults
SPECIFICATION FairSpec
CHECK_DEADLOCK FALSE
PROPERTIES CacheConverges
