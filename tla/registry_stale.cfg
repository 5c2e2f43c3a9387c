CONSTANTS
    logistic = logistic
    tree = tree
    NoRow = NoRow
    NoModel = NoModel
    NoClient = NoClient
    NoEntry = NoEntry
    Trainers <- MCTrainers
    Clients <- MCClients
    Runs = {j1, j2}
    Rollbacks = {}
    Readers = {}
    Accuracies = {1, 2}
    Overlap = FALSE
    Expiry = FALSE
    Faults <- NoFaults
SPECIFICATION Spec
CHECK_DEADLOCK FALSE
INVARIANTS RefreshedChampionIsCurrent
