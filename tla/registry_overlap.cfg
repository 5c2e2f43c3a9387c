CONSTANTS
    logistic = logistic
    tree = tree
    NoRow = NoRow
    NoModel = NoModel
    NoClient = NoClient
    NoEntry = NoEntry
    Trainers <- MCTrainers
    Clients <- MCClients
    Runs = {j1, j2}
    Rollbacks = {b1}
    Readers = {}
    Accuracies = {1, 2}
    Overlap = TRUE
    Expiry = FALSE
    Faults <- RunFaults
SPECIFICATION FairSpec
CHECK_DEADLOCK FALSE
INVARIANTS ArtifactLostToOverlapOnly
PROPERTIES PromotionImproves TransactionsEnd
