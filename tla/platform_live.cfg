CONSTANTS
    Subjects = {"pipeline", "redis"}
    f1 = f1
    f2 = f2
    f3 = f3
    a = a
    b = b
    e1 = e1
    e2 = e2
    c1 = c1
    c2 = c2
    word = word
    date = date
    iso = iso
    None = None
    NoVector = NoVector
    ClientVector = ClientVector
    NoExpl = NoExpl
    NoName = NoName
    NoDate = NoDate
    Missing = Missing
    NoContract = NoContract
    NoReport = NoReport
    Jobs = {u1, u2}
    Files <- OverlappingFiles
    Features <- MCFeatures
    Entities <- MCEntities
    Columns <- MCColumns
    Rows <- MCRows
    Repeated = {}
    Halts <- MCHalts
    Engineered <- MCEngineered
    MaxValues = 3
    Disturbances = {"archive", "discovery"}
    Budget = 2
    Ops = {o1, o2}
    PoolSize = 1
    MaxRetries = 2
    MaxEvents = 2
    Generations = {g1, g2}
    Artifacts = {v1, v2}
    Payloads = {p1, p2}
    MaxTroubles = 2
    Fields = {c1, c2}
    Numbers = {0, 1}
    Texts = {word, date}
    DateForm <- MCDateForm
    Derived <- MCDerived
    NumRows = 2
    Tables <- MCTables
    Validators = {q1, q2}
    Clients = {w1, w2}
    Sent = {s1, s2}
    Analyses = {r1, r2}
SPECIFICATION FairPlatformSpec
CHECK_DEADLOCK FALSE
INVARIANTS OnlineAgreesWithOffline OneVersionPerContent
PROPERTIES UploadsAnswered CallsReturn WatchersConverge 
