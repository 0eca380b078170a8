CONSTANTS
    u1 = u1
    u2 = u2
    c1 = c1
    k1 = k1
    k2 = k2
    w1 = w1
    w2 = w2
    Users = {u1, u2}
    Convs = {c1}
    Keys = {k1, k2}
    NoKey = NoKey
    Members <- OnlyU1
    SendRequests <- Requests
    ReadSeqs = {2}
    Workers = {w1, w2}
    NoWorker = NoWorker
    NoRequest = NoRequest
    DedupSize = 1
    MaxRequests = 4
    MaxFaults = 1
    MaxStalls = 1
    MaxCrashes = 1
    Limits = {0, 1}
    SyncDefault = 3
    SyncMax = 2
SYMMETRY Symmetry
SPECIFICATION SyncSpec
CHECK_DEADLOCK FALSE
INVARIANTS
    StoredOnce
    SeqUnique
    NoInflightLeak
    NewMessageUnhides
    AckedIsStored
    CacheConsistent
    NothingSkipped
    UnreadExact
    PushedInOrder
PROPERTY ReceiptsNeverGoBack
