CONSTANTS
    a1 = a1
    a2 = a2
    l1 = l1
    o1 = o1
    s1 = s1
    App = {a1, a2}
    IO = IO
    Checker = Checker
    Reconnector = Reconnector
    Logins = {l1}
    Others = {}
    Syncs = {s1}
    NoThread = NoThread
    None = None
    MaxConnects = 2
    MaxCloses = 1
    Kicks = TRUE
SPECIFICATION FairSpec
CHECK_DEADLOCK FALSE
INVARIANTS
    OneOutcome
    KickIsFinal
    LoggedInIsConnected
    StatesAgree
PROPERTY RequestsSettle
