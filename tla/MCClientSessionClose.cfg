CONSTANTS
    a1 = a1
    a2 = a2
    l1 = l1
    o1 = o1
    s1 = s1
    App = {a1}
    IO = IO
    Checker = Checker
    Reconnector = Reconnector
    Logins = {l1}
    Others = {o1}
    Syncs = {s1}
    NoThread = NoThread
    None = None
    MaxConnects = 1
    MaxCloses = 1
    Kicks = FALSE
SPECIFICATION FairSpec
CHECK_DEADLOCK FALSE
PROPERTIES
    CloseReturns
