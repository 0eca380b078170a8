CONSTANTS
    u1 = u1
    d1 = d1
    d2 = d2
    t1 = t1
    c1 = c1
    c2 = c2
    c3 = c3
    w1 = w1
    w2 = w2
    Users = {u1}
    Conns = {c1, c2, c3}
    Workers = {w1, w2}
    Requests <- OneUserRequests
    NoUser = NoUser
    NoConn = NoConn
    Empty = Empty
    NoWorker = NoWorker
    MaxConns = 2
    Exclusive = TRUE
    MaxPackets = 3
    MaxAdminOps = 1
SYMMETRY Symmetry
SPECIFICATION Spec
CHECK_DEADLOCK FALSE
INVARIANT ClosedIsRemoved
