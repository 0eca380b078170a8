CONSTANTS
    p1 = p1
    p2 = p2
    w1 = w1
    w2 = w2
    t1 = t1
    t2 = t2
    t3 = t3
    IOThreads = {p1, p2}
    Workers = {w1, w2}
    Tasks = {t1, t2, t3}
    Capacity = 2
    NoTask = NoTask
SYMMETRY Symmetry
SPECIFICATION Spec
CHECK_DEADLOCK FALSE
INVARIANTS
    RunsAtMostOnce
    TokensMatchTasks
    StopDrains
    StopWakesEveryWorker
