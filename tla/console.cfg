SPECIFICATION Spec
CONSTANTS
    None = None
    w1 = w1
    w2 = w2
    d1 = d1
    d2 = d2
    n1 = n1  n2 = n2  n3 = n3
    Recorders = {d1, d2}
    Names = {n1, n2, n3}
    Capacity = 2
    Backlog = 2
    BackfillSize = 1
    PruneAt = 2
    Keep = 1
    MaxBuckets = 2
    Workers <- MCWorkers
    Passwords <- MCPasswords
    Edits <- MCEdits
    Files <- MCFiles
    Budgets <- MCBudgets
    MaxFailures = 2
    Window = 2
    Lockout = 2
    IdleEvict = 2
    MaxTime = 5
    IOFails = TRUE
SYMMETRY Symmetry
CHECK_DEADLOCK FALSE
INVARIANTS AttemptsBounded   LogIsComplete
PROPERTIES  CountsAreSound
