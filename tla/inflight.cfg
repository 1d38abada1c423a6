CONSTANTS
    Callers = {p1, p2, p3}
    Keys = {k1, k2}
    Results = {r1}
    Error = Error
    Ids = {c1, c2, c3}
    Nil = Nil
SPECIFICATION InflightFairSpec
PROPERTIES EveryCallerReturns Coalesces
