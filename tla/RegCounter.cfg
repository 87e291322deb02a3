CONSTANTS
    Requests = {r1, r2, r3}
    Keys = {j1, j2}
    Nobody = Nobody
    NoNumber = NoNumber
SPECIFICATION FairSpec
CHECK_DEADLOCK FALSE
INVARIANT
    DistinctNumbers
PROPERTIES
    TakesNumbersAtomically
    EveryRequestEnds
