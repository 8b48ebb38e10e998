SPECIFICATION FairSpec
CONSTANTS
    Sale = {1, 2, 3}
    Request = {r1, r2}
    NoSale = NoSale
    BatchSize = 2
    MaxAttempts = 1
    NoCashier = {}
    NoProduct = {1}
    MaxFaults = 2
INVARIANTS NoHalfSale
PROPERTIES DeliversOnce EverySaleArrives
