SPECIFICATION Spec
CONSTANTS
    Reader = {r1, r2}
    Writer = {w1, w2}
    ListTTL = 2
    BarcodeTTL = 3
    FillTime = 1
    MaxWrites = 2
SYMMETRY Symmetry
INVARIANTS NoOlderThanTTL OldListWasLate
