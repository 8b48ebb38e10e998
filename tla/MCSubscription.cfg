SPECIFICATION Spec
CONSTANTS
    Store = {st1}
    Payment = {p1, p2}
    Session = {s1, s2}
    NoStore = NoStore
    NoPayment = NoPayment
    Trial = 1
    Month = 2
    Months = {1, 2}
    MaxTime = 2
    MaxRequests = 5
SYMMETRY Symmetry
CHECK_DEADLOCK FALSE
INVARIANTS NeverMoreThanGranted CountedByOverlapOnly AnsweredIsCounted
PROPERTIES SuspensionHolds ApartIsExact
