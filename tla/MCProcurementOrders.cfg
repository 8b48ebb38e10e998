SPECIFICATION Spec
CONSTANTS
    p1 = p1
    p2 = p2
    o1 = o1
    o2 = o2
    i1 = i1
    i2 = i2
    i3 = i3
    Session = {s1, s2}
    Product = {p1}
    Order = {o1, o2}
    Item = {i1, i2}
    Note = {g1}
    Invoice = {v1}
    Free = Free
    NoOrder = NoOrder
    NoItem = NoItem
    NoNote = NoNote
    Ordered <- Wanted
    Deliveries <- Odd
    OpeningStatus <- OneDraft
    OpeningItems <- OneItem
    OpeningStock <- Empty
    Admitted <- Migrated
    MaxRequests = 6
INVARIANTS MatchedGoodsCame
