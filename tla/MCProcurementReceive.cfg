SPECIFICATION FairSpec
CONSTANTS
    p1 = p1
    p2 = p2
    o1 = o1
    o2 = o2
    i1 = i1
    i2 = i2
    i3 = i3
    Session = {s1, s2}
    Product = {p1, p2}
    Order = {o1}
    Item = {i1, i2}
    Note = {g1, g2}
    Invoice = {}
    Free = Free
    NoOrder = NoOrder
    NoItem = NoItem
    NoNote = NoNote
    Ordered <- Wanted
    Deliveries <- Partial
    OpeningStatus <- OneApproved
    OpeningItems <- BothItems
    OpeningStock <- Empty
    Admitted <- FromModels
    MaxRequests = 4
INVARIANTS NotePostsOnce CountersArePostings
PROPERTIES StatusFollowsReceipts EveryRequestEnds
