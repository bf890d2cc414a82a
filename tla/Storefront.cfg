SPECIFICATION Spec
CONSTANTS
    c1 = c1
    c2 = c2
    b1 = b1
    b2 = b2
    p1 = p1
    p2 = p2
    u1 = u1
    u2 = u2
    h1 = h1
    h2 = h2
    NoId = NoId
    Category = {c1, c2}
    Brand = {b1, b2}
    Product = {p1, p2}
    Handler = {h1, h2}
    Customer = {u1, u2}
    Name = {"lamps", "ryo"}
    Form <- MCForm
    Seed <- MCSeed
    Rating = {4, 5}
    MaxQty = 2
    MaxRequests = 3
SYMMETRY MCSymmetry
CHECK_DEADLOCK FALSE
INVARIANT TypeOK
INVARIANT ReferencesHold
INVARIANT FacetsAddUp
INVARIANT PagesPartition
INVARIANT StockFollowsLedger
INVARIANT CartKeepsRequests
INVARIANT NoLineLost
