SPECIFICATION Spec
CONSTANTS
    o1 = o1
    o2 = o2
    u1 = u1
    p1 = p1
    p2 = p2
    h1 = h1
    h2 = h2
    NoOrder = NoOrder
    Order = {o1}
    Customer = {u1}
    Product = {p1}
    Handler = {h1, h2}
    Owner <- MCOwner
    InitialStock <- MCInitialStock
    MaxQty = 1
    InvoiceInput = {"file", "removed"}
    TransactionInput = {"own"}
    MaxFaults = 0
SYMMETRY MCSymmetry
INVARIANT OnTheWayHasShipping
PROPERTY PaymentKeepsDispatch
PROPERTY InvoiceKept
