\* One order of two units, its packages and returns, over two warehouses that
\* transfer, count, write off and sell beside it; and an order of a channel.
SPECIFICATION MCSpec
CONSTANTS
    w1 = w1
    w2 = w2
    recv = recv
    stor = stor
    quar = quar
    far = far
    Warehouses = {w1, w2}
    Bins = {stor, recv, far, quar}
    WarehouseOf <- MCWarehouseOf
    Purpose <- MCPurpose
    Putaways = {u1}
    Transfers = {t1}
    Counts = {c1}
    Dispositions = {d1}
    Quantities = {1}
    MaxStock = 2
    Reservations = {r1, r2, r3}
    Packages = {p1, p2}
    Picks = {k1, k2}
    Returns = {a1, a2}
    Ordered = 2
    MaxMovements = 1
    Digests = {1, 2}
    SalesOrders = {so1}
    MaxAttempts = 2
    None = None
SYMMETRY Symmetry
INVARIANTS
    StockIsCosted
    PromisesAreBacked
    BinHoldsAreOwned
    ReturnsWithinDelivery
    ReservedAsApproved
CHECK_DEADLOCK FALSE
