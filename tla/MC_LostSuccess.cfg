\* Two attempts that both succeed while the order expires.
SPECIFICATION Spec
CONSTANTS
    o1 = o1  o2 = o2  p1 = p1  r1 = r1  r2 = r2  c1 = c1
    Order = {o1}
    Product = {p1}
    Need <- MCNeed
    InitialStock <- MCStock
    CouponOrders = {o1}
    MaxUses = 1
    OnlineRow = {r1, r2}
    CashRow = {}
    OrderOf <- MCOneOrder
    Worker = {w1, w2}
    None = None
    MaxFaults = 0
SYMMETRY MCWorkersAndRows
CHECK_DEADLOCK FALSE
INVARIANTS AckedSuccessIsRecorded
