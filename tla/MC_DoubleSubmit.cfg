\* Two requests: a customer with two products and one with the first of them,
\* two units of one and one of the other, and a single-use coupon.
SPECIFICATION Spec
CONSTANTS
    k1 = k1  k2 = k2  p1 = p1  p2 = p2  i1 = i1  i2 = i2  i3 = i3
    Customer = {k1, k2}
    Product = {p1, p2}
    Order = {o1, o2}
    Item = {i1, i2, i3}
    OwnerOf <- MCOwners
    ProductOf <- MCProducts
    InitialStock <- MCStock
    MaxUses = 1
    Worker = {w1, w2}
    None = None
SYMMETRY MCSymmetry
INVARIANTS TypeOK LinesAccounted CouponCounted
PROPERTIES ImplementsSale
