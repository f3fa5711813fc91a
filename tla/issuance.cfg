SPECIFICATION Spec
CONSTANTS
    Orders = {o1, o2}
    Coupons = {k1, k2}
    Printed = {q1}
    Requests = {r1, r2}
    MaxScans = 2
INVARIANTS
    TypeOK
    OneCodePerOrder
PROPERTY VoidIsFinal
SYMMETRY Symmetry
