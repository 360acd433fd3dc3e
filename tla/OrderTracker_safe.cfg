\* Two threads on one order, every call of the tracker's interface.
SPECIFICATION Spec
CONSTANTS
    Orders = {o1}
    Threads = {t1, t2}
    NoOrder = NoOrder
    NoThread = NoThread
    TotalQty = 2
    MaxFilled = 1
INVARIANTS
    TypeOK
    OrdersCovered
    FileCovered
