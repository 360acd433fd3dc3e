SPECIFICATION HotSpec
CONSTANTS
    Orders = {o1, o2}
    Crypto = crypto
    Futures = futures
    Threads = {crypto, futures}
    NoOrder = NoOrder
    NoThread = NoThread
    TotalQty = 2
    MaxFilled = 1
INVARIANTS
    HotTypeOK
    FilledIsProtected
    FileNotAhead
PROPERTIES
    MovesAreLegal
    LedgerSpec
