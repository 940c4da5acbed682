SPECIFICATION Spec
CONSTANTS
    n1 = n1
    t1 = t1
    w1 = w1
    w2 = w2
    Names = {n1}
    Txs = {t1}
    Requests = {w1, w2}
    PriceOf <- MCPriceOf
    MaxOuts = 2
SYMMETRY MCSymmetry
INVARIANTS
    TypeOK
    PaidReachesBill
CHECK_DEADLOCK FALSE
