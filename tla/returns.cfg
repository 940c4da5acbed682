SPECIFICATION Spec
CONSTANTS
    serv = serv
    curl = curl
    r1 = r1
    r2 = r2
    d1 = d1
    d2 = d2
    s1 = s1
    s2 = s2
    Refunds = {r1, r2}
    Draws = {d1, d2}
    Shops = {s1}
    Pollers = {serv}
    Callers = {curl}
    WithdrawOver = TRUE
    MinPay = 2
    Credits = {2}
    MaxCredit = 0
    MaxFault = 1
INVARIANTS
    RowsKept
    SentOnceUntroubled
CHECK_DEADLOCK FALSE
