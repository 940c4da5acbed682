SPECIFICATION FairSpec
CONSTANTS
    serv = serv
    curl = curl
    r1 = r1
    r2 = r2
    d1 = d1
    d2 = d2
    s1 = s1
    s2 = s2
    Refunds = {}
    Draws = {}
    Shops = {s1}
    Pollers = {serv}
    Callers = {curl}
    WithdrawOver = TRUE
    MinPay = 2
    Credits = {1, 2}
    MaxCredit = 4
    MaxFault = 2
INVARIANTS
    TypeOK
    ShopsNeverLose
PROPERTY EventuallyPaid
CHECK_DEADLOCK FALSE
