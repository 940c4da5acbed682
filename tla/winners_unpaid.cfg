SPECIFICATION FairSpec
CONSTANTS
    serv = serv
    tool = tool
    b1 = b1
    b2 = b2
    p1 = p1
    p2 = p2
    p3 = p3
    r1 = r1
    r2 = r2
    Bills = {b1}
    PayIns = {p1, p2}
    BillOf <- MCBillOf
    Amount <- MCAmount
    TxFee = 0
    Grades <- MCGrades
    Requests = {r1}
    Workers = {serv}
    Tools = {}
PROPERTY WinnersPaid
CHECK_DEADLOCK FALSE
