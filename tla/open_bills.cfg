SPECIFICATION FairSpec
CONSTANTS
    serv = serv
    p1 = p1
    p2 = p2
    o1 = o1
    o2 = o2
    ltc = ltc
    PayIns = {p1, p2}
    ShopOrders = {o1, o2}
    Xcurrs = {ltc}
    OrderOf <- MCOrderOf
    XcurrOf <- MCXcurrOf
    Amounts <- MCAmounts
    SameCurr = {}
    Worth <- MCWorth
    Price <- MCPrice
    NotConvert = {o2}
    NoteOn <- MCNoteOn
    TxFee <- MCTxFee
    ConfSoft <- MCConfSoft
    ConfHard <- MCConfHard
    ConfTrue <- MCConfTrue
    Workers = {serv}
    Tools = {}
    NoRow = NoRow
    RefuseTries = 1
    Unsettled = {}
    MaxBlock = 4
INVARIANT GivenOrReturned
PROPERTY EventuallyDecided
CHECK_DEADLOCK FALSE
