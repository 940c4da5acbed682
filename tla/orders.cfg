SPECIFICATION Spec
CONSTANTS
    serv = serv
    tool = tool
    p1 = p1
    p2 = p2
    o1 = o1
    alt = alt
    PayIns = {p1, p2}
    ShopOrders = {o1}
    Xcurrs = {alt}
    OrderOf <- MCOrderOf
    XcurrOf <- MCXcurrOf
    Amounts <- MCAmounts
    SameCurr = {}
    Worth <- MCWorth
    Price <- MCPrice
    NotConvert = {}
    NoteOn <- MCNoteOn
    TxFee <- MCTxFee
    ConfSoft <- MCConfSoft
    ConfHard <- MCConfHard
    ConfTrue <- MCConfTrue
    Workers = {serv, tool}
    Tools = {tool}
    NoRow = NoRow
    RefuseTries = 1
    Unsettled = {p1, p2}
    MaxBlock = 2
INVARIANTS
    TypeOK
    StackExact
    ShopPaidOnce
    UnpaidBelowPrice
    RefundBounded
    ExpiredReturned
    PayedSumsValid
PROPERTY ImplementsInvoice
SYMMETRY Symmetry
CONSTRAINT NoneTorn
CHECK_DEADLOCK FALSE
