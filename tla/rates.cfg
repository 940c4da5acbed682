SPECIFICATION FairSpec
CONSTANTS
    BTC = BTC
    USD = USD
    RUB = RUB
    btce = btce
    cryptsy = cryptsy
    yahoo = yahoo
    p1 = p1
    p2 = p2
    Currs = {BTC, USD, RUB}
    Crypto = {BTC}
    Exchgs <- MCExchgs
    ApiType <- MCApiType
    Rows = {1, 2, 3}
    RowOf <- MCRowOf
    Prices <- MCPrices
    HardPrice <- MCHardPrice
    BaseVol <- MCBaseVol
    BasePerc <- MCBasePerc
    Tax = 5
    AddChange = 2
    RatesTime = 1
    BillCurrs = {BTC, RUB}
    Price <- MCPrice
    PayIns = {p1, p2}
    MaxFaults = 1
    Unit = 10000
INVARIANTS TypeOK QuoteFits AskedOnceUnlessBlind
PROPERTIES QuoteCovers RatesReturn
CHECK_DEADLOCK FALSE
