------------------------------ MODULE MCRates ------------------------------
\* Bitcoin, dollar and rouble.  Two exchanges trade a bitcoin for two dollars,
\* or three; a rouble is worth half a dollar.
EXTENDS Rates
CONSTANTS RUB, btce, cryptsy, yahoo, p1, p2
MCExchgs == <<btce, cryptsy, yahoo>>
MCApiType == [e \in {btce, cryptsy, yahoo} |->
    IF e = btce THEN "btc-e_3" ELSE IF e = cryptsy THEN "cryptsy" ELSE "fiat"]
MCRowOf == <<[exchg |-> btce, pair |-> <<BTC, USD>>],
             [exchg |-> cryptsy, pair |-> <<BTC, USD>>],
             [exchg |-> yahoo, pair |-> <<RUB, USD>>]>>
MCPrices == <<{[sell |-> 19900, buy |-> 20000], [sell |-> 30000, buy |-> 30000]},
              {[sell |-> 19800, buy |-> 20000]},
              {[sell |-> 5000, buy |-> 5000]}>>
MCHardPrice == [q \in Pairs |-> 0]
MCBaseVol == [q \in {<<BTC, USD>>, <<RUB, USD>>} |-> 100]
MCBasePerc == [q \in {<<BTC, USD>>, <<RUB, USD>>} |-> 20]
MCPrice == [c \in BillCurrs |-> 1000]
=============================================================================
