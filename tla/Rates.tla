------------------------------- MODULE Rates -------------------------------
(***************************************************************************)
(* Exchange rates, from the exchanges to the amount a payment is counted   *)
(* with.  serv_rates.get polls the exchanges in a loop and stores their     *)
(* prices in exchg_pairs; rates_lib makes a rate of the prices that are not *)
(* too old; the page of a bill (bill.show_update, rates_pow) asks for an    *)
(* amount at the selling rate, and orders_lib.inputs_update counts the      *)
(* payment, once it is confirmed, at the buying rate of that moment.        *)
(*                                                                         *)
(* A rate is an integer, in parts of Unit; an amount counts hundredths of a *)
(* coin, a percentage tenths.  Time is counted in turns of the loop.        *)
(***************************************************************************)
EXTENDS BillSums, FiniteSets, Functions, FiniteSetsExt, Sequences, SequencesExt

CONSTANTS
    Currs, Crypto,  \* currs in use, and those of them with a row in xcurrs
    BTC, USD,       \* the currencies that rates are crossed over
    Exchgs,         \* the used rows of exchgs, in the order of their ids
    ApiType,        \* exchgs.API_type
    Rows, RowOf,    \* exchg_pairs: the exchange and the two currencies of a row
    Prices,         \* the prices the exchange may give for the pair of a row
    HardPrice,      \* exchg_pair_bases.hard_price, 0 for none
    BaseVol, BasePerc,  \* exchg_pair_bases: the rows for <<curr1, curr2>> (those
                    \* that set_rate_base_ecurr rewrites are constant here)
    Tax,            \* exchg_taxs.tax
    AddChange,      \* currs.add_change
    RatesTime,      \* the turns of the loop in RATES_TIME
    BillCurrs,      \* currencies that a bill may be in
    Price,          \* the price of a bill in a currency
    PayIns,         \* payments of the customer
    MaxFaults,      \* bound: calls that an exchange does not answer
    Unit

Pairs == Currs \X Currs

ASSUME RatesAssumption ==
    /\ {BTC, USD} \cup Crypto \cup BillCurrs \subseteq Currs
    /\ BTC \in Crypto /\ USD \notin Crypto
    /\ Exchgs \in Seq(ToSet(Exchgs))
    /\ IsFiniteSet(Rows) /\ IsFiniteSet(PayIns)
    /\ ApiType \in [ToSet(Exchgs) -> {"btc-e_3", "cryptsy", "fiat"}]
    /\ Rows \subseteq Nat
    /\ RowOf \in [Rows -> [exchg : ToSet(Exchgs), pair : Pairs]]
    /\ Prices \in [Rows -> SUBSET [sell : Nat \ {0}, buy : Nat \ {0}]]
    /\ HardPrice \in [Pairs -> Nat]
    /\ DOMAIN BaseVol \subseteq Pairs /\ DOMAIN BasePerc = DOMAIN BaseVol
    /\ Tax \in 0..999 /\ AddChange \in Nat /\ RatesTime \in Nat
    /\ Price \in [BillCurrs -> Nat \ {0}]
    /\ MaxFaults \in Nat /\ Unit \in Nat \ {0}

VARIABLES
    exchg_pairs,    \* the prices in the rows, and the turns since they came
    at,             \* the exchange that the loop is at
    i_p3,           \* turns counted for the fiat currencies
    running,        \* the loop runs
    order,          \* the bill: its currency and its sums
    pay_ins,        \* the payments
    page,           \* what the page of the bill asks for (kept for the
                    \* properties: sure, nothing is estimated in it and no rate
                    \* has changed since; same, no rate has changed since)
    faults,         \* answers that failed to come
    \* kept for the properties:
    sure,           \* payments of the whole of what the page asked for, with
                    \* nothing estimated in it, and no change of a rate since
    steady,         \* no rate has changed since the page of the first payment
    blind           \* the page was shown while a payment had its amo_out, but
                    \* was not yet in the sums of the bill

loopVars == <<exchg_pairs, at, i_p3, running>>
ghosts == <<sure, steady, blind>>
vars == <<loopVars, order, pay_ins, page, faults, ghosts>>

Old == RatesTime + 1
Period3 == 3
PayStatus == {"NONE", "NEW", "SOFT"}

-----------------------------------------------------------------------------
(* rates_lib: rates from prices.  A rate has a buying side "b" and a selling *)
(* side "s", which are known together; 0 stands for a rate that is not       *)
(* known.  The average of the sides is used for nothing else here.           *)

Times(a, b) == (a * b) \div Unit
Percent(a, n) == (a * n) \div 1000          \* n in tenths of a percent

AddTax(side, r) ==
    IF side = "b" THEN Percent(r, 1000 - Tax) ELSE (r * 1000) \div (1000 - Tax)

Fresh(in, out) ==
    {i \in Rows : /\ RowOf[i].pair = <<in, out>>
                  /\ exchg_pairs[i].age <= RatesTime /\ exchg_pairs[i].bp1 # 0}

PriceIn(side, i) == IF side = "b" THEN exchg_pairs[i].bp1 ELSE exchg_pairs[i].sp1

\* get_average_rate_bsa_1: a hard price, or the average of the exchanges.
AverageOf(side, in, out) ==
    IF HardPrice[<<in, out>>] # 0
    THEN Percent(HardPrice[<<in, out>>], IF side = "b" THEN 990 ELSE 1010)
    ELSE SumFunctionOnSet([i \in Rows |-> PriceIn(side, i)], Fresh(in, out))
             \div Max({1, Cardinality(Fresh(in, out))})

Known(rate, other) == IF rate # 0 THEN rate ELSE other
TurnedRound(rate) == IF rate = 0 THEN 0 ELSE (Unit * Unit) \div rate

\* get_average_rate_bsa_2: the pair, or the pair turned round; the sides stay.
DirectRate(side, in, out) ==
    IF in = out THEN Unit
    ELSE Known(AverageOf(side, in, out), TurnedRound(AverageOf(side, out, in)))

Cross(c) == IF c \in Crypto THEN BTC ELSE USD

\* get_average_rate_bsa: the pair, or a way over bitcoin and the dollar.
AverageRate(side, in, out) ==
    IF in = out THEN Unit
    ELSE AddTax(side, Known(DirectRate(side, in, out),
                            Times(Times(DirectRate(side, in, Cross(in)),
                                        DirectRate(side, Cross(in), Cross(out))),
                                  DirectRate(side, Cross(out), out))))

\* get_pow_rate_par_1: the volume from which on the percentage grows, in the
\* currency in, and the percentage.  rev is the rate from in to out.
HasPar(in, out) ==
    in = out \/ <<in, out>> \in DOMAIN BaseVol \/ <<out, in>> \in DOMAIN BaseVol

ParVol(in, out, rev) ==
    IF in = out THEN 10000000               \* 100000 coins
    ELSE IF <<in, out>> \in DOMAIN BaseVol THEN BaseVol[<<in, out>>]
    ELSE (BaseVol[<<out, in>>] * Unit) \div rev

ParPerc(in, out) ==
    IF in = out THEN 0
    ELSE IF <<in, out>> \in DOMAIN BasePerc THEN BasePerc[<<in, out>>]
    ELSE BasePerc[<<out, in>>]

\* get_pow_rate_par: those of the pair, or of the way over the others.
PowVol(in, out, rev) ==
    IF HasPar(in, out) THEN ParVol(in, out, rev)
    ELSE ParVol(in, Cross(in), AverageRate("b", in, Cross(in)))

PowPerc(in, out) ==
    IF HasPar(in, out) THEN ParPerc(in, out)
    ELSE ParPerc(in, Cross(in)) + ParPerc(Cross(out), out) + ParPerc(Cross(in), Cross(out))

\* Each pair has a row or a way, without which get_best_rates and
\* get_bill_rates raise (rates_lib.py:237), and ten percentages leave something
\* of a rate: they are about half a percent (rates_lib.py:246).
ASSUME PercAssumption ==
    \A in, out \in Currs : PowPerc(in, out) \in 0..99

\* The number of percentages to pay for a volume: one more for each time
\* that it trebles, ten at most.
Power(vol, amo) ==
    1 + Min({9} \cup {k \in 0..9 : amo \div 3^k < vol})

\* get_best_rate, on the buying side of get_best_rates: what a coin paid is
\* counted with.  There is no percentage where the currencies are the same.
Lowered(rate, in, out, amo) ==
    IF rate = 0 THEN 0
    ELSE Percent(rate, 1000 - Power(PowVol(in, out, rate), amo) * PowPerc(in, out))

BestRate(in, out, amo) == Lowered(AverageRate("b", in, out), in, out, amo)

\* get_bill_rates, on the selling side: what a coin of the bill costs.  The
\* volume it grows from is one of the bill's currency, and is compared with
\* one of the currency paid.

\* Variant: the percentage of the way back is forgotten.
RaisedPlain(rate, out, in, amo) == rate

Raised(rate, out, in, amo) ==
    IF rate = 0 THEN 0
    ELSE Percent(rate, 1000 + Power(PowVol(out, in, rate), Times(amo, rate)) * PowPerc(out, in))

BillRate(out, in, amo) == Raised(AverageRate("s", out, in), out, in, amo)

-----------------------------------------------------------------------------
(* serv_rates: the loop. *)

Init ==
    /\ exchg_pairs = [i \in Rows |-> [sp1 |-> 0, bp1 |-> 0, age |-> Old]]
    /\ at = 1 /\ i_p3 = Period3 /\ running = TRUE
    /\ \E c \in BillCurrs :
           order = [curr |-> c, status |-> "NEW",
                    payed_soft |-> 0, payed_hard |-> 0, payed_true |-> 0]
    /\ pay_ins = [p \in PayIns |->
           [status |-> "NONE", curr |-> USD, amount |-> 0, amo_out |-> 0]]
    /\ page = [curr |-> USD, amount |-> 0, sure |-> FALSE, same |-> FALSE]
    /\ faults = 0
    /\ sure = {} /\ steady = TRUE /\ blind = FALSE

RowsOf(e) == {i \in Rows : RowOf[i].exchg = e}

Seen == {p \in PayIns : pay_ins[p].status = "NEW"}

\* The prices rates are made of.
Table(rows) ==
    [i \in Rows |-> IF rows[i].age <= RatesTime THEN <<rows[i].sp1, rows[i].bp1>> ELSE <<>>]

SetRows(rows) ==
    LET same == Table(rows) = Table(exchg_pairs) IN
    /\ exchg_pairs' = rows
    /\ page' = [page EXCEPT !.sure = @ /\ same, !.same = @ /\ same]
    /\ sure' = IF same THEN sure ELSE {}
    /\ steady' = (steady /\ (same \/ \A p \in PayIns : pay_ins[p].status = "NONE"))
    /\ UNCHANGED <<order, pay_ins, blind>>

\* get_all comes to the next exchange.
Polls(e, types) ==
    /\ running
    /\ at <= Len(Exchgs)
    /\ e = Exchgs[at]
    /\ ApiType[e] \in types
    /\ at' = at + 1

\* Variant: on_update is not set.
StoredOld(price) == [sp1 |-> price.sell, bp1 |-> price.buy, age |-> Old]

Stored(price) == [sp1 |-> price.sell, bp1 |-> price.buy, age |-> 0]

\* from_btc_e_3: one call for all pairs.  A price is stored in the first row
\* with its two currencies, whatever exchange the row is of.
FirstRow(i) == Min({j \in Rows : RowOf[j].pair = RowOf[i].pair})

PollBtce(e) ==
    /\ Polls(e, {"btc-e_3"})
    /\ \E answer \in [RowsOf(e) -> UNION {Prices[i] : i \in RowsOf(e)}] :
        /\ \A i \in RowsOf(e) : answer[i] \in Prices[i]
        /\ SetRows([j \in Rows |->
               LET I == {i \in RowsOf(e) : FirstRow(i) = j} IN
               IF I = {} THEN exchg_pairs[j] ELSE Stored(answer[Max(I)])])
    /\ UNCHANGED <<i_p3, running, faults>>

\* from_cryptsy: a call for each pair; one that fails is left out.
PollCryptsy(e) ==
    /\ Polls(e, {"cryptsy"})
    /\ \E S \in SUBSET RowsOf(e) :
        /\ faults' = faults + Cardinality(RowsOf(e) \ S)
        /\ faults' <= MaxFaults
        /\ \E answer \in [S -> UNION {Prices[i] : i \in S}] :
            /\ \A i \in S : answer[i] \in Prices[i]
            /\ SetRows([j \in Rows |->
                   IF j \in S THEN Stored(answer[j]) ELSE exchg_pairs[j]])
    /\ UNCHANGED <<i_p3, running>>

\* form_fiats: only in the turns that are counted for it.
turn3 == i_p3 >= Period3

PollFiat(e) ==
    /\ Polls(e, {"fiat"})
    /\ \E answer \in [RowsOf(e) -> UNION {Prices[i] : i \in RowsOf(e)}] :
        /\ \A i \in RowsOf(e) : answer[i] \in Prices[i]
        /\ SetRows([j \in Rows |->
               IF j \in RowsOf(e) /\ turn3 THEN Stored(answer[j]) ELSE exchg_pairs[j]])
    /\ UNCHANGED <<i_p3, running, faults>>

\* fetch raises, and nothing in the loop catches it.
Fail(e) ==
    /\ Polls(e, {"btc-e_3"} \cup IF turn3 THEN {"fiat"} ELSE {})
    /\ faults < MaxFaults
    /\ faults' = faults + 1
    /\ running' = FALSE
    /\ UNCHANGED <<exchg_pairs, i_p3, order, pay_ins, page, ghosts>>

Aged == [i \in Rows |-> [exchg_pairs[i] EXCEPT !.age = IF @ < Old THEN @ + 1 ELSE Old]]

\* Variant: the count is not cleared.
SleepUncleared ==
    /\ running
    /\ at > Len(Exchgs)
    /\ at' = 1
    /\ i_p3' = i_p3 + 1
    /\ SetRows(Aged)
    /\ UNCHANGED <<running, faults>>

\* The end of a turn, and the time until the next one.
Sleep ==
    /\ running
    /\ at > Len(Exchgs)
    /\ at' = 1
    /\ i_p3' = IF i_p3 + 1 >= Period3 THEN 0 ELSE i_p3 + 1
    /\ SetRows(Aged)
    /\ UNCHANGED <<running, faults>>

\* Time passes while the loop is down; somebody starts it again.
Down ==
    /\ ~running
    /\ Aged # exchg_pairs
    /\ SetRows(Aged)
    /\ UNCHANGED <<at, i_p3, running, faults>>

Restart ==
    /\ ~running
    /\ running' = TRUE /\ at' = 1 /\ i_p3' = Period3
    /\ UNCHANGED <<exchg_pairs, order, pay_ins, page, faults, ghosts>>

-----------------------------------------------------------------------------
(* The page of the bill, and the customer. *)

ToPay == Max({0, Price[order.curr] - AllPayed(order)})

Unrated == {p \in Seen : pay_ins[p].amo_out = 0}

\* Variants: a payment is expected to bring nothing, or the half.
ExpectedNone(p) == 0
ExpectedHalf(p) ==
    (pay_ins[p].amount * Unit) \div (2 * BillRate(order.curr, pay_ins[p].curr, ToPay))

\* What a payment on its way is expected to be counted with.
Expected(p) ==
    (pay_ins[p].amount * Unit) \div BillRate(order.curr, pay_ins[p].curr, ToPay)

Estimated ==
    SumFunctionOnSet([p \in PayIns |-> IF p \in Unrated THEN Expected(p) ELSE 0], PayIns)

Estimable == \A p \in Unrated : BillRate(order.curr, pay_ins[p].curr, ToPay) # 0

\* What is left to pay, in currency c, with a margin for a change of the rate.
Asked(c, rate, left) ==
    LET margin == IF c = order.curr THEN 0 ELSE 10 * AddChange IN
    Times(rate, Percent(left, 1000 + margin))

\* show_update fails if a payment has come in a currency without a rate now.
ShowUpdate(c) ==
    /\ order.status \in {"NEW", "FILL"}
    /\ Estimable
    /\ LET left == ToPay - Estimated
           rate == BillRate(order.curr, c, ToPay)
       IN  /\ left > 0 /\ rate # 0
           /\ page' = [curr |-> c, amount |-> Asked(c, rate, left),
                       sure |-> Unrated = {}, same |-> TRUE]
    /\ blind' = (blind \/ \E p \in Seen : pay_ins[p].amo_out # 0)
    /\ UNCHANGED <<loopVars, order, pay_ins, faults, sure, steady>>

\* The customer sends what the page asks for, or a half of it, and looks at
\* the page again when it lists the payment, which the wallet has seen.
Pay(p) ==
    /\ pay_ins[p].status = "NONE"
    /\ p = CHOOSE q \in PayIns : pay_ins[q].status = "NONE"
    /\ page.amount > 1
    /\ \E amount \in {page.amount, page.amount \div 2} :
        /\ pay_ins' = [pay_ins EXCEPT ![p] =
               [status |-> "NEW", curr |-> page.curr, amount |-> amount, amo_out |-> 0]]
        /\ sure' = IF page.sure /\ amount = page.amount THEN sure \cup {p} ELSE sure
    /\ steady' = (steady /\ page.same)
    /\ page' = [page EXCEPT !.amount = 0]
    /\ UNCHANGED <<loopVars, order, faults, blind>>

-----------------------------------------------------------------------------
(* orders_lib.inputs_update, up to the first confirmation. *)

\* A difference with what is left to pay under 1% of the price is forgiven.
Accurate(amo) ==
    LET rest == Price[order.curr] - AllPayed(order)
        diff == IF amo > rest THEN amo - rest ELSE rest - amo
    IN  IF 100 * diff < Price[order.curr] THEN rest ELSE amo

\* get_amo_out, at the rate of the moment; 0 while there is none.
AmoOut(p) ==
    LET pay == pay_ins[p]
        rate == BestRate(pay.curr, order.curr, pay.amount)
    IN  IF pay.amo_out # 0 THEN pay.amo_out
        ELSE IF pay.curr = order.curr THEN pay.amount
        ELSE IF rate = 0 THEN 0 ELSE Accurate(Times(pay.amount, rate))

\* No confirmation yet: only a payment that needs no rate gets its amo_out.
VisitUnconfirmed(p) ==
    /\ pay_ins[p].status = "NEW"
    /\ pay_ins[p].curr = order.curr
    /\ pay_ins[p].amo_out = 0
    /\ pay_ins' = [pay_ins EXCEPT ![p].amo_out = AmoOut(p)]
    /\ UNCHANGED <<loopVars, order, page, faults, ghosts>>

VisitConfirmed(p) ==
    LET amo == AmoOut(p)
        s == Counted(order, "NEW", "SOFT", amo, amo)
    IN
    /\ pay_ins[p].status = "NEW"
    /\ amo # 0
    /\ pay_ins' = [pay_ins EXCEPT ![p].amo_out = amo, ![p].status = "SOFT"]
    /\ order' = [order EXCEPT
           !.payed_soft = s.payed_soft,
           !.status = NewStatus(Price[order.curr], s, order.status)]
    /\ UNCHANGED <<loopVars, page, faults, ghosts>>

Next ==
    \/ \E e \in ToSet(Exchgs) : PollBtce(e) \/ PollCryptsy(e) \/ PollFiat(e) \/ Fail(e)
    \/ Sleep \/ Down \/ Restart
    \/ \E c \in Crypto : ShowUpdate(c)
    \/ \E p \in PayIns : Pay(p) \/ VisitUnconfirmed(p) \/ VisitConfirmed(p)

Spec == Init /\ [][Next]_vars

\* The loop goes on while it runs, and is started again; an exchange answers
\* in the end, as the bound on faults says.
FairSpec ==
    /\ Spec
    /\ WF_vars(\E e \in ToSet(Exchgs) : PollBtce(e) \/ PollCryptsy(e) \/ PollFiat(e))
    /\ WF_vars(Sleep) /\ WF_vars(Restart)

-----------------------------------------------------------------------------
\* The types of the variables.
TypeOK ==
    /\ exchg_pairs \in [Rows -> [sp1 : Nat, bp1 : Nat, age : 0..Old]]
    /\ at \in 1..(Len(Exchgs) + 1) /\ i_p3 \in 0..Period3 /\ running \in BOOLEAN
    /\ order \in [curr : BillCurrs, status : {"NEW", "FILL", "SOFT"},
                  payed_soft : Int, payed_hard : {0}, payed_true : {0}]
    /\ pay_ins \in [PayIns ->
           [status : PayStatus, curr : Currs, amount : Nat, amo_out : Int]]
    /\ page \in [curr : Currs, amount : Nat, sure : BOOLEAN, same : BOOLEAN]
    /\ faults \in 0..MaxFaults
    /\ sure \subseteq PayIns /\ steady \in BOOLEAN /\ blind \in BOOLEAN

\* What a payment is counted with at the rates of the moment.
Value(c, amo) ==
    IF c = order.curr THEN amo ELSE Times(amo, BestRate(c, order.curr, amo))

\* A tenth above the price.
Limit == Percent(Price[order.curr], 1100)

\* The two sides of the rates are near enough, at the prices of the moment: what
\* a payment is worth is within 9% of what it is expected to be counted with,
\* what the page asks for, or the half of it, within 9% of what is left, and
\* with nothing on its way that is worth what is left but for less than 1% of
\* the price.  That is up to the exchanges and to the percentages: the code
\* does not compare them.
QuoteFits ==
    order.status \in {"NEW", "FILL"} /\ Estimable =>
        /\ \A p \in Unrated :
               100 * Value(pay_ins[p].curr, pay_ins[p].amount) <= 109 * Expected(p)
        /\ \A c \in Crypto :
            LET left == ToPay - Estimated
                rate == BillRate(order.curr, c, ToPay)
                asked == Asked(c, rate, left)
            IN  left > 0 /\ rate # 0 =>
                /\ \A amo \in {asked, asked \div 2} : 100 * Value(c, amo) <= 109 * left
                /\ Unrated = {} => 100 * (left - Value(c, asked)) < Price[order.curr]

\* A customer who pays what the page asks for has paid the bill, if no rate
\* changes until the payment is confirmed: what is lost between the selling
\* and the buying rate, taxes and percentages is in the margin of the page.
QuoteCovers ==
    [][\A p \in sure :
        pay_ins[p].status # "SOFT" /\ pay_ins'[p].status = "SOFT" =>
            AllPayed(order') >= Price[order.curr]]_vars

\* The page does not ask again for what is on its way: at steady rates the
\* payments are not worth more than the price and a tenth of it.  A payment
\* that needs no rate is in no sum from its first visit to its first
\* confirmation, and asked for again.
AskedOnceUnlessBlind ==
    steady /\ ~blind =>
        SumFunctionOnSet([p \in PayIns |-> pay_ins[p].amo_out], PayIns)
            <= Limit

\* The currencies that a payment of bitcoins can be counted in, while the
\* loop is up.
Rated == {c \in Currs : running /\ AverageRate("b", BTC, c) # 0}

\* Once the exchanges answer, what an exchange quotes has a rate, and keeps it,
\* though the loop has crashed and prices got old.  (The other fiat currencies
\* do not: their quotes are fetched in the first turn of a loop only.)
RatesReturn == <>[](USD \in Rated)
=============================================================================
