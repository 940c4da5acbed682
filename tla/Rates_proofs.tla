---------------------------- MODULE Rates_proofs ----------------------------
(***************************************************************************)
(* Proofs about Rates: that a payment of what the page asks for covers the  *)
(* bill, and that the page does not ask twice for the same.  Both hold of   *)
(* behaviours in which the two sides of the rates are near enough           *)
(* (QuoteFits); that is up to the exchanges.                                *)
(***************************************************************************)
EXTENDS Rates, Sums_proofs

-----------------------------------------------------------------------------
(* Arithmetic of the rates. *)

\* A quotient of natural numbers is one.
LEMMA Quotient ==
    ASSUME NEW n \in Nat, NEW d \in Nat, d > 0
    PROVE  n \div d \in Nat
<1> DEFINE q == n \div d
<1>1. q \in Int /\ d * q <= n /\ n < d * q + d
  OBVIOUS
<1>2. SUFFICES ASSUME q < 0 PROVE FALSE
  BY <1>1
<1> HIDE DEF q
<1>3. d * q + d <= 0
  BY <1>1, <1>2
<1> QED BY <1>1, <1>3

LEMMA Product == ASSUME NEW a \in Nat, NEW b \in Nat PROVE a * b \in Nat
OBVIOUS

LEMMA TimesType == ASSUME NEW a \in Nat, NEW b \in Nat PROVE Times(a, b) \in Nat
<1>1. a * b \in Nat /\ Unit \in Nat /\ Unit > 0
  BY Product, RatesAssumption
<1> QED BY <1>1, Quotient DEF Times

LEMMA PercentType == ASSUME NEW a \in Nat, NEW n \in Nat PROVE Percent(a, n) \in Nat
<1>1. a * n \in Nat
  BY Product
<1> QED BY <1>1, Quotient DEF Percent

\* The largest of a set of natural numbers that is not empty is in it.
LEMMA Largest ==
    ASSUME NEW S, IsFiniteSet(S), S # {}, \A y \in S : y \in Nat
    PROVE  Max(S) \in S /\ \A y \in S : Max(S) >= y
<1> DEFINE Tails == {{y \in S : y >= x} : x \in S}
<1>1. \E u \in Tails : \A v \in Tails : v \subseteq u => v = u
  <2>1. Tails \in SUBSET (SUBSET S)
    OBVIOUS
  <2>2. Tails # {}
    OBVIOUS
  <2> HIDE DEF Tails
  <2> QED BY <2>1, <2>2, Smallest
<1>2. PICK x \in S : \A v \in Tails : v \subseteq {y \in S : y >= x} => v = {y \in S : y >= x}
  BY <1>1
<1>3. \A y \in S : x >= y
  <2> SUFFICES ASSUME NEW y \in S, y > x PROVE FALSE
    OBVIOUS
  <2>1. {z \in S : z >= y} \subseteq {z \in S : z >= x}
    <3> SUFFICES ASSUME NEW z \in S, z >= y PROVE z >= x
      OBVIOUS
    <3> x \in Int /\ y \in Int /\ z \in Int
      OBVIOUS
    <3> QED OBVIOUS
  <2>2. {z \in S : z >= y} \in Tails
    OBVIOUS
  <2>3. x \in {z \in S : z >= x} /\ x \notin {z \in S : z >= y}
    OBVIOUS
  <2> QED BY <2>1, <2>2, <2>3, <1>2
<1> QED BY <1>3 DEF Max

LEMMA MaxWithOne == ASSUME NEW n \in Nat PROVE Max({1, n}) \in Nat \ {0}
<1>1. IsFiniteSet({1, n})
  <2>1. IsFiniteSet({1})
    BY FS_Singleton
  <2>2. {1, n} = {1} \cup {n}
    OBVIOUS
  <2> QED BY <2>1, <2>2, FS_AddElement
<1>2. Max({1, n}) \in {1, n} /\ \A y \in {1, n} : Max({1, n}) >= y
  BY <1>1, Largest
<1> QED BY <1>2

\* Ten percentages are paid at most.
LEMMA PowerType == ASSUME NEW vol, NEW amo PROVE Power(vol, amo) \in 1..10
<1> DEFINE S == {9} \cup {k \in 0..9 : amo \div 3^k < vol}
<1>1. S \subseteq 0..9 /\ 9 \in S
  OBVIOUS
<1> HIDE DEF S
<1>2. \E x \in S : \A y \in S : x <= y
  BY <1>1
<1>3. Min(S) \in 0..9
  BY <1>1, <1>2 DEF Min
<1> QED BY <1>3 DEF Power, S

-----------------------------------------------------------------------------
(* The rates are natural numbers. *)

RowType == [sp1 : Nat, bp1 : Nat, age : 0..Old]

LEMMA CrossType == ASSUME NEW c \in Currs PROVE Cross(c) \in Currs
BY RatesAssumption DEF Cross

LEMMA AverageOfType ==
    ASSUME exchg_pairs \in [Rows -> RowType], NEW side, NEW in \in Currs, NEW out \in Currs
    PROVE  AverageOf(side, in, out) \in Nat
<1> DEFINE f == [i \in Rows |-> PriceIn(side, i)]
           S == Fresh(in, out)
           h == HardPrice[<<in, out>>]
<1>1. h \in Nat
  BY RatesAssumption DEF Pairs
<1>2. Percent(h, 990) \in Nat /\ Percent(h, 1010) \in Nat
  <2> HIDE DEF h
  <2>1. 990 \in Nat /\ 1010 \in Nat
    OBVIOUS
  <2>2. \A n \in Nat : Percent(h, n) \in Nat
    BY <1>1, PercentType
  <2> QED BY <2>1, <2>2
<1>3. S \subseteq Rows /\ IsFiniteSet(S)
  BY RatesAssumption, FS_Subset DEF Fresh
<1>4. \A i \in S : f[i] \in Nat
  BY <1>3 DEF PriceIn, RowType
<1>5. SumFunctionOnSet(f, S) \in Nat
  <2> HIDE DEF f, S
  <2> QED BY <1>3, <1>4, SumNat
<1>6. Max({1, Cardinality(S)}) \in Nat \ {0}
  <2>1. Cardinality(S) \in Nat
    BY <1>3, FS_CardinalityType
  <2> QED BY <2>1, MaxWithOne
<1>7. SumFunctionOnSet(f, S) \div Max({1, Cardinality(S)}) \in Nat
  BY <1>5, <1>6, Quotient
<1> QED BY <1>2, <1>7 DEF AverageOf

LEMMA DirectRateType ==
    ASSUME exchg_pairs \in [Rows -> RowType], NEW side, NEW in \in Currs, NEW out \in Currs
    PROVE  DirectRate(side, in, out) \in Nat
<1> DEFINE back == AverageOf(side, out, in)
<1>1. AverageOf(side, in, out) \in Nat /\ back \in Nat
  BY AverageOfType
<1>2. Unit \in Nat /\ Unit * Unit \in Nat
  BY RatesAssumption, Product
<1>3. back # 0 => (Unit * Unit) \div back \in Nat
  BY <1>1, <1>2, Quotient
<1> QED BY <1>1, <1>2, <1>3 DEF DirectRate, Known, TurnedRound

LEMMA AverageRateType ==
    ASSUME exchg_pairs \in [Rows -> RowType], NEW side, NEW in \in Currs, NEW out \in Currs
    PROVE  AverageRate(side, in, out) \in Nat
<1> DEFINE over == Times(Times(DirectRate(side, in, Cross(in)),
                               DirectRate(side, Cross(in), Cross(out))),
                         DirectRate(side, Cross(out), out))
           rate == Known(DirectRate(side, in, out), over)
           kept == 1000 - Tax
<1>1. over \in Nat
  BY CrossType, DirectRateType, TimesType
<1>2. rate \in Nat
  BY <1>1, DirectRateType DEF Known
<1> HIDE DEF rate
<1>3. kept \in Nat /\ kept > 0
  BY RatesAssumption
<1> HIDE DEF kept
<1>4. Percent(rate, kept) \in Nat
  BY <1>2, <1>3, PercentType
<1>5. (rate * 1000) \div kept \in Nat
  <2>1. rate * 1000 \in Nat
    BY <1>2
  <2> QED BY <2>1, <1>3, Quotient
<1>6. AddTax(side, rate) \in Nat
  BY <1>4, <1>5 DEF AddTax, kept
<1> QED BY <1>6, RatesAssumption DEF AverageRate, rate

LEMMA BestRateType ==
    ASSUME exchg_pairs \in [Rows -> RowType], NEW in \in Currs, NEW out \in Currs, NEW amo
    PROVE  BestRate(in, out, amo) \in Nat
<1> DEFINE rate == AverageRate("b", in, out)
           n == Power(PowVol(in, out, rate), amo)
           m == PowPerc(in, out)
<1>1. rate \in Nat /\ n \in 1..10 /\ m \in 0..99
  BY AverageRateType, PowerType, PercAssumption
<1> HIDE DEF rate, n, m
<1>2. n * m <= 10 * 99 /\ n * m \in Int
  BY <1>1
<1>3. 1000 - n * m \in Nat
  BY <1>2
<1>4. Percent(rate, 1000 - n * m) \in Nat
  BY <1>1, <1>3, PercentType
<1> QED BY <1>4 DEF BestRate, Lowered, rate, n, m

LEMMA BillRateType ==
    ASSUME exchg_pairs \in [Rows -> RowType], NEW in \in Currs, NEW out \in Currs, NEW amo
    PROVE  BillRate(out, in, amo) \in Nat
<1> DEFINE rate == AverageRate("s", out, in)
           n == Power(PowVol(out, in, rate), Times(amo, rate))
           m == PowPerc(out, in)
<1>1. rate \in Nat /\ n \in 1..10 /\ m \in 0..99
  BY AverageRateType, PowerType, PercAssumption
<1> HIDE DEF rate, n, m
<1>2. 1000 + n * m \in Nat
  BY <1>1, Product
<1>3. Percent(rate, 1000 + n * m) \in Nat
  BY <1>1, <1>2, PercentType
<1> QED BY <1>3 DEF BillRate, Raised, rate, n, m

\* A coin of the bill costs a coin of the bill.
LEMMA BillRateSame == ASSUME NEW c \in Currs, NEW amo PROVE BillRate(c, c, amo) = Unit
<1> DEFINE n == Power(PowVol(c, c, Unit), Times(amo, Unit))
<1>1. AverageRate("s", c, c) = Unit /\ Unit \in Nat \ {0}
  BY RatesAssumption DEF AverageRate
<1>2. PowPerc(c, c) = 0
  BY DEF PowPerc, HasPar, ParPerc
<1>3. n \in 1..10
  BY PowerType
<1> HIDE DEF n
<1>4. 1000 + n * 0 = 1000
  BY <1>3
<1>5. Percent(Unit, 1000) = Unit
  BY <1>1 DEF Percent
<1> QED BY <1>1, <1>2, <1>4, <1>5 DEF BillRate, Raised, n

LEMMA ValueType ==
    ASSUME exchg_pairs \in [Rows -> RowType], order.curr \in Currs,
           NEW c \in Currs, NEW amo \in Nat
    PROVE  Value(c, amo) \in Nat
BY BestRateType, TimesType DEF Value

LEMMA ValueOfNothing ==
    ASSUME exchg_pairs \in [Rows -> RowType], order.curr \in Currs, NEW c \in Currs
    PROVE  Value(c, 0) = 0
<1> DEFINE rate == BestRate(c, order.curr, 0)
<1>1. rate \in Nat
  BY BestRateType
<1> HIDE DEF rate
<1>2. Times(0, rate) = 0
  BY <1>1, RatesAssumption DEF Times
<1> QED BY <1>2 DEF Value, rate

\* The same prices make the same rates.
LEMMA SameAverage ==
    ASSUME exchg_pairs \in [Rows -> RowType], exchg_pairs' \in [Rows -> RowType],
           Table(exchg_pairs') = Table(exchg_pairs),
           NEW side, NEW in \in Currs, NEW out \in Currs
    PROVE  AverageOf(side, in, out)' = AverageOf(side, in, out)
<1>1. ASSUME NEW i \in Rows
      PROVE  /\ (exchg_pairs'[i].age <= RatesTime) <=> (exchg_pairs[i].age <= RatesTime)
             /\ exchg_pairs[i].age <= RatesTime =>
                    /\ exchg_pairs'[i].sp1 = exchg_pairs[i].sp1
                    /\ exchg_pairs'[i].bp1 = exchg_pairs[i].bp1
  <2>1. Table(exchg_pairs')[i] = Table(exchg_pairs)[i]
    OBVIOUS
  <2> QED BY <2>1 DEF Table
<1>2. Fresh(in, out)' = Fresh(in, out)
  BY <1>1 DEF Fresh
<1> DEFINE f == [i \in Rows |-> PriceIn(side, i)]
           g == [i \in Rows |-> PriceIn(side, i)']
           S == Fresh(in, out)
<1>3. S \subseteq Rows /\ IsFiniteSet(S)
  BY RatesAssumption, FS_Subset DEF Fresh
<1>4. \A i \in S : f[i] \in Int /\ f[i] = g[i]
  BY <1>1, <1>3 DEF PriceIn, RowType, Fresh
<1>5. SumFunctionOnSet(f, S) = SumFunctionOnSet(g, S)
  <2> HIDE DEF f, g, S
  <2> QED BY <1>3, <1>4, SumSame DEF IntOn
<1> QED BY <1>2, <1>5 DEF AverageOf

LEMMA SameAverageRate ==
    ASSUME exchg_pairs \in [Rows -> RowType], exchg_pairs' \in [Rows -> RowType],
           Table(exchg_pairs') = Table(exchg_pairs),
           NEW side, NEW in \in Currs, NEW out \in Currs
    PROVE  AverageRate(side, in, out)' = AverageRate(side, in, out)
<1>1. \A a, b \in Currs : DirectRate(side, a, b)' = DirectRate(side, a, b)
  BY SameAverage DEF DirectRate
<1> QED BY <1>1, CrossType DEF AverageRate

LEMMA SameValue ==
    ASSUME exchg_pairs \in [Rows -> RowType], exchg_pairs' \in [Rows -> RowType],
           Table(exchg_pairs') = Table(exchg_pairs),
           order'.curr = order.curr, order.curr \in Currs,
           NEW c \in Currs, NEW amo
    PROVE  Value(c, amo)' = Value(c, amo)
<1>1. \A a, b \in Currs : AverageRate("b", a, b)' = AverageRate("b", a, b)
  BY SameAverageRate
<1>2. PowVol(c, order.curr, AverageRate("b", c, order.curr))'
        = PowVol(c, order.curr, AverageRate("b", c, order.curr))
  BY <1>1, CrossType DEF PowVol
<1>3. BestRate(c, order.curr, amo)' = BestRate(c, order.curr, amo)
  BY <1>1, <1>2 DEF BestRate, Lowered
<1> QED BY <1>3 DEF Value

-----------------------------------------------------------------------------
(* Types. *)

\* The steps that store prices, and those that change nothing but the loop.
PricesStep ==
    \/ \E e \in ToSet(Exchgs) : PollBtce(e) \/ PollCryptsy(e) \/ PollFiat(e)
    \/ Sleep \/ Down

Quiet == UNCHANGED <<exchg_pairs, order, pay_ins, page, ghosts>>

LEMMA StoredType ==
    ASSUME NEW i \in Rows, NEW price \in Prices[i]
    PROVE  Stored(price) \in RowType
<1>1. price.sell \in Nat /\ price.buy \in Nat
  BY RatesAssumption
<1>2. Old \in Nat
  BY RatesAssumption DEF Old
<1> QED BY <1>1, <1>2 DEF Stored, RowType

LEMMA AgedType ==
    ASSUME exchg_pairs \in [Rows -> RowType]
    PROVE  Aged \in [Rows -> RowType]
<1>1. Old \in Nat
  BY RatesAssumption DEF Old
<1>2. ASSUME NEW i \in Rows
      PROVE  [exchg_pairs[i] EXCEPT !.age = IF @ < Old THEN @ + 1 ELSE Old] \in RowType
  BY <1>1 DEF RowType
<1> QED BY <1>2 DEF Aged

LEMMA PricesStepSets ==
    ASSUME exchg_pairs \in [Rows -> RowType], PricesStep
    PROVE  \E rows \in [Rows -> RowType] : SetRows(rows)
<1>1. ASSUME NEW e \in ToSet(Exchgs), PollBtce(e)
      PROVE  \E rows \in [Rows -> RowType] : SetRows(rows)
  <2>1. PICK answer \in [RowsOf(e) -> UNION {Prices[i] : i \in RowsOf(e)}] :
          /\ \A i \in RowsOf(e) : answer[i] \in Prices[i]
          /\ SetRows([j \in Rows |->
                 LET I == {i \in RowsOf(e) : FirstRow(i) = j} IN
                 IF I = {} THEN exchg_pairs[j] ELSE Stored(answer[Max(I)])])
    BY <1>1 DEF PollBtce
  <2>2. ASSUME NEW I \in SUBSET RowsOf(e), I # {} PROVE Stored(answer[Max(I)]) \in RowType
    <3>1. IsFiniteSet(I) /\ \A i \in I : i \in Nat
      BY RatesAssumption, FS_Subset DEF RowsOf
    <3>2. Max(I) \in I
      BY <2>2, <3>1, Largest
    <3> QED BY <3>2, <2>1, StoredType DEF RowsOf
  <2>3. [j \in Rows |->
            LET I == {i \in RowsOf(e) : FirstRow(i) = j} IN
            IF I = {} THEN exchg_pairs[j] ELSE Stored(answer[Max(I)])] \in [Rows -> RowType]
    BY <2>2
  <2> QED BY <2>1, <2>3
<1>2. ASSUME NEW e \in ToSet(Exchgs), PollCryptsy(e)
      PROVE  \E rows \in [Rows -> RowType] : SetRows(rows)
  <2>0. PICK S \in SUBSET RowsOf(e) :
          \E answer \in [S -> UNION {Prices[i] : i \in S}] :
            /\ \A i \in S : answer[i] \in Prices[i]
            /\ SetRows([j \in Rows |->
                   IF j \in S THEN Stored(answer[j]) ELSE exchg_pairs[j]])
    BY <1>2 DEF PollCryptsy
  <2>1. PICK answer \in [S -> UNION {Prices[i] : i \in S}] :
          /\ \A i \in S : answer[i] \in Prices[i]
          /\ SetRows([j \in Rows |->
                 IF j \in S THEN Stored(answer[j]) ELSE exchg_pairs[j]])
    BY <2>0
  <2>2. \A i \in S : Stored(answer[i]) \in RowType
    BY <2>1, StoredType DEF RowsOf
  <2>3. [j \in Rows |-> IF j \in S THEN Stored(answer[j]) ELSE exchg_pairs[j]]
          \in [Rows -> RowType]
    BY <2>2
  <2> QED BY <2>1, <2>3
<1>3. ASSUME NEW e \in ToSet(Exchgs), PollFiat(e)
      PROVE  \E rows \in [Rows -> RowType] : SetRows(rows)
  <2>1. PICK answer \in [RowsOf(e) -> UNION {Prices[i] : i \in RowsOf(e)}] :
          /\ \A i \in RowsOf(e) : answer[i] \in Prices[i]
          /\ SetRows([j \in Rows |->
                 IF j \in RowsOf(e) /\ turn3 THEN Stored(answer[j]) ELSE exchg_pairs[j]])
    BY <1>3 DEF PollFiat
  <2>2. \A i \in RowsOf(e) : Stored(answer[i]) \in RowType
    BY <2>1, StoredType DEF RowsOf
  <2>3. [j \in Rows |->
            IF j \in RowsOf(e) /\ turn3 THEN Stored(answer[j]) ELSE exchg_pairs[j]]
          \in [Rows -> RowType]
    BY <2>2
  <2> QED BY <2>1, <2>3
<1>4. ASSUME Sleep \/ Down PROVE \E rows \in [Rows -> RowType] : SetRows(rows)
  BY <1>4, AgedType DEF Sleep, Down
<1> QED BY <1>1, <1>2, <1>3, <1>4 DEF PricesStep

\* What a step of the model is.
LEMMA Steps ==
    ASSUME TypeOK, [Next]_vars
    PROVE  \/ \E rows \in [Rows -> RowType] : SetRows(rows)
           \/ Quiet
           \/ \E c \in Crypto : ShowUpdate(c)
           \/ \E p \in PayIns : Pay(p)
           \/ \E p \in PayIns : VisitUnconfirmed(p)
           \/ \E p \in PayIns : VisitConfirmed(p)
<1>1. exchg_pairs \in [Rows -> RowType]
  BY DEF TypeOK, RowType
<1>2. (\E e \in ToSet(Exchgs) : Fail(e)) \/ Restart \/ UNCHANGED vars => Quiet
  BY DEF Fail, Restart, vars, loopVars, Quiet
<1>3. PricesStep => \E rows \in [Rows -> RowType] : SetRows(rows)
  BY <1>1, PricesStepSets
<1> QED BY <1>2, <1>3 DEF Next, PricesStep

\* The loop's own variables.
LoopOK ==
    /\ at \in 1..(Len(Exchgs) + 1) /\ i_p3 \in 0..Period3
    /\ running \in BOOLEAN /\ faults \in 0..MaxFaults

LEMMA LoopNext == ASSUME TypeOK, [Next]_vars PROVE LoopOK'
<1> USE DEF LoopOK, Period3
<1>1. LoopOK
  BY DEF TypeOK
<1>2. Len(Exchgs) \in Nat
  BY RatesAssumption
<1>0. ASSUME NEW e, NEW types, Polls(e, types) PROVE at' \in 1..(Len(Exchgs) + 1)
  BY <1>0, <1>1, <1>2 DEF Polls
<1>3. ASSUME NEW e \in ToSet(Exchgs), PollBtce(e) PROVE LoopOK'
  BY <1>0, <1>1, <1>3 DEF PollBtce
<1>4. ASSUME NEW e \in ToSet(Exchgs), PollCryptsy(e) PROVE LoopOK'
  <2>1. PICK S \in SUBSET RowsOf(e) :
          faults' = faults + Cardinality(RowsOf(e) \ S) /\ faults' <= MaxFaults
    BY <1>4 DEF PollCryptsy
  <2>2. Cardinality(RowsOf(e) \ S) \in Nat
    <3>1. IsFiniteSet(RowsOf(e) \ S)
      BY RatesAssumption, FS_Subset DEF RowsOf
    <3> QED BY <3>1, FS_CardinalityType
  <2>3. faults' \in 0..MaxFaults
    BY <2>1, <2>2, <1>1, RatesAssumption
  <2> QED BY <1>0, <1>1, <1>4, <2>3 DEF PollCryptsy
<1>5. ASSUME NEW e \in ToSet(Exchgs), PollFiat(e) PROVE LoopOK'
  BY <1>0, <1>1, <1>5 DEF PollFiat
<1>6. ASSUME NEW e \in ToSet(Exchgs), Fail(e) PROVE LoopOK'
  <2>0. faults < MaxFaults /\ faults' = faults + 1 /\ running' = FALSE /\ i_p3' = i_p3
    BY <1>6, Zenon DEF Fail
  <2>1. faults' \in 0..MaxFaults
    <3>1. MaxFaults \in Nat
      BY RatesAssumption
    <3> QED BY <2>0, <1>1, <3>1
  <2>2. at' \in 1..(Len(Exchgs) + 1)
    BY <1>0, <1>6 DEF Fail
  <2> QED BY <1>1, <2>0, <2>1, <2>2
<1>7. ASSUME Sleep PROVE LoopOK'
  BY <1>1, <1>2, <1>7 DEF Sleep
<1>8. ASSUME Down PROVE LoopOK'
  BY <1>1, <1>8 DEF Down
<1>12. ASSUME Restart PROVE LoopOK'
  BY <1>1, <1>2, <1>12 DEF Restart
<1>9. ASSUME NEW c \in Crypto, ShowUpdate(c) PROVE LoopOK'
  BY <1>1, <1>9 DEF ShowUpdate, loopVars
<1>10. ASSUME NEW p \in PayIns, Pay(p) \/ VisitUnconfirmed(p) \/ VisitConfirmed(p)
       PROVE  LoopOK'
  BY <1>1, <1>10 DEF Pay, VisitUnconfirmed, VisitConfirmed, loopVars
<1>11. ASSUME UNCHANGED vars PROVE LoopOK'
  BY <1>1, <1>11 DEF vars, loopVars
<1> QED BY <1>3, <1>4, <1>5, <1>6, <1>7, <1>8, <1>9, <1>10, <1>11, <1>12 DEF Next

-----------------------------------------------------------------------------
(* The bill, its payments and its page. *)

OrderType == [curr : BillCurrs, status : {"NEW", "FILL", "SOFT"},
              payed_soft : Int, payed_hard : {0}, payed_true : {0}]
PayType == [status : PayStatus, curr : Currs, amount : Nat, amo_out : Int]
PageType == [curr : Currs, amount : Nat, sure : BOOLEAN, same : BOOLEAN]

BillOK ==
    /\ exchg_pairs \in [Rows -> RowType] /\ order \in OrderType
    /\ pay_ins \in [PayIns -> PayType] /\ page \in PageType
    /\ sure \subseteq PayIns /\ steady \in BOOLEAN /\ blind \in BOOLEAN

LEMMA TypeParts == TypeOK <=> LoopOK /\ BillOK
BY DEF TypeOK, LoopOK, BillOK, RowType, OrderType, PayType, PageType

\* A payment has its amo_out from its first confirmation on, or from its first
\* visit if it needs no rate; the bill has the sum of the confirmed ones.
SoftAmo == [p \in PayIns |-> IF pay_ins[p].status = "SOFT" THEN pay_ins[p].amo_out ELSE 0]

PayInv ==
    /\ \A p \in PayIns :
        /\ pay_ins[p].status = "NONE" => pay_ins[p].amo_out = 0 /\ p \notin sure
        /\ pay_ins[p].status = "NEW" /\ pay_ins[p].amo_out # 0 =>
               pay_ins[p].curr = order.curr /\ pay_ins[p].amo_out = pay_ins[p].amount
    /\ AllPayed(order) >= 0
    /\ AllPayed(order) = SumFunctionOnSet(SoftAmo, PayIns)

BillInv == BillOK /\ PayInv

Rest == Price[order.curr] - AllPayed(order)

LEMMA MaxWithZero == ASSUME NEW r \in Int PROVE Max({0, r}) = IF r > 0 THEN r ELSE 0
BY DEF Max

LEMMA BillFacts ==
    ASSUME BillOK
    PROVE  /\ order.curr \in Currs /\ Price[order.curr] \in Nat \ {0}
           /\ AllPayed(order) = order.payed_soft /\ AllPayed(order) \in Int
           /\ Rest \in Int /\ ToPay = IF Rest > 0 THEN Rest ELSE 0
<1>1. order.curr \in BillCurrs
  BY DEF BillOK, OrderType
<1>2. order.curr \in Currs /\ Price[order.curr] \in Nat \ {0}
  BY <1>1, RatesAssumption
<1>3. AllPayed(order) = order.payed_soft /\ AllPayed(order) \in Int
  BY DEF BillOK, OrderType, AllPayed
<1>5. Rest \in Int
  BY <1>2, <1>3 DEF Rest
<1>6. ToPay = IF Rest > 0 THEN Rest ELSE 0
  BY <1>5, MaxWithZero DEF ToPay, Rest
<1> QED BY <1>2, <1>3, <1>5, <1>6

LEMMA BillFactsNext ==
    ASSUME BillOK'
    PROVE  /\ order'.curr \in Currs /\ Price[order'.curr] \in Nat \ {0}
           /\ AllPayed(order') = order'.payed_soft /\ AllPayed(order') \in Int
           /\ Rest' \in Int /\ ToPay' = IF Rest' > 0 THEN Rest' ELSE 0
<1>1. order'.curr \in BillCurrs
  BY DEF BillOK, OrderType
<1>2. order'.curr \in Currs /\ Price[order'.curr] \in Nat \ {0}
  BY <1>1, RatesAssumption
<1>3. AllPayed(order') = order'.payed_soft /\ AllPayed(order') \in Int
  BY DEF BillOK, OrderType, AllPayed
<1>5. Rest' \in Int
  BY <1>2, <1>3 DEF Rest
<1>6. ToPay' = IF Rest' > 0 THEN Rest' ELSE 0
  BY <1>5, MaxWithZero DEF ToPay, Rest
<1> QED BY <1>2, <1>3, <1>5, <1>6

LEMMA ValueIs ==
    ASSUME BillOK, NEW c \in Currs, NEW amo \in Nat
    PROVE  Value(c, amo) \in Nat /\ Value(c, 0) = 0
BY BillFacts, ValueType, ValueOfNothing DEF BillOK

\* What is expected of the payments on their way.
LEMMA ExpectedType ==
    ASSUME BillOK, Estimable
    PROVE  /\ \A p \in Unrated : Expected(p) \in Nat
           /\ Estimated \in Nat
           /\ Unrated = {} => Estimated = 0
<1> DEFINE e == [p \in PayIns |-> IF p \in Unrated THEN Expected(p) ELSE 0]
<1>1. Unrated \subseteq PayIns
  BY DEF Unrated, Seen
<1>2. ASSUME NEW p \in Unrated PROVE Expected(p) \in Nat
  <2> DEFINE rate == BillRate(order.curr, pay_ins[p].curr, ToPay)
             amo == pay_ins[p].amount
  <2>1. pay_ins[p].curr \in Currs /\ amo \in Nat
    BY <1>1 DEF BillOK, PayType
  <2>2. rate \in Nat /\ rate # 0
    BY <2>1, BillFacts, BillRateType DEF BillOK, Estimable
  <2> HIDE DEF rate, amo
  <2>3. amo * Unit \in Nat
    BY <2>1, RatesAssumption, Product
  <2>4. (amo * Unit) \div rate \in Nat
    BY <2>2, <2>3, Quotient
  <2> QED BY <2>4 DEF Expected, rate, amo
<1>3. \A p \in PayIns : e[p] \in Nat
  BY <1>2
<1>4. IsFiniteSet(PayIns)
  BY RatesAssumption
<1>5. SumFunctionOnSet(e, PayIns) \in Nat
  <2> HIDE DEF e
  <2> QED BY <1>3, <1>4, SumNat
<1>6. ASSUME Unrated = {} PROVE SumFunctionOnSet(e, PayIns) = 0
  <2>1. \A p \in PayIns : e[p] = 0
    BY <1>6
  <2> HIDE DEF e
  <2> QED BY <2>1, <1>4, SumZero
<1> QED BY <1>2, <1>5, <1>6 DEF Estimated

\* What the page asks for.
LEMMA AskedType ==
    ASSUME NEW c \in Currs, NEW rate \in Nat, NEW left \in Nat
    PROVE  Asked(c, rate, left) \in Nat
<1> DEFINE n == 1000 + (IF c = order.curr THEN 0 ELSE 10 * AddChange)
<1>1. n \in Nat
  BY RatesAssumption
<1> HIDE DEF n
<1>2. Percent(left, n) \in Nat
  BY <1>1, PercentType
<1>3. Times(rate, Percent(left, n)) \in Nat
  BY <1>2, TimesType
<1> QED BY <1>3 DEF Asked, n

\* It asks for what is left in the currency of the bill.
LEMMA AskedSame ==
    ASSUME NEW left \in Nat
    PROVE  Asked(order.curr, Unit, left) = left
<1>1. Percent(left, 1000 + 0) = left
  BY DEF Percent
<1>2. Unit \in Nat /\ Unit > 0
  BY RatesAssumption
<1>3. (Unit * left) \div Unit = left
  <2> DEFINE q == (Unit * left) \div Unit
  <2>1. q \in Int /\ Unit * q <= Unit * left /\ Unit * left < Unit * q + Unit
    BY <1>2
  <2> HIDE DEF q
  <2>2. Unit * (left - q) >= 0 /\ Unit * (left - q - 1) < 0
    BY <2>1, <1>2
  <2>3. left - q >= 0 /\ left - q < 1
    BY <2>1, <2>2, <1>2
  <2> QED BY <2>1, <2>3 DEF q
<1> QED BY <1>1, <1>3 DEF Asked, Times

LEMMA Shown ==
    ASSUME BillOK, NEW c \in Crypto, ShowUpdate(c)
    PROVE  LET left == ToPay - Estimated
               rate == BillRate(order.curr, c, ToPay)
           IN  /\ Estimable /\ order.status \in {"NEW", "FILL"}
               /\ left \in Nat \ {0} /\ left <= ToPay /\ ToPay = Rest
               /\ rate \in Nat \ {0} /\ c \in Currs
               /\ Asked(c, rate, left) \in Nat
               /\ page' = [curr |-> c, amount |-> Asked(c, rate, left),
                           sure |-> Unrated = {}, same |-> TRUE]
<1> DEFINE left == ToPay - Estimated
           rate == BillRate(order.curr, c, ToPay)
<1>1. /\ Estimable /\ order.status \in {"NEW", "FILL"} /\ left > 0 /\ rate # 0
      /\ page' = [curr |-> c, amount |-> Asked(c, rate, left),
                  sure |-> Unrated = {}, same |-> TRUE]
  BY DEF ShowUpdate
<1>2. Estimated \in Nat
  BY <1>1, ExpectedType
<1>3. left \in Nat \ {0} /\ left <= ToPay /\ ToPay = Rest
  BY <1>1, <1>2, BillFacts
<1>4. c \in Currs
  BY RatesAssumption
<1>5. rate \in Nat \ {0}
  BY <1>1, <1>4, BillFacts, BillRateType DEF BillOK
<1> HIDE DEF left, rate
<1>6. Asked(c, rate, left) \in Nat
  BY <1>3, <1>4, <1>5, AskedType
<1> QED BY <1>1, <1>3, <1>4, <1>5, <1>6 DEF left, rate

\* What a confirmed payment is counted with: its value, or what is left to pay
\* if there is less than 1% of the price between the two.
Counting(p, amo) ==
    LET v == Value(pay_ins[p].curr, pay_ins[p].amount)
        diff == IF v > Rest THEN v - Rest ELSE Rest - v
    IN  IF pay_ins[p].curr # order.curr /\ 100 * diff < Price[order.curr]
        THEN amo = Rest ELSE amo = v

LEMMA Confirmed ==
    ASSUME BillInv, NEW p \in PayIns, VisitConfirmed(p)
    PROVE  LET amo == AmoOut(p) IN
           /\ pay_ins[p].status = "NEW" /\ amo \in Int /\ Counting(p, amo)
           /\ Value(pay_ins[p].curr, pay_ins[p].amount) \in Nat
           /\ pay_ins' = [pay_ins EXCEPT ![p].amo_out = amo, ![p].status = "SOFT"]
           /\ order' \in OrderType /\ order'.curr = order.curr
           /\ AllPayed(order') = AllPayed(order) + amo
           /\ UNCHANGED <<exchg_pairs, page, ghosts>>
<1> DEFINE amo == AmoOut(p)
           c == pay_ins[p].curr
           a == pay_ins[p].amount
           v == Value(c, a)
           s == Counted(order, "NEW", "SOFT", amo, amo)
           st == NewStatus(Price[order.curr], s, order.status)
<1>1. /\ pay_ins[p].status = "NEW" /\ amo # 0
      /\ pay_ins' = [pay_ins EXCEPT ![p].amo_out = amo, ![p].status = "SOFT"]
      /\ order' = [order EXCEPT !.payed_soft = s.payed_soft, !.status = st]
      /\ UNCHANGED <<exchg_pairs, page, ghosts>>
  BY DEF VisitConfirmed, loopVars
<1>2. c \in Currs /\ a \in Nat /\ pay_ins[p].amo_out \in Int
  BY DEF BillInv, BillOK, PayType
<1>3. /\ order.curr \in Currs /\ Price[order.curr] \in Nat \ {0} /\ Rest \in Int
      /\ AllPayed(order) = order.payed_soft
  BY BillFacts DEF BillInv
<1>4. v \in Nat
  BY <1>2, ValueIs DEF BillInv
<1>5. Counting(p, amo)
  <2>1. CASE c = order.curr
    <3>1. v = a
      BY <2>1 DEF Value
    <3>2. amo = a
      BY <1>1, <2>1 DEF AmoOut, BillInv, PayInv
    <3> QED BY <2>1, <3>1, <3>2 DEF Counting
  <2>2. CASE c # order.curr
    <3>1. pay_ins[p].amo_out = 0
      BY <1>1, <2>2 DEF BillInv, PayInv
    <3>2. v = Times(a, BestRate(c, order.curr, a))
      BY <2>2 DEF Value
    <3>3. amo = Accurate(v)
      BY <1>1, <2>2, <3>1, <3>2 DEF AmoOut
    <3> HIDE DEF amo, v
    <3>4. Counting(p, Accurate(v))
      BY <2>2 DEF Accurate, Counting, Rest, v
    <3> QED BY <3>3, <3>4
  <2> QED BY <2>1, <2>2
<1>6. amo \in Int
  <2> HIDE DEF amo
  <2> QED BY <1>3, <1>4, <1>5 DEF Counting
<1> HIDE DEF amo
<1>7. /\ s.payed_soft = order.payed_soft + amo
      /\ s.payed_hard = 0 /\ s.payed_true = 0 /\ s.status \in {"FILL", "SOFT"}
  BY <1>6 DEF Counted, Part, BillInv, BillOK, OrderType
<1>8. st \in {"FILL", "SOFT"}
  <2> HIDE DEF s
  <2> QED BY <1>3, <1>6, <1>7 DEF NewStatus
<1> HIDE DEF s, st
<1>9. order' \in OrderType /\ order'.curr = order.curr
  <2>1. order \in OrderType
    BY DEF BillInv, BillOK
  <2>2. s.payed_soft \in Int
    BY <1>6, <1>7, <2>1 DEF OrderType
  <2>3. order' = [order EXCEPT !.payed_soft = s.payed_soft, !.status = st]
    BY <1>1
  <2> QED BY <1>8, <2>1, <2>2, <2>3 DEF OrderType
<1>10. AllPayed(order') = AllPayed(order) + amo
  BY <1>1, <1>6, <1>7, <1>9, <1>3 DEF AllPayed, BillInv, BillOK, OrderType
<1> QED BY <1>1, <1>4, <1>5, <1>6, <1>9, <1>10 DEF amo, v, c, a

\* The bill and its payments are as they were in a step that does not count one.
LEMMA SameBill ==
    ASSUME BillInv, order' = order, pay_ins' \in [PayIns -> PayType],
           \A p \in PayIns : (pay_ins'[p].status = "SOFT" \/ pay_ins[p].status = "SOFT")
                               => pay_ins'[p] = pay_ins[p]
    PROVE  /\ AllPayed(order') >= 0
           /\ AllPayed(order') = SumFunctionOnSet(SoftAmo', PayIns)
<1>1. \A p \in PayIns : SoftAmo[p] \in Int /\ SoftAmo'[p] = SoftAmo[p]
  BY DEF SoftAmo, BillInv, BillOK, PayType
<1>2. SumFunctionOnSet(SoftAmo, PayIns) = SumFunctionOnSet(SoftAmo', PayIns)
  BY <1>1, SumSame, RatesAssumption DEF IntOn
<1> QED BY <1>2 DEF BillInv, PayInv

LEMMA BillNext == ASSUME BillInv, TypeOK, [Next]_vars PROVE BillInv'
<1> USE DEF BillInv
<1>1. ASSUME NEW rows \in [Rows -> RowType], SetRows(rows) PROVE BillInv'
  <2>1. BillOK'
    BY <1>1 DEF SetRows, BillOK, PageType
  <2>2. PayInv'
    BY <1>1 DEF SetRows, PayInv, SoftAmo
  <2> QED BY <2>1, <2>2
<1>2. ASSUME Quiet PROVE BillInv'
  BY <1>2 DEF Quiet, ghosts, BillOK, PayInv, SoftAmo
<1>3. ASSUME NEW c \in Crypto, ShowUpdate(c) PROVE BillInv'
  <2>1. page' \in PageType
    <3> DEFINE amo == Asked(c, BillRate(order.curr, c, ToPay), ToPay - Estimated)
    <3>1. /\ amo \in Nat /\ c \in Currs
          /\ page' = [curr |-> c, amount |-> amo, sure |-> Unrated = {}, same |-> TRUE]
      BY <1>3, Shown
    <3> HIDE DEF amo
    <3> QED BY <3>1 DEF PageType
  <2>2. UNCHANGED <<exchg_pairs, order, pay_ins, sure, steady>> /\ blind' \in BOOLEAN
    BY <1>3 DEF ShowUpdate, loopVars
  <2>3. BillOK'
    BY <2>1, <2>2 DEF BillOK
  <2>4. PayInv'
    BY <2>2 DEF PayInv, SoftAmo
  <2> QED BY <2>3, <2>4
<1>4. ASSUME NEW p \in PayIns, Pay(p) PROVE BillInv'
  <2>1. PICK amount \in {page.amount, page.amount \div 2} :
          /\ pay_ins' = [pay_ins EXCEPT ![p] =
                 [status |-> "NEW", curr |-> page.curr, amount |-> amount, amo_out |-> 0]]
          /\ sure' = IF page.sure /\ amount = page.amount THEN sure \cup {p} ELSE sure
    BY <1>4 DEF Pay
  <2>2. /\ pay_ins[p].status = "NONE"
        /\ steady' = (steady /\ page.same) /\ page' = [page EXCEPT !.amount = 0]
        /\ UNCHANGED <<exchg_pairs, order, blind>>
    BY <1>4 DEF Pay, loopVars
  <2>3. page.amount \in Nat /\ page.curr \in Currs
    BY DEF BillOK, PageType
  <2>4. amount \in Nat
    BY <2>3
  <2>5. pay_ins' \in [PayIns -> PayType]
    BY <2>1, <2>3, <2>4 DEF BillOK, PayType, PayStatus
  <2>6. BillOK'
    BY <2>1, <2>2, <2>5 DEF BillOK, PageType
  <2>7. \A q \in PayIns : (pay_ins'[q].status = "SOFT" \/ pay_ins[q].status = "SOFT")
                           => pay_ins'[q] = pay_ins[q]
    BY <2>1, <2>2 DEF BillOK
  <2>8. \A q \in PayIns :
          /\ pay_ins'[q].status = "NONE" => pay_ins'[q].amo_out = 0 /\ q \notin sure'
          /\ pay_ins'[q].status = "NEW" /\ pay_ins'[q].amo_out # 0 =>
                 pay_ins'[q].curr = order'.curr /\ pay_ins'[q].amo_out = pay_ins'[q].amount
    BY <2>1, <2>2 DEF BillOK, PayInv
  <2>9. /\ AllPayed(order') >= 0
        /\ AllPayed(order') = SumFunctionOnSet(SoftAmo', PayIns)
    BY <2>2, <2>5, <2>7, SameBill
  <2>10. PayInv'
    BY <2>8, <2>9 DEF PayInv
  <2> QED BY <2>6, <2>10
<1>5. ASSUME NEW p \in PayIns, VisitUnconfirmed(p) PROVE BillInv'
  <2>1. /\ pay_ins[p].status = "NEW" /\ pay_ins[p].curr = order.curr
        /\ pay_ins' = [pay_ins EXCEPT ![p].amo_out = AmoOut(p)]
        /\ AmoOut(p) = pay_ins[p].amount
        /\ UNCHANGED <<exchg_pairs, order, page, ghosts>>
    BY <1>5 DEF VisitUnconfirmed, loopVars, AmoOut
  <2>2. pay_ins[p].amount \in Int
    BY DEF BillOK, PayType
  <2>5. pay_ins' \in [PayIns -> PayType]
    BY <2>1, <2>2 DEF BillOK, PayType
  <2>6. BillOK'
    BY <2>1, <2>5 DEF BillOK, ghosts
  <2>7. \A q \in PayIns : (pay_ins'[q].status = "SOFT" \/ pay_ins[q].status = "SOFT")
                           => pay_ins'[q] = pay_ins[q]
    BY <2>1 DEF BillOK, PayType
  <2>8. \A q \in PayIns :
          /\ pay_ins'[q].status = "NONE" => pay_ins'[q].amo_out = 0 /\ q \notin sure'
          /\ pay_ins'[q].status = "NEW" /\ pay_ins'[q].amo_out # 0 =>
                 pay_ins'[q].curr = order'.curr /\ pay_ins'[q].amo_out = pay_ins'[q].amount
    BY <2>1 DEF BillOK, PayInv, PayType, ghosts
  <2>9. /\ AllPayed(order') >= 0
        /\ AllPayed(order') = SumFunctionOnSet(SoftAmo', PayIns)
    BY <2>1, <2>5, <2>7, SameBill
  <2>10. PayInv'
    BY <2>8, <2>9 DEF PayInv
  <2> QED BY <2>6, <2>10
<1>6. ASSUME NEW p \in PayIns, VisitConfirmed(p) PROVE BillInv'
  <2> DEFINE amo == AmoOut(p)
             v == Value(pay_ins[p].curr, pay_ins[p].amount)
  <2>1. /\ pay_ins[p].status = "NEW" /\ amo \in Int /\ Counting(p, amo) /\ v \in Nat
        /\ pay_ins' = [pay_ins EXCEPT ![p].amo_out = amo, ![p].status = "SOFT"]
        /\ order' \in OrderType /\ order'.curr = order.curr
        /\ AllPayed(order') = AllPayed(order) + amo
        /\ UNCHANGED <<exchg_pairs, page, ghosts>>
    BY <1>6, Confirmed
  <2> HIDE DEF amo
  <2>2. pay_ins' \in [PayIns -> PayType]
    BY <2>1 DEF BillOK, PayType, PayStatus
  <2>3. BillOK'
    BY <2>1, <2>2 DEF BillOK, ghosts
  <2>4. \A q \in PayIns :
          /\ pay_ins'[q].status = "NONE" => pay_ins'[q].amo_out = 0 /\ q \notin sure'
          /\ pay_ins'[q].status = "NEW" /\ pay_ins'[q].amo_out # 0 =>
                 pay_ins'[q].curr = order'.curr /\ pay_ins'[q].amo_out = pay_ins'[q].amount
    BY <2>1 DEF BillOK, PayInv, PayType, ghosts
  <2>5. AllPayed(order') >= 0
    <3>1. amo = v \/ amo = Rest
      BY <2>1 DEF Counting
    <3> HIDE DEF v
    <3> QED BY <2>1, <3>1, BillFacts DEF PayInv, Rest
  <2>6. AllPayed(order') = SumFunctionOnSet(SoftAmo', PayIns)
    <3>1. \A q \in PayIns : SoftAmo[q] \in Int
      BY DEF SoftAmo, BillOK, PayType
    <3>2. \A q \in PayIns : SoftAmo'[q] \in Int
      BY <2>2 DEF SoftAmo, PayType
    <3>3. \A q \in PayIns \ {p} : SoftAmo[q] = SoftAmo'[q]
      BY <2>1 DEF SoftAmo, BillOK
    <3>4. SoftAmo[p] = 0 /\ SoftAmo'[p] = amo
      BY <2>1 DEF SoftAmo, BillOK, PayType
    <3>5. SumFunctionOnSet(SoftAmo', PayIns)
            = SumFunctionOnSet(SoftAmo, PayIns) + (SoftAmo'[p] - SoftAmo[p])
      <4>1. IsFiniteSet(PayIns)
        BY RatesAssumption
      <4>2. IntOn(SoftAmo, PayIns) /\ IntOn(SoftAmo', PayIns)
        BY <3>1, <3>2 DEF IntOn
      <4> QED BY <3>3, <4>1, <4>2, SumAt
    <3>6. SumFunctionOnSet(SoftAmo, PayIns) \in Int
      BY <3>1, SumType, RatesAssumption DEF IntOn
    <3> QED BY <2>1, <3>4, <3>5, <3>6 DEF PayInv
  <2>7. PayInv'
    BY <2>4, <2>5, <2>6 DEF PayInv
  <2> QED BY <2>3, <2>7
<1> QED BY <1>1, <1>2, <1>3, <1>4, <1>5, <1>6, Steps

-----------------------------------------------------------------------------
(* Type correctness. *)

LEMMA BillInit == Init => BillInv
<1> SUFFICES ASSUME Init PROVE BillInv
  OBVIOUS
<1>1. exchg_pairs \in [Rows -> RowType]
  <2>1. Old \in Nat
    BY RatesAssumption DEF Old
  <2> QED BY <2>1 DEF Init, RowType
<1>2. order \in OrderType
  BY DEF Init, OrderType
<1>3. USD \in Currs
  BY RatesAssumption
<1>4. BillOK
  <2>1. pay_ins \in [PayIns -> PayType]
    BY <1>3 DEF Init, PayType, PayStatus
  <2>2. page \in PageType
    BY <1>3 DEF Init, PageType
  <2>3. sure \subseteq PayIns /\ steady \in BOOLEAN /\ blind \in BOOLEAN
    BY DEF Init
  <2> QED BY <1>1, <1>2, <2>1, <2>2, <2>3 DEF BillOK
<1>5. AllPayed(order) = 0
  BY DEF Init, AllPayed
<1>6. SumFunctionOnSet(SoftAmo, PayIns) = 0
  <2>1. \A p \in PayIns : SoftAmo[p] = 0
    BY DEF Init, SoftAmo
  <2>2. IsFiniteSet(PayIns)
    BY RatesAssumption
  <2> QED BY <2>1, <2>2, SumZero
<1>7. PayInv
  BY <1>5, <1>6 DEF Init, PayInv
<1> QED BY <1>4, <1>7 DEF BillInv

LEMMA TypeInit == Init => TypeOK
<1> SUFFICES ASSUME Init PROVE TypeOK
  OBVIOUS
<1>1. BillOK
  BY BillInit DEF BillInv
<1>2. Len(Exchgs) \in Nat /\ MaxFaults \in Nat
  BY RatesAssumption
<1>3. LoopOK
  BY <1>2 DEF Init, LoopOK, Period3
<1> QED BY <1>1, <1>3, TypeParts

LEMMA BillStep == TypeOK /\ BillInv /\ [Next]_vars => (TypeOK /\ BillInv)'
<1> SUFFICES ASSUME TypeOK, BillInv, [Next]_vars PROVE TypeOK' /\ BillInv'
  OBVIOUS
<1>1. LoopOK' /\ BillInv'
  BY LoopNext, BillNext
<1>2. (LoopOK /\ BillOK)'
  BY <1>1 DEF BillInv
<1> QED BY <1>1, <1>2, TypeParts DEF TypeOK, LoopOK, BillOK, RowType, OrderType, PayType, PageType

\* The prices and the rates, the bill and the page have their types: every rate
\* of rates_lib is a natural number, and get_all does not run over the exchanges.
THEOREM RatesTypes == Spec => []TypeOK
<1>1. Init => TypeOK /\ BillInv
  BY TypeInit, BillInit
<1>2. TypeOK /\ BillInv /\ [Next]_vars => (TypeOK /\ BillInv)'
  BY BillStep
<1> QED BY <1>1, <1>2, PTL DEF Spec

-----------------------------------------------------------------------------
(* What the page asks for covers the bill. *)

Covers(c, amo) ==
    IF c = order.curr THEN amo >= ToPay
    ELSE 100 * (ToPay - Value(c, amo)) < Price[order.curr]

\* The page asks for amo, or a payment of the whole of what it asked for is on
\* its way.
Quoted(c, amo) ==
    \/ page.sure /\ page.amount > 0 /\ page.curr = c /\ page.amount = amo
    \/ \E p \in sure : /\ pay_ins[p].status = "NEW"
                       /\ pay_ins[p].curr = c /\ pay_ins[p].amount = amo

QuoteInv == \A c \in Currs : \A amo \in Nat : Quoted(c, amo) => Covers(c, amo)

\* It goes on to cover it while no rate changes and not more is left to pay.
LEMMA CoversStill ==
    ASSUME BillOK, BillOK', Table(exchg_pairs') = Table(exchg_pairs),
           order'.curr = order.curr, ToPay' <= ToPay,
           NEW c \in Currs, NEW amo \in Nat, Covers(c, amo)
    PROVE  Covers(c, amo)'
<1>1. Value(c, amo)' = Value(c, amo) /\ Value(c, amo) \in Nat
  BY BillFacts, SameValue, ValueIs DEF BillOK
<1>2. ToPay \in Int /\ ToPay' \in Int /\ Price[order.curr] \in Int
  <2>1. ToPay \in Int /\ Price[order.curr] \in Int
    BY BillFacts
  <2> QED BY <2>1, BillFactsNext
<1> QED BY <1>1, <1>2 DEF Covers

LEMMA ToPayConfirmed ==
    ASSUME BillInv, BillInv', NEW p \in PayIns, VisitConfirmed(p)
    PROVE  ToPay' <= ToPay
<1> DEFINE amo == AmoOut(p)
           v == Value(pay_ins[p].curr, pay_ins[p].amount)
<1>1. /\ amo \in Int /\ Counting(p, amo) /\ v \in Nat
      /\ order'.curr = order.curr /\ AllPayed(order') = AllPayed(order) + amo
  BY Confirmed
<1>2. amo = v \/ amo = Rest
  BY <1>1 DEF Counting
<1> HIDE DEF amo, v
<1>3. Rest \in Int /\ Rest' = Rest - amo
  BY <1>1, BillFacts DEF BillInv, Rest
<1>4. ToPay = (IF Rest > 0 THEN Rest ELSE 0) /\ ToPay' = (IF Rest' > 0 THEN Rest' ELSE 0)
  BY BillFacts, BillFactsNext DEF BillInv
<1> QED BY <1>1, <1>2, <1>3, <1>4

LEMMA QuoteNext ==
    ASSUME TypeOK, BillInv, BillInv', QuoteFits, QuoteInv, [Next]_vars
    PROVE  QuoteInv'
<1> SUFFICES ASSUME NEW c \in Currs, NEW a \in Nat, Quoted(c, a)' PROVE Covers(c, a)'
  BY DEF QuoteInv
<1>1. BillOK /\ BillOK'
  BY DEF BillInv
<1>2. sure \subseteq PayIns /\ ToPay \in Int
  BY <1>1, BillFacts DEF BillOK
<1>3. ASSUME Table(exchg_pairs') = Table(exchg_pairs), order'.curr = order.curr,
             ToPay' <= ToPay, Quoted(c, a) \/ Covers(c, a)
      PROVE  Covers(c, a)'
  BY <1>1, <1>3, CoversStill DEF QuoteInv
<1>4. ASSUME order' = order PROVE order'.curr = order.curr /\ ToPay' <= ToPay
  BY <1>2, <1>4 DEF ToPay
<1>5. ASSUME NEW rows \in [Rows -> RowType], SetRows(rows) PROVE Covers(c, a)'
  <2>1. CASE Table(rows) = Table(exchg_pairs)
    <3>1. Quoted(c, a)
      BY <1>1, <1>5, <2>1 DEF SetRows, BillOK, PageType, Quoted
    <3> QED BY <1>3, <1>4, <1>5, <2>1, <3>1 DEF SetRows
  <2>2. CASE Table(rows) # Table(exchg_pairs)
    BY <1>1, <1>5, <2>2 DEF SetRows, BillOK, PageType, Quoted
  <2> QED BY <2>1, <2>2
<1>6. ASSUME Quiet PROVE Covers(c, a)'
  <2>1. Quoted(c, a)
    BY <1>6 DEF Quiet, ghosts, Quoted
  <2> QED BY <1>3, <1>4, <1>6, <2>1 DEF Quiet
<1>7. ASSUME NEW d \in Crypto, ShowUpdate(d) PROVE Covers(c, a)'
  <2> DEFINE left == ToPay - Estimated
             rate == BillRate(order.curr, d, ToPay)
             amo == Asked(d, rate, left)
  <2>1. /\ Estimable /\ order.status \in {"NEW", "FILL"} /\ left \in Nat \ {0}
        /\ rate \in Nat \ {0} /\ d \in Currs /\ amo \in Nat
        /\ page' = [curr |-> d, amount |-> amo, sure |-> Unrated = {}, same |-> TRUE]
    BY <1>1, <1>7, Shown
  <2>2. UNCHANGED <<exchg_pairs, order, pay_ins, sure>>
    BY <1>7 DEF ShowUpdate, loopVars
  <2>3. ASSUME Unrated = {} PROVE Covers(d, amo)
    <3>1. left = ToPay
      BY <1>1, <1>2, <2>1, <2>3, ExpectedType
    <3>2. CASE d = order.curr
      <4>1. rate = Unit
        BY <2>1, <3>2, BillRateSame
      <4>2. amo = left
        <5> HIDE DEF left, rate
        <5> QED BY <2>1, <3>2, <4>1, AskedSame
      <4> QED BY <3>1, <3>2, <4>2, <1>2 DEF Covers
    <3>3. CASE d # order.curr
      <4>1. left > 0 /\ rate # 0
        BY <2>1
      <4>2. 100 * (left - Value(d, amo)) < Price[order.curr]
        BY <2>1, <2>3, <4>1 DEF QuoteFits
      <4> HIDE DEF left, rate, amo
      <4> QED BY <3>1, <3>3, <4>2 DEF Covers
    <3> QED BY <3>2, <3>3
  <2> HIDE DEF amo
  <2>4. Quoted(c, a) \/ (Unrated = {} /\ c = d /\ a = amo)
    BY <2>1, <2>2 DEF Quoted
  <2>5. Quoted(c, a) \/ Covers(c, a)
    BY <2>3, <2>4
  <2> QED BY <1>3, <1>4, <2>2, <2>5
<1>8. ASSUME NEW p \in PayIns, Pay(p) PROVE Covers(c, a)'
  <2>1. PICK amount \in {page.amount, page.amount \div 2} :
          /\ pay_ins' = [pay_ins EXCEPT ![p] =
                 [status |-> "NEW", curr |-> page.curr, amount |-> amount, amo_out |-> 0]]
          /\ sure' = IF page.sure /\ amount = page.amount THEN sure \cup {p} ELSE sure
    BY <1>8 DEF Pay
  <2>2. /\ page.amount > 1 /\ page' = [page EXCEPT !.amount = 0]
        /\ UNCHANGED <<exchg_pairs, order>> /\ pay_ins[p].status = "NONE"
    BY <1>8 DEF Pay, loopVars
  <2>3. page'.amount = 0
    BY <1>1, <2>2 DEF BillOK, PageType
  <2>4. PICK q \in sure' : pay_ins'[q].status = "NEW" /\ pay_ins'[q].curr = c /\ pay_ins'[q].amount = a
    BY <2>3 DEF Quoted
  <2>5. CASE q = p /\ page.sure /\ amount = page.amount
    <3>1. pay_ins'[q].curr = page.curr /\ pay_ins'[q].amount = page.amount
      BY <1>1, <2>1, <2>5 DEF BillOK
    <3>2. Quoted(c, a)
      BY <2>2, <2>4, <2>5, <3>1 DEF Quoted
    <3> QED BY <1>3, <1>4, <2>2, <3>2
  <2>6. CASE q \in sure /\ q # p
    <3>1. pay_ins'[q] = pay_ins[q]
      BY <1>1, <2>1, <2>6 DEF BillOK
    <3>2. Quoted(c, a)
      BY <2>4, <2>6, <3>1 DEF Quoted
    <3> QED BY <1>3, <1>4, <2>2, <3>2
  <2>7. p \notin sure
    BY <2>2 DEF BillInv, PayInv
  <2> QED BY <2>1, <2>5, <2>6, <2>7
<1>9. ASSUME NEW p \in PayIns, VisitUnconfirmed(p) PROVE Covers(c, a)'
  <2>1. /\ pay_ins' = [pay_ins EXCEPT ![p].amo_out = AmoOut(p)]
        /\ UNCHANGED <<exchg_pairs, order, page, sure>>
    BY <1>9 DEF VisitUnconfirmed, loopVars, ghosts
  <2>2. \A q \in PayIns : /\ pay_ins'[q].curr = pay_ins[q].curr
                          /\ pay_ins'[q].amount = pay_ins[q].amount
                          /\ pay_ins'[q].status = pay_ins[q].status
    BY <1>1, <2>1 DEF BillOK, PayType
  <2>3. Quoted(c, a)
    BY <1>2, <2>1, <2>2 DEF Quoted
  <2> QED BY <1>3, <1>4, <2>1, <2>3
<1>10. ASSUME NEW p \in PayIns, VisitConfirmed(p) PROVE Covers(c, a)'
  <2> DEFINE amo == AmoOut(p)
  <2>1. /\ pay_ins' = [pay_ins EXCEPT ![p].amo_out = amo, ![p].status = "SOFT"]
        /\ order'.curr = order.curr /\ UNCHANGED <<exchg_pairs, page, sure>>
    BY <1>10, Confirmed DEF ghosts
  <2> HIDE DEF amo
  <2>2. \A q \in PayIns :
          pay_ins'[q].status = "NEW" => pay_ins[q].status = "NEW" /\ pay_ins'[q] = pay_ins[q]
    BY <1>1, <2>1 DEF BillOK, PayType
  <2>3. Quoted(c, a)
    BY <1>2, <2>1, <2>2 DEF Quoted
  <2>4. ToPay' <= ToPay
    BY <1>10, ToPayConfirmed
  <2> QED BY <1>3, <2>1, <2>3, <2>4
<1> QED BY <1>5, <1>6, <1>7, <1>8, <1>9, <1>10, Steps

\* A payment that covers what is left to pay pays the bill when it is counted.
LEMMA CoveredStep ==
    ASSUME TypeOK, BillInv, BillInv', QuoteInv, [Next]_vars,
           NEW p \in sure, pay_ins[p].status # "SOFT", pay_ins'[p].status = "SOFT"
    PROVE  AllPayed(order') >= Price[order.curr]
<1>1. p \in PayIns
  BY DEF BillInv, BillOK
<1>2. VisitConfirmed(p)
  <2>1. ASSUME NEW q \in PayIns, VisitConfirmed(q) PROVE p = q
    BY <1>1, <2>1 DEF VisitConfirmed, BillInv, BillOK
  <2>2. ~ \E q \in PayIns : Pay(q) \/ VisitUnconfirmed(q)
    BY <1>1 DEF Pay, VisitUnconfirmed, BillInv, BillOK, PayType
  <2>3. pay_ins' # pay_ins
    OBVIOUS
  <2> QED BY <2>1, <2>2, <2>3, Steps DEF SetRows, Quiet, ShowUpdate
<1> DEFINE amo == AmoOut(p)
           c == pay_ins[p].curr
           v == Value(c, pay_ins[p].amount)
<1>3. /\ pay_ins[p].status = "NEW" /\ amo \in Int /\ Counting(p, amo) /\ v \in Nat
      /\ AllPayed(order') = AllPayed(order) + amo
  BY <1>1, <1>2, Confirmed
<1>4. Covers(c, pay_ins[p].amount)
  <2>1. c \in Currs /\ pay_ins[p].amount \in Nat
    BY <1>1 DEF BillInv, BillOK, PayType
  <2>2. Quoted(c, pay_ins[p].amount)
    BY <1>3 DEF Quoted
  <2> QED BY <2>1, <2>2 DEF QuoteInv
<1>5. c = order.curr => v = pay_ins[p].amount
  BY DEF Value
<1> HIDE DEF amo
<1>6. CASE c = order.curr
  <2>1. amo = v /\ v >= ToPay
    BY <1>3, <1>4, <1>5, <1>6 DEF Counting, Covers
  <2> HIDE DEF v
  <2> QED BY <1>3, <2>1, BillFacts DEF BillInv, Rest
<1>7. CASE c # order.curr
  <2>1. 100 * (ToPay - v) < Price[order.curr]
    BY <1>4, <1>7 DEF Covers
  <2>2. amo = Rest \/ (amo = v /\ ~ (100 * (IF v > Rest THEN v - Rest ELSE Rest - v) < Price[order.curr]))
    BY <1>3, <1>7 DEF Counting
  <2> HIDE DEF v
  <2>3. CASE amo = Rest
    BY <1>3, <2>3, BillFacts DEF BillInv, Rest
  <2>4. CASE amo = v /\ ~ (100 * (IF v > Rest THEN v - Rest ELSE Rest - v) < Price[order.curr])
    <3>1. v > Rest
      BY <1>3, <2>1, <2>4, BillFacts DEF BillInv
    <3> QED BY <1>3, <2>4, <3>1, BillFacts DEF BillInv, Rest
  <2> QED BY <2>2, <2>3, <2>4
<1> QED BY <1>6, <1>7

\* While the two sides of the rates are near enough, a payment of the whole of
\* what the page asked for pays the bill when it is counted, in whatever order the
\* payments are made, seen and counted, if no rate has changed in between.
THEOREM QuoteIsCovered == Spec /\ []QuoteFits => QuoteCovers
<1> DEFINE Inv == TypeOK /\ BillInv /\ QuoteInv
           Covered == \A p \in sure :
               pay_ins[p].status # "SOFT" /\ pay_ins'[p].status = "SOFT" =>
                   AllPayed(order') >= Price[order.curr]
<1>1. Init => Inv
  BY TypeInit, BillInit DEF Init, QuoteInv, Quoted
<1>2. Inv /\ QuoteFits /\ [Next]_vars => Inv'
  BY BillStep, QuoteNext
<1>3. Inv /\ [Next]_vars => [Covered]_vars
  <2> SUFFICES ASSUME Inv, [Next]_vars PROVE Covered
    OBVIOUS
  <2>1. BillInv'
    BY BillStep
  <2> QED BY <2>1, CoveredStep
<1> HIDE DEF Inv, Covered
<1>4. Spec /\ []QuoteFits => [][Covered]_vars
  BY <1>1, <1>2, <1>3, PTL DEF Spec
<1> QED BY <1>4 DEF QuoteCovers, Covered

-----------------------------------------------------------------------------
(* The page does not ask twice for the same. *)

\* The bill is worth its sums and what the payments on their way will bring at the
\* rates of the moment.
Values == [c \in Currs |-> [amo \in Nat |-> Value(c, amo)]]

Coming == [p \in PayIns |->
    IF pay_ins[p].status = "NEW" THEN Values[pay_ins[p].curr][pay_ins[p].amount] ELSE 0]

Worth == AllPayed(order) + SumFunctionOnSet(Coming, PayIns)

\* It is worth less than the tenth too much, by as much as can still be forgiven,
\* even when the customer pays what the page asks for now.
Fits(worth) == 100 * worth <= (IF Rest > 0 THEN 109 ELSE 110) * Price[order.curr]

AskedInv ==
    steady /\ ~blind =>
        /\ Fits(Worth)
        /\ page.same => \A amo \in {page.amount, page.amount \div 2} :
               Fits(Worth + Values[page.curr][amo])

LEMMA ValuesType ==
    ASSUME BillOK
    PROVE  Values \in [Currs -> [Nat -> Nat]] /\ \A c \in Currs : Values[c][0] = 0
<1>1. \A c \in Currs : \A amo \in Nat : Value(c, amo) \in Nat /\ Value(c, 0) = 0
  BY ValueIs
<1> QED BY <1>1 DEF Values

LEMMA SameValues ==
    ASSUME BillOK, BillOK', Table(exchg_pairs') = Table(exchg_pairs), order'.curr = order.curr
    PROVE  Values' = Values
<1>1. \A c \in Currs : \A amo \in Nat : Value(c, amo)' = Value(c, amo)
  BY BillFacts, SameValue DEF BillOK
<1> QED BY <1>1 DEF Values

LEMMA ComingType ==
    ASSUME BillOK
    PROVE  /\ \A p \in PayIns : Coming[p] \in Nat
           /\ SumFunctionOnSet(Coming, PayIns) \in Nat /\ Worth \in Int
<1>1. \A p \in PayIns : Coming[p] \in Nat
  BY ValuesType DEF Coming, BillOK, PayType
<1>2. IsFiniteSet(PayIns)
  BY RatesAssumption
<1>3. SumFunctionOnSet(Coming, PayIns) \in Nat
  BY <1>1, <1>2, SumNat
<1> QED BY <1>1, <1>3, BillFacts DEF Worth

\* The sum when the value of one payment changes.
LEMMA ComingAt ==
    ASSUME BillOK, NEW p \in PayIns, Coming'[p] \in Nat,
           \A q \in PayIns \ {p} : Coming'[q] = Coming[q]
    PROVE  SumFunctionOnSet(Coming', PayIns)
             = SumFunctionOnSet(Coming, PayIns) + (Coming'[p] - Coming[p])
<1>1. IsFiniteSet(PayIns)
  BY RatesAssumption
<1>2. IntOn(Coming, PayIns)
  BY ComingType DEF IntOn
<1>3. IntOn(Coming', PayIns)
  BY <1>2 DEF IntOn
<1>4. \A q \in PayIns \ {p} : Coming[q] = Coming'[q]
  OBVIOUS
<1> QED BY <1>1, <1>2, <1>3, <1>4, SumAt

LEMMA ComingSame ==
    ASSUME BillOK, \A p \in PayIns : Coming'[p] = Coming[p]
    PROVE  SumFunctionOnSet(Coming', PayIns) = SumFunctionOnSet(Coming, PayIns)
<1>1. IsFiniteSet(PayIns)
  BY RatesAssumption
<1>2. IntOn(Coming, PayIns) /\ \A p \in PayIns : Coming[p] = Coming'[p]
  BY ComingType DEF IntOn
<1> QED BY <1>1, <1>2, SumSame

\* What is on its way is worth at most 9% more than it is expected to bring.
LEMMA ComingFits ==
    ASSUME BillOK, QuoteFits, Estimable, order.status \in {"NEW", "FILL"},
           \A p \in Seen : pay_ins[p].amo_out = 0
    PROVE  100 * SumFunctionOnSet(Coming, PayIns) <= 109 * Estimated
<1> DEFINE e == [p \in PayIns |-> IF p \in Unrated THEN Expected(p) ELSE 0]
           worth == [p \in PayIns |-> 100 * Coming[p]]
           most == [p \in PayIns |-> 109 * e[p]]
<1>1. IsFiniteSet(PayIns)
  BY RatesAssumption
<1>2. \A p \in PayIns : e[p] \in Int
  BY ExpectedType
<1>3. \A p \in PayIns : Coming[p] \in Int
  BY ComingType
<1>4. ASSUME NEW p \in PayIns PROVE worth[p] <= most[p]
  <2>1. CASE pay_ins[p].status = "NEW"
    <3>1. p \in Unrated
      BY <2>1 DEF Unrated, Seen
    <3>2. 100 * Value(pay_ins[p].curr, pay_ins[p].amount) <= 109 * Expected(p)
      BY <3>1 DEF QuoteFits
    <3>3. Coming[p] = Value(pay_ins[p].curr, pay_ins[p].amount)
      BY <2>1 DEF Coming, Values, BillOK, PayType
    <3> QED BY <3>1, <3>2, <3>3
  <2>2. CASE pay_ins[p].status # "NEW"
    <3>1. Coming[p] = 0 /\ e[p] = 0
      BY <2>2 DEF Coming, Unrated, Seen
    <3> QED BY <3>1
  <2> QED BY <2>1, <2>2
<1> HIDE DEF e
<1>5. IntOn(Coming, PayIns) /\ IntOn(e, PayIns) /\ IntOn(worth, PayIns) /\ IntOn(most, PayIns)
  BY <1>2, <1>3 DEF IntOn
<1>6. SumFunctionOnSet(worth, PayIns) = 100 * SumFunctionOnSet(Coming, PayIns)
  <2>1. \A p \in PayIns : worth[p] = 100 * Coming[p]
    OBVIOUS
  <2> HIDE DEF worth
  <2> QED BY <1>1, <1>5, <2>1, SumTimes
<1>7. SumFunctionOnSet(most, PayIns) = 109 * SumFunctionOnSet(e, PayIns)
  <2>1. \A p \in PayIns : most[p] = 109 * e[p]
    OBVIOUS
  <2> HIDE DEF most
  <2> QED BY <1>1, <1>5, <2>1, SumTimes
<1>8. SumFunctionOnSet(worth, PayIns) <= SumFunctionOnSet(most, PayIns)
  <2> HIDE DEF worth, most
  <2> QED BY <1>1, <1>4, <1>5, SumMonotone
<1> QED BY <1>6, <1>7, <1>8 DEF Estimated, e

\* A step that counts no payment and shows no page.
LEMMA AskedStill ==
    ASSUME BillInv, BillInv', AskedInv, Table(exchg_pairs') = Table(exchg_pairs), order' = order,
           \A p \in PayIns : /\ pay_ins'[p].curr = pay_ins[p].curr
                             /\ pay_ins'[p].amount = pay_ins[p].amount
                             /\ pay_ins'[p].status = pay_ins[p].status,
           page'.curr = page.curr, page'.amount = page.amount,
           page'.same => page.same, steady' => steady, ~blind' => ~blind
    PROVE  AskedInv'
<1>1. Values' = Values
  BY SameValues DEF BillInv
<1>2. \A p \in PayIns : Coming'[p] = Coming[p]
  BY <1>1 DEF Coming
<1>3. Worth' = Worth
  BY <1>2, ComingSame DEF Worth, BillInv
<1>4. Rest' = Rest
  BY DEF Rest
<1> QED BY <1>1, <1>3, <1>4 DEF AskedInv, Fits

LEMMA AskedShown ==
    ASSUME BillInv, BillInv', QuoteFits, AskedInv, NEW c \in Crypto, ShowUpdate(c)
    PROVE  AskedInv'
<1> DEFINE left == ToPay - Estimated
           rate == BillRate(order.curr, c, ToPay)
           asked == Asked(c, rate, left)
           sum == SumFunctionOnSet(Coming, PayIns)
<1> SUFFICES ASSUME steady', ~blind'
             PROVE  /\ Fits(Worth)'
                    /\ \A amo \in {page'.amount, page'.amount \div 2} :
                           Fits(Worth + Values[page.curr][amo])'
  BY DEF AskedInv
<1>1. BillOK /\ BillOK' /\ AllPayed(order) >= 0
  BY DEF BillInv, PayInv
<1>2. /\ Estimable /\ order.status \in {"NEW", "FILL"}
      /\ left \in Nat \ {0} /\ ToPay = Rest /\ rate \in Nat \ {0} /\ c \in Currs /\ asked \in Nat
      /\ page' = [curr |-> c, amount |-> asked, sure |-> Unrated = {}, same |-> TRUE]
  BY <1>1, Shown
<1>3. /\ UNCHANGED <<exchg_pairs, order, pay_ins, steady>>
      /\ ~blind /\ \A p \in Seen : pay_ins[p].amo_out = 0
  BY DEF ShowUpdate, loopVars
<1>4. Values' = Values
  BY <1>1, <1>3, SameValues
<1>5. Worth' = Worth /\ Rest' = Rest
  <2>1. \A p \in PayIns : Coming'[p] = Coming[p]
    BY <1>3, <1>4 DEF Coming
  <2> QED BY <1>1, <1>3, <2>1, ComingSame DEF Worth, Rest
<1>6. Fits(Worth)
  BY <1>3 DEF AskedInv
<1>7. 100 * sum <= 109 * Estimated
  BY <1>1, <1>2, <1>3, ComingFits
<1>8. sum \in Nat /\ Estimated \in Nat
  BY <1>1, <1>2, ComingType, ExpectedType
<1>9. ASSUME NEW amo \in {asked, asked \div 2} PROVE Fits(Worth + Values[c][amo])
  <2>1. amo \in Nat
    <3> HIDE DEF asked
    <3> QED BY <1>2
  <2>2. 100 * Value(c, amo) <= 109 * left
    BY <1>2 DEF QuoteFits
  <2> DEFINE v == Value(c, amo)
  <2>3. Values[c][amo] = v /\ v \in Nat
    BY <1>1, <1>2, <2>1, ValueIs DEF Values
  <2>4. /\ Price[order.curr] \in Nat /\ AllPayed(order) \in Int
        /\ Rest = Price[order.curr] - AllPayed(order)
    BY <1>1, BillFacts DEF Rest
  <2>5. Estimated + left = Rest /\ left > 0
    BY <1>2, <1>8, <2>4
  <2> HIDE DEF v, left, sum
  <2>6. 100 * (AllPayed(order) + sum + v) <= 109 * Price[order.curr] /\ Rest > 0
    BY <1>1, <1>2, <1>7, <1>8, <2>2, <2>3, <2>4, <2>5 DEF v
  <2> QED BY <2>3, <2>6 DEF Fits, Worth, sum
<1> HIDE DEF asked
<1>10. page'.amount = asked /\ page'.curr = c
  BY <1>2
<1> QED BY <1>3, <1>4, <1>5, <1>6, <1>9, <1>10 DEF Fits

LEMMA AskedPaid ==
    ASSUME BillInv, BillInv', AskedInv, NEW p \in PayIns, Pay(p)
    PROVE  AskedInv'
<1> SUFFICES ASSUME steady', ~blind'
             PROVE  /\ Fits(Worth)'
                    /\ \A amo \in {page'.amount, page'.amount \div 2} :
                           Fits(Worth + Values[page.curr][amo])'
  BY DEF AskedInv
<1>1. BillOK /\ BillOK'
  BY DEF BillInv
<1>2. PICK amount \in {page.amount, page.amount \div 2} :
        pay_ins' = [pay_ins EXCEPT ![p] =
            [status |-> "NEW", curr |-> page.curr, amount |-> amount, amo_out |-> 0]]
  BY DEF Pay
<1>3. /\ pay_ins[p].status = "NONE" /\ steady /\ page.same /\ ~blind
      /\ page' = [page EXCEPT !.amount = 0]
      /\ UNCHANGED <<exchg_pairs, order>>
  BY DEF Pay, loopVars
<1>4. page.curr \in Currs /\ amount \in Nat /\ page'.amount = 0 /\ page'.curr = page.curr
  BY <1>1, <1>3 DEF BillOK, PageType
<1>5. Values' = Values /\ Rest' = Rest
  BY <1>1, <1>3, SameValues DEF Rest
<1> DEFINE v == Values[page.curr][amount]
<1>6. v \in Nat /\ Values[page.curr][0] = 0
  BY <1>1, <1>4, ValuesType
<1>7. Coming[p] = 0 /\ Coming'[p] = v
  BY <1>1, <1>2, <1>3, <1>5 DEF Coming, BillOK
<1>8. \A q \in PayIns \ {p} : Coming'[q] = Coming[q]
  BY <1>1, <1>2, <1>5 DEF Coming, BillOK
<1> HIDE DEF v
<1>9. Worth' = Worth + v
  <2>1. SumFunctionOnSet(Coming', PayIns) = SumFunctionOnSet(Coming, PayIns) + (v - 0)
    BY <1>1, <1>6, <1>7, <1>8, ComingAt
  <2>2. SumFunctionOnSet(Coming, PayIns) \in Int /\ AllPayed(order) \in Int
    BY <1>1, ComingType, BillFacts
  <2> QED BY <1>3, <1>6, <2>1, <2>2 DEF Worth
<1>10. Fits(Worth + v)
  BY <1>2, <1>3 DEF AskedInv, v
<1>11. Worth + v \in Int
  BY <1>1, <1>6, ComingType
<1>12. page'.amount \div 2 = 0
  BY <1>4
<1> QED BY <1>3, <1>4, <1>5, <1>6, <1>9, <1>10, <1>11, <1>12 DEF Fits

\* What is forgiven is forgiven once: nothing is left to pay then.
LEMMA AskedConfirmed ==
    ASSUME BillInv, BillInv', AskedInv, NEW p \in PayIns, VisitConfirmed(p)
    PROVE  AskedInv'
<1> SUFFICES ASSUME steady', ~blind'
             PROVE  /\ Fits(Worth)'
                    /\ page'.same => \A h \in {page'.amount, page'.amount \div 2} :
                           Fits(Worth + Values[page.curr][h])'
  BY DEF AskedInv
<1> DEFINE amo == AmoOut(p)
           v == Value(pay_ins[p].curr, pay_ins[p].amount)
           price == Price[order.curr]
<1>1. BillOK /\ BillOK'
  BY DEF BillInv
<1>2. /\ pay_ins[p].status = "NEW" /\ amo \in Int /\ Counting(p, amo) /\ v \in Nat
      /\ pay_ins' = [pay_ins EXCEPT ![p].amo_out = amo, ![p].status = "SOFT"]
      /\ order'.curr = order.curr /\ AllPayed(order') = AllPayed(order) + amo
      /\ UNCHANGED <<exchg_pairs, page, ghosts>>
  BY Confirmed
<1>3. steady /\ ~blind
  BY <1>2 DEF ghosts
<1>4. Values' = Values
  BY <1>1, <1>2, SameValues
<1>5. Coming[p] = v /\ Coming'[p] = 0
  BY <1>1, <1>2 DEF Coming, Values, BillOK, PayType
<1> HIDE DEF amo, v
<1>6. \A q \in PayIns \ {p} : Coming'[q] = Coming[q]
  BY <1>1, <1>2, <1>4 DEF Coming, BillOK
<1>7. Worth' = Worth + amo - v
  <2>1. SumFunctionOnSet(Coming', PayIns) = SumFunctionOnSet(Coming, PayIns) + (0 - v)
    BY <1>1, <1>5, <1>6, ComingAt
  <2>2. SumFunctionOnSet(Coming, PayIns) \in Int /\ AllPayed(order) \in Int
    BY <1>1, ComingType, BillFacts
  <2> QED BY <1>2, <2>1, <2>2 DEF Worth
<1>8. price \in Nat /\ Rest \in Int /\ Rest' = Rest - amo /\ Worth \in Int
  BY <1>1, <1>2, BillFacts, ComingType DEF Rest
<1>9. amo = v \/ (amo = Rest /\ 100 * (IF v > Rest THEN v - Rest ELSE Rest - v) < price)
  BY <1>2 DEF Counting, v
<1>10. ASSUME NEW x \in Nat, Fits(Worth + x)
       PROVE  100 * (Worth' + x) <= (IF Rest' > 0 THEN 109 ELSE 110) * price
  <2>1. 100 * (Worth + x) <= (IF Rest > 0 THEN 109 ELSE 110) * price
    BY <1>10 DEF Fits
  <2> HIDE DEF price
  <2>2. CASE amo = v
    <3>1. 100 * (Worth' + x) = 100 * (Worth + x)
      BY <1>2, <1>7, <1>8, <2>2
    <3>2. Rest' <= Rest
      BY <1>2, <1>8, <2>2
    <3> QED BY <1>8, <2>1, <3>1, <3>2
  <2>3. CASE amo = Rest /\ 100 * (IF v > Rest THEN v - Rest ELSE Rest - v) < price
    <3>1. Rest' = 0 /\ Worth' = Worth + Rest - v
      BY <1>7, <1>8, <2>3
    <3>2. CASE Rest > 0
      <4>1. 100 * (Rest - v) < price
        BY <1>2, <1>8, <2>3, <3>2
      <4> QED BY <1>2, <1>8, <2>1, <3>1, <3>2, <4>1
    <3>3. CASE ~ (Rest > 0)
      BY <1>2, <1>8, <2>1, <3>1, <3>3
    <3> QED BY <3>2, <3>3
  <2> QED BY <1>9, <2>2, <2>3
<1>11. Fits(Worth)'
  <2>1. Fits(Worth + 0)
    BY <1>3, <1>8 DEF AskedInv
  <2>2. 100 * (Worth' + 0) <= (IF Rest' > 0 THEN 109 ELSE 110) * price
    BY <1>10, <2>1
  <2>3. Worth' + 0 = Worth'
    BY <1>2, <1>7, <1>8
  <2> QED BY <1>2, <2>2, <2>3 DEF Fits
<1>12. ASSUME page'.same, NEW h \in {page'.amount, page'.amount \div 2}
       PROVE  Fits(Worth + Values[page.curr][h])'
  <2>1. page.same /\ h \in {page.amount, page.amount \div 2} /\ page'.curr = page.curr
    BY <1>2, <1>12
  <2>2. Fits(Worth + Values[page.curr][h])
    BY <1>3, <2>1 DEF AskedInv
  <2>3. page.curr \in Currs /\ h \in Nat
    BY <1>1, <2>1 DEF BillOK, PageType
  <2>4. Values[page.curr][h] \in Nat
    BY <1>1, <2>3, ValuesType
  <2> QED BY <1>2, <1>4, <1>10, <2>1, <2>2, <2>4 DEF Fits
<1> QED BY <1>11, <1>12

\* A rate may change before the first payment.
LEMMA AskedAnew ==
    ASSUME BillInv, BillInv', \A p \in PayIns : pay_ins'[p].status = "NONE", ~page'.same
    PROVE  AskedInv'
<1>1. IsFiniteSet(PayIns)
  BY RatesAssumption
<1>2. SumFunctionOnSet(Coming', PayIns) = 0
  <2>1. \A p \in PayIns : Coming'[p] = 0
    BY DEF Coming
  <2> QED BY <1>1, <2>1, SumZero
<1>3. SumFunctionOnSet(SoftAmo', PayIns) = 0
  <2>1. \A p \in PayIns : SoftAmo'[p] = 0
    BY DEF SoftAmo
  <2> QED BY <1>1, <2>1, SumZero
<1>4. Worth' = 0
  BY <1>2, <1>3 DEF Worth, BillInv, PayInv
<1>5. Price[order'.curr] \in Nat
  BY BillFactsNext DEF BillInv
<1>6. Fits(Worth)'
  BY <1>4, <1>5 DEF Fits
<1> QED BY <1>6 DEF AskedInv

LEMMA AskedNext ==
    ASSUME TypeOK, BillInv, BillInv', QuoteFits, AskedInv, [Next]_vars
    PROVE  AskedInv'
<1>1. BillOK
  BY DEF BillInv
<1>2. ASSUME NEW rows \in [Rows -> RowType], SetRows(rows) PROVE AskedInv'
  <2>1. CASE Table(rows) = Table(exchg_pairs)
    <3>1. /\ exchg_pairs' = rows /\ UNCHANGED <<order, pay_ins, blind>>
          /\ page' = page /\ (steady' => steady)
      BY <1>1, <1>2, <2>1 DEF SetRows, BillOK, PageType
    <3> QED BY <2>1, <3>1, AskedStill
  <2>2. CASE Table(rows) # Table(exchg_pairs)
    <3>1. ~page'.same /\ pay_ins' = pay_ins
      BY <1>1, <1>2, <2>2 DEF SetRows, BillOK, PageType
    <3>2. steady' => \A p \in PayIns : pay_ins'[p].status = "NONE"
      BY <1>2, <2>2 DEF SetRows
    <3>3. CASE ~steady'
      BY <3>3 DEF AskedInv
    <3>4. CASE steady'
      <4>1. \A p \in PayIns : pay_ins'[p].status = "NONE"
        BY <3>2, <3>4
      <4> QED BY <3>1, <4>1, AskedAnew
    <3> QED BY <3>3, <3>4
  <2> QED BY <2>1, <2>2
<1>3. ASSUME Quiet PROVE AskedInv'
  BY <1>3, AskedStill DEF Quiet, ghosts
<1>4. ASSUME NEW p \in PayIns, VisitUnconfirmed(p) PROVE AskedInv'
  <2>1. /\ pay_ins' = [pay_ins EXCEPT ![p].amo_out = AmoOut(p)]
        /\ UNCHANGED <<exchg_pairs, order, page, ghosts>>
    BY <1>4 DEF VisitUnconfirmed, loopVars
  <2>2. \A q \in PayIns : /\ pay_ins'[q].curr = pay_ins[q].curr
                          /\ pay_ins'[q].amount = pay_ins[q].amount
                          /\ pay_ins'[q].status = pay_ins[q].status
    BY <1>1, <2>1 DEF BillOK, PayType
  <2> QED BY <2>1, <2>2, AskedStill DEF ghosts
<1> QED BY <1>2, <1>3, <1>4, AskedShown, AskedPaid, AskedConfirmed, Steps

LEMMA AskedInit == Init => AskedInv
<1> SUFFICES ASSUME Init PROVE AskedInv
  OBVIOUS
<1>1. BillInv
  BY BillInit
<1>2. SumFunctionOnSet(Coming, PayIns) = 0
  <2>1. \A p \in PayIns : Coming[p] = 0
    BY DEF Init, Coming
  <2>2. IsFiniteSet(PayIns)
    BY RatesAssumption
  <2> QED BY <2>1, <2>2, SumZero
<1>3. Worth = 0
  BY <1>2 DEF Init, Worth, AllPayed
<1>4. Fits(Worth)
  BY <1>1, <1>3, BillFacts DEF Fits, BillInv
<1> QED BY <1>4 DEF Init, AskedInv

\* What the payments have brought is not more than the bill is worth.
LEMMA BroughtFits ==
    ASSUME BillInv, AskedInv
    PROVE  AskedOnceUnlessBlind
<1> SUFFICES ASSUME steady, ~blind
             PROVE  SumFunctionOnSet([p \in PayIns |-> pay_ins[p].amo_out], PayIns) <= Limit
  BY DEF AskedOnceUnlessBlind
<1> DEFINE amo == [p \in PayIns |-> pay_ins[p].amo_out]
           new == [p \in PayIns |-> IF pay_ins[p].status = "NEW" THEN pay_ins[p].amo_out ELSE 0]
<1>1. BillOK /\ PayInv
  BY DEF BillInv
<1>2. IsFiniteSet(PayIns)
  BY RatesAssumption
<1>3. IntOn(SoftAmo, PayIns) /\ IntOn(new, PayIns)
  BY <1>1 DEF IntOn, SoftAmo, BillOK, PayType
<1>4. \A p \in PayIns : amo[p] = SoftAmo[p] + new[p]
  <2> SUFFICES ASSUME NEW p \in PayIns PROVE amo[p] = SoftAmo[p] + new[p]
    OBVIOUS
  <2>1. pay_ins[p].status \in {"NONE", "NEW", "SOFT"} /\ pay_ins[p].amo_out \in Int
    BY <1>1 DEF BillOK, PayType, PayStatus
  <2>2. pay_ins[p].status = "NONE" => pay_ins[p].amo_out = 0
    BY <1>1 DEF PayInv
  <2> QED BY <2>1, <2>2 DEF SoftAmo
<1>5. \A p \in PayIns : new[p] <= Coming[p]
  <2> SUFFICES ASSUME NEW p \in PayIns PROVE new[p] <= Coming[p]
    OBVIOUS
  <2>1. Coming[p] \in Nat
    BY <1>1, ComingType
  <2>2. CASE new[p] = 0
    BY <2>1, <2>2
  <2>3. CASE new[p] # 0
    <3>1. pay_ins[p].status = "NEW" /\ pay_ins[p].amo_out # 0
      BY <2>3
    <3>2. pay_ins[p].curr = order.curr /\ pay_ins[p].amo_out = pay_ins[p].amount
      BY <1>1, <3>1 DEF PayInv
    <3>3. Coming[p] = Value(order.curr, pay_ins[p].amount)
      BY <1>1, <3>1, <3>2 DEF Coming, Values, BillOK, PayType
    <3>4. Coming[p] = pay_ins[p].amount
      BY <3>3 DEF Value
    <3> QED BY <2>1, <3>1, <3>2, <3>4
  <2> QED BY <2>2, <2>3
<1>6. IntOn(Coming, PayIns)
  BY <1>1, ComingType DEF IntOn
<1> HIDE DEF amo, new
<1>7. SumFunctionOnSet(amo, PayIns)
        = SumFunctionOnSet(SoftAmo, PayIns) + SumFunctionOnSet(new, PayIns)
  BY <1>2, <1>3, <1>4, SumPlus
<1>8. SumFunctionOnSet(new, PayIns) <= SumFunctionOnSet(Coming, PayIns)
  BY <1>2, <1>3, <1>5, <1>6, SumMonotone
<1>9. /\ SumFunctionOnSet(new, PayIns) \in Int /\ SumFunctionOnSet(SoftAmo, PayIns) \in Int
      /\ SumFunctionOnSet(Coming, PayIns) \in Int
  BY <1>2, <1>3, <1>6, SumType
<1>10. SumFunctionOnSet(amo, PayIns) <= Worth /\ Worth \in Int /\ SumFunctionOnSet(amo, PayIns) \in Int
  BY <1>1, <1>7, <1>8, <1>9 DEF Worth, PayInv
<1>11. Price[order.curr] \in Nat
  BY <1>1, BillFacts
<1>12. 100 * Worth <= 110 * Price[order.curr]
  <2>1. 100 * Worth <= (IF Rest > 0 THEN 109 ELSE 110) * Price[order.curr]
    BY DEF AskedInv, Fits
  <2> QED BY <1>10, <1>11, <2>1
<1>13. Worth <= Limit
  BY <1>10, <1>11, <1>12 DEF Limit, Percent
<1>14. Limit \in Int
  BY <1>11 DEF Limit, Percent
<1> QED BY <1>10, <1>13, <1>14 DEF amo

\* While the two sides of the rates are near enough, the page does not ask twice
\* for the same: at steady rates the payments bring the price and a tenth of it at
\* most, however many there are, made and counted in whatever order.
THEOREM AskedOnce == Spec /\ []QuoteFits => []AskedOnceUnlessBlind
<1> DEFINE Inv == TypeOK /\ BillInv /\ AskedInv
<1>1. Init => Inv
  BY TypeInit, BillInit, AskedInit
<1>2. Inv /\ QuoteFits /\ [Next]_vars => Inv'
  BY BillStep, AskedNext
<1>3. Inv => AskedOnceUnlessBlind
  BY BroughtFits
<1> HIDE DEF Inv
<1> QED BY <1>1, <1>2, <1>3, PTL DEF Spec
=============================================================================
