------------------------------ MODULE MCOrders ------------------------------
(***************************************************************************)
(* One priced bill, two payments to it in one coin, and two workers: the    *)
(* service, and a request to tools.inputs_update.  The unit is one coin of  *)
(* a cheap currency.                                                        *)
(***************************************************************************)
EXTENDS OrdersLib, TLC

CONSTANTS p1, p2, o1, alt, serv, tool

MCOrderOf == [p \in PayIns |-> o1]
MCXcurrOf == [p \in PayIns |-> alt]
MCAmounts == [p \in PayIns |-> {700}]
\* The rate moves: a payment covers half of the bill, or a little too much; what
\* it is short of or over the price by is forgiven, unless both were valued
\* before either was counted.
MCWorth == [p \in PayIns |-> {199, 401}]
MCPrice == [o \in ShopOrders |-> 400]
MCNoteOn == [o \in ShopOrders |-> "CLOSED"]
MCTxFee == [x \in Xcurrs |-> 1]
MCConfSoft == [x \in Xcurrs |-> 0]
MCConfHard == [x \in Xcurrs |-> 1]
MCConfTrue == [x \in Xcurrs |-> 2]

Symmetry == Permutations(PayIns)

\* What follows when the one bill is torn is not explored: no property of the
\* run says anything of it.
NoneTorn == torn = {}
=============================================================================
