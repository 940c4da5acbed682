----------------------------- MODULE MCOpenBills -----------------------------
(***************************************************************************)
(* Two bills, a payment each: one with a price, paid in a coin no exchange  *)
(* converts; one that stays open and passes its coins on unconverted, with  *)
(* a rate that now and then is missing.  The coin is fully confirmed by its *)
(* first block, so that a few blocks are enough for every retry.            *)
(***************************************************************************)
EXTENDS OrdersLib, TLC

CONSTANTS p1, p2, o1, o2, ltc, serv

MCOrderOf == (p1 :> o1 @@ p2 :> o2)
MCXcurrOf == [p \in PayIns |-> ltc]
MCAmounts == [p \in PayIns |-> {100}]
MCWorth == (p1 :> {} @@ p2 :> {50})
MCPrice == (o1 :> 300 @@ o2 :> 0)
MCNoteOn == [o \in ShopOrders |-> ""]
MCTxFee == [x \in Xcurrs |-> 1]
MCConfSoft == [x \in Xcurrs |-> 0]
MCConfHard == [x \in Xcurrs |-> 1]
MCConfTrue == [x \in Xcurrs |-> 1]
=============================================================================
