------------------------------- MODULE Invoice -------------------------------
(***************************************************************************)
(* What the service promises to the payer and to the shop about a bill,     *)
(* whatever the chains and the rates do.  A bill is open until it is closed *)
(* (paid) or expired.  A payment waits until it is taken, split (taken, and *)
(* the change goes back), returned or rejected.  OrdersLib implements this. *)
(* Nothing is promised of a bill that was written from an old copy: void.   *)
(***************************************************************************)
EXTENDS Integers

CONSTANTS PayIns, ShopOrders, OrderOf, Price, NotConvert

VARIABLES bill, share, earned, void
vars == <<bill, share, earned, void>>

TypeOK ==
    /\ bill \in [ShopOrders -> {"open", "closed", "expired"}]
    /\ share \in [PayIns -> {"absent", "pending", "taken", "split", "returned", "rejected"}]
    /\ earned \in [ShopOrders -> Int]
    /\ void \subseteq ShopOrders

Init ==
    /\ bill = [o \in ShopOrders |-> "open"]
    /\ share = [p \in PayIns |-> "absent"]
    /\ earned = [o \in ShopOrders |-> 0]
    /\ void = {}

Arrive(p) ==
    /\ share[p] = "absent"
    /\ share' = [share EXCEPT ![p] = "pending"]
    /\ UNCHANGED <<bill, earned, void>>

\* A payment of an open bill is looked at.  A bill with a price may close, and
\* only then its shop earns, the price; a bill without one earns what it takes.
Consider(p) ==
    LET o == OrderOf[p] IN
    /\ share[p] = "pending"
    /\ bill[o] = "open"
    /\ \E s \in {"pending", "taken", "split", "rejected"} :
        /\ s = "split" => Price[o] > 0
        /\ share' = [share EXCEPT ![p] = s]
        /\ \/ /\ Price[o] > 0
              /\ bill' = [bill EXCEPT ![o] = "closed"]
              /\ earned' = [earned EXCEPT ![o] = @ + IF o \in NotConvert THEN 0 ELSE Price[o]]
           \/ /\ UNCHANGED <<bill, earned>>
           \/ /\ Price[o] = 0 /\ s = "taken" /\ o \notin NotConvert
              /\ earned' = [earned EXCEPT ![o] = earned'[o]]
              /\ UNCHANGED bill
    /\ UNCHANGED void

\* A payment is sent back only when it came too late, or when nothing can be
\* bought for it on a bill that would otherwise wait for ever.
Refuse(p) ==
    /\ share[p] = "pending"
    /\ bill[OrderOf[p]] # "open" \/ Price[OrderOf[p]] = 0
    /\ share' = [share EXCEPT ![p] = "returned"]
    /\ UNCHANGED <<bill, earned, void>>

RejectLate(p) ==
    /\ share[p] = "pending"
    /\ bill[OrderOf[p]] # "open"
    /\ share' = [share EXCEPT ![p] = "rejected"]
    /\ UNCHANGED <<bill, earned, void>>

\* A bill that was not paid in time gives back what it took, whole: change goes
\* back only on a bill that is paid, and a paid bill does not expire.
Expire(o) ==
    /\ bill[o] = "open"
    /\ Price[o] > 0
    /\ \A p \in PayIns : OrderOf[p] = o => share[p] # "split"
    /\ bill' = [bill EXCEPT ![o] = "expired"]
    /\ share' = [p \in PayIns |->
           IF OrderOf[p] = o /\ share[p] = "taken" THEN "returned" ELSE share[p]]
    /\ UNCHANGED <<earned, void>>

\* Two workers at the same bill: one writes what follows from what it read
\* before the other wrote.  From then on the bill, and what was paid to it, may
\* be anything; the other bills are as they were.
Spoil(o) ==
    /\ void' = void \cup {o}
    /\ bill' = [bill EXCEPT ![o] = bill'[o]]
    /\ share' = [p \in PayIns |-> IF OrderOf[p] = o THEN share'[p] ELSE share[p]]
    /\ earned' = [earned EXCEPT ![o] = earned'[o]]

Next ==
    \/ \E p \in PayIns : Arrive(p) \/ Consider(p) \/ Refuse(p) \/ RejectLate(p)
    \/ \E o \in ShopOrders : Expire(o) \/ Spoil(o)

Spec == Init /\ [][Next]_vars
=============================================================================
