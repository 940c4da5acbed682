------------------------------ MODULE BillSums ------------------------------
(***************************************************************************)
(* The sums and the status of a bill: the arithmetic of                     *)
(* orders_lib.update_payed on one row of shop_orders.                       *)
(***************************************************************************)
EXTENDS Integers

Unused == {"CLOSED", "EXPIRED", "INVALID"}        \* UNUSED_STATUSES

AllPayed(s) == s.payed_true + s.payed_hard + s.payed_soft

Part(is, st, amo) == IF is = st THEN amo ELSE 0

\* Variant: the amount is never taken off payed_hard.
CountedHardTwice(s, old, new, amo, taken) ==
    [status     |-> IF s.status = "NEW" THEN "FILL" ELSE s.status,
     payed_soft |-> s.payed_soft - Part(old, "SOFT", amo) + Part(new, "SOFT", amo),
     payed_hard |-> s.payed_hard + Part(new, "HARD", amo),
     payed_true |-> s.payed_true + Part(new, "TRUE", taken)]

\* The sums of the bill once the payment has moved from status old to new.
Counted(s, old, new, amo, taken) ==
    [status     |-> IF s.status = "NEW" THEN "FILL" ELSE s.status,
     payed_soft |-> s.payed_soft - Part(old, "SOFT", amo) + Part(new, "SOFT", amo),
     payed_hard |-> s.payed_hard - Part(old, "HARD", amo) + Part(new, "HARD", amo),
     payed_true |-> s.payed_true + Part(new, "TRUE", taken)]

\* Variants: a bill gets the name of the status of its payment; a bill that is
\* paid to the last unit is not seen as paid.
NewStatusTrue(price, s, was) ==
    IF price = 0 \/ price > AllPayed(s) THEN s.status
    ELSE IF price <= s.payed_true THEN "TRUE"
    ELSE IF price <= s.payed_true + s.payed_hard /\ was # "HARD" THEN "HARD"
    ELSE "SOFT"

NewStatusAbove(price, s, was) ==
    IF price = 0 \/ price >= AllPayed(s) THEN s.status
    ELSE IF price <= s.payed_true THEN "CLOSED"
    ELSE IF price <= s.payed_true + s.payed_hard /\ was # "HARD" THEN "HARD"
    ELSE "SOFT"

\* The status of a priced bill with sums s; was is its status before.
NewStatus(price, s, was) ==
    IF price = 0 \/ price > AllPayed(s) THEN s.status
    ELSE IF price <= s.payed_true THEN "CLOSED"
    ELSE IF price <= s.payed_true + s.payed_hard /\ was # "HARD" THEN "HARD"
    ELSE "SOFT"
=============================================================================
