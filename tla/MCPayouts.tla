----------------------------- MODULE MCPayouts -----------------------------
(***************************************************************************)
(* The loop of run_blocks and a request of the wallet.                      *)
(***************************************************************************)
EXTENDS Payouts

CONSTANTS serv, curl, r1, r2, d1, d2, s1, s2
=============================================================================
