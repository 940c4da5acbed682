----------------------------- MODULE MCBlockProc -----------------------------
(***************************************************************************)
(* The loop of run_blocks and the calls of one wallet, with a payment to a  *)
(* bill and one to nobody.                                                  *)
(***************************************************************************)
EXTENDS BlockProc

CONSTANTS serv, curl, o1, s1
=============================================================================
