------------------------------- MODULE MCDesk -------------------------------
(***************************************************************************)
(* Two processes of the web server, a bill with and one without a proper    *)
(* price, and a transaction with outputs to their addresses and to others.  *)
(***************************************************************************)
EXTENDS Desk, TLC

MCPriceOf == <<5, -1>>
MCSymmetry == Permutations(Requests)
=============================================================================
