------------------------------ MODULE MCNotes ------------------------------
(***************************************************************************)
(* A bill and a command, the loop of serv_notes and a request.              *)
(***************************************************************************)
EXTENDS Notes, TLC

CONSTANTS b1, c1

MCNoteOn == [b \in Bills |-> "HARD"]
=============================================================================
