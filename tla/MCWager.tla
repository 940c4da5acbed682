------------------------------ MODULE MCWager ------------------------------
\* Two bills of a wager, payments of one or two coins, one or two requests.
EXTENDS Wager
CONSTANTS b1, b2, p1, p2, p3, r1, r2, serv, tool
MCBillOf == [p \in PayIns |-> IF p = p3 THEN b2 ELSE b1]
MCGrades == [p \in PayIns |-> IF p = p2 THEN {"TRUE"} ELSE {"HARD", "TRUE", "INVALID"}]
MCAmount == [p \in PayIns |-> IF p = p2 THEN 2 ELSE 1]
NoneCrossed == crossed = {}
=============================================================================
