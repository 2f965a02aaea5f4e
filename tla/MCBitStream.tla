---------------------------- MODULE MCBitStream ----------------------------
(* Files shorter than, as long as and longer than the buffer and than two  *)
(* of them; budgets that end inside a buffer, at its end and behind it.    *)
EXTENDS BitStream

MCFiles == {<<>>, <<1>>, <<1, 2, 3>>, <<1, 2, 3, 4, 5, 6, 7, 8>>}
MCBudgets == {-1, 0, 2, 3, 5}
=============================================================================
