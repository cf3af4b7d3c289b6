----------------------------- MODULE MCSettlement -----------------------------
(* A small instance of Settlement for TLC.                                 *)
EXTENDS Settlement, TLC

CONSTANTS o1, r1, r2, j1

OneOrder == {o1}
OneRequest == {r1}
TwoRequests == {r1, r2}
OneJob == {j1}
OnlyOnline == {"ONLINE"}
BothModes == {"COD", "ONLINE"}
SmallNet == {1}
SmallHand == {1}
Symmetry == Permutations({r1, r2})
===============================================================================
