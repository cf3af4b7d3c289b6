----------------------------- MODULE MCPromotions -----------------------------
(* A small instance of Promotions for TLC.                                 *)
EXTENDS Promotions, TLC

CONSTANTS c1, c2, t1, t2, i1, i2, s

TwoCheckouts == {c1, c2}
FirstCheckout == {c1}
TwoThreads == {t1, t2}
TwoReferrals == {i1, i2}
OneSpin == {s}
Symmetry == Permutations({t1, t2}) \cup Permutations({i1, i2})
===============================================================================
