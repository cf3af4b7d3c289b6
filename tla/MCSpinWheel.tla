------------------------------ MODULE MCSpinWheel ------------------------------
\* A small instance of SpinWheel: two clicks of one customer, one prize that is single.
EXTENDS SpinKeepsPromise

CONSTANTS k1, k2, c1, p1, p2

Owners == [k \in {k1, k2} |-> c1]
OneOfTheFirst == [r \in {p1, p2} |-> IF r = p1 THEN 1 ELSE Unlimited]
OneEach == [r \in {p1, p2} |-> 1]
===============================================================================
