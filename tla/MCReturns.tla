------------------------------- MODULE MCReturns -------------------------------
\* Two handlers on one order, and a rider.
EXTENDS Returns, TLC

CONSTANTS t1, t2, a

Alike == Permutations({t1, t2})
================================================================================
