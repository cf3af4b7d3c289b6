---------------------------- MODULE MCPaymentCapture ----------------------------
\* A small instance of PaymentCapture: one payment of two orders.
EXTENDS PaymentKeepsPromise, TLC

CONSTANTS p1, p2, o1, o2, k1, t1, t2
=============================================================================
