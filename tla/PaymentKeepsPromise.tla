-------------------------- MODULE PaymentKeepsPromise --------------------------
\* PaymentCapture implements PaymentPromise: what is on record is what was promised.
EXTENDS PaymentCapture

Captured == {p \in Payments : gateway[p] = "captured"}
Known == {p \in Payments : payment[p].status = "CAPTURED"}

Promise == INSTANCE PaymentPromise WITH captured <- Captured, known <- Known

\* However verifications, events and payments of one checkout overlap, and whatever is
\* cancelled or abandoned meanwhile: every step pays for one order, once and with captured
\* money, hands a paid one to its seller, cancels one, closes the checkout when all its
\* orders are paid for, or changes nothing of this.
PromiseKept == Promise!PromiseSpec

\* What that is worth: each order marked PAID was credited once, no other was; money was
\* captured for it; and the checkout is PAID only with all its orders.
PaidAddsUp ==
    /\ CreditedOnce /\ PaidMeansCaptured
    /\ group = "PAID" => \A o \in Orders : order[o].pay = "PAID"
===============================================================================
