------------------------- MODULE CheckoutKeepsPromise -------------------------
\* Checkout implements CheckoutPromise: the database is what has been sold.
EXTENDS Checkout

\* What the committed checkouts have taken, those removed since included.
Sold ==
    {[call |-> r, key |-> request[r].key, want |-> request[r].want] :
        r \in placed \cup removed}

Promise == INSTANCE CheckoutPromise WITH sold <- Sold, record <- placed, left <- stock

\* Every step of placeOrderAtomic and of the expiring records is a sale all at
\* once, from what is left and under a free key, a forgotten record, or nothing.
PromiseKept == Promise!PromiseSpec
=============================================================================
