---------------------------- MODULE SpinKeepsPromise ----------------------------
\* SpinWheel implements SpinPromise: the attempts on record are the spins.
EXTENDS SpinWheel

Promise == INSTANCE SpinPromise
    WITH outcome <- prize, period <- when, spent <- used, wheel <- slice, told <- shown

\* However often a page sends its click, requests overlap and transactions begin again:
\* every step of playSpin, of the page and of the administrator is a whole spin, from a
\* free slot and with a prize that could be won at that moment, or the telling of its
\* outcome, or an edit, or nothing.
PromiseKept == Promise!PromiseSpec
===============================================================================
