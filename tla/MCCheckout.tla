------------------------------ MODULE MCCheckout ------------------------------
(***************************************************************************)
(* Checkout and its refinement on a small instance: two calls of a         *)
(* customer and one of another, a prompt and another key, two products.    *)
(***************************************************************************)
EXTENDS CheckoutKeepsPromise, TLC

CONSTANTS r1, r2, r3, ann, bob, a, b, k1, k2

Calls == [r \in {r1, r2, r3} |-> IF r = r3 THEN bob ELSE ann]

OverlappingItems == {{a}, {a, b}}

CallSymmetry == Permutations({r1, r2})
=============================================================================
