------------------------------- MODULE MCCheckout -------------------------------
(* An instance of Checkout for TLC.                                         *)
EXTENDS Checkout, TLC

CONSTANTS k1, k2, p1, p2, i1, i2, i3

\* k1 may put both products into the cart, k2 the one that k1 also wants.
MCOwners == (i1 :> k1) @@ (i2 :> k1) @@ (i3 :> k2)
MCProducts == (i1 :> p1) @@ (i2 :> p2) @@ (i3 :> p1)
MCStock == (p1 :> 2) @@ (p2 :> 1)

MCSymmetry == Permutations(Worker) \cup Permutations(Order)
================================================================================
