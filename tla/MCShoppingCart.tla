--------------------------- MODULE MCShoppingCart ---------------------------
(* Model values for ShoppingCart: an amount above the limit and a negative one. *)
EXTENDS ShoppingCart, TLC

MCAmounts == {-1, 5}
MCSymmetry == Permutations(Requests)
=============================================================================
