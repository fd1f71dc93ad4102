----------------------------- MODULE MCPayments -----------------------------
(* Small instances of CanteenPayments: one kitchen, one item, baskets of one *)
(* portion, and up to two checkouts of the order.                            *)
EXTENDS CanteenPayments, TLC

CONSTANTS chai, snacks

OneItem == chai :> snacks

OneChai == chai :> 1
ChaiBaskets == {OneChai}

CheckoutSymmetry == Permutations(Payment)
=============================================================================
