------------------------------ MODULE MCOrders ------------------------------
(* Small instances of CanteenOrders: two items, cooked by one kitchen or by  *)
(* two, and baskets that take one portion, two portions, or one of each.     *)
EXTENDS CanteenOrders, TLC

CONSTANTS chai, thali, snacks, meals

OneKitchen == chai :> snacks @@ thali :> snacks
TwoKitchens == chai :> snacks @@ thali :> meals

One == chai :> 1 @@ thali :> 0
Two == chai :> 2 @@ thali :> 0
Mixed == chai :> 1 @@ thali :> 1

StockBaskets == {Two, Mixed}
WindowBaskets == {One, Mixed}
RepairBaskets == {Mixed}

TwoAndOne == chai :> 2 @@ thali :> 1

CartSymmetry == Permutations(Cart)
=============================================================================
