------------------------------- MODULE MCLive -------------------------------
(* Small instances of LiveBoards: an item and an order for it, watched by a  *)
(* student, or by the superadmin who placed the order and watches both       *)
(* kitchens' boards.                                                         *)
EXTENDS LiveBoards, TLC

CONSTANTS tea, order1, asha, boss, q1, q2

SnacksKitchen == order1 :> "SNACKS"
MealsKitchen == order1 :> "MEALS"
OneItem == order1 :> tea
OneOwner == order1 :> boss

RoleOfViewers == asha :> "STUDENT" @@ boss :> "SUPERADMIN"
Boards == [v \in Viewer |-> None]
Hashes == [v \in Viewer |-> "SNACKS"]
Superadmin == {{boss}}
OneScreen == {{asha}, {boss}}

SameRequests == Permutations(Caller)
=============================================================================
