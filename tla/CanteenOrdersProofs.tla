------------------------ MODULE CanteenOrdersProofs ------------------------
(***************************************************************************)
(* Proofs about CanteenOrders for any set of carts, items, kitchens, slots *)
(* and baskets: the typing invariant, how the worker of a cart proceeds,   *)
(* that reservedQty and bookedCount count what they stand for, that no     *)
(* window is overbooked and no portion is promised or taken twice.         *)
(***************************************************************************)
EXTENDS CanteenOrders, FiniteSetTheorems, TLAPS

-----------------------------------------------------------------------------
(* Sets of portions.                                                        *)

Baskets == [Cart -> [Item -> 0..MaxQty]]

\* A set of portions is finite: its size is a number.
LEMMA PortionsFinite ==
    ASSUME NEW b \in Baskets, NEW i \in Item, NEW S \in SUBSET Cart
    PROVE  /\ IsFiniteSet(PortionsOf(b, i, S))
           /\ Cardinality(PortionsOf(b, i, S)) \in Nat
<1>1. IsFiniteSet(1..MaxQty)
  BY CanteenAssumption, FS_Interval
<1>2. IsFiniteSet(Cart \X (1..MaxQty))
  BY <1>1, CanteenAssumption, FS_Product
<1>3. PortionsOf(b, i, S) \in SUBSET (Cart \X (1..MaxQty))
  BY DEF PortionsOf
<1>4. IsFiniteSet(PortionsOf(b, i, S))
  BY <1>2, <1>3, FS_Subset
<1> QED
  BY <1>4, FS_CardinalityType

\* More carts hold at least as many portions.
LEMMA PortionsMonotone ==
    ASSUME NEW b \in Baskets, NEW i \in Item,
           NEW S \in SUBSET Cart, NEW T \in SUBSET Cart, S \subseteq T
    PROVE  Cardinality(PortionsOf(b, i, S)) <= Cardinality(PortionsOf(b, i, T))
<1>1. PortionsOf(b, i, S) \in SUBSET PortionsOf(b, i, T)
  BY DEF PortionsOf
<1> QED
  BY <1>1, PortionsFinite, FS_Subset

\* One cart holds as many portions of an item as its basket asks for.
LEMMA PortionsOfOne ==
    ASSUME NEW b \in Baskets, NEW i \in Item, NEW r \in Cart
    PROVE  Cardinality(PortionsOf(b, i, {r})) = b[r][i]
<1> DEFINE q == b[r][i]
           P == PortionsOf(b, i, {r})
           f == [n \in 1..q |-> <<r, n>>]
<1>1. q \in 0..MaxQty /\ q \in Nat
  BY CanteenAssumption DEF Baskets
<1>2. P = {<<r, n>> : n \in 1..q}
  <2>1. ASSUME NEW p \in P
        PROVE  p \in {<<r, n>> : n \in 1..q}
    <3>1. p \in Cart \X (1..MaxQty) /\ p[1] = r /\ p[2] <= q
      BY DEF PortionsOf
    <3>2. p = <<r, p[2]>> /\ p[2] \in 1..q
      BY <3>1, <1>1, CanteenAssumption
    <3> QED BY <3>2
  <2>2. ASSUME NEW n \in 1..q
        PROVE  <<r, n>> \in P
    BY <1>1, <2>2, CanteenAssumption DEF PortionsOf
  <2> QED BY <2>1, <2>2
<1>3. f \in Bijection(1..q, P)
  <2>1. f \in [1..q -> P]
    BY <1>2
  <2>2. \A m, n \in 1..q : f[m] = f[n] => m = n
    OBVIOUS
  <2>3. \A p \in P : \E n \in 1..q : f[n] = p
    BY <1>2
  <2> HIDE DEF f, P, q
  <2> QED
    BY <2>1, <2>2, <2>3 DEF Bijection, Injection, Surjection, IsInjective
<1>4. ExistsBijection(1..q, P)
  BY <1>3 DEF ExistsBijection
<1>5. IsFiniteSet(1..q) /\ Cardinality(1..q) = q
  <2> HIDE DEF q
  <2>1. 1 \in Int /\ q \in Int /\ q >= 0
    BY <1>1
  <2>2. /\ IsFiniteSet(1..q)
        /\ Cardinality(1..q) = IF 1 > q THEN 0 ELSE q - 1 + 1
    BY <2>1, FS_Interval
  <2> QED
    BY <2>1, <2>2
<1> QED
  BY <1>4, <1>5, FS_Bijection

\* Sets of carts that do not meet: their portions add up.
LEMMA PortionsAdd ==
    ASSUME NEW b \in Baskets, NEW i \in Item,
           NEW S \in SUBSET Cart, NEW T \in SUBSET Cart, S \cap T = {}
    PROVE  Cardinality(PortionsOf(b, i, S \cup T))
             = Cardinality(PortionsOf(b, i, S))
                 + Cardinality(PortionsOf(b, i, T))
<1> DEFINE PS == PortionsOf(b, i, S)
           PT == PortionsOf(b, i, T)
<1>1. PortionsOf(b, i, S \cup T) = PS \cup PT
  BY DEF PortionsOf
<1>2. PS \cap PT = {}
  BY DEF PortionsOf
<1>3. /\ IsFiniteSet(PS) /\ Cardinality(PS) \in Nat
      /\ IsFiniteSet(PT) /\ Cardinality(PT) \in Nat
  BY PortionsFinite
<1> HIDE DEF PS, PT
<1>4. Cardinality(PS \cup PT)
        = Cardinality(PS) + Cardinality(PT) - Cardinality(PS \cap PT)
  BY <1>3, FS_Union
<1>5. Cardinality(PS \cap PT) = 0
  BY <1>2, FS_EmptySet
<1>6. Cardinality(PS \cup PT) = Cardinality(PS) + Cardinality(PT)
  BY <1>3, <1>4, <1>5
<1> QED
  BY <1>1, <1>6 DEF PS, PT

\* Taking one cart away takes away what its basket asked for.
LEMMA PortionsDrop ==
    ASSUME NEW b \in Baskets, NEW i \in Item,
           NEW S \in SUBSET Cart, NEW r \in S
    PROVE  Cardinality(PortionsOf(b, i, S))
             = Cardinality(PortionsOf(b, i, S \ {r})) + b[r][i]
<1>1. /\ S \ {r} \in SUBSET Cart
      /\ {r} \in SUBSET Cart
      /\ (S \ {r}) \cap {r} = {}
      /\ (S \ {r}) \cup {r} = S
      /\ r \in Cart
  OBVIOUS
<1>2. Cardinality(PortionsOf(b, i, (S \ {r}) \cup {r}))
        = Cardinality(PortionsOf(b, i, S \ {r}))
            + Cardinality(PortionsOf(b, i, {r}))
  BY ONLY <1>1, PortionsAdd, b \in Baskets, i \in Item
<1> QED
  BY <1>1, <1>2, PortionsOfOne

\* Portions depend only on the baskets of the carts in question.
LEMMA PortionsAgree ==
    ASSUME NEW b \in Baskets, NEW c \in Baskets, NEW i \in Item,
           NEW S \in SUBSET Cart, \A r \in S : b[r][i] = c[r][i]
    PROVE  PortionsOf(b, i, S) = PortionsOf(c, i, S)
BY DEF PortionsOf

-----------------------------------------------------------------------------
(* Typing.                                                                  *)

LEMMA FloorIsNat == \A n \in Int : Floor0(n) \in Nat /\ Floor0(n) >= n
BY DEF Floor0

\* What a settlement hands back is a number.
LEMMA ReleaseIsNat ==
    ASSUME TypeOK, NEW S, NEW i \in Item
    PROVE  Cardinality(Release(S, i)) \in Nat
BY PortionsFinite DEF TypeOK, Baskets, Release, Portions

\* Settling keeps the types of the two variables it changes.
LEMMA SettleType ==
    ASSUME TypeOK, NEW S, Settle(S)
    PROVE  settled' \in [Order -> BOOLEAN] /\ reservedQty' \in [Item -> Nat]
<1>1. ASSUME NEW i \in Item, NEW T
      PROVE  Floor0(reservedQty[i] - Cardinality(Release(T, i))) \in Nat
  BY <1>1, ReleaseIsNat, FloorIsNat DEF TypeOK
<1> QED
  BY <1>1 DEF Settle, TypeOK

\* A worker's give-back keeps the types of the two variables it changes.
LEMMA ReleaseStockType ==
    ASSUME TypeOK, NEW r \in Cart, NEW items, ReleaseStock(r, items)
    PROVE  claimed' \in [Cart -> SUBSET Item] /\ reservedQty' \in [Item -> Nat]
<1>1. ASSUME NEW i \in Item
      PROVE  Floor0(reservedQty[i] - basket[r][i]) \in Nat
  BY <1>1, FloorIsNat, CanteenAssumption DEF TypeOK
<1> QED
  BY <1>1 DEF ReleaseStock, TypeOK

LEMMA InitType == Init => TypeOK
BY CanteenAssumption DEF Init, TypeOK, Stage, Status

\* Every step of createOrder keeps the types.
LEMMA PlaceOrderType ==
    ASSUME TypeOK, NEW r \in Cart, PlaceOrder(r)
    PROVE  TypeOK'
<1>1. ASSUME NEW b \in Basket, NEW s \in Slot \cup {NoSlot}, ClaimStock(r, b, s)
      PROVE  TypeOK'
  <2>1. b \in [Item -> 0..MaxQty]
    BY CanteenAssumption
  <2>2. \A i \in Item : b[i] \in Nat
    BY <2>1, CanteenAssumption
  <2>3. reservedQty' \in [Item -> Nat]
    BY <1>1, <2>2 DEF ClaimStock, TypeOK
  <2>4. Lines(b) \in SUBSET Item
    BY DEF Lines
  <2> QED
    BY <1>1, <2>1, <2>3, <2>4
    DEF ClaimStock, TypeOK, Stage, orderVars, cancelVars
<1>2. CASE HandBackPartialClaim(r)
  BY <1>2, ReleaseStockType
  DEF HandBackPartialClaim, TypeOK, Stage, orderVars, cancelVars
<1>3. ASSUME NEW replied \in BOOLEAN, ClaimWindowSeats(r, replied)
      PROVE  TypeOK'
  <2>1. Kitchens(basket[r]) \in SUBSET Kitchen
    BY CanteenAssumption DEF Kitchens, Lines
  <2> QED
    BY <1>3, <2>1
    DEF ClaimWindowSeats, TypeOK, Stage, menuVars, orderVars, cancelVars
<1>4. ASSUME NEW replied \in BOOLEAN, InsertOrders(r, replied)
      PROVE  TypeOK'
  BY <1>4, CanteenAssumption
  DEF InsertOrders, TypeOK, Stage, Status, menuVars, cancelVars
<1>5. CASE StatementFails(r)
  BY <1>5 DEF StatementFails, TypeOK, Stage, menuVars, orderVars, cancelVars
<1>6. CASE UndoStock(r)
  BY <1>6, ReleaseStockType
  DEF UndoStock, AfterUndoStock, TypeOK, Stage, orderVars, cancelVars
<1>7. CASE UndoSeats(r)
  <2>1. bookedCount' \in [Window -> Nat]
    BY <1>7, FloorIsNat DEF UndoSeats, TypeOK
  <2> QED
    BY <1>7, <2>1 DEF UndoSeats, TypeOK, Stage, menuVars, orderVars, cancelVars
<1>8. CASE UndoFails(r)
  BY <1>8
  DEF UndoFails, AfterUndoStock, TypeOK, Stage, menuVars, orderVars, cancelVars
<1>9. CASE WorkerDies(r)
  BY <1>9 DEF WorkerDies, TypeOK, Stage, menuVars, orderVars, cancelVars
<1> QED
  BY <1>1, <1>2, <1>3, <1>4, <1>5, <1>6, <1>7, <1>8, <1>9
  DEF PlaceOrder, Worker

\* Every step of the kitchen's board keeps the types.
LEMMA MoveOrderType ==
    ASSUME TypeOK, NEW o \in Order, MoveOrder(o)
    PROVE  TypeOK'
<1>1. CASE DeadlinePasses(o)
  BY <1>1 DEF DeadlinePasses, TypeOK, menuVars, cartVars, cancelVars
<1>2. CASE Cook(o)
  BY <1>2 DEF Cook, TypeOK, Status, menuVars, cartVars, cancelVars
<1>3. CASE Deliver(o)
  <2>1. \A i \in Item : Qty(o, i) \in Nat
    BY CanteenAssumption DEF Qty, TypeOK, Order
  <2>2. stockQty' \in [Item -> Nat]
    BY <1>3, <2>1 DEF Deliver, TypeOK
  <2> QED
    BY <1>3, <2>2, SettleType DEF Deliver, TypeOK, Status, cartVars, cancelVars
<1> QED
  BY <1>1, <1>2, <1>3 DEF MoveOrder

\* Every step of cancelOrder keeps the types.
LEMMA CancelOrderType ==
    ASSUME TypeOK, NEW c \in Cancel, CancelOrder(c)
    PROVE  TypeOK'
<1>1. ASSUME NEW o \in Order, CancelRead(c, o)
      PROVE  TypeOK'
  BY <1>1 DEF CancelRead, TypeOK, menuVars, cartVars, orderVars
<1>2. CASE CancelGiveBack(c)
  BY <1>2, SettleType DEF CancelGiveBack, TypeOK, cartVars
<1>3. CASE CancelWrite(c)
  BY <1>3 DEF CancelWrite, TypeOK, Status, menuVars, cartVars
<1>4. CASE CancelDies(c)
  BY <1>4 DEF CancelDies, TypeOK, menuVars, cartVars, orderVars
<1> QED
  BY <1>1, <1>2, <1>3, <1>4 DEF CancelOrder

\* The sweeps and the admin's menu keep the types.
LEMMA HousekeepingType ==
    ASSUME TypeOK, Sweep \/ EditMenu
    PROVE  TypeOK'
<1>1. CASE ReleaseExpiredReservations
  BY <1>1, SettleType DEF ReleaseExpiredReservations, TypeOK, cartVars, cancelVars
<1>2. CASE ReconcileReservations
  <2>1. \A i \in Item : Cardinality(Ledger(i)) \in Nat
    BY PortionsFinite DEF TypeOK, Baskets, Ledger, Portions
  <2> QED
    BY <1>2, <2>1
    DEF ReconcileReservations, TypeOK, cartVars, orderVars, cancelVars
<1>3. CASE EditMenu
  <2>1. /\ \A f \in Optional(StockLevels), n \in Nat : Given(f, n) \in Nat
        /\ \A f \in Optional(SaleEdits), t \in BOOLEAN : Given(f, t) \in BOOLEAN
    BY CanteenAssumption DEF Optional, Given
  <2> QED
    BY <1>3, <2>1
    DEF EditMenu, UpdateMenuItems, TypeOK, cartVars, orderVars, cancelVars
<1> QED
  BY <1>1, <1>2, <1>3 DEF Sweep

LEMMA NextType == TypeOK /\ [Next]_vars => TypeOK'
<1> SUFFICES ASSUME TypeOK, [Next]_vars
             PROVE  TypeOK'
  OBVIOUS
<1>1. CASE UNCHANGED vars
  BY <1>1 DEF vars, menuVars, cartVars, orderVars, cancelVars, TypeOK
<1>2. CASE Next
  BY <1>2, PlaceOrderType, MoveOrderType, CancelOrderType, HousekeepingType
  DEF Next
<1> QED
  BY <1>1, <1>2

\* Every variable always has its type, whatever the constants.
THEOREM TypeCorrect == Spec => []TypeOK
BY InitType, NextType, PTL DEF Spec

-----------------------------------------------------------------------------
(* How far a cart has come, and what that says of its claim and its orders. *)

\* Between the claim and its end the worker's claim is its whole basket.
ClaimInv ==
    \A r \in Cart :
        /\ pc[r] = "idle" => claimed[r] = {}
        /\ claimed[r] \subseteq Lines(basket[r])
        /\ pc[r] \in {"seats", "insert", "undoStock"}
               => claimed[r] = Lines(basket[r])

\* Orders exist only for a cart whose INSERT ran: without lost replies that
\* is a cart that was placed, otherwise also one that was told it had failed.
WrittenInv ==
    \A o \in Order :
        \/ pc[o[1]] \in {"idle", "handBack", "seats", "insert"}
        \/ ~LostReplies /\ pc[o[1]] # "placed"
        => status[o] = "NONE"

\* Nothing happened yet to an order that was not written; only delivered food
\* is collected, and a stale cancellation may overwrite the status after that.
LifeInv ==
    \A o \in Order :
        /\ status[o] = "NONE" => ~settled[o] /\ ~collected[o]
        /\ collected[o] => status[o] \in {"DELIVERED", "CANCELLED"}

\* A cancellation under way names an order, and gives back before it writes.
CancelInv ==
    \A c \in Cancel : cancelPc[c] \in {"giveBack", "write"} =>
        /\ cancelling[c] \in Order
        /\ status[cancelling[c]] # "NONE"
        /\ cancelPc[c] = "write" => settled[cancelling[c]]

LifecycleInv ==
    /\ TypeOK
    /\ ClaimInv
    /\ WrittenInv
    /\ LifeInv
    /\ CancelInv
    /\ OverHoldsNothing

\* A settlement stamps exactly the orders of the set that were outstanding.
LEMMA SettleStamps ==
    ASSUME TypeOK, NEW S, Settle(S), NEW o \in Order
    PROVE  /\ settled[o] => settled'[o]
           /\ o \in S /\ status[o] # "NONE" => settled'[o]
           /\ settled'[o] => settled[o] \/ (o \in S /\ status[o] # "NONE")
BY DEF Settle, Outstanding, TypeOK

LEMMA InitLifecycle == Init => LifecycleInv
BY InitType, CanteenAssumption
DEF Init, LifecycleInv, ClaimInv, WrittenInv, LifeInv, CancelInv,
    OverHoldsNothing, Lines, Order

\* createOrder touches its own cart and its own orders only.
LEMMA PlaceOrderLifecycle ==
    ASSUME LifecycleInv, NEW r \in Cart, PlaceOrder(r)
    PROVE  LifecycleInv'
<1> TypeOK'
  BY PlaceOrderType DEF LifecycleInv
<1> USE DEF LifecycleInv, TypeOK
<1>1. ASSUME NEW b \in Basket, NEW s \in Slot \cup {NoSlot}, ClaimStock(r, b, s)
      PROVE  LifecycleInv'
  <2>1. ClaimInv'
    BY <1>1, CanteenAssumption DEF ClaimStock, ClaimInv, Lines
  <2>2. WrittenInv'
    BY <1>1 DEF ClaimStock, WrittenInv, orderVars, Order
  <2>3. LifeInv' /\ OverHoldsNothing' /\ CancelInv'
    BY <1>1
    DEF ClaimStock, LifeInv, OverHoldsNothing, CancelInv, orderVars, cancelVars
  <2> QED
    BY <2>1, <2>2, <2>3
<1>2. CASE HandBackPartialClaim(r)
  BY <1>2
  DEF HandBackPartialClaim, ReleaseStock, ClaimInv, WrittenInv, LifeInv,
      OverHoldsNothing, CancelInv, orderVars, cancelVars, Order, Lines
<1>3. ASSUME NEW replied \in BOOLEAN, ClaimWindowSeats(r, replied)
      PROVE  LifecycleInv'
  <2>1. /\ pc[r] = "seats"
        /\ \E next \in {"insert", "undoStock"} : pc' = [pc EXCEPT ![r] = next]
        /\ basket' = basket /\ claimed' = claimed
        /\ UNCHANGED <<orderVars, cancelVars>>
    BY <1>3 DEF ClaimWindowSeats
  <2> QED
    BY <2>1
    DEF ClaimInv, WrittenInv, LifeInv, OverHoldsNothing, CancelInv,
        orderVars, cancelVars, Order
<1>4. ASSUME NEW replied \in {TRUE} \cup {~LostReplies}, InsertOrders(r, replied)
      PROVE  LifecycleInv'
  <2> DEFINE new == {<<r, k>> : k \in Kitchens(basket[r])}
  <2>1. /\ pc[r] = "insert"
        /\ pc' = [pc EXCEPT ![r] = IF replied THEN "placed" ELSE "undoStock"]
        /\ claimed' = [claimed EXCEPT ![r] = IF replied THEN {} ELSE @]
        /\ basket' = basket /\ settled' = settled /\ collected' = collected
        /\ cancelPc' = cancelPc /\ cancelling' = cancelling
        /\ status' = [o \in Order |-> IF o \in new THEN "PENDING" ELSE status[o]]
    BY <1>4 DEF InsertOrders, cancelVars
  <2>2. \A o \in new : o[1] = r
    OBVIOUS
  <2>3. replied \/ LostReplies
    BY CanteenAssumption
  <2>4. \A o \in Order : o[1] = r => status[o] = "NONE"
    BY <2>1 DEF WrittenInv
  <2> HIDE DEF new
  <2>5. ClaimInv'
    BY <2>1 DEF ClaimInv
  <2>6. WrittenInv'
    BY <2>1, <2>2, <2>3, CanteenAssumption DEF WrittenInv, Order
  <2>7. LifeInv' /\ OverHoldsNothing'
    BY <2>1, <2>2, <2>4 DEF LifeInv, OverHoldsNothing
  <2>8. CancelInv'
    BY <2>1, <2>2, <2>4 DEF CancelInv
  <2> QED
    BY <2>5, <2>6, <2>7, <2>8
<1>5. CASE StatementFails(r)
  BY <1>5
  DEF StatementFails, ClaimInv, WrittenInv, LifeInv, OverHoldsNothing,
      CancelInv, menuVars, orderVars, cancelVars, Order, Lines
<1>6. CASE UndoStock(r)
  BY <1>6
  DEF UndoStock, AfterUndoStock, ReleaseStock, ClaimInv, WrittenInv, LifeInv,
      OverHoldsNothing, CancelInv, orderVars, cancelVars, Order, Lines
<1>7. CASE UndoSeats(r)
  BY <1>7
  DEF UndoSeats, ClaimInv, WrittenInv, LifeInv, OverHoldsNothing, CancelInv,
      menuVars, orderVars, cancelVars, Order, Lines
<1>8. CASE UndoFails(r)
  BY <1>8
  DEF UndoFails, AfterUndoStock, ClaimInv, WrittenInv, LifeInv,
      OverHoldsNothing, CancelInv, menuVars, orderVars, cancelVars, Order, Lines
<1>9. CASE WorkerDies(r)
  BY <1>9
  DEF WorkerDies, ClaimInv, WrittenInv, LifeInv, OverHoldsNothing, CancelInv,
      menuVars, orderVars, cancelVars, Order, Lines
<1> QED
  BY <1>1, <1>2, <1>3, <1>4, <1>5, <1>6, <1>7, <1>8, <1>9, CanteenAssumption
  DEF PlaceOrder, Worker

\* The board moves orders that exist, and delivery settles them.
LEMMA MoveOrderLifecycle ==
    ASSUME LifecycleInv, NEW o \in Order, MoveOrder(o)
    PROVE  LifecycleInv'
<1> TypeOK'
  BY MoveOrderType DEF LifecycleInv
<1> USE DEF LifecycleInv
<1>1. CASE DeadlinePasses(o)
  BY <1>1
  DEF DeadlinePasses, ClaimInv, WrittenInv, LifeInv, OverHoldsNothing,
      CancelInv, menuVars, cartVars, cancelVars
<1>2. CASE Cook(o)
  <2>1. status[o] \notin {"NONE", "DELIVERED", "CANCELLED"}
    BY <1>2 DEF Cook, MayMove, NextStatus
  <2> QED
    BY <1>2, <2>1
    DEF Cook, ClaimInv, WrittenInv, LifeInv, OverHoldsNothing, CancelInv,
        TypeOK, menuVars, cartVars, cancelVars
<1>3. CASE Deliver(o)
  <2>1. status[o] = "COOKED"
    BY <1>3 DEF Deliver, MayMove, NextStatus
  <2>2. \A p \in Order : /\ settled[p] => settled'[p]
                         /\ settled'[p] => settled[p] \/ p = o
        /\ settled'[o]
    BY <1>3, <2>1, SettleStamps DEF Deliver
  <2> QED
    BY <1>3, <2>1, <2>2
    DEF Deliver, ClaimInv, WrittenInv, LifeInv, OverHoldsNothing, CancelInv,
        TypeOK, cartVars, cancelVars
<1> QED
  BY <1>1, <1>2, <1>3 DEF MoveOrder

\* A cancellation settles before it writes, so a cancelled order is settled.
LEMMA CancelOrderLifecycle ==
    ASSUME LifecycleInv, NEW c \in Cancel, CancelOrder(c)
    PROVE  LifecycleInv'
<1> TypeOK'
  BY CancelOrderType DEF LifecycleInv
<1> USE DEF LifecycleInv
<1>1. ASSUME NEW o \in Order, CancelRead(c, o)
      PROVE  LifecycleInv'
  BY <1>1
  DEF CancelRead, ClaimInv, WrittenInv, LifeInv, OverHoldsNothing, CancelInv,
      TypeOK, menuVars, cartVars, orderVars
<1>2. CASE CancelGiveBack(c)
  <2>1. \A p \in Order : /\ settled[p] => settled'[p]
                         /\ settled'[p] => settled[p] \/ p = cancelling[c]
        /\ cancelling[c] \in Order /\ settled'[cancelling[c]]
    BY <1>2, SettleStamps DEF CancelGiveBack, CancelInv
  <2> QED
    BY <1>2, <2>1
    DEF CancelGiveBack, ClaimInv, WrittenInv, LifeInv, OverHoldsNothing,
        CancelInv, TypeOK, cartVars
<1>3. CASE CancelWrite(c)
  <2>1. /\ cancelling[c] \in Order
        /\ status[cancelling[c]] # "NONE"
        /\ settled[cancelling[c]]
    BY <1>3 DEF CancelWrite, CancelInv
  <2> QED
    BY <1>3, <2>1
    DEF CancelWrite, ClaimInv, WrittenInv, LifeInv, OverHoldsNothing,
        CancelInv, TypeOK, menuVars, cartVars
<1>4. CASE CancelDies(c)
  BY <1>4
  DEF CancelDies, ClaimInv, WrittenInv, LifeInv, OverHoldsNothing, CancelInv,
      TypeOK, menuVars, cartVars, orderVars
<1> QED
  BY <1>1, <1>2, <1>3, <1>4 DEF CancelOrder

\* The sweeps settle only orders that exist; the menu touches no order.
LEMMA HousekeepingLifecycle ==
    ASSUME LifecycleInv, Sweep \/ EditMenu
    PROVE  LifecycleInv'
<1> TypeOK'
  BY HousekeepingType DEF LifecycleInv
<1> USE DEF LifecycleInv
<1>1. CASE ReleaseExpiredReservations
  <2>1. \A p \in Order : /\ settled[p] => settled'[p]
                         /\ settled'[p] => settled[p] \/ status[p] # "NONE"
    BY <1>1, SettleStamps DEF ReleaseExpiredReservations
  <2> QED
    BY <1>1, <2>1
    DEF ReleaseExpiredReservations, ClaimInv, WrittenInv, LifeInv,
        OverHoldsNothing, CancelInv, TypeOK, cartVars, cancelVars
<1>2. CASE ReconcileReservations
  BY <1>2
  DEF ReconcileReservations, ClaimInv, WrittenInv, LifeInv, OverHoldsNothing,
      CancelInv, cartVars, orderVars, cancelVars
<1>3. CASE EditMenu
  BY <1>3
  DEF EditMenu, UpdateMenuItems, ClaimInv, WrittenInv, LifeInv,
      OverHoldsNothing, CancelInv, cartVars, orderVars, cancelVars
<1> QED
  BY <1>1, <1>2, <1>3 DEF Sweep

LEMMA NextLifecycle == LifecycleInv /\ [Next]_vars => LifecycleInv'
<1> SUFFICES ASSUME LifecycleInv, [Next]_vars
             PROVE  LifecycleInv'
  OBVIOUS
<1>1. CASE UNCHANGED vars
  BY <1>1, NextType
  DEF vars, menuVars, cartVars, orderVars, cancelVars, LifecycleInv, ClaimInv,
      WrittenInv, LifeInv, OverHoldsNothing, CancelInv
<1>2. CASE Next
  BY <1>2, PlaceOrderLifecycle, MoveOrderLifecycle, CancelOrderLifecycle,
     HousekeepingLifecycle
  DEF Next
<1> QED
  BY <1>1, <1>2

LEMMA Lifecycle == Spec => []LifecycleInv
BY InitLifecycle, NextLifecycle, PTL DEF Spec

\* An order that was delivered or cancelled has settled its reservation,
\* whichever of cancelOrder, updateOrderStatus and the expiry sweep came first.
THEOREM OverOrdersHoldNothing == Spec => []OverHoldsNothing
BY Lifecycle, PTL DEF LifecycleInv

-----------------------------------------------------------------------------
(* reservedQty counts what it stands for.                                   *)

Holders(i) == {r \in Cart : Holds(r, i)}
Claimants(i) ==
    {r \in Cart : Outstanding(OrderWith(r, i)) \/ i \in claimed[r]}

CountInv == NoPhantomReservation

\* What a step does to the promises about an item: no more of them are held
\* than the counter gained, and none is left out of it that was in.
PromiseKept(i) ==
    Cardinality(Held(i)') + reservedQty[i] <= Cardinality(Held(i)) + reservedQty'[i]
PromisesKept == \A i \in Item : PromiseKept(i)

Size(i, carts) == Cardinality(PortionsOf(basket, i, carts))

LEMMA CountInvMeans ==
    CountInv <=> \A i \in Item : reservedQty[i] <= Size(i, Claimants(i))
BY DEF CountInv, NoPhantomReservation, Accounted, Portions, Claimants, Size

LEMMA PromiseKeptMeans ==
    ASSUME NEW i \in Item
    PROVE  PromiseKept(i) <=>
               Cardinality(PortionsOf(basket', i, Holders(i)')) + reservedQty[i]
                 <= Cardinality(PortionsOf(basket, i, Holders(i))) + reservedQty'[i]
<1>1. /\ Held(i) = PortionsOf(basket, i, Holders(i))
      /\ Held(i)' = PortionsOf(basket', i, Holders(i)')
  BY DEF Held, Portions, Holders
<1> QED BY <1>1 DEF PromiseKept

\* Sizes are numbers, and two sets of carts hold at most the sum of what each
\* of them holds.
LEMMA SizeFacts ==
    ASSUME NEW b \in Baskets, NEW i \in Item,
           NEW S \in SUBSET Cart, NEW T \in SUBSET Cart
    PROVE  /\ Cardinality(PortionsOf(b, i, S)) \in Nat
           /\ Cardinality(PortionsOf(b, i, S \cup T))
                <= Cardinality(PortionsOf(b, i, S))
                     + Cardinality(PortionsOf(b, i, T))
<1>1. /\ S \cup T = S \cup (T \ S) /\ S \cap (T \ S) = {}
      /\ T \ S \in SUBSET Cart /\ T \ S \subseteq T
  OBVIOUS
<1>2. Cardinality(PortionsOf(b, i, S \cup (T \ S)))
        = Cardinality(PortionsOf(b, i, S))
            + Cardinality(PortionsOf(b, i, T \ S))
  BY ONLY <1>1, PortionsAdd, b \in Baskets, i \in Item, S \in SUBSET Cart
<1>3. Cardinality(PortionsOf(b, i, T \ S)) <= Cardinality(PortionsOf(b, i, T))
  BY <1>1, PortionsMonotone
<1>4. /\ Cardinality(PortionsOf(b, i, S)) \in Nat
      /\ Cardinality(PortionsOf(b, i, T)) \in Nat
      /\ Cardinality(PortionsOf(b, i, T \ S)) \in Nat
  BY <1>1, PortionsFinite
<1> DEFINE s == Cardinality(PortionsOf(b, i, S))
           t == Cardinality(PortionsOf(b, i, T))
           d == Cardinality(PortionsOf(b, i, T \ S))
           u == Cardinality(PortionsOf(b, i, S \cup T))
<1>5. u = s + d
  BY <1>1, <1>2
<1> HIDE DEF s, t, d, u
<1>6. u <= s + t
  BY <1>3, <1>4, <1>5 DEF s, t, d
<1> QED
  BY <1>4, <1>6 DEF s, t, u

\* A step that moves no portion keeps the count when nobody starts to hold
\* and nobody stops to account for a portion.
LEMMA CountKept ==
    ASSUME LifecycleInv, CountInv, LifecycleInv',
           UNCHANGED <<reservedQty, basket>>,
           \A i \in Item :
               /\ PortionsOf(basket, i, Claimants(i))
                    \subseteq PortionsOf(basket, i, Claimants(i)')
               /\ PortionsOf(basket, i, Holders(i)')
                    \subseteq PortionsOf(basket, i, Holders(i))
    PROVE  CountInv' /\ PromisesKept
<1> basket \in Baskets
  BY DEF LifecycleInv, TypeOK, Baskets
<1> SUFFICES ASSUME NEW i \in Item
             PROVE  /\ reservedQty'[i] <= Size(i, Claimants(i))'
                    /\ Size(i, Holders(i)') + reservedQty[i]
                         <= Size(i, Holders(i)) + reservedQty'[i]
  BY PromiseKeptMeans
  DEF CountInv, NoPhantomReservation, Accounted, Portions, Claimants, Size, PromisesKept
<1> DEFINE C == PortionsOf(basket, i, Claimants(i))
           D == PortionsOf(basket, i, Claimants(i)')
           H == PortionsOf(basket, i, Holders(i))
           J == PortionsOf(basket, i, Holders(i)')
<1>1. /\ IsFiniteSet(C) /\ Cardinality(C) \in Nat
      /\ IsFiniteSet(D) /\ Cardinality(D) \in Nat
      /\ IsFiniteSet(H) /\ Cardinality(H) \in Nat
      /\ IsFiniteSet(J) /\ Cardinality(J) \in Nat
  <2>1. /\ Claimants(i) \in SUBSET Cart /\ Claimants(i)' \in SUBSET Cart
        /\ Holders(i) \in SUBSET Cart /\ Holders(i)' \in SUBSET Cart
    BY DEF Claimants, Holders
  <2> QED
    BY <2>1, PortionsFinite
<1>2. C \subseteq D /\ J \subseteq H
  OBVIOUS
<1>3. Cardinality(C) <= Cardinality(D) /\ Cardinality(J) <= Cardinality(H)
  <2> HIDE DEF C, D, H, J
  <2> QED BY <1>1, <1>2, FS_Subset
<1>4. reservedQty[i] <= Cardinality(C)
  BY CountInvMeans DEF Size
<1>5. reservedQty[i] \in Nat
  BY DEF LifecycleInv, TypeOK
<1>6. /\ reservedQty[i] <= Cardinality(D)
      /\ Cardinality(J) + reservedQty[i] <= Cardinality(H) + reservedQty[i]
  <2> HIDE DEF C, D, H, J
  <2> QED BY <1>1, <1>3, <1>4, <1>5
<1> QED
  BY <1>6 DEF Size

\* Settling hands back exactly the portions of the orders it stamps.
LEMMA CountSettle ==
    ASSUME LifecycleInv, CountInv, NEW S, Settle(S),
           UNCHANGED <<basket, claimed, pc>>,
           \A o \in Order : status'[o] # "NONE" <=> status[o] # "NONE"
    PROVE  CountInv' /\ PromisesKept
<1> basket \in Baskets
  BY DEF LifecycleInv, TypeOK, Baskets
<1> SUFFICES ASSUME NEW i \in Item
             PROVE  /\ reservedQty'[i] <= Size(i, Claimants(i)')
                    /\ Size(i, Holders(i)') + reservedQty[i]
                         <= Size(i, Holders(i)) + reservedQty'[i]
  BY PromiseKeptMeans
  DEF CountInv, NoPhantomReservation, Accounted, Portions, Claimants, Size, PromisesKept
<1> DEFINE still == {o \in S : Outstanding(o)}
           R == {r \in Cart : OrderWith(r, i) \in still}
<1>1. /\ R \in SUBSET Cart
      /\ Claimants(i) \in SUBSET Cart /\ Claimants(i)' \in SUBSET Cart
      /\ Holders(i) \in SUBSET Cart /\ Holders(i)' \in SUBSET Cart
  BY DEF Claimants, Holders
<1>2. reservedQty'[i] = Floor0(reservedQty[i] - Size(i, R))
  BY DEF Settle, Release, Portions, Size
<1>3. \A r \in Cart : Outstanding(OrderWith(r, i))'
                        <=> Outstanding(OrderWith(r, i)) /\ r \notin R
  <2> SUFFICES ASSUME NEW r \in Cart
               PROVE  Outstanding(OrderWith(r, i))'
                        <=> Outstanding(OrderWith(r, i)) /\ r \notin R
    OBVIOUS
  <2>1. OrderWith(r, i) \in Order
    BY CanteenAssumption DEF OrderWith, Order
  <2>2. settled'[OrderWith(r, i)]
          = (settled[OrderWith(r, i)] \/ OrderWith(r, i) \in still)
    BY <2>1 DEF Settle
  <2>3. OrderWith(r, i)' = OrderWith(r, i)
    BY DEF OrderWith
  <2> QED
    BY <2>1, <2>2, <2>3 DEF Outstanding, LifecycleInv, TypeOK
<1>4. Claimants(i) \subseteq Claimants(i)' \cup R
  BY <1>3 DEF Claimants
<1>5. R \subseteq Holders(i) /\ Holders(i)' = Holders(i) \ R
  <2>1. R \subseteq Holders(i)
    BY DEF Holders, Holds
  <2>2. \A r \in R : status[OrderWith(r, i)] # "NONE"
    BY DEF Outstanding
  <2>3. \A r \in Cart : /\ HalfPlaced(r)' <=> HalfPlaced(r)
                        /\ OrderWith(r, i) \in Order /\ OrderWith(r, i)' = OrderWith(r, i)
    BY CanteenAssumption DEF HalfPlaced, OrderWith, Order
  <2> QED
    BY <1>3, <2>1, <2>2, <2>3 DEF Holders, Holds
<1> HIDE DEF R
<1>6. Size(i, Claimants(i)) <= Size(i, Claimants(i)') + Size(i, R)
  <2>1. Size(i, Claimants(i)) <= Size(i, Claimants(i)' \cup R)
    BY <1>1, <1>4, PortionsMonotone DEF Size
  <2>2. Size(i, Claimants(i)' \cup R) <= Size(i, Claimants(i)') + Size(i, R)
    BY <1>1, SizeFacts DEF Size
  <2>3. /\ Size(i, Claimants(i)) \in Nat /\ Size(i, Claimants(i)') \in Nat
        /\ Size(i, R) \in Nat /\ Size(i, Claimants(i)' \cup R) \in Nat
    BY <1>1, PortionsFinite DEF Size
  <2> QED
    BY <2>1, <2>2, <2>3
<1>7. Size(i, Holders(i)) = Size(i, Holders(i)') + Size(i, R)
  <2>1. Holders(i) = Holders(i)' \cup R /\ Holders(i)' \cap R = {}
    BY <1>5
  <2>2. Size(i, Holders(i)' \cup R) = Size(i, Holders(i)') + Size(i, R)
    BY <1>1, <2>1, PortionsAdd DEF Size
  <2> QED
    BY <2>1, <2>2
<1>8. /\ Size(i, Claimants(i)) \in Nat /\ Size(i, Claimants(i)') \in Nat
      /\ Size(i, Holders(i)) \in Nat /\ Size(i, Holders(i)') \in Nat
      /\ Size(i, R) \in Nat /\ reservedQty[i] \in Nat
  BY <1>1, PortionsFinite DEF Size, LifecycleInv, TypeOK
<1>9. reservedQty[i] <= Size(i, Claimants(i))
  BY CountInvMeans
<1> QED
  BY <1>2, <1>6, <1>7, <1>8, <1>9 DEF Floor0

\* A step that leaves portions, claims and settlements alone, writes no order
\* and lets no cart become half placed.
LEMMA CountQuiet ==
    ASSUME LifecycleInv, CountInv, LifecycleInv',
           UNCHANGED <<reservedQty, basket, claimed, settled>>,
           \A o \in Order : status'[o] # "NONE" <=> status[o] # "NONE",
           \A r \in Cart : HalfPlaced(r)' => HalfPlaced(r)
    PROVE  CountInv' /\ PromisesKept
<1>1. ASSUME NEW i \in Item
      PROVE  /\ Claimants(i)' = Claimants(i)
             /\ Holders(i)' \subseteq Holders(i)
  <2>1. \A r \in Cart : /\ OrderWith(r, i) \in Order
                        /\ OrderWith(r, i)' = OrderWith(r, i)
    BY CanteenAssumption DEF OrderWith, Order
  <2>2. \A r \in Cart : /\ Outstanding(OrderWith(r, i))'
                              <=> Outstanding(OrderWith(r, i))
                        /\ (status[OrderWith(r, i)] = "NONE")'
                              <=> status[OrderWith(r, i)] = "NONE"
    BY <2>1 DEF Outstanding
  <2> QED
    BY <2>2 DEF Claimants, Holders, Holds
<1>2. ASSUME NEW i \in Item
      PROVE  /\ PortionsOf(basket, i, Claimants(i))
                  \subseteq PortionsOf(basket, i, Claimants(i)')
             /\ PortionsOf(basket, i, Holders(i)')
                  \subseteq PortionsOf(basket, i, Holders(i))
  BY <1>1 DEF PortionsOf
<1> QED
  BY <1>2, CountKept

\* Claiming counts the portions it claims, once.
LEMMA CountClaim ==
    ASSUME LifecycleInv, CountInv, LifecycleInv', NEW r \in Cart,
           NEW b \in Basket, NEW s, ClaimStock(r, b, s)
    PROVE  CountInv' /\ PromisesKept
<1> DEFINE got == {i \in Lines(b) : Claimable(i, b)}
<1>0. /\ basket \in Baskets /\ basket' \in Baskets
      /\ pc[r] = "idle" /\ claimed[r] = {}
      /\ pc'[r] \in {"handBack", "insert", "seats"}
      /\ claimed' = [claimed EXCEPT ![r] = got]
      /\ basket' = [basket EXCEPT ![r] = b]
      /\ \A q \in Cart \ {r} : pc'[q] = pc[q]
      /\ UNCHANGED <<status, settled>>
  BY DEF LifecycleInv, TypeOK, Baskets, ClaimStock, ClaimInv, orderVars
<1> SUFFICES ASSUME NEW i \in Item
             PROVE  /\ reservedQty'[i]
                         <= Cardinality(PortionsOf(basket', i, Claimants(i)'))
                    /\ Cardinality(PortionsOf(basket', i, Holders(i)')) + reservedQty[i]
                         <= Size(i, Holders(i)) + reservedQty'[i]
  BY PromiseKeptMeans
  DEF CountInv, NoPhantomReservation, Accounted, Portions, Claimants, Size, PromisesKept
<1>1. /\ Claimants(i) \in SUBSET Cart /\ Holders(i) \in SUBSET Cart
      /\ r \notin Claimants(i) /\ r \notin Holders(i)
  <2>1. ~Outstanding(OrderWith(r, i))
    BY <1>0, CanteenAssumption
    DEF Outstanding, LifecycleInv, WrittenInv, OrderWith, Order
  <2> QED
    BY <1>0, <2>1 DEF Claimants, Holders, Holds, HalfPlaced
<1>2. /\ i \in got => /\ Claimants(i)' = Claimants(i) \cup {r}
                      /\ Holders(i)' = Holders(i) \cup {r}
      /\ i \notin got => /\ Claimants(i)' = Claimants(i)
                         /\ Holders(i)' = Holders(i)
  <2>1. \A q \in Cart : Outstanding(OrderWith(q, i))'
                          <=> Outstanding(OrderWith(q, i))
    BY <1>0 DEF Outstanding, OrderWith
  <2>2. /\ HalfPlaced(r)'
        /\ \A q \in Cart \ {r} : HalfPlaced(q)' <=> HalfPlaced(q)
    BY <1>0 DEF HalfPlaced
  <2>3. /\ claimed'[r] = got
        /\ \A q \in Cart \ {r} : claimed'[q] = claimed[q]
    BY <1>0 DEF LifecycleInv, TypeOK
  <2>4. /\ ~Outstanding(OrderWith(r, i)) /\ claimed[r] = {}
        /\ status[OrderWith(r, i)] = "NONE"
    BY <1>0, <1>1, CanteenAssumption
    DEF Claimants, LifecycleInv, WrittenInv, OrderWith, Order
  <2>5. \A q \in Cart : status'[OrderWith(q, i)'] = status[OrderWith(q, i)]
    BY <1>0 DEF OrderWith
  <2> HIDE DEF got
  <2> QED
    BY <1>1, <2>1, <2>2, <2>3, <2>4, <2>5 DEF Claimants, Holders, Holds
<1>3. ASSUME NEW S \in SUBSET Cart, r \notin S
      PROVE  /\ Cardinality(PortionsOf(basket', i, S))
                  = Cardinality(PortionsOf(basket, i, S))
             /\ Cardinality(PortionsOf(basket', i, S \cup {r}))
                  = Cardinality(PortionsOf(basket, i, S)) + b[i]
  <2>0. \A q \in S : basket'[q][i] = basket[q][i]
    BY <1>0, <1>3 DEF Baskets
  <2>1. PortionsOf(basket', i, S) = PortionsOf(basket, i, S)
    BY <1>0, <2>0 DEF PortionsOf
  <2>2. /\ Cardinality(PortionsOf(basket', i, S \cup {r}))
             = Cardinality(PortionsOf(basket', i, S))
                 + Cardinality(PortionsOf(basket', i, {r}))
    BY <1>0, <1>3, PortionsAdd
  <2>3. Cardinality(PortionsOf(basket', i, {r})) = basket'[r][i]
    BY <1>0, PortionsOfOne
  <2>4. basket'[r] = b
    BY <1>0 DEF Baskets
  <2> QED
    BY <2>1, <2>2, <2>3, <2>4
<1>4. reservedQty'[i] = reservedQty[i] + (IF i \in got THEN b[i] ELSE 0)
  BY DEF ClaimStock
<1>5. reservedQty[i] <= Size(i, Claimants(i))
  BY CountInvMeans
<1>6. /\ reservedQty[i] \in Nat /\ b[i] \in Nat
      /\ Size(i, Claimants(i)) \in Nat /\ Size(i, Holders(i)) \in Nat
  <2>1. b[i] \in 0..MaxQty
    BY CanteenAssumption
  <2> QED
    BY <1>0, <1>1, <2>1, CanteenAssumption, PortionsFinite
    DEF LifecycleInv, TypeOK, Size
<1>7. CASE i \in got
  <2>1. /\ Cardinality(PortionsOf(basket', i, Claimants(i)'))
             = Size(i, Claimants(i)) + b[i]
        /\ Cardinality(PortionsOf(basket', i, Holders(i)'))
             = Size(i, Holders(i)) + b[i]
    BY <1>1, <1>2, <1>3, <1>7 DEF Size
  <2>2. reservedQty'[i] = reservedQty[i] + b[i]
    BY <1>4, <1>7
  <2> HIDE DEF got
  <2> QED
    BY <1>5, <1>6, <2>1, <2>2
<1>8. CASE i \notin got
  <2>1. /\ Cardinality(PortionsOf(basket', i, Claimants(i)'))
             = Size(i, Claimants(i))
        /\ Cardinality(PortionsOf(basket', i, Holders(i)'))
             = Size(i, Holders(i))
    BY <1>1, <1>2, <1>3, <1>8 DEF Size
  <2>2. reservedQty'[i] = reservedQty[i]
    BY <1>4, <1>6, <1>8
  <2> HIDE DEF got
  <2> QED
    BY <1>5, <1>6, <2>1, <2>2
<1> QED
  BY <1>7, <1>8

\* A worker that gives its whole claim back uncounts those portions, once.
LEMMA CountGiveBack ==
    ASSUME LifecycleInv, CountInv, LifecycleInv', NEW r \in Cart,
           HalfPlaced(r), ~HalfPlaced(r)', ReleaseStock(r, claimed[r]),
           \A q \in Cart \ {r} : pc'[q] = pc[q],
           UNCHANGED <<basket, status, settled>>
    PROVE  /\ CountInv'
           /\ \A i \in Item : status[OrderWith(r, i)] = "NONE" => PromiseKept(i)
<1> basket \in Baskets
  BY DEF LifecycleInv, TypeOK, Baskets
<1> SUFFICES ASSUME NEW i \in Item
             PROVE  /\ reservedQty'[i] <= Size(i, Claimants(i)')
                    /\ status[OrderWith(r, i)] = "NONE" =>
                           Size(i, Holders(i)') + reservedQty[i]
                             <= Size(i, Holders(i)) + reservedQty'[i]
  BY PromiseKeptMeans
  DEF CountInv, NoPhantomReservation, Accounted, Portions, Claimants, Size
<1>1. /\ Claimants(i) \in SUBSET Cart /\ Claimants(i)' \in SUBSET Cart
      /\ Holders(i) \in SUBSET Cart /\ Holders(i)' \in SUBSET Cart
  BY DEF Claimants, Holders
<1>2. /\ \A q \in Cart : Outstanding(OrderWith(q, i))'
                           <=> Outstanding(OrderWith(q, i))
      /\ claimed'[r] = {}
      /\ \A q \in Cart \ {r} : claimed'[q] = claimed[q]
      /\ \A q \in Cart \ {r} : HalfPlaced(q)' <=> HalfPlaced(q)
  BY DEF Outstanding, OrderWith, ReleaseStock, HalfPlaced, LifecycleInv, TypeOK
<1>3. /\ Claimants(i) \subseteq Claimants(i)' \cup {r}
      /\ i \notin claimed[r] => Claimants(i) \subseteq Claimants(i)'
      /\ Holders(i)' \subseteq Holders(i)
  BY <1>2 DEF Claimants, Holders, Holds
<1>4. ASSUME status[OrderWith(r, i)] = "NONE", i \in claimed[r]
      PROVE  r \in Holders(i) /\ Holders(i)' = Holders(i) \ {r}
  <2>1. \A q \in Cart : status'[OrderWith(q, i)'] = status[OrderWith(q, i)]
    BY DEF OrderWith
  <2> QED
    BY <1>2, <1>4, <2>1 DEF Holders, Holds, Outstanding
<1>5. reservedQty[i] <= Size(i, Claimants(i))
  BY CountInvMeans
<1>6. /\ reservedQty[i] \in Nat /\ basket[r][i] \in Nat
      /\ Size(i, Claimants(i)) \in Nat /\ Size(i, Holders(i)) \in Nat
      /\ Size(i, Claimants(i)') \in Nat /\ Size(i, Holders(i)') \in Nat
  <2>1. reservedQty[i] \in Nat /\ basket[r][i] \in Nat
    BY CanteenAssumption DEF LifecycleInv, TypeOK
  <2>2. \A S \in SUBSET Cart : Size(i, S) \in Nat
    BY PortionsFinite DEF Size
  <2> QED
    BY <1>1, <2>1, <2>2
<1>7. CASE i \in claimed[r]
  <2>1. reservedQty'[i] = Floor0(reservedQty[i] - basket[r][i])
    BY <1>7 DEF ReleaseStock
  <2>2. Size(i, Claimants(i)) <= Size(i, Claimants(i)') + basket[r][i]
    <3>1. Size(i, Claimants(i)) <= Size(i, Claimants(i)' \cup {r})
      BY <1>1, <1>3, PortionsMonotone DEF Size
    <3>2. /\ Size(i, Claimants(i)' \cup {r}) \in Nat
          /\ Size(i, Claimants(i)' \cup {r})
               <= Size(i, Claimants(i)') + Size(i, {r})
      BY <1>1, SizeFacts, PortionsFinite DEF Size
    <3>3. Size(i, {r}) = basket[r][i]
      BY PortionsOfOne DEF Size
    <3> QED
      BY <1>6, <3>1, <3>2, <3>3
  <2>3. status[OrderWith(r, i)] = "NONE" =>
            Size(i, Holders(i)) = Size(i, Holders(i)') + basket[r][i]
    BY <1>1, <1>4, <1>7, PortionsDrop DEF Size
  <2> QED
    BY <1>5, <1>6, <2>1, <2>2, <2>3 DEF Floor0
<1>8. CASE i \notin claimed[r]
  <2>1. reservedQty'[i] = reservedQty[i]
    BY <1>8 DEF ReleaseStock
  <2>2. /\ Size(i, Claimants(i)) <= Size(i, Claimants(i)')
        /\ Size(i, Holders(i)') <= Size(i, Holders(i))
    BY <1>1, <1>3, <1>8, PortionsMonotone DEF Size
  <2> QED
    BY <1>5, <1>6, <2>1, <2>2
<1> QED
  BY <1>7, <1>8

\* The INSERT turns a worker's claim into its orders' reservations.
LEMMA InsertKeepsPortions ==
    ASSUME LifecycleInv, NEW r \in Cart,
           NEW replied \in {TRUE} \cup {~LostReplies}, InsertOrders(r, replied)
    PROVE  /\ UNCHANGED <<reservedQty, stockQty, basket>>
           /\ \A i \in Item :
                  /\ PortionsOf(basket, i, Claimants(i))
                       \subseteq PortionsOf(basket, i, Claimants(i)')
                  /\ PortionsOf(basket, i, Holders(i)')
                       \subseteq PortionsOf(basket, i, Holders(i))
<1> DEFINE new == {<<r, k>> : k \in Kitchens(basket[r])}
<1>1. /\ pc[r] = "insert" /\ claimed[r] = Lines(basket[r])
      /\ pc'[r] = IF replied THEN "placed" ELSE "undoStock"
      /\ claimed'[r] = IF replied THEN {} ELSE claimed[r]
      /\ \A q \in Cart \ {r} : pc'[q] = pc[q] /\ claimed'[q] = claimed[q]
      /\ \A o \in Order : o \in new => status'[o] # "NONE"
      /\ \A o \in Order : o \notin new => status'[o] = status[o]
      /\ UNCHANGED <<reservedQty, stockQty, basket, settled>>
  BY DEF InsertOrders, LifecycleInv, TypeOK, ClaimInv, menuVars
<1>2. \A i \in Item : /\ OrderWith(r, i) \in Order /\ ~settled[OrderWith(r, i)]
                      /\ status[OrderWith(r, i)] = "NONE"
  BY <1>1, CanteenAssumption
  DEF LifecycleInv, WrittenInv, LifeInv, OrderWith, Order
<1>3. ASSUME NEW i \in Item, NEW q \in Cart \ {r}
      PROVE  /\ Outstanding(OrderWith(q, i))' <=> Outstanding(OrderWith(q, i))
             /\ HalfPlaced(q)' <=> HalfPlaced(q)
             /\ status'[OrderWith(q, i)'] = status[OrderWith(q, i)]
  <2>1. OrderWith(q, i) \in Order /\ OrderWith(q, i) \notin new
    BY CanteenAssumption DEF OrderWith, Order
  <2> QED
    BY <1>1, <2>1 DEF Outstanding, OrderWith, HalfPlaced
<1>4. ASSUME NEW i \in Item, i \in Lines(basket[r])
      PROVE  Outstanding(OrderWith(r, i))' /\ r \in Holders(i)
  <2>1. OrderWith(r, i) \in new
    BY <1>4 DEF OrderWith, Kitchens
  <2> QED
    BY <1>1, <1>2, <1>4, <2>1
    DEF Outstanding, OrderWith, Holders, Holds, HalfPlaced
<1> HIDE DEF new
<1>5. ASSUME NEW i \in Item, NEW p \in Cart \X (1..MaxQty),
             p[1] = r, p[2] <= basket[r][i]
      PROVE  i \in Lines(basket[r])
  BY <1>5, CanteenAssumption DEF Lines, LifecycleInv, TypeOK
<1>6. ASSUME NEW i \in Item
      PROVE  /\ PortionsOf(basket, i, Claimants(i))
                  \subseteq PortionsOf(basket, i, Claimants(i)')
             /\ PortionsOf(basket, i, Holders(i)')
                  \subseteq PortionsOf(basket, i, Holders(i))
  <2>1. ASSUME NEW q \in Cart \ {r}
        PROVE  /\ q \in Claimants(i) => q \in Claimants(i)'
               /\ q \in Holders(i)' => q \in Holders(i)
    BY <1>1, <1>3 DEF Claimants, Holders, Holds
  <2>2. i \in Lines(basket[r]) => r \in Claimants(i)' /\ r \in Holders(i)
    BY <1>4 DEF Claimants
  <2>3. ASSUME NEW p \in PortionsOf(basket, i, Claimants(i))
        PROVE  p \in PortionsOf(basket, i, Claimants(i)')
    BY <1>5, <2>1, <2>2 DEF PortionsOf
  <2>4. ASSUME NEW p \in PortionsOf(basket, i, Holders(i)')
        PROVE  p \in PortionsOf(basket, i, Holders(i))
    BY <1>5, <2>1, <2>2 DEF PortionsOf
  <2> QED
    BY <2>3, <2>4
<1> QED
  BY <1>1, <1>6

LEMMA CountInsert ==
    ASSUME LifecycleInv, CountInv, LifecycleInv', NEW r \in Cart,
           NEW replied \in {TRUE} \cup {~LostReplies}, InsertOrders(r, replied)
    PROVE  CountInv' /\ PromisesKept
BY InsertKeepsPortions, CountKept

HeldNat ==
    \A i \in Item : Cardinality(Held(i)) \in Nat /\ reservedQty[i] \in Nat

LEMMA HeldIsNat == TypeOK => HeldNat
<1> SUFFICES ASSUME TypeOK, NEW i \in Item
             PROVE  Cardinality(Held(i)) \in Nat /\ reservedQty[i] \in Nat
  BY DEF HeldNat
<1>1. Held(i) = PortionsOf(basket, i, Holders(i)) /\ Holders(i) \in SUBSET Cart
  BY DEF Held, Portions, Holders
<1> QED BY <1>1, PortionsFinite DEF TypeOK, Baskets

\* The rebuild sets the counter to the ledger: all that is held of an item of
\* which no half-placed cart has claimed a portion.
LEMMA CountReconcile ==
    ASSUME LifecycleInv, CountInv, LifecycleInv', ReconcileReservations
    PROVE  /\ CountInv'
           /\ \A i \in Item :
                  (\A r \in Cart : ~(HalfPlaced(r) /\ i \in claimed[r]))
                      => Uncounted(i)' = 0
<1> basket \in Baskets
  BY DEF LifecycleInv, TypeOK, Baskets
<1> DEFINE L(i) == {r \in Cart : Outstanding(OrderWith(r, i))}
<1>1. UNCHANGED <<basket, pc, claimed, status, settled>>
  BY DEF ReconcileReservations, cartVars, orderVars
<1>2. ASSUME NEW i \in Item
      PROVE  reservedQty'[i] = Size(i, L(i)) /\ Size(i, L(i)) \in Nat
  <2>1. L(i) \in SUBSET Cart
    OBVIOUS
  <2> QED
    BY <2>1, PortionsFinite DEF Size, ReconcileReservations, Ledger, Portions
<1>3. CountInv'
  <2> SUFFICES ASSUME NEW i \in Item
               PROVE  reservedQty'[i] <= Size(i, Claimants(i))
    BY <1>1
    DEF CountInv, NoPhantomReservation, Accounted, Portions, Claimants, Size,
        Outstanding, OrderWith
  <2>1. L(i) \in SUBSET Cart /\ Claimants(i) \in SUBSET Cart
        /\ L(i) \subseteq Claimants(i)
    BY DEF Claimants
  <2> QED
    BY <1>2, <2>1, PortionsMonotone DEF Size
<1>4. ASSUME NEW i \in Item, \A r \in Cart : ~(HalfPlaced(r) /\ i \in claimed[r])
      PROVE  Uncounted(i)' = 0
  <2>1. Holders(i)' = L(i)
    BY <1>1, <1>4 DEF Holders, Holds, HalfPlaced, Outstanding, OrderWith
  <2>2. Held(i)' = PortionsOf(basket, i, L(i))
    BY <1>1, <2>1 DEF Held, Portions, Holders
  <2>3. Cardinality(Held(i)') = reservedQty'[i]
    BY <1>2, <2>2 DEF Size
  <2> HIDE DEF L
  <2> QED
    BY <1>2, <2>3 DEF Uncounted, Floor0
<1> QED
  BY <1>3, <1>4

LEMMA InitCount == Init => CountInv
<1> SUFFICES ASSUME Init, NEW i \in Item
             PROVE  reservedQty[i] <= Size(i, Claimants(i))
  BY CountInvMeans
<1>1. basket \in Baskets /\ Claimants(i) \in SUBSET Cart
  BY InitType DEF TypeOK, Baskets, Claimants
<1> QED
  BY <1>1, PortionsFinite DEF Init, Size

\* Every step of createOrder keeps the count.
LEMMA PlaceOrderCount ==
    ASSUME LifecycleInv, CountInv, LifecycleInv', NEW r \in Cart, PlaceOrder(r)
    PROVE  /\ CountInv'
           /\ \A i \in Item :
                  PromiseKept(i) \/ (UndoStock(r) /\ status[OrderWith(r, i)] # "NONE")
<1> USE DEF orderVars, menuVars
<1>1. ASSUME NEW b \in Basket, NEW s \in Slot \cup {NoSlot}, ClaimStock(r, b, s)
      PROVE  CountInv' /\ PromisesKept
  BY <1>1, CountClaim
<1>2. CASE HandBackPartialClaim(r)
  <2>1. /\ HalfPlaced(r) /\ ~HalfPlaced(r)' /\ ReleaseStock(r, claimed[r])
        /\ \A q \in Cart \ {r} : pc'[q] = pc[q]
        /\ UNCHANGED <<basket, status, settled>>
    BY <1>2 DEF HandBackPartialClaim, HalfPlaced, LifecycleInv, TypeOK
  <2>2. \A i \in Item : status[OrderWith(r, i)] = "NONE"
    BY <1>2, CanteenAssumption
    DEF HandBackPartialClaim, LifecycleInv, WrittenInv, OrderWith, Order
  <2> QED
    BY <2>1, <2>2, CountGiveBack
<1>3. ASSUME NEW replied \in BOOLEAN, ClaimWindowSeats(r, replied)
      PROVE  CountInv' /\ PromisesKept
  <2>1. /\ UNCHANGED <<reservedQty, basket, claimed, settled, status>>
        /\ \A q \in Cart : HalfPlaced(q)' => HalfPlaced(q)
    BY <1>3 DEF ClaimWindowSeats, HalfPlaced, LifecycleInv, TypeOK
  <2> QED
    BY <2>1, CountQuiet
<1>4. ASSUME NEW replied \in {TRUE} \cup {~LostReplies}, InsertOrders(r, replied)
      PROVE  CountInv' /\ PromisesKept
  BY <1>4, CountInsert
<1>5. CASE UndoStock(r)
  <2>1. /\ HalfPlaced(r) /\ ~HalfPlaced(r)' /\ claimed[r] = Lines(basket[r])
        /\ ReleaseStock(r, Lines(basket[r]))
        /\ \A q \in Cart \ {r} : pc'[q] = pc[q]
        /\ UNCHANGED <<basket, status, settled>>
    BY <1>5
    DEF UndoStock, AfterUndoStock, HalfPlaced, LifecycleInv, TypeOK, ClaimInv
  <2>2. ReleaseStock(r, claimed[r])
    BY <2>1 DEF ReleaseStock
  <2> QED
    BY <1>5, <2>1, <2>2, CountGiveBack
<1>6. CASE StatementFails(r) \/ UndoSeats(r) \/ UndoFails(r) \/ WorkerDies(r)
  <2>1. /\ UNCHANGED <<reservedQty, basket, claimed, settled, status>>
        /\ \A q \in Cart : HalfPlaced(q)' => HalfPlaced(q)
    BY <1>6
    DEF StatementFails, UndoSeats, UndoFails, AfterUndoStock, WorkerDies,
        HalfPlaced, LifecycleInv, TypeOK
  <2> QED
    BY <2>1, CountQuiet DEF PromisesKept
<1> QED
  BY <1>1, <1>2, <1>3, <1>4, <1>5, <1>6, CanteenAssumption
  DEF PlaceOrder, Worker, PromisesKept

\* Every other step keeps the count.
LEMMA OtherCount ==
    ASSUME LifecycleInv, CountInv, LifecycleInv',
           \/ \E c \in Cancel : CancelOrder(c)
           \/ \E o \in Order : MoveOrder(o)
           \/ Sweep
           \/ EditMenu
    PROVE  /\ CountInv'
           /\ \A i \in Item :
                  \/ PromiseKept(i)
                  \/ /\ ReconcileReservations
                     /\ (\A r \in Cart : ~(HalfPlaced(r) /\ i \in claimed[r]))
                            => Uncounted(i)' = 0
<1> USE DEF orderVars, menuVars, cartVars
<1>1. ASSUME NEW c \in Cancel, CancelGiveBack(c)
      PROVE  CountInv' /\ PromisesKept
  BY <1>1, CountSettle DEF CancelGiveBack
<1>2. ASSUME NEW c \in Cancel,
             CancelWrite(c) \/ CancelDies(c) \/ \E o \in Order : CancelRead(c, o)
      PROVE  CountInv' /\ PromisesKept
  <2>1. /\ UNCHANGED <<reservedQty, basket, claimed, settled, pc>>
        /\ \A o \in Order : status'[o] # "NONE" <=> status[o] # "NONE"
    BY <1>2
    DEF CancelWrite, CancelDies, CancelRead, LifecycleInv, TypeOK, CancelInv
  <2> QED
    BY <2>1, CountQuiet DEF HalfPlaced
<1>3. ASSUME NEW o \in Order, DeadlinePasses(o) \/ Cook(o)
      PROVE  CountInv' /\ PromisesKept
  <2>1. /\ UNCHANGED <<reservedQty, basket, claimed, settled, pc>>
        /\ \A p \in Order : status'[p] # "NONE" <=> status[p] # "NONE"
    BY <1>3
    DEF DeadlinePasses, Cook, MayMove, NextStatus, LifecycleInv, TypeOK
  <2> QED
    BY <2>1, CountQuiet DEF HalfPlaced
<1>4. ASSUME NEW o \in Order, Deliver(o)
      PROVE  CountInv' /\ PromisesKept
  <2>1. /\ Settle({o}) /\ UNCHANGED <<basket, claimed, pc>>
        /\ \A p \in Order : status'[p] # "NONE" <=> status[p] # "NONE"
    BY <1>4 DEF Deliver, MayMove, NextStatus, LifecycleInv, TypeOK
  <2> QED
    BY <2>1, CountSettle
<1>5. CASE ReleaseExpiredReservations
  BY <1>5, CountSettle DEF ReleaseExpiredReservations, PromisesKept
<1>6. CASE ReconcileReservations
  BY <1>6, CountReconcile
<1>7. CASE EditMenu
  <2>1. UNCHANGED <<reservedQty, basket, claimed, settled, pc, status>>
    BY <1>7 DEF EditMenu, UpdateMenuItems
  <2> QED
    BY <2>1, CountQuiet DEF HalfPlaced, PromisesKept
<1> QED
  BY <1>1, <1>2, <1>3, <1>4, <1>5, <1>6, <1>7
  DEF CancelOrder, MoveOrder, Sweep, PromisesKept

CountedInv == LifecycleInv /\ CountInv

LEMMA NextCounted == CountedInv /\ [Next]_vars => CountedInv'
<1> SUFFICES ASSUME LifecycleInv, CountInv, [Next]_vars
             PROVE  CountedInv'
  BY DEF CountedInv
<1>1. LifecycleInv'
  BY NextLifecycle
<1>2. CASE UNCHANGED vars
  <2>1. UNCHANGED <<reservedQty, basket, claimed, settled, pc, status>>
    BY <1>2 DEF vars, menuVars, cartVars, orderVars
  <2> QED
    BY <1>1, <2>1, CountQuiet DEF HalfPlaced, CountedInv
<1>3. CASE Next
  BY <1>1, <1>3, PlaceOrderCount, OtherCount DEF Next, CountedInv
<1> QED
  BY <1>2, <1>3

LEMMA Counted == Spec => []CountedInv
<1>1. Init => CountedInv
  BY InitLifecycle, InitCount DEF CountedInv
<1> QED
  BY <1>1, NextCounted, PTL DEF Spec

\* However workers die, replies get lost and sweeps overlap, every unit of
\* reservedQty is traced to an order or to a claim that was never given back.
THEOREM NothingLeaks == Spec => []NoPhantomReservation
BY Counted, PTL DEF CountedInv, CountInv

LEMMA KeptIsCounted ==
    ASSUME TypeOK, TypeOK', NEW i \in Item, PromiseKept(i)
    PROVE  ~(Uncounted(i)' > Uncounted(i))
<1>1. /\ Cardinality(Held(i)) \in Nat /\ reservedQty[i] \in Nat
      /\ Cardinality(Held(i)') \in Nat /\ reservedQty'[i] \in Nat
  <2>1. HeldNat /\ HeldNat'
    BY HeldIsNat, PTL
  <2> QED BY <2>1 DEF HeldNat
<1> QED BY <1>1 DEF PromiseKept, Uncounted, Floor0

LEMMA StepRemembers ==
    ASSUME CountedInv, [Next]_vars, NEW i \in Item, Uncounted(i)' > Uncounted(i)
    PROVE  \/ /\ ReconcileReservations
              /\ \E r \in Cart : HalfPlaced(r) /\ i \in claimed[r]
           \/ \E r \in Cart : UndoStock(r) /\ status[OrderWith(r, i)] # "NONE"
<1>1. LifecycleInv /\ CountInv /\ LifecycleInv' /\ TypeOK /\ TypeOK'
  BY NextLifecycle DEF CountedInv, LifecycleInv
<1>2. ~PromiseKept(i)
  BY <1>1, KeptIsCounted
<1>3. Uncounted(i)' # 0
  <2>1. HeldNat
    BY <1>1, HeldIsNat
  <2> QED BY <2>1 DEF HeldNat, Uncounted, Floor0
<1>4. CASE UNCHANGED vars
  <2>1. UNCHANGED <<reservedQty, basket, claimed, settled, pc, status>>
    BY <1>4 DEF vars, menuVars, cartVars, orderVars
  <2> QED
    BY <1>1, <1>2, <2>1, CountQuiet DEF HalfPlaced, PromisesKept
<1>5. CASE Next
  BY <1>1, <1>2, <1>3, <1>5, PlaceOrderCount, OtherCount DEF Next
<1> QED BY <1>4, <1>5

\* Whatever is delivered, cancelled, expired, compensated or retried, and
\* whatever dies, a portion promised to an order or to a living worker drops
\* out of reservedQty only when a rebuild meets a cart between its claim and
\* its INSERT, or when a worker gives back what it does not know it wrote.
THEOREM PromisesAreRemembered == Spec => NoPromiseForgotten
<1>1. CountedInv /\ [Next]_vars =>
          [\A i \in Item : Uncounted(i)' > Uncounted(i) =>
              \/ /\ ReconcileReservations
                 /\ \E r \in Cart : HalfPlaced(r) /\ i \in claimed[r]
              \/ \E r \in Cart :
                     UndoStock(r) /\ status[OrderWith(r, i)] # "NONE"]_vars
  BY StepRemembers
<1> QED
  BY <1>1, Counted, PTL DEF Spec, NoPromiseForgotten

-----------------------------------------------------------------------------
(* Seats: bookedCount counts those taken and not handed back.               *)

\* A cart has no seat before it asks for seats; what its worker knows of is
\* what it has, or nothing; and it hands back only what it has.
SeatStages ==
    \A r \in Cart :
        /\ pc[r] \in {"idle", "handBack", "seats"} => seated[r] = {} /\ seatsKnown[r] = {}
        /\ pc[r] \in {"insert", "undoStock", "undoSeats"} => seatsKnown[r] \in {{}, seated[r]}
        /\ pc[r] = "undoSeats" => seatsKnown[r] # {}
        /\ pc[r] = "insert" /\ slot[r] # NoSlot => seated[r] = Kitchens(basket[r])

WithinCapacity == \A w \in Window : bookedCount[w] <= Capacity

\* An order in a window has its seat, unless its customer was told that it
\* does not exist.
OrdersAreSeated ==
    \A r \in Cart, k \in Kitchen :
        status[<<r, k>>] # "NONE" /\ slot[r] # NoSlot /\ pc[r] # "refused"
            => k \in seated[r]

SeatInv ==
    /\ LifecycleInv
    /\ SeatStages
    /\ SeatsAccounted
    /\ WithinCapacity
    /\ OrdersAreSeated

\* A step that moves no seat: nobody's slot, seats or what is known of them.
SeatsKept ==
    /\ UNCHANGED <<bookedCount, seated, seatsKnown>>
    /\ \A r \in Cart : /\ slot'[r] # slot[r] => seated[r] = {} /\ pc[r] = "idle"
                       /\ basket'[r] # basket[r] => pc[r] = "idle"
                       /\ pc'[r] = "insert" /\ pc[r] # "insert" => slot'[r] = NoSlot

LEMMA SeatSets ==
    ASSUME NEW w
    PROVE  IsFiniteSet(Seats(w)) /\ Cardinality(Seats(w)) \in Nat
<1>1. Seats(w) \in SUBSET Cart
  BY DEF Seats
<1> QED BY <1>1, CanteenAssumption, FS_Subset, FS_CardinalityType

-----------------------------------------------------------------------------
(* Steps that move no seat.                                                 *)

LEMMA KeptAccounts ==
    ASSUME SeatInv, SeatsKept
    PROVE  SeatsAccounted' /\ WithinCapacity'
<1>1. ASSUME NEW w \in Window PROVE Seats(w)' = Seats(w)
  <2>1. \A r \in Cart : (slot'[r] = w[1] /\ w[2] \in seated[r])
                            <=> (slot[r] = w[1] /\ w[2] \in seated[r])
    BY DEF SeatsKept
  <2> QED BY <2>1 DEF Seats, SeatsKept
<1> QED BY <1>1 DEF SeatInv, SeatsAccounted, WithinCapacity, SeatsKept

\* A worker's step that moves no seat.
LEMMA QuietWorker ==
    ASSUME SeatInv, NEW r \in Cart,
           \/ \E b \in Basket, s \in Slot \cup {NoSlot} : ClaimStock(r, b, s)
           \/ HandBackPartialClaim(r) \/ StatementFails(r) \/ UndoStock(r)
           \/ UndoFails(r) \/ WorkerDies(r)
    PROVE  SeatsKept /\ SeatStages' /\ OrdersAreSeated'
<1> USE DEF SeatInv, LifecycleInv, TypeOK
<1>1. CASE \E b \in Basket, s \in Slot \cup {NoSlot} : ClaimStock(r, b, s)
  <2>1. PICK b \in Basket, s \in Slot \cup {NoSlot} : ClaimStock(r, b, s)
    BY <1>1
  <2>2. /\ pc[r] = "idle"
        /\ \E next \in {"handBack", "insert", "seats"} :
              pc' = [pc EXCEPT ![r] = next] /\ (next = "insert" => s = NoSlot)
        /\ basket' = [basket EXCEPT ![r] = b] /\ slot' = [slot EXCEPT ![r] = s]
        /\ UNCHANGED <<bookedCount, seated, seatsKnown, status>>
    BY <2>1 DEF ClaimStock, orderVars
  <2>3. seated[r] = {} /\ seatsKnown[r] = {}
    BY <2>2 DEF SeatStages
  <2>4. SeatsKept
    BY <2>2, <2>3 DEF SeatsKept
  <2>5. SeatStages'
    BY <2>2, <2>3 DEF SeatStages, Kitchens, Lines
  <2>6. \A k \in Kitchen : status[<<r, k>>] = "NONE"
    BY <2>2 DEF WrittenInv, Order
  <2>7. OrdersAreSeated'
    BY <2>2, <2>6 DEF OrdersAreSeated
  <2> QED BY <2>4, <2>5, <2>7
<1>2. CASE HandBackPartialClaim(r) \/ StatementFails(r) \/ UndoStock(r)
           \/ UndoFails(r) \/ WorkerDies(r)
  <2>1. /\ UNCHANGED <<bookedCount, seated, seatsKnown, slot, basket, status>>
        /\ pc[r] # "refused"
        /\ \/ pc' = [pc EXCEPT ![r] = "refused"]
           \/ pc' = [pc EXCEPT ![r] = "dead"]
           \/ pc[r] \in {"seats", "insert"} /\ pc' = [pc EXCEPT ![r] = "undoStock"]
           \/ /\ pc[r] = "undoStock" /\ seatsKnown[r] # {}
              /\ pc' = [pc EXCEPT ![r] = "undoSeats"]
    BY <1>2 DEF HandBackPartialClaim, StatementFails, UndoStock, UndoFails, WorkerDies,
                AfterUndoStock, ReleaseStock, orderVars
  <2>2. SeatsKept
    BY <2>1 DEF SeatsKept
  <2>3. \A q \in Cart \ {r} : pc'[q] = pc[q]
    BY <2>1
  <2>4. \/ pc'[r] \in {"refused", "dead"}
        \/ pc[r] \in {"seats", "insert"} /\ pc'[r] = "undoStock"
        \/ pc[r] = "undoStock" /\ seatsKnown[r] # {} /\ pc'[r] = "undoSeats"
    BY <2>1
  <2>5. SeatStages'
    <3> SUFFICES ASSUME NEW q \in Cart
        PROVE  /\ pc'[q] \in {"idle", "handBack", "seats"}
                       => seated[q] = {} /\ seatsKnown[q] = {}
               /\ pc'[q] \in {"insert", "undoStock", "undoSeats"}
                       => seatsKnown[q] \in {{}, seated[q]}
               /\ pc'[q] = "undoSeats" => seatsKnown[q] # {}
               /\ pc'[q] = "insert" /\ slot[q] # NoSlot
                       => seated[q] = Kitchens(basket[q])
      BY <2>1 DEF SeatStages, Kitchens, Lines
    <3>1. CASE q # r
      BY <2>3, <3>1 DEF SeatStages
    <3>2. CASE q = r
      BY <2>4, <3>2 DEF SeatStages
    <3> QED BY <3>1, <3>2
  <2>6. OrdersAreSeated'
    BY <2>1, <2>3 DEF OrdersAreSeated
  <2> QED BY <2>2, <2>5, <2>6
<1> QED BY <1>1, <1>2

\* The INSERT writes orders in the kitchens whose seats the cart has.
LEMMA InsertSeated ==
    ASSUME SeatInv, NEW r \in Cart, NEW replied \in {TRUE} \cup {~LostReplies},
           InsertOrders(r, replied)
    PROVE  SeatsKept /\ SeatStages' /\ OrdersAreSeated'
<1> USE DEF SeatInv, LifecycleInv, TypeOK
<1>1. /\ pc[r] = "insert"
      /\ pc' = [pc EXCEPT ![r] = IF replied THEN "placed" ELSE "undoStock"]
      /\ UNCHANGED <<bookedCount, seated, seatsKnown, slot, basket>>
      /\ \A o \in Order : status'[o] = IF o \in {<<r, k>> : k \in Kitchens(basket[r])}
                                       THEN "PENDING" ELSE status[o]
  BY DEF InsertOrders
<1>2. SeatsKept
  BY <1>1 DEF SeatsKept
<1>3. SeatStages'
  BY <1>1 DEF SeatStages, Kitchens, Lines
<1>4. \A s \in Cart, k \in Kitchen : /\ <<s, k>> \in Order
                                     /\ status'[<<s, k>>] # "NONE" =>
                                          \/ status[<<s, k>>] # "NONE"
                                          \/ s = r /\ k \in Kitchens(basket[r])
  BY <1>1 DEF Order
<1>5. OrdersAreSeated'
  BY <1>1, <1>4 DEF OrdersAreSeated, SeatStages
<1> QED BY <1>2, <1>3, <1>5

\* Boards, cancellations, sweeps and the menu move no seat and write no order
\* that was not there.
LEMMA OtherSteps ==
    ASSUME SeatInv,
           \/ \E c \in Cancel : CancelOrder(c)
           \/ \E o \in Order : MoveOrder(o)
           \/ Sweep \/ EditMenu
    PROVE  SeatsKept /\ SeatStages' /\ OrdersAreSeated'
<1> USE DEF SeatInv, LifecycleInv, TypeOK
<1>1. UNCHANGED <<bookedCount, seated, seatsKnown, slot, basket, pc>>
  BY DEF CancelOrder, CancelRead, CancelGiveBack, CancelWrite, CancelDies, MoveOrder,
         DeadlinePasses, Cook, Deliver, Sweep, ReleaseExpiredReservations,
         ReconcileReservations, EditMenu, UpdateMenuItems, cartVars
<1>2. \A o \in Order : status'[o] # "NONE" => status[o] # "NONE"
  <2>1. ASSUME NEW c \in Cancel, CancelOrder(c)
        PROVE  \A o \in Order : status'[o] # "NONE" => status[o] # "NONE"
    BY <2>1 DEF CancelOrder, CancelRead, CancelGiveBack, CancelWrite, CancelDies, CancelInv,
                orderVars
  <2>2. ASSUME NEW o \in Order, MoveOrder(o)
        PROVE  \A p \in Order : status'[p] # "NONE" => status[p] # "NONE"
    BY <2>2 DEF MoveOrder, DeadlinePasses, Cook, Deliver, MayMove, NextStatus
  <2>3. Sweep \/ EditMenu => status' = status
    BY DEF Sweep, ReleaseExpiredReservations, ReconcileReservations, EditMenu,
           UpdateMenuItems, orderVars
  <2> QED BY <2>1, <2>2, <2>3
<1>3. SeatsKept
  BY <1>1 DEF SeatsKept
<1>4. SeatStages'
  BY <1>1 DEF SeatStages, Kitchens, Lines
<1>5. OrdersAreSeated'
  BY <1>1, <1>2 DEF OrdersAreSeated, Order
<1> QED BY <1>3, <1>4, <1>5

-----------------------------------------------------------------------------
(* The two statements that move seats.                                      *)

\* One seat more in every window where the cart got one.
LEMMA ClaimSeated ==
    ASSUME SeatInv, NEW r \in Cart, NEW replied \in BOOLEAN, ClaimWindowSeats(r, replied)
    PROVE  SeatStages' /\ SeatsAccounted' /\ WithinCapacity' /\ OrdersAreSeated'
<1> USE DEF SeatInv, LifecycleInv, TypeOK
<1> DEFINE got == {k \in Kitchens(basket[r]) : bookedCount[<<slot[r], k>>] < Capacity}
<1>1. /\ pc[r] = "seats"
      /\ bookedCount' = [w \in Window |->
             bookedCount[w] + (IF w[1] = slot[r] /\ w[2] \in got THEN 1 ELSE 0)]
      /\ seated' = [seated EXCEPT ![r] = got]
      /\ seatsKnown' = [seatsKnown EXCEPT ![r] = IF replied THEN got ELSE {}]
      /\ pc' = [pc EXCEPT ![r] = IF replied /\ got = Kitchens(basket[r]) THEN "insert"
                                                                         ELSE "undoStock"]
      /\ UNCHANGED <<slot, basket, status>>
  BY DEF ClaimWindowSeats, orderVars
<1>2. seated[r] = {} /\ seatsKnown[r] = {}
  BY <1>1 DEF SeatStages
<1>3. \A w \in Window : w[1] = slot[r] /\ w[2] \in got => bookedCount[w] < Capacity
  <2>1. \A w \in Window : w = <<w[1], w[2]>>
    BY DEF Window
  <2>2. \A k \in got : bookedCount[<<slot[r], k>>] < Capacity
    OBVIOUS
  <2> HIDE DEF got
  <2> QED BY <2>1, <2>2, Zenon
<1>4. \A k \in Kitchen : status[<<r, k>>] = "NONE"
  BY <1>1 DEF WrittenInv, Order
<1> HIDE DEF got
<1>5. SeatStages'
  <2>1. /\ seated'[r] = got /\ seatsKnown'[r] = (IF replied THEN got ELSE {})
        /\ pc'[r] \in {"insert", "undoStock"}
        /\ pc'[r] = "insert" => got = Kitchens(basket[r])
        /\ \A q \in Cart \ {r} : /\ pc'[q] = pc[q] /\ seated'[q] = seated[q]
                                 /\ seatsKnown'[q] = seatsKnown[q]
    BY <1>1
  <2> SUFFICES ASSUME NEW q \in Cart
      PROVE  /\ pc'[q] \in {"idle", "handBack", "seats"}
                     => seated'[q] = {} /\ seatsKnown'[q] = {}
             /\ pc'[q] \in {"insert", "undoStock", "undoSeats"}
                     => seatsKnown'[q] \in {{}, seated'[q]}
             /\ pc'[q] = "undoSeats" => seatsKnown'[q] # {}
             /\ pc'[q] = "insert" /\ slot[q] # NoSlot
                     => seated'[q] = Kitchens(basket[q])
    BY <1>1 DEF SeatStages, Kitchens, Lines
  <2>2. CASE q # r
    BY <2>1, <2>2 DEF SeatStages
  <2>3. CASE q = r
    BY <2>1, <2>3
  <2> QED BY <2>2, <2>3
<1>6. WithinCapacity'
  <2> SUFFICES ASSUME NEW w \in Window PROVE bookedCount'[w] <= Capacity
    BY DEF WithinCapacity
  <2>1. bookedCount[w] \in Nat /\ bookedCount[w] <= Capacity /\ Capacity \in Nat
    BY CanteenAssumption DEF WithinCapacity
  <2> QED BY <1>1, <1>3, <2>1
<1>7. SeatsAccounted'
  <2> SUFFICES ASSUME NEW w \in Window PROVE bookedCount'[w] = Cardinality(Seats(w)')
    BY DEF SeatsAccounted
  <2>1. IsFiniteSet(Seats(w)) /\ Cardinality(Seats(w)) \in Nat
        /\ bookedCount[w] = Cardinality(Seats(w))
    BY SeatSets DEF SeatsAccounted
  <2>2. r \notin Seats(w)
    BY <1>2 DEF Seats
  <2>3. CASE w[1] = slot[r] /\ w[2] \in got
    <3>1. Seats(w)' = Seats(w) \cup {r}
      BY <1>1, <1>2, <2>3 DEF Seats
    <3>2. Cardinality(Seats(w) \cup {r}) = Cardinality(Seats(w)) + 1
      BY <2>1, <2>2, FS_AddElement
    <3> QED BY <1>1, <2>1, <2>3, <3>1, <3>2
  <2>4. CASE ~(w[1] = slot[r] /\ w[2] \in got)
    <3>1. Seats(w)' = Seats(w)
      BY <1>1, <1>2, <2>4 DEF Seats
    <3> QED BY <1>1, <2>1, <2>4, <3>1
  <2> QED BY <2>3, <2>4
<1>8. OrdersAreSeated'
  BY <1>1, <1>4 DEF OrdersAreSeated
<1> QED BY <1>5, <1>6, <1>7, <1>8

\* One seat less in every window where the cart has one.
LEMMA UndoSeated ==
    ASSUME SeatInv, NEW r \in Cart, UndoSeats(r)
    PROVE  SeatStages' /\ SeatsAccounted' /\ WithinCapacity' /\ OrdersAreSeated'
<1> USE DEF SeatInv, LifecycleInv, TypeOK
<1>1. /\ pc[r] = "undoSeats"
      /\ bookedCount' = [w \in Window |-> IF w[1] = slot[r] /\ w[2] \in seatsKnown[r]
                            THEN Floor0(bookedCount[w] - 1) ELSE bookedCount[w]]
      /\ seated' = [seated EXCEPT ![r] = {}]
      /\ pc' = [pc EXCEPT ![r] = "refused"]
      /\ UNCHANGED <<slot, basket, seatsKnown, status>>
  BY DEF UndoSeats, orderVars
<1>2. seatsKnown[r] = seated[r]
  BY <1>1 DEF SeatStages
<1>3. SeatStages'
  BY <1>1 DEF SeatStages, Kitchens, Lines
<1>4. ASSUME NEW w \in Window
      PROVE  bookedCount'[w] = Cardinality(Seats(w)') /\ bookedCount'[w] <= bookedCount[w]
  <2>1. IsFiniteSet(Seats(w)) /\ Cardinality(Seats(w)) \in Nat
        /\ bookedCount[w] = Cardinality(Seats(w))
    BY SeatSets DEF SeatsAccounted
  <2>2. CASE r \in Seats(w)
    <3>1. Seats(w)' = Seats(w) \ {r}
      BY <1>1 DEF Seats
    <3>2. Cardinality(Seats(w) \ {r}) = Cardinality(Seats(w)) - 1
          /\ Cardinality(Seats(w) \ {r}) \in Nat
      BY <2>1, <2>2, FS_RemoveElement, FS_CardinalityType, FS_Subset
    <3>3. w[1] = slot[r] /\ w[2] \in seatsKnown[r]
      BY <1>2, <2>2 DEF Seats
    <3>4. bookedCount'[w] = Floor0(bookedCount[w] - 1)
      BY <1>1, <3>3
    <3> QED BY <2>1, <3>1, <3>2, <3>4 DEF Floor0
  <2>3. CASE r \notin Seats(w)
    <3>1. Seats(w)' = Seats(w)
      BY <1>1, <2>3 DEF Seats
    <3>2. ~(w[1] = slot[r] /\ w[2] \in seatsKnown[r])
      BY <1>2, <2>3 DEF Seats
    <3> QED BY <1>1, <2>1, <3>1, <3>2
  <2> QED BY <2>2, <2>3
<1>5. SeatsAccounted'
  BY <1>4 DEF SeatsAccounted
<1>6. WithinCapacity'
  <2> SUFFICES ASSUME NEW w \in Window PROVE bookedCount'[w] <= Capacity
    BY DEF WithinCapacity
  <2>1. bookedCount[w] \in Nat /\ bookedCount[w] <= Capacity /\ Capacity \in Nat
    BY CanteenAssumption DEF WithinCapacity
  <2>2. bookedCount'[w] \in Nat
    BY <1>1, <2>1 DEF Floor0
  <2> QED BY <1>4, <2>1, <2>2
<1>7. OrdersAreSeated'
  <2>1. ~LostReplies => \A k \in Kitchen : status[<<r, k>>] = "NONE"
    BY <1>1 DEF WrittenInv, Order
  <2> QED BY <1>1, <2>1 DEF OrdersAreSeated
<1> QED BY <1>3, <1>5, <1>6, <1>7

-----------------------------------------------------------------------------
(* The theorems.                                                            *)

LEMMA InitSeats == Init => SeatInv
<1> SUFFICES ASSUME Init PROVE SeatInv
  OBVIOUS
<1>1. LifecycleInv
  BY InitLifecycle
<1>2. SeatStages
  BY DEF Init, SeatStages
<1>3. WithinCapacity
  BY CanteenAssumption DEF Init, WithinCapacity
<1>4. OrdersAreSeated
  BY DEF Init, OrdersAreSeated, Order
<1>5. SeatsAccounted
  <2>1. \A w \in Window : Seats(w) = {}
    BY DEF Init, Seats
  <2> QED BY <2>1, FS_EmptySet DEF Init, SeatsAccounted
<1> QED BY <1>1, <1>2, <1>3, <1>4, <1>5 DEF SeatInv

LEMMA NextSeats == SeatInv /\ [Next]_vars => SeatInv'
<1> SUFFICES ASSUME SeatInv, [Next]_vars PROVE SeatInv'
  OBVIOUS
<1>1. LifecycleInv'
  BY NextLifecycle DEF SeatInv
<1>2. CASE UNCHANGED vars
  <2>1. SeatsKept /\ SeatStages' /\ OrdersAreSeated'
    BY <1>2 DEF vars, cartVars, orderVars, SeatsKept, SeatInv, SeatStages, OrdersAreSeated,
                Kitchens, Lines
  <2> QED BY <1>1, <2>1, KeptAccounts DEF SeatInv
<1>3. ASSUME NEW r \in Cart, PlaceOrder(r) PROVE SeatInv'
  <2>1. CASE SeatsKept /\ SeatStages' /\ OrdersAreSeated'
    BY <1>1, <2>1, KeptAccounts DEF SeatInv
  <2>2. CASE UndoSeats(r)
    BY <1>1, <2>2, UndoSeated DEF SeatInv
  <2>3. ASSUME NEW replied \in {TRUE} \cup {~LostReplies}, ClaimWindowSeats(r, replied)
        PROVE  SeatInv'
    BY <1>1, <2>3, ClaimSeated, CanteenAssumption DEF SeatInv
  <2>4. ASSUME NEW replied \in {TRUE} \cup {~LostReplies}, InsertOrders(r, replied)
        PROVE  SeatInv'
    BY <1>1, <2>1, <2>4, InsertSeated
  <2> QED BY <1>3, <2>1, <2>2, <2>3, <2>4, QuietWorker DEF PlaceOrder, Worker
<1>4. CASE \/ \E c \in Cancel : CancelOrder(c)
           \/ \E o \in Order : MoveOrder(o)
           \/ Sweep \/ EditMenu
  BY <1>1, <1>4, OtherSteps, KeptAccounts DEF SeatInv
<1> QED BY <1>2, <1>3, <1>4 DEF Next

LEMMA SeatsInvariant == Spec => []SeatInv
BY InitSeats, NextSeats, PTL DEF Spec

\* bookedCount counts, in every window, the seats that carts have taken and
\* not handed back, whatever replies are lost and workers die.
THEOREM SeatsAreCounted == Spec => []SeatsAccounted
<1>1. SeatInv => SeatsAccounted
  BY DEF SeatInv
<1> QED BY <1>1, SeatsInvariant, PTL

\* No window has more orders than it has seats, those of customers who were told
\* that they have none left aside.
THEOREM NoWindowIsOverbooked == Spec => []NoOverbooking
<1>1. SeatInv => NoOverbooking
  <2> SUFFICES ASSUME SeatInv, NEW w \in Window PROVE Cardinality(Booked(w)) <= Capacity
    BY DEF NoOverbooking
  <2>1. Booked(w) \subseteq Seats(w)
    BY CanteenAssumption DEF SeatInv, OrdersAreSeated, Booked, Seats, Window
  <2>2. /\ Cardinality(Booked(w)) \in Nat /\ Cardinality(Seats(w)) \in Nat
        /\ Cardinality(Booked(w)) <= Cardinality(Seats(w))
    BY <2>1, SeatSets, FS_Subset, FS_CardinalityType
  <2>3. Cardinality(Seats(w)) <= Capacity /\ Capacity \in Nat
    BY CanteenAssumption DEF SeatInv, SeatsAccounted, WithinCapacity
  <2> QED BY <2>2, <2>3
<1> QED BY <1>1, SeatsInvariant, PTL

-----------------------------------------------------------------------------
(* Stock and collected food.                                                *)

Collectors(i) == {r \in Cart : collected[OrderWith(r, i)]}

\* Whatever is neither a claim, a delivery nor an edit leaves the shelf, the
\* baskets and what was collected alone.
LEMMA ShelfKept ==
    ASSUME LifecycleInv,
           \/ \E r \in Cart : Worker(r)
           \/ \E c \in Cancel : CancelOrder(c)
           \/ \E o \in Order : DeadlinePasses(o) \/ Cook(o)
           \/ Sweep
           \/ UNCHANGED vars
    PROVE  UNCHANGED <<stockQty, basket, collected>>
<1> USE DEF menuVars, cartVars, orderVars
<1>1. ASSUME NEW r \in Cart, Worker(r)
      PROVE  UNCHANGED <<stockQty, basket, collected>>
  BY <1>1 DEF Worker, HandBackPartialClaim, ClaimWindowSeats, InsertOrders,
     StatementFails, UndoStock, UndoSeats, UndoFails, WorkerDies
<1>2. ASSUME NEW c \in Cancel, CancelOrder(c)
      PROVE  UNCHANGED <<stockQty, basket, collected>>
  BY <1>2 DEF CancelOrder, CancelRead, CancelGiveBack, CancelWrite, CancelDies
<1>3. ASSUME NEW o \in Order, DeadlinePasses(o) \/ Cook(o)
      PROVE  UNCHANGED <<stockQty, basket, collected>>
  BY <1>3 DEF DeadlinePasses, Cook
<1>4. CASE Sweep
  BY <1>4 DEF Sweep, ReleaseExpiredReservations, ReconcileReservations
<1>5. CASE UNCHANGED vars
  BY <1>5 DEF vars
<1> QED BY <1>1, <1>2, <1>3, <1>4, <1>5

\* A claim fills the basket of a cart that has collected nothing.
LEMMA ClaimCollects ==
    ASSUME LifecycleInv, NEW r \in Cart, NEW b \in Basket, NEW s, ClaimStock(r, b, s),
           NEW i \in Item
    PROVE  Collected(i)' = Collected(i) /\ stockQty' = stockQty
<1>1. /\ pc[r] = "idle" /\ basket' = [basket EXCEPT ![r] = b]
      /\ UNCHANGED <<stockQty, collected>>
  BY DEF ClaimStock, orderVars
<1>2. \A q \in Cart : OrderWith(q, i) \in Order
  BY CanteenAssumption DEF OrderWith, Order
<1>3. ~collected[OrderWith(r, i)]
  BY <1>1, <1>2 DEF LifecycleInv, WrittenInv, LifeInv, OrderWith
<1>4. \A q \in Collectors(i) : basket'[q][i] = basket[q][i]
  BY <1>1, <1>3 DEF Collectors, LifecycleInv, TypeOK
<1> QED BY <1>1, <1>4 DEF Collected, Portions, PortionsOf, Collectors, OrderWith

\* A delivery collects the portions of its order, none of which was collected
\* before, and takes exactly those from the shelf.
LEMMA DeliveryCollects ==
    ASSUME LifecycleInv, NEW o \in Order, Deliver(o), NEW i \in Item
    PROVE  stockQty[i] - stockQty'[i]
             = Cardinality(Collected(i)') - Cardinality(Collected(i))
<1>1. /\ basket' = basket /\ collected' = [collected EXCEPT ![o] = TRUE]
      /\ stockQty'[i] = stockQty[i] - Qty(o, i)
      /\ status[o] = "COOKED"
  BY DEF Deliver, MayMove, NextStatus, cartVars, LifecycleInv, TypeOK
<1>2. /\ ~collected[o]
      /\ o[1] \in Cart /\ basket \in Baskets /\ stockQty[i] \in Nat
      /\ basket[o[1]][i] \in Nat
      /\ Collectors(i) \in SUBSET Cart
  <2>1. ~collected[o]
    BY <1>1 DEF LifecycleInv, LifeInv
  <2>2. o[1] \in Cart
    BY DEF Order
  <2>3. basket \in Baskets /\ stockQty[i] \in Nat
    BY DEF LifecycleInv, TypeOK, Baskets
  <2>4. basket[o[1]][i] \in 0..MaxQty
    BY <2>2, <2>3 DEF Baskets
  <2>5. Collectors(i) \in SUBSET Cart
    BY DEF Collectors
  <2> QED BY <2>1, <2>2, <2>3, <2>4, <2>5, CanteenAssumption
<1>3. /\ Collected(i) = PortionsOf(basket, i, Collectors(i))
      /\ Collected(i)' = PortionsOf(basket, i, Collectors(i)')
  BY <1>1 DEF Collected, Portions, Collectors
<1>4. Cardinality(Collected(i)) \in Nat
  BY <1>2, <1>3, PortionsFinite
<1>5. \A r \in Cart : OrderWith(r, i) \in Order
  BY CanteenAssumption DEF OrderWith, Order
<1>6. \A r \in Cart : collected'[OrderWith(r, i)]
                        <=> collected[OrderWith(r, i)] \/ OrderWith(r, i) = o
  BY <1>1, <1>5 DEF LifecycleInv, TypeOK
<1>7. CASE KitchenOf[i] = o[2]
  <2>1. \A r \in Cart : OrderWith(r, i) = o <=> r = o[1]
    BY <1>7 DEF OrderWith, Order
  <2>2. Collectors(i)' = Collectors(i) \cup {o[1]} /\ o[1] \notin Collectors(i)
    BY <1>2, <1>6, <2>1 DEF Collectors, OrderWith
  <2>3. Cardinality(PortionsOf(basket, i, Collectors(i) \cup {o[1]}))
          = Cardinality(PortionsOf(basket, i, Collectors(i)))
              + Cardinality(PortionsOf(basket, i, {o[1]}))
    BY <1>2, <2>2, PortionsAdd
  <2>4. Cardinality(PortionsOf(basket, i, {o[1]})) = basket[o[1]][i]
    BY <1>2, PortionsOfOne
  <2>5. Qty(o, i) = basket[o[1]][i]
    BY <1>7 DEF Qty
  <2> QED BY <1>1, <1>2, <1>3, <1>4, <2>2, <2>3, <2>4, <2>5
<1>8. CASE KitchenOf[i] # o[2]
  <2>1. \A r \in Cart : OrderWith(r, i) # o
    BY <1>8 DEF OrderWith
  <2>2. Collectors(i)' = Collectors(i)
    BY <1>6, <2>1 DEF Collectors, OrderWith
  <2>3. Qty(o, i) = 0
    BY <1>8 DEF Qty
  <2> QED BY <1>1, <1>2, <1>3, <1>4, <2>2, <2>3
<1> QED BY <1>7, <1>8

LEMMA StepCollects ==
    ASSUME LifecycleInv, [Next]_vars, NEW i \in Item, ~EditMenu
    PROVE  stockQty[i] - stockQty'[i]
             = Cardinality(Collected(i)') - Cardinality(Collected(i))
<1>1. stockQty[i] \in Nat /\ Cardinality(Collected(i)) \in Nat
  <2>1. {r \in Cart : collected[OrderWith(r, i)]} \in SUBSET Cart
    OBVIOUS
  <2> QED
    BY <2>1, PortionsFinite DEF LifecycleInv, TypeOK, Baskets, Collected, Portions
<1>2. CASE UNCHANGED <<stockQty, basket, collected>>
  <2>1. Collected(i)' = Collected(i)
    BY <1>2 DEF Collected, Portions, OrderWith
  <2> QED BY <1>1, <1>2, <2>1
<1>3. ASSUME NEW r \in Cart, PlaceOrder(r)
      PROVE  \/ UNCHANGED <<stockQty, basket, collected>>
             \/ Collected(i)' = Collected(i) /\ stockQty' = stockQty
  BY <1>3, ClaimCollects, ShelfKept DEF PlaceOrder
<1>4. ASSUME NEW o \in Order, MoveOrder(o)
      PROVE  UNCHANGED <<stockQty, basket, collected>> \/ Deliver(o)
  BY <1>4, ShelfKept DEF MoveOrder
<1>5. CASE Collected(i)' = Collected(i) /\ stockQty' = stockQty
  BY <1>1, <1>5
<1>6. ASSUME NEW o \in Order, Deliver(o)
      PROVE  stockQty[i] - stockQty'[i]
               = Cardinality(Collected(i)') - Cardinality(Collected(i))
  BY <1>6, DeliveryCollects
<1> QED
  BY <1>2, <1>3, <1>4, <1>5, <1>6, ShelfKept DEF Next

\* Stock leaves the shelf exactly once for every portion handed over, and for
\* no other reason than an admin's edit: no retry, cancellation or sweep moves
\* it, whatever replies are lost.
THEOREM StockLeavesWithFood == Spec => StockFollowsCollection
<1>1. LifecycleInv /\ [Next]_vars =>
          [\A i \in Item :
              \/ stockQty[i] - stockQty'[i]
                   = Cardinality(Collected(i)') - Cardinality(Collected(i))
              \/ EditMenu]_vars
  BY StepCollects
<1> QED
  BY <1>1, Lifecycle, PTL DEF Spec, StockFollowsCollection

-----------------------------------------------------------------------------
(* Nothing is promised twice.                                               *)

\* A step that lets nobody start to hold a portion, and takes nothing from
\* the shelf, oversells nothing.
LEMMA NobodyHoldsMore ==
    ASSUME LifecycleInv, LifecycleInv', NEW i \in Item, stockQty' = stockQty,
           PortionsOf(basket', i, Holders(i)') \subseteq PortionsOf(basket, i, Holders(i)),
           ~Oversold(i)
    PROVE  ~Oversold(i)'
<1>1. basket \in Baskets /\ basket' \in Baskets
  BY DEF LifecycleInv, TypeOK, Baskets
<1>2. Holders(i) \in SUBSET Cart /\ Holders(i)' \in SUBSET Cart
  BY DEF Holders
<1>3. /\ Held(i) = PortionsOf(basket, i, Holders(i))
      /\ Held(i)' = PortionsOf(basket', i, Holders(i)')
  BY DEF Held, Portions, Holders
<1>4. /\ IsFiniteSet(Held(i)) /\ Cardinality(Held(i)) \in Nat
      /\ Cardinality(Held(i)') \in Nat
  BY <1>1, <1>2, <1>3, PortionsFinite
<1>5. Cardinality(Held(i)') <= Cardinality(Held(i))
  BY <1>3, <1>4, FS_Subset
<1>6. stockQty[i] \in Nat
  BY DEF LifecycleInv, TypeOK
<1> QED BY <1>4, <1>5, <1>6 DEF Oversold

\* ... as does one in which the baskets stay, orders are only settled or
\* ended, and workers only let go.
LEMMA LettingGo ==
    ASSUME LifecycleInv, LifecycleInv', NEW i \in Item,
           UNCHANGED <<stockQty, basket>>, ~Oversold(i),
           \A o \in Order : Outstanding(o)' => Outstanding(o),
           \A o \in Order : status'[o] = "NONE" => status[o] = "NONE",
           \A r \in Cart : HalfPlaced(r)' => HalfPlaced(r) /\ claimed'[r] \subseteq claimed[r]
    PROVE  ~Oversold(i)'
<1>1. \A r \in Cart : OrderWith(r, i) \in Order /\ OrderWith(r, i)' = OrderWith(r, i)
  BY CanteenAssumption DEF OrderWith, Order
<1>2. \A r \in Cart : Outstanding(OrderWith(r, i))' => Outstanding(OrderWith(r, i))
  BY <1>1 DEF Outstanding
<1>3. Holders(i)' \subseteq Holders(i)
  <2>1. \A r \in Cart : (status[OrderWith(r, i)] = "NONE")' => status[OrderWith(r, i)] = "NONE"
    BY <1>1
  <2> QED BY <1>2, <2>1 DEF Holders, Holds
<1>4. PortionsOf(basket', i, Holders(i)') \subseteq PortionsOf(basket, i, Holders(i))
  BY <1>3 DEF PortionsOf
<1> QED BY <1>4, NobodyHoldsMore

\* A claim that lands is covered by what is left of the stock.
LEMMA ClaimIsCovered ==
    ASSUME CountedInv, CountedInv', NEW r \in Cart, NEW b \in Basket, NEW s,
           ClaimStock(r, b, s), NEW i \in Item, ~Oversold(i), ~(Uncounted(i) > 0)
    PROVE  ~Oversold(i)'
<1> DEFINE got == {j \in Lines(b) : Claimable(j, b)}
<1>1. /\ pc[r] = "idle" /\ claimed[r] = {}
      /\ claimed' = [claimed EXCEPT ![r] = got]
      /\ basket' = [basket EXCEPT ![r] = b]
      /\ \A q \in Cart \ {r} : pc'[q] = pc[q]
      /\ UNCHANGED <<stockQty, status, settled>>
      /\ reservedQty'[i] = reservedQty[i] + (IF i \in got THEN b[i] ELSE 0)
  BY DEF CountedInv, LifecycleInv, TypeOK, ClaimStock, ClaimInv, orderVars
<1>2. CASE i \in got
  <2>1. stockQty[i] - reservedQty[i] >= b[i]
    BY <1>2 DEF Claimable
  <2>2. b[i] \in 0..MaxQty /\ stockQty[i] \in Nat /\ reservedQty[i] \in Nat
    BY CanteenAssumption DEF CountedInv, LifecycleInv, TypeOK
  <2>3. reservedQty'[i] <= stockQty'[i] /\ reservedQty'[i] \in Nat
    BY <1>1, <1>2, <2>1, <2>2, CanteenAssumption
  <2>4. Cardinality(Held(i)') <= reservedQty'[i]
    <3>1. PromiseKept(i)
      BY CountClaim DEF CountedInv, PromisesKept
    <3>2. HeldNat /\ HeldNat'
      BY HeldIsNat, PTL DEF CountedInv, LifecycleInv
    <3>3. /\ Cardinality(Held(i)) \in Nat /\ reservedQty[i] \in Nat
          /\ Cardinality(Held(i)') \in Nat /\ reservedQty'[i] \in Nat
      BY <3>2 DEF HeldNat
    <3>4. Cardinality(Held(i)) <= reservedQty[i]
      BY <3>3 DEF Uncounted, Floor0
    <3> QED BY <3>1, <3>3, <3>4 DEF PromiseKept
  <2>5. Cardinality(Held(i)') \in Nat
    <3>1. Holders(i)' \in SUBSET Cart /\ basket' \in Baskets
      BY DEF Holders, CountedInv, LifecycleInv, TypeOK, Baskets
    <3>2. Held(i)' = PortionsOf(basket', i, Holders(i)')
      BY DEF Held, Portions, Holders
    <3> QED BY <3>1, <3>2, PortionsFinite
  <2> QED BY <1>1, <2>2, <2>3, <2>4, <2>5 DEF Oversold
<1>3. CASE i \notin got
  <2>1. OrderWith(r, i) \in Order
    BY CanteenAssumption DEF OrderWith, Order
  <2>2. ~Outstanding(OrderWith(r, i))
    BY <1>1, <2>1 DEF Outstanding, CountedInv, LifecycleInv, WrittenInv, OrderWith
  <2>3. \A q \in Cart : Outstanding(OrderWith(q, i))' <=> Outstanding(OrderWith(q, i))
    BY <1>1 DEF Outstanding, OrderWith
  <2>4. /\ claimed'[r] = got
        /\ \A q \in Cart \ {r} : claimed'[q] = claimed[q] /\ basket'[q] = basket[q]
    BY <1>1 DEF CountedInv, LifecycleInv, TypeOK
  <2>5. \A q \in Cart : (status[OrderWith(q, i)] = "NONE")' <=> status[OrderWith(q, i)] = "NONE"
    BY <1>1 DEF OrderWith
  <2> HIDE DEF got
  <2>6. r \notin Holders(i)' /\ \A q \in Cart \ {r} : q \in Holders(i)' => q \in Holders(i)
    BY <1>1, <1>3, <2>2, <2>3, <2>4, <2>5 DEF Holders, Holds, HalfPlaced
  <2>7. PortionsOf(basket', i, Holders(i)') \subseteq PortionsOf(basket, i, Holders(i))
    BY <2>4, <2>6 DEF PortionsOf
  <2> QED BY <1>1, <2>7, NobodyHoldsMore DEF CountedInv
<1> QED BY <1>2, <1>3

\* The delivery of an order that still holds its portions takes from the shelf
\* what that order held, and no more.
LEMMA DeliveryIsCovered ==
    ASSUME LifecycleInv, LifecycleInv', NEW o \in Order, Deliver(o), ~settled[o],
           NEW i \in Item, ~Oversold(i)
    PROVE  ~Oversold(i)'
<1>1. /\ UNCHANGED <<basket, pc, claimed>>
      /\ stockQty'[i] = stockQty[i] - Qty(o, i)
      /\ status[o] = "COOKED"
      /\ settled' = [p \in Order |-> settled[p] \/ p = o]
      /\ \A p \in Order \ {o} : status'[p] = status[p]
  BY DEF Deliver, Settle, Outstanding, MayMove, NextStatus, cartVars, LifecycleInv, TypeOK
<1>2. \A r \in Cart : OrderWith(r, i) \in Order /\ OrderWith(r, i)' = OrderWith(r, i)
  BY CanteenAssumption DEF OrderWith, Order
<1>3. \A r \in Cart : Outstanding(OrderWith(r, i))'
                        <=> Outstanding(OrderWith(r, i)) /\ OrderWith(r, i) # o
  BY <1>1, <1>2 DEF Outstanding, LifecycleInv, TypeOK
<1>4. /\ Held(i) = PortionsOf(basket, i, Holders(i))
      /\ Held(i)' = PortionsOf(basket, i, Holders(i)')
      /\ Holders(i) \in SUBSET Cart /\ Holders(i)' \in SUBSET Cart
      /\ basket \in Baskets /\ stockQty[i] \in Nat /\ o[1] \in Cart
  BY <1>1 DEF Held, Portions, Holders, LifecycleInv, TypeOK, Baskets, Order
<1>5. Cardinality(Held(i)) \in Nat /\ Cardinality(Held(i)') \in Nat
  BY <1>4, PortionsFinite
<1>6. \A r \in Cart : Holds(r, i)'
                        <=> \/ Outstanding(OrderWith(r, i))'
                            \/ /\ HalfPlaced(r) /\ i \in claimed[r]
                               /\ status[OrderWith(r, i)] = "NONE"
  <2>1. \A p \in Order : status'[p] = "NONE" <=> status[p] = "NONE"
    BY <1>1 DEF Deliver, LifecycleInv, TypeOK
  <2> QED BY <1>1, <1>2, <2>1 DEF Holds, HalfPlaced
<1>7. CASE KitchenOf[i] = o[2]
  <2>1. \A r \in Cart : OrderWith(r, i) = o <=> r = o[1]
    BY <1>7 DEF OrderWith, Order
  <2>2. Outstanding(OrderWith(o[1], i)) /\ status[OrderWith(o[1], i)] # "NONE"
    BY <1>1, <1>4, <2>1 DEF Outstanding
  <2>3. o[1] \in Holders(i) /\ Holders(i)' = Holders(i) \ {o[1]}
    BY <1>3, <1>4, <1>6, <2>1, <2>2 DEF Holders, Holds
  <2>4. Cardinality(Held(i)) = Cardinality(Held(i)') + basket[o[1]][i]
    BY <1>4, <2>3, PortionsDrop
  <2>5. Qty(o, i) = basket[o[1]][i]
    BY <1>7 DEF Qty
  <2>6. basket[o[1]][i] \in 0..MaxQty
    BY <1>4 DEF Baskets
  <2>7. basket[o[1]][i] \in Nat
    BY <2>6, CanteenAssumption
  <2> QED BY <1>1, <1>4, <1>5, <2>4, <2>5, <2>7 DEF Oversold
<1>8. CASE KitchenOf[i] # o[2]
  <2>1. Qty(o, i) = 0 /\ \A r \in Cart : OrderWith(r, i) # o
    BY <1>8 DEF Qty, OrderWith
  <2>2. Holders(i)' = Holders(i)
    BY <1>3, <1>6, <2>1 DEF Holders, Holds
  <2> QED BY <1>1, <1>4, <1>5, <2>1, <2>2 DEF Oversold
<1> QED BY <1>7, <1>8

\* A settlement only takes orders out of the ledger.
LEMMA SettleLetsGo ==
    ASSUME LifecycleInv, NEW S, Settle(S), status' = status
    PROVE  \A o \in Order : Outstanding(o)' => Outstanding(o)
BY DEF Settle, Outstanding, LifecycleInv, TypeOK

LEMMA StepIsCovered ==
    ASSUME CountedInv, CountedInv', [Next]_vars, NEW i \in Item, ~Oversold(i),
           ~EditMenu, ~\E o \in Order : settled[o] /\ Deliver(o), ~(Uncounted(i) > 0)
    PROVE  ~Oversold(i)'
<1> USE DEF menuVars, cartVars, orderVars
<1> LifecycleInv /\ LifecycleInv'
  BY DEF CountedInv
<1>1. ASSUME UNCHANGED <<stockQty, basket>>,
             \A o \in Order : Outstanding(o)' => Outstanding(o),
             \A o \in Order : status'[o] = "NONE" => status[o] = "NONE",
             \A r \in Cart : HalfPlaced(r)' => HalfPlaced(r) /\ claimed'[r] \subseteq claimed[r]
      PROVE  ~Oversold(i)'
  BY <1>1, LettingGo
<1>2. ASSUME NEW r \in Cart, PlaceOrder(r)
      PROVE  ~Oversold(i)'
  <2>1. ASSUME NEW b \in Basket, NEW s \in Slot \cup {NoSlot}, ClaimStock(r, b, s)
        PROVE  ~Oversold(i)'
    BY <2>1, ClaimIsCovered
  <2>2. ASSUME NEW replied \in {TRUE} \cup {~LostReplies}, InsertOrders(r, replied)
        PROVE  ~Oversold(i)'
    BY <2>2, InsertKeepsPortions, NobodyHoldsMore
  <2>3. CASE \/ HandBackPartialClaim(r) \/ StatementFails(r) \/ UndoStock(r)
             \/ UndoSeats(r) \/ UndoFails(r) \/ WorkerDies(r)
             \/ \E replied \in BOOLEAN : ClaimWindowSeats(r, replied)
    <3>1. /\ UNCHANGED <<stockQty, basket, status, settled>>
          /\ \A q \in Cart : /\ claimed'[q] \subseteq claimed[q]
                             /\ HalfPlaced(q)' => HalfPlaced(q)
      BY <2>3 DEF HandBackPartialClaim, StatementFails, UndoStock, UndoSeats, UndoFails,
         WorkerDies, ClaimWindowSeats, AfterUndoStock, ReleaseStock, HalfPlaced,
         LifecycleInv, TypeOK
    <3> QED BY <1>1, <3>1 DEF Outstanding
  <2> QED BY <1>2, <2>1, <2>2, <2>3, CanteenAssumption DEF PlaceOrder, Worker
<1>3. ASSUME NEW c \in Cancel, CancelOrder(c)
      PROVE  ~Oversold(i)'
  <2>1. UNCHANGED <<stockQty, basket, pc, claimed>>
    BY <1>3 DEF CancelOrder, CancelRead, CancelGiveBack, CancelWrite, CancelDies
  <2>2. \A o \in Order : Outstanding(o)' => Outstanding(o)
    <3>1. CASE CancelGiveBack(c)
      BY <3>1, SettleLetsGo DEF CancelGiveBack
    <3>2. CASE CancelWrite(c)
      BY <3>2 DEF CancelWrite, Outstanding, LifecycleInv, TypeOK, CancelInv
    <3>3. CASE CancelDies(c) \/ \E o \in Order : CancelRead(c, o)
      BY <3>3 DEF CancelDies, CancelRead, Outstanding
    <3> QED BY <1>3, <3>1, <3>2, <3>3 DEF CancelOrder
  <2>3. \A o \in Order : status'[o] = "NONE" => status[o] = "NONE"
    BY <1>3 DEF CancelOrder, CancelRead, CancelGiveBack, CancelWrite, CancelDies,
                LifecycleInv, TypeOK
  <2> QED BY <1>1, <2>1, <2>2, <2>3 DEF HalfPlaced
<1>4. ASSUME NEW o \in Order, MoveOrder(o)
      PROVE  ~Oversold(i)'
  <2>1. CASE Deliver(o)
    BY <2>1, DeliveryIsCovered
  <2>2. CASE DeadlinePasses(o) \/ Cook(o)
    <3>1. UNCHANGED <<stockQty, basket, pc, claimed>>
      BY <2>2 DEF DeadlinePasses, Cook
    <3>2. \A p \in Order : Outstanding(p)' => Outstanding(p)
      BY <2>2 DEF DeadlinePasses, Cook, MayMove, NextStatus, Outstanding, LifecycleInv, TypeOK
    <3>3. \A p \in Order : status'[p] = "NONE" => status[p] = "NONE"
      BY <2>2 DEF DeadlinePasses, Cook, LifecycleInv, TypeOK
    <3> QED BY <1>1, <3>1, <3>2, <3>3 DEF HalfPlaced
  <2> QED BY <1>4, <2>1, <2>2 DEF MoveOrder
<1>5. CASE Sweep
  <2>1. UNCHANGED <<stockQty, basket, pc, claimed, status>>
    BY <1>5 DEF Sweep, ReleaseExpiredReservations, ReconcileReservations
  <2>2. \A o \in Order : Outstanding(o)' => Outstanding(o)
    BY <1>5, <2>1, SettleLetsGo
    DEF Sweep, ReleaseExpiredReservations, ReconcileReservations, Outstanding
  <2> QED BY <1>1, <2>1, <2>2 DEF HalfPlaced
<1>6. CASE UNCHANGED vars
  BY <1>1, <1>6 DEF vars, Outstanding, HalfPlaced
<1> QED BY <1>2, <1>3, <1>4, <1>5, <1>6 DEF Next

\* No basket, retry or sweep promises a portion that is not there while the
\* counter has lost no promise: an item is oversold only by an admin who lowers
\* its stock, when an order whose reservation had lapsed is handed over after
\* all, or with a counter that PromisesAreRemembered says how it got behind.
THEOREM NothingIsPromisedTwice == Spec => NoOversell
<1>1. CountedInv /\ CountedInv' /\ [Next]_vars =>
          [\A i \in Item : Oversold(i)' /\ ~Oversold(i) =>
              \/ EditMenu
              \/ \E o \in Order : settled[o] /\ Deliver(o)
              \/ Uncounted(i) > 0]_vars
  BY StepIsCovered
<1> QED
  BY <1>1, Counted, PTL DEF Spec, NoOversell
=============================================================================
