--------------------------- MODULE CanteenOrders ---------------------------
(***************************************************************************)
(* Placing, cooking, collecting, cancelling and expiring orders, and the   *)
(* two counters that every one of those moves: the portions of a menu item *)
(* that are spoken for (MenuItem.reservedQty) and the seats taken in a     *)
(* collection window (CollectionWindow.bookedCount).                       *)
(*                                                                         *)
(* One step is one SQL statement, or one whole transaction where the code  *)
(* opens one; a worker may die between any two of them.  A cart is split   *)
(* into one order per kitchen, so an order is a pair <<cart, kitchen>>.    *)
(***************************************************************************)
EXTENDS Integers, FiniteSets

CONSTANTS
    Cart,                 \* calls of createOrder, each with one worker
    Cancel,               \* calls of cancelOrder
    Item,                 \* menu items
    Kitchen,              \* kitchens a cart may be split over
    Slot,                 \* collection slots that can be pre-booked
    NoSlot,               \* "as soon as possible"
    KitchenOf,            \* [Item -> Kitchen], through the item's category
    Basket,               \* the baskets customers put together
    MaxQty,               \* most portions of one item in a basket
    OpeningStock,         \* [Item -> Nat], stockQty at the start
    StockLevels,          \* the values an admin types into stockQty
    SaleEdits,            \* what an admin turns an item's sale to
    Capacity,             \* seats in a collection window
    PaymentsEnabled,      \* orders start out awaiting payment
    LostReplies           \* a statement may commit and its reply be lost

ASSUME CanteenAssumption ==
    /\ IsFiniteSet(Cart)
    /\ NoSlot \notin Slot
    /\ KitchenOf \in [Item -> Kitchen]
    /\ MaxQty \in Nat
    /\ Basket \subseteq [Item -> 0..MaxQty]
    /\ OpeningStock \in [Item -> Nat]
    /\ StockLevels \subseteq Nat
    /\ SaleEdits \subseteq BOOLEAN
    /\ Capacity \in Nat
    /\ PaymentsEnabled \in BOOLEAN
    /\ LostReplies \in BOOLEAN

Order == Cart \X Kitchen
Window == Slot \X Kitchen
NoOrder == <<>>

VARIABLES
    stockQty,     \* [Item -> Nat]: MenuItem.stockQty
    reservedQty,  \* [Item -> Nat]: MenuItem.reservedQty
    sellable,     \* [Item -> BOOLEAN]: isAvailable AND NOT isArchived
    bookedCount,  \* [Window -> Nat]: CollectionWindow.bookedCount
    pc,           \* [Cart -> Stage]: what the cart's worker does next
    basket,       \* [Cart -> Basket]
    slot,         \* [Cart -> Slot or NoSlot]
    claimed,      \* [Cart -> set of items whose claim landed]
    seated,       \* [Cart -> set of kitchens whose seat landed]
    seatsKnown,   \* [Cart -> set of kitchens]: the worker's seatedKitchens
    status,       \* [Order -> Status]: Order.status
    awaiting,     \* [Order -> BOOLEAN]: Order.awaitingPayment
    settled,      \* [Order -> BOOLEAN]: Order.stockSettledAt is set
    overdue,      \* [Order -> BOOLEAN]: reservationExpiresAt is in the past
    collected,    \* [Order -> BOOLEAN]: Order.deliveredAt is set
    cancelPc,     \* [Cancel -> stage of the cancelOrder call]
    cancelling    \* [Cancel -> the Order it was called for]

menuVars   == <<stockQty, reservedQty, sellable>>
cartVars   == <<pc, basket, slot, claimed, seated, seatsKnown>>
orderVars  == <<status, awaiting, settled, overdue, collected>>
cancelVars == <<cancelPc, cancelling>>
vars == <<menuVars, bookedCount, cartVars, orderVars, cancelVars>>

Stage == {"idle", "handBack", "seats", "insert", "undoStock", "undoSeats",
          "refused", "placed", "dead"}
Status == {"NONE", "PENDING", "PREPARING", "COOKED", "DELIVERED", "CANCELLED"}

Init ==
    /\ stockQty = OpeningStock
    /\ reservedQty = [i \in Item |-> 0]
    /\ sellable = [i \in Item |-> TRUE]
    /\ bookedCount = [w \in Window |-> 0]
    /\ pc = [r \in Cart |-> "idle"]
    /\ basket = [r \in Cart |-> [i \in Item |-> 0]]
    /\ slot = [r \in Cart |-> NoSlot]
    /\ claimed = [r \in Cart |-> {}]
    /\ seated = [r \in Cart |-> {}]
    /\ seatsKnown = [r \in Cart |-> {}]
    /\ status = [o \in Order |-> "NONE"]
    /\ awaiting = [o \in Order |-> FALSE]
    /\ settled = [o \in Order |-> FALSE]
    /\ overdue = [o \in Order |-> FALSE]
    /\ collected = [o \in Order |-> FALSE]
    /\ cancelPc = [c \in Cancel |-> "idle"]
    /\ cancelling = [c \in Cancel |-> NoOrder]
-----------------------------------------------------------------------------
(* Portions.  The n-th portion of an item that a cart asked for is the pair *)
(* <<cart, n>>, so a SUM of quantities is the size of a set of portions.    *)

Floor0(n) == IF n < 0 THEN 0 ELSE n

Lines(b) == {i \in Item : b[i] > 0}
Kitchens(b) == {KitchenOf[i] : i \in Lines(b)}

\* The carts' orders that carry item i: each item has one kitchen.
OrderWith(r, i) == <<r, KitchenOf[i]>>
Qty(o, i) == IF KitchenOf[i] = o[2] THEN basket[o[1]][i] ELSE 0

Outstanding(o) == status[o] # "NONE" /\ ~settled[o]

PortionsOf(b, i, carts) ==
    {p \in Cart \X (1..MaxQty) : p[2] <= b[p[1]][i] /\ p[1] \in carts}
Portions(i, carts) == PortionsOf(basket, i, carts)

\* The ledger: items of every order that reserved stock and has not settled.
Ledger(i) == Portions(i, {r \in Cart : Outstanding(OrderWith(r, i))})

Release(orders, i) ==
    Portions(i, {r \in Cart : OrderWith(r, i) \in orders})
-----------------------------------------------------------------------------
(* createOrder: claim, seat, insert; compensate when a later step fails.    *)

\* Mutant: portions that are already spoken for are offered again.
ClaimableWhileOnShelf(i, b) == sellable[i] /\ stockQty[i] >= b[i]

Claimable(i, b) == sellable[i] /\ stockQty[i] - reservedQty[i] >= b[i]

\* Statement 1: every line that still has enough portions is claimed.
ClaimStock(r, b, s) ==
    LET got == {i \in Lines(b) : Claimable(i, b)} IN
    /\ pc[r] = "idle"
    /\ Lines(b) # {}
    /\ reservedQty' = [i \in Item |->
           reservedQty[i] + (IF i \in got THEN b[i] ELSE 0)]
    /\ basket' = [basket EXCEPT ![r] = b]
    /\ slot' = [slot EXCEPT ![r] = s]
    /\ claimed' = [claimed EXCEPT ![r] = got]
    /\ pc' = [pc EXCEPT ![r] = IF got # Lines(b) THEN "handBack"
                               ELSE IF s = NoSlot THEN "insert" ELSE "seats"]
    /\ UNCHANGED <<stockQty, sellable, bookedCount, seated, seatsKnown,
                   orderVars, cancelVars>>

\* releaseStock(claims) of a worker, floored at zero.
ReleaseStock(r, items) ==
    /\ reservedQty' = [i \in Item |-> IF i \in items
                          THEN Floor0(reservedQty[i] - basket[r][i])
                          ELSE reservedQty[i]]
    /\ claimed' = [claimed EXCEPT ![r] = {}]

HandBackPartialClaim(r) ==
    /\ pc[r] = "handBack"
    /\ ReleaseStock(r, claimed[r])
    /\ pc' = [pc EXCEPT ![r] = "refused"]
    /\ UNCHANGED <<stockQty, sellable, bookedCount, basket, slot, seated,
                   seatsKnown, orderVars, cancelVars>>

\* Mutant: the cart goes on with the seats it got, one kitchen being full.
ClaimSomeWindowSeats(r, replied) ==
    LET got == {k \in Kitchens(basket[r]) : bookedCount[<<slot[r], k>>] < Capacity}
    IN
    /\ pc[r] = "seats"
    /\ bookedCount' = [w \in Window |->
           bookedCount[w] + (IF w[1] = slot[r] /\ w[2] \in got THEN 1 ELSE 0)]
    /\ seated' = [seated EXCEPT ![r] = got]
    /\ seatsKnown' = [seatsKnown EXCEPT ![r] = IF replied THEN got ELSE {}]
    /\ pc' = [pc EXCEPT ![r] = IF replied THEN "insert" ELSE "undoStock"]
    /\ UNCHANGED <<menuVars, basket, slot, claimed, orderVars, cancelVars>>

\* Statement 1b: one seat per kitchen, where the window is not full yet.
\* The reply may be lost, and the worker then knows of no seat.
ClaimWindowSeats(r, replied) ==
    LET ks == Kitchens(basket[r])
        got == {k \in ks : bookedCount[<<slot[r], k>>] < Capacity}
    IN
    /\ pc[r] = "seats"
    /\ bookedCount' = [w \in Window |->
           bookedCount[w] + (IF w[1] = slot[r] /\ w[2] \in got THEN 1 ELSE 0)]
    /\ seated' = [seated EXCEPT ![r] = got]
    /\ seatsKnown' = [seatsKnown EXCEPT ![r] = IF replied THEN got ELSE {}]
    /\ pc' = [pc EXCEPT ![r] = IF replied /\ got = ks THEN "insert"
                                                      ELSE "undoStock"]
    /\ UNCHANGED <<menuVars, basket, slot, claimed, orderVars, cancelVars>>

\* Statement 2: the orders and their items, all in one INSERT.  A worker
\* that is not told so believes that nothing was written.
InsertOrders(r, replied) ==
    LET new == {<<r, k>> : k \in Kitchens(basket[r])} IN
    /\ pc[r] = "insert"
    /\ status' = [o \in Order |-> IF o \in new THEN "PENDING" ELSE status[o]]
    /\ awaiting' = [o \in Order |->
           IF o \in new THEN PaymentsEnabled ELSE awaiting[o]]
    /\ claimed' = [claimed EXCEPT ![r] = IF replied THEN {} ELSE @]
    /\ pc' = [pc EXCEPT ![r] = IF replied THEN "placed" ELSE "undoStock"]
    /\ UNCHANGED <<menuVars, bookedCount, basket, slot, seated, seatsKnown,
                   settled, overdue, collected, cancelVars>>

\* The seats or the orders could not be written (error, or order numbers
\* collided MAX_ORDER_NUMBER_ATTEMPTS times).
StatementFails(r) ==
    /\ pc[r] \in {"seats", "insert"}
    /\ pc' = [pc EXCEPT ![r] = "undoStock"]
    /\ UNCHANGED <<menuVars, bookedCount, basket, slot, claimed, seated,
                   seatsKnown, orderVars, cancelVars>>

AfterUndoStock(r) == IF seatsKnown[r] # {} THEN "undoSeats" ELSE "refused"

UndoStock(r) ==
    /\ pc[r] = "undoStock"
    /\ ReleaseStock(r, Lines(basket[r]))
    /\ pc' = [pc EXCEPT ![r] = AfterUndoStock(r)]
    /\ UNCHANGED <<stockQty, sellable, bookedCount, basket, slot, seated,
                   seatsKnown, orderVars, cancelVars>>

\* Mutant: a seat is given back in every kitchen of the cart, also in the full
\* one that never seated it.
UndoEverySeat(r) ==
    /\ pc[r] = "undoSeats"
    /\ bookedCount' = [w \in Window |->
           IF w[1] = slot[r] /\ w[2] \in Kitchens(basket[r])
           THEN Floor0(bookedCount[w] - 1) ELSE bookedCount[w]]
    /\ seated' = [seated EXCEPT ![r] = {}]
    /\ pc' = [pc EXCEPT ![r] = "refused"]
    /\ UNCHANGED <<menuVars, basket, slot, claimed, seatsKnown, orderVars,
                   cancelVars>>

UndoSeats(r) ==
    /\ pc[r] = "undoSeats"
    /\ bookedCount' = [w \in Window |->
           IF w[1] = slot[r] /\ w[2] \in seatsKnown[r]
           THEN Floor0(bookedCount[w] - 1) ELSE bookedCount[w]]
    /\ seated' = [seated EXCEPT ![r] = {}]
    /\ pc' = [pc EXCEPT ![r] = "refused"]
    /\ UNCHANGED <<menuVars, basket, slot, claimed, seatsKnown, orderVars,
                   cancelVars>>

\* A give-back that fails is logged and the next one still runs.
UndoFails(r) ==
    /\ pc[r] \in {"undoStock", "undoSeats"}
    /\ pc' = [pc EXCEPT ![r] = IF @ = "undoStock" THEN AfterUndoStock(r)
                                                  ELSE "refused"]
    /\ UNCHANGED <<menuVars, bookedCount, basket, slot, claimed, seated,
                   seatsKnown, orderVars, cancelVars>>

\* The worker is killed between two statements, or the reply of the claim or
\* of the partial give-back never arrives and nothing catches the error.
WorkerDies(r) ==
    /\ pc[r] \in {"handBack", "seats", "insert", "undoStock", "undoSeats"}
    /\ pc' = [pc EXCEPT ![r] = "dead"]
    /\ UNCHANGED <<menuVars, bookedCount, basket, slot, claimed, seated,
                   seatsKnown, orderVars, cancelVars>>
-----------------------------------------------------------------------------
(* Giving reservations back.                                                *)

\* Mutant: a second settlement of the same order hands its portions back again.
SettleAgain(orders) ==
    LET written == {o \in orders : status[o] # "NONE"} IN
    /\ settled' = [o \in Order |-> settled[o] \/ o \in written]
    /\ reservedQty' = [i \in Item |->
           Floor0(reservedQty[i] - Cardinality(Release(written, i)))]

\* Mutant: orders are stamped first, and those still unstamped are released.
SettleStampFirst(orders) ==
    /\ settled' = [o \in Order |->
           settled[o] \/ (o \in orders /\ Outstanding(o))]
    /\ UNCHANGED reservedQty

\* settled / give_back / moved in one statement: stamp the orders that still
\* hold portions, and hand back exactly what those held.
Settle(orders) ==
    LET still == {o \in orders : Outstanding(o)} IN
    /\ settled' = [o \in Order |-> settled[o] \/ o \in still]
    /\ reservedQty' = [i \in Item |->
           Floor0(reservedQty[i] - Cardinality(Release(still, i)))]

DeadlinePasses(o) ==
    /\ status[o] # "NONE"
    /\ ~overdue[o]
    /\ overdue' = [overdue EXCEPT ![o] = TRUE]
    /\ UNCHANGED <<menuVars, bookedCount, cartVars, status, awaiting, settled,
                   collected, cancelVars>>

\* Mutant: only orders the kitchen has not started on expire.
ReleaseExpiredPending ==
    /\ \E o \in Order : overdue[o] /\ status[o] = "PENDING" /\ Outstanding(o)
    /\ Settle({o \in Order : overdue[o] /\ status[o] = "PENDING"})
    /\ UNCHANGED <<stockQty, sellable, bookedCount, cartVars, status, awaiting,
                   overdue, collected, cancelVars>>

\* Mutant: an order that still awaits its payment does not expire.
ReleaseExpiredPaid ==
    /\ \E o \in Order : overdue[o] /\ ~awaiting[o] /\ Outstanding(o)
    /\ Settle({o \in Order : overdue[o] /\ ~awaiting[o]})
    /\ UNCHANGED <<stockQty, sellable, bookedCount, cartVars, status, awaiting,
                   overdue, collected, cancelVars>>

ReleaseExpiredReservations ==
    /\ \E o \in Order : overdue[o] /\ status[o] # "DELIVERED" /\ Outstanding(o)
    /\ Settle({o \in Order : overdue[o] /\ status[o] # "DELIVERED"})
    /\ UNCHANGED <<stockQty, sellable, bookedCount, cartVars, status, awaiting,
                   overdue, collected, cancelVars>>

\* A cart is half placed from its claim to its insert or its give-back.
HalfPlaced(r) == pc[r] \in {"handBack", "seats", "insert", "undoStock"}

\* Mutant: an inner join, so an item nobody holds keeps its stale counter.
ReconcileHeldItems ==
    /\ reservedQty' = [i \in Item |-> IF Ledger(i) = {} THEN reservedQty[i]
                                      ELSE Cardinality(Ledger(i))]
    /\ UNCHANGED <<stockQty, sellable, bookedCount, cartVars, orderVars,
                   cancelVars>>

\* Rebuild every counter from the ledger, whatever carts are half placed: their
\* portions are in no order yet.
ReconcileReservations ==
    /\ reservedQty' = [i \in Item |-> Cardinality(Ledger(i))]
    /\ UNCHANGED <<stockQty, sellable, bookedCount, cartVars, orderVars,
                   cancelVars>>
-----------------------------------------------------------------------------
(* The kitchen's board: updateOrderStatus, one transaction under a row lock. *)

\* Mutant: a second tap on "delivered" is let through.
NextStatusRepeats == [PENDING |-> "COOKED", PREPARING |-> "COOKED",
                      COOKED |-> "DELIVERED", DELIVERED |-> "DELIVERED"]

NextStatus == [PENDING |-> "COOKED", PREPARING |-> "COOKED",
               COOKED |-> "DELIVERED"]

MayMove(o, target) ==
    /\ ~awaiting[o]
    /\ status[o] \in DOMAIN NextStatus
    /\ NextStatus[status[o]] = target

Cook(o) ==
    /\ MayMove(o, "COOKED")
    /\ status' = [status EXCEPT ![o] = "COOKED"]
    /\ UNCHANGED <<menuVars, bookedCount, cartVars, awaiting, settled, overdue,
                   collected, cancelVars>>

\* Mutant: the delivery does not look whether the shelf holds the portions.
DeliverUnchecked(o) ==
    /\ MayMove(o, "DELIVERED")
    /\ stockQty' = [i \in Item |-> stockQty[i] - Qty(o, i)]
    /\ Settle({o})
    /\ status' = [status EXCEPT ![o] = "DELIVERED"]
    /\ collected' = [collected EXCEPT ![o] = TRUE]
    /\ UNCHANGED <<sellable, bookedCount, cartVars, awaiting, overdue,
                   cancelVars>>

\* Any short line rolls the whole delivery back.
Deliver(o) ==
    /\ MayMove(o, "DELIVERED")
    /\ \A i \in Item : stockQty[i] >= Qty(o, i)
    /\ stockQty' = [i \in Item |-> stockQty[i] - Qty(o, i)]
    /\ Settle({o})
    /\ status' = [status EXCEPT ![o] = "DELIVERED"]
    /\ collected' = [collected EXCEPT ![o] = TRUE]
    /\ UNCHANGED <<sellable, bookedCount, cartVars, awaiting, overdue,
                   cancelVars>>
-----------------------------------------------------------------------------
(* cancelOrder: an unlocked read, then the give-back, then the status.      *)

\* Mutant: the give-back is left out.
CancelReadThenWrite(c, o) ==
    /\ cancelPc[c] = "idle"
    /\ status[o] \notin {"NONE", "DELIVERED", "CANCELLED"}
    /\ cancelPc' = [cancelPc EXCEPT ![c] = "write"]
    /\ cancelling' = [cancelling EXCEPT ![c] = o]
    /\ UNCHANGED <<menuVars, bookedCount, cartVars, orderVars>>

CancelRead(c, o) ==
    /\ cancelPc[c] = "idle"
    /\ status[o] \notin {"NONE", "DELIVERED", "CANCELLED"}
    /\ cancelPc' = [cancelPc EXCEPT ![c] = "giveBack"]
    /\ cancelling' = [cancelling EXCEPT ![c] = o]
    /\ UNCHANGED <<menuVars, bookedCount, cartVars, orderVars>>

CancelGiveBack(c) ==
    /\ cancelPc[c] = "giveBack"
    /\ Settle({cancelling[c]})
    /\ cancelPc' = [cancelPc EXCEPT ![c] = "write"]
    /\ UNCHANGED <<stockQty, sellable, bookedCount, cartVars, status, awaiting,
                   overdue, collected, cancelling>>

CancelWrite(c) ==
    /\ cancelPc[c] = "write"
    /\ status' = [status EXCEPT ![cancelling[c]] = "CANCELLED"]
    /\ cancelPc' = [cancelPc EXCEPT ![c] = "done"]
    /\ UNCHANGED <<menuVars, bookedCount, cartVars, awaiting, settled, overdue,
                   collected, cancelling>>

CancelDies(c) ==
    /\ cancelPc[c] \in {"giveBack", "write"}
    /\ cancelPc' = [cancelPc EXCEPT ![c] = "done"]
    /\ UNCHANGED <<menuVars, bookedCount, cartVars, orderVars, cancelling>>
-----------------------------------------------------------------------------
(* The admin's menu: one PATCH of an item, or of a whole category, writes   *)
(* the fields its body gives; an archived item is one taken off sale.       *)

\* An optional field of a body is <<>> or <<value>>.
Optional(S) == {<<>>} \cup {<<x>> : x \in S}
Given(field, old) == IF field = <<>> THEN old ELSE field[1]

UpdateMenuItems(items, stock, onSale) ==
    /\ stockQty' = [i \in Item |-> IF i \in items
           THEN Given(stock, stockQty[i]) ELSE stockQty[i]]
    /\ sellable' = [i \in Item |-> IF i \in items
           THEN Given(onSale, sellable[i]) ELSE sellable[i]]
    /\ UNCHANGED <<reservedQty, bookedCount, cartVars, orderVars, cancelVars>>
-----------------------------------------------------------------------------
Worker(r) ==
    \/ HandBackPartialClaim(r)
    \/ \E replied \in {TRUE} \cup {~LostReplies} :
           ClaimWindowSeats(r, replied) \/ InsertOrders(r, replied)
    \/ StatementFails(r)
    \/ UndoStock(r)
    \/ UndoSeats(r)
    \/ UndoFails(r)
    \/ WorkerDies(r)

PlaceOrder(r) ==
    \/ \E b \in Basket, s \in Slot \cup {NoSlot} : ClaimStock(r, b, s)
    \/ Worker(r)

CancelOrder(c) ==
    \/ \E o \in Order : CancelRead(c, o)
    \/ CancelGiveBack(c)
    \/ CancelWrite(c)
    \/ CancelDies(c)

MoveOrder(o) == DeadlinePasses(o) \/ Cook(o) \/ Deliver(o)

Sweep == ReleaseExpiredReservations \/ ReconcileReservations

EditMenu ==
    \E items \in SUBSET Item \ {{}},
       stock \in Optional(StockLevels), onSale \in Optional(SaleEdits) :
           UpdateMenuItems(items, stock, onSale)

Next ==
    \/ \E r \in Cart : PlaceOrder(r)
    \/ \E c \in Cancel : CancelOrder(c)
    \/ \E o \in Order : MoveOrder(o)
    \/ Sweep
    \/ EditMenu

Spec == Init /\ [][Next]_vars

\* A worker always reaches its end or is killed, and the read paths that
\* carry the sweeps are polled for as long as anybody looks at an order.
Fairness ==
    /\ \A r \in Cart : WF_vars(Worker(r))
    /\ WF_vars(ReleaseExpiredReservations)
    /\ WF_vars(ReconcileReservations)

FairSpec == Spec /\ Fairness
-----------------------------------------------------------------------------
(* Properties.                                                              *)

\* Every variable keeps the range its column or local variable has.
TypeOK ==
    /\ stockQty \in [Item -> Nat]
    /\ reservedQty \in [Item -> Nat]
    /\ sellable \in [Item -> BOOLEAN]
    /\ bookedCount \in [Window -> Nat]
    /\ pc \in [Cart -> Stage]
    /\ basket \in [Cart -> [Item -> 0..MaxQty]]
    /\ slot \in [Cart -> Slot \cup {NoSlot}]
    /\ claimed \in [Cart -> SUBSET Item]
    /\ seated \in [Cart -> SUBSET Kitchen]
    /\ seatsKnown \in [Cart -> SUBSET Kitchen]
    /\ status \in [Order -> Status]
    /\ awaiting \in [Order -> BOOLEAN]
    /\ settled \in [Order -> BOOLEAN]
    /\ overdue \in [Order -> BOOLEAN]
    /\ collected \in [Order -> BOOLEAN]
    /\ cancelPc \in [Cancel -> {"idle", "giveBack", "write", "done"}]
    /\ cancelling \in [Cancel -> Order \cup {NoOrder}]

\* Portions somebody is still entitled to: an unsettled order's, or those a
\* living worker has claimed and not yet turned into an order.
Holds(r, i) ==
    \/ Outstanding(OrderWith(r, i))
    \/ /\ HalfPlaced(r)
       /\ i \in claimed[r]
       /\ status[OrderWith(r, i)] = "NONE"
Held(i) == Portions(i, {r \in Cart : Holds(r, i)})

\* Portions reservedQty may stand for: an unsettled order's, or those of a
\* claim that was never given back -- its worker may be alive or gone.
Accounted(i) == Portions(i,
    {r \in Cart : Outstanding(OrderWith(r, i)) \/ i \in claimed[r]})

\* Portions that are promised and missing from reservedQty, which is what the
\* next basket is weighed against.
Uncounted(i) == Floor0(Cardinality(Held(i)) - reservedQty[i])

\* A promise drops out of reservedQty in two ways only: a rebuild meets a cart
\* between its claim and its INSERT, and a worker that was not told of its
\* INSERT gives back what its orders hold.  Deliveries, cancellations, expiry,
\* released payments and compensations take out what they put in, once.
NoPromiseForgotten ==
    [][\A i \in Item : Uncounted(i)' > Uncounted(i) =>
           \/ /\ ReconcileReservations
              /\ \E r \in Cart : HalfPlaced(r) /\ i \in claimed[r]
           \/ \E r \in Cart :
                  UndoStock(r) /\ status[OrderWith(r, i)] # "NONE"]_vars

\* reservedQty can diverge from the ledger "only one way", upwards, when a
\* worker is killed between its claim and its INSERT (orderService.ts:288).
LedgerIsCounted ==
    \A i \in Item : Cardinality(Ledger(i)) <= reservedQty[i]

\* Every unit of reservedQty is held by an order, by a living worker, or was
\* stranded by one that died: no sequence of give-backs, expiries, deliveries
\* and cancellations forgets to hand a portion back.
NoPhantomReservation ==
    \A i \in Item : reservedQty[i] <= Cardinality(Accounted(i))

Oversold(i) == Cardinality(Held(i)) > stockQty[i]

\* Baskets never promise more portions than there are (claimStock's WHERE):
\* an item becomes oversold only when an admin lowers its stock, when an order
\* whose reservation had already lapsed is handed over after all, or when the
\* counter has lost promises (NoPromiseForgotten says how).
NoOversell ==
    [][\A i \in Item : Oversold(i)' /\ ~Oversold(i) =>
           \/ EditMenu
           \/ \E o \in Order : settled[o] /\ Deliver(o)
           \/ Uncounted(i) > 0]_vars

\* An order that is over holds nothing: whoever cancelled or delivered it,
\* and whatever the expiry sweep did meanwhile, its reservation was settled.
OverHoldsNothing ==
    \A o \in Order :
        status[o] \in {"DELIVERED", "CANCELLED"} => settled[o]

Collected(i) == Portions(i, {r \in Cart : collected[OrderWith(r, i)]})

\* Stock leaves the shelf exactly once for every portion handed over, and for
\* no other reason than an admin's edit.
StockFollowsCollection ==
    [][\A i \in Item :
           \/ stockQty[i] - stockQty'[i]
                = Cardinality(Collected(i)') - Cardinality(Collected(i))
           \/ EditMenu]_vars

Seats(w) == {r \in Cart : slot[r] = w[1] /\ w[2] \in seated[r]}
Booked(w) == {r \in Cart : /\ slot[r] = w[1]
                          /\ status[<<r, w[2]>>] # "NONE"
                          /\ pc[r] # "refused"}

\* bookedCount counts the seats taken and not handed back, for every window.
SeatsAccounted == \A w \in Window : bookedCount[w] = Cardinality(Seats(w))

\* No window has more orders than it has seats (claimWindowSeats), except for
\* orders of a customer who was told that there are none: a worker that is not
\* told of its INSERT gives their seats back.
NoOverbooking == \A w \in Window : Cardinality(Booked(w)) <= Capacity

\* The ledger repairs the counter: once the customers stop, reservedQty and
\* the ledger agree for good, whatever died and whatever overlapped before.
CounterConverges ==
    <>[](\A i \in Item : reservedQty[i] = Cardinality(Ledger(i)))

\* A reservation nobody collects is eventually given back (RESERVATION_TTL).
OverdueIsReleased == \A o \in Order : overdue[o] ~> settled[o]

\* cancelOrder refuses a delivered order (ALREADY_DELIVERED).
DeliveredIsFinal ==
    [][\A o \in Order : status[o] = "DELIVERED" => status'[o] = "DELIVERED"]_vars
=============================================================================
