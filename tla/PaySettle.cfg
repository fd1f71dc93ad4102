SPECIFICATION PayFairSpec
CONSTANTS
    chai = chai
    snacks = snacks
    Cart = {r1}
    Cancel = {c1}
    Item = {chai}
    Kitchen = {snacks}
    Slot = {}
    NoSlot = NoSlot
    KitchenOf <- OneItem
    Basket <- ChaiBaskets
    MaxQty = 1
    OpeningStock <- OneChai
    StockLevels = {}
    SaleEdits = {FALSE}
    Capacity = 1
    PaymentsEnabled = TRUE
    LostReplies = FALSE
    Payment = {p1, p2}
    NoPayment = NoPayment
    Poller = {v1}
INVARIANTS
    PayTypeOK
    ConfirmedIsPaid
    PaidIsVisible
    OverHoldsNothing
PROPERTIES
    NoPromiseForgotten
    SettlementFinal
    UnpaidIsReleased
