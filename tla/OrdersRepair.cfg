SPECIFICATION FairSpec
CONSTANTS
    chai = chai
    thali = thali
    snacks = snacks
    meals = meals
    Cart = {r1, r2}
    Cancel = {c1}
    Item = {chai, thali}
    Kitchen = {snacks}
    Slot = {}
    NoSlot = NoSlot
    KitchenOf <- OneKitchen
    Basket <- RepairBaskets
    MaxQty = 1
    OpeningStock <- TwoAndOne
    StockLevels = {}
    SaleEdits = {}
    Capacity = 1
    PaymentsEnabled = FALSE
    LostReplies = TRUE
PROPERTIES
    NoPromiseForgotten
    CounterConverges
    OverdueIsReleased
