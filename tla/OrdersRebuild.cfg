SPECIFICATION Spec
CONSTANTS
    chai = chai
    thali = thali
    snacks = snacks
    meals = meals
    Cart = {r1, r2}
    Cancel = {}
    Item = {chai, thali}
    Kitchen = {snacks}
    Slot = {}
    NoSlot = NoSlot
    KitchenOf <- OneKitchen
    Basket <- StockBaskets
    MaxQty = 2
    OpeningStock <- TwoAndOne
    StockLevels = {}
    SaleEdits = {}
    Capacity = 1
    PaymentsEnabled = FALSE
    LostReplies = FALSE
SYMMETRY CartSymmetry
INVARIANTS
    LedgerIsCounted
