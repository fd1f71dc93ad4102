SPECIFICATION Spec
CONSTANTS
    chai = chai
    thali = thali
    snacks = snacks
    meals = meals
    Cart = {r1, r2}
    Cancel = {}
    Item = {chai, thali}
    Kitchen = {snacks, meals}
    Slot = {lunch}
    NoSlot = NoSlot
    KitchenOf <- TwoKitchens
    Basket <- WindowBaskets
    MaxQty = 1
    OpeningStock <- TwoAndOne
    StockLevels = {1}
    SaleEdits = {}
    Capacity = 1
    PaymentsEnabled = FALSE
    LostReplies = FALSE
SYMMETRY CartSymmetry
INVARIANTS
    TypeOK
    NoPhantomReservation
    SeatsAccounted
    NoOverbooking
PROPERTIES
    NoOversell
    StockFollowsCollection
