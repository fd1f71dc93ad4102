SPECIFICATION Spec
CONSTANTS
    tea = tea
    order1 = order1
    asha = asha
    boss = boss
    q1 = q1
    q2 = q2
    None = None
    Caller = {q1, q2}
    Item = {tea}
    Order = {order1}
    KitchenOf <- SnacksKitchen
    ItemOf <- OneItem
    OwnerOf <- OneOwner
    Viewer = {asha, boss}
    RoleOf <- RoleOfViewers
    BoardOf <- Boards
    HashOf <- Hashes
    Crowds <- OneScreen
    MaxFrames = 1
    MaxVersion = 2
    MaxBreaks = 1
SYMMETRY SameRequests
INVARIANTS
    LiveTypeOK
    ShowsWhatWasAccepted
    FramesForViewer
CHECK_DEADLOCK FALSE
