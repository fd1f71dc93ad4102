SPECIFICATION FairSpec
CONSTANTS
    stock1 = stock1
    stock2 = stock2
    placed = placed
    everyone = everyone
    board = board
    student = student
    Change = {stock1, stock2, placed}
    Audience = {everyone, board}
    AudienceOf <- MenuAndBoard
    Client = {student}
    Watches <- OneStudent
    Sse = {student}
    MaxFrames = 2
    MaxQueued = 2
    MaxBreaks = 1
INVARIANTS
    TypeOK
    FramesInOrder
PROPERTIES
    ImplementsFeed
    QueueDrains
    ClientsLearn
CHECK_DEADLOCK FALSE
