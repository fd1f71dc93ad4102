SPECIFICATION FairSpec
CONSTANTS
    klhSnacks = klhSnacks
    drkSnacks = drkSnacks
    klhAdmin = klhAdmin
    drkAdmin = drkAdmin
    snacks = snacks
    lunch = lunch
    tea = tea
    cake = cake
    asha = asha
    ravi = ravi
    chatA = chatA
    chatB = chatB
    photo = photo
    photo2 = photo2
    a = a
    b = b
    c1 = c1
    None = None
    Category = {snacks, lunch}
    Item = {tea, cake}
    Board = {klhSnacks, drkSnacks}
    SchoolOf <- Boards
    Admin = {klhAdmin, drkAdmin}
    Covers <- OwnBoards
    Home <- HomeBoard
    Picture = {photo, photo2}
    FirstTables <- Seeds
    Student = {asha, ravi}
    Chat = {chatA, chatB}
    Caller = {a, b, c1}
    ToMenu = {a, b}
    ToNotices = {b, c1}
INVARIANTS
    MenuTypeOK
    HashMatchesBytes
    OneStudentPerChat
PROPERTIES
    ArchiveLeavesNothingBehind
    NobodyBehindIsDropped
    RoundsDischarge
CHECK_DEADLOCK FALSE
