SPECIFICATION Spec
CONSTANTS
    root = root
    asha = asha
    new = new
    new2 = new2
    boss = boss
    low = low
    up = up
    roll2 = roll2
    address = address
    ravi = ravi
    own1 = own1
    a = a
    b = b
    c = c
    NoRow = NoRow
    Gone = Gone
    None = None
    Account = {root, asha, new, new2}
    Seeded <- OneStudent
    SeededTokens <- BothSessions
    Name = {boss, low, up, roll2, address}
    Username <- Lowered
    Legacy <- AtKlh
    Bodies <- Created
    Rosters = {{up, roll2}}
    CsvFiles <- Files
    Usernames = {up, roll2}
    Protected = {boss}
    Google = {ravi}
    EmailOf <- OneAddress
    Own = {own1}
    Appointed = {"ADMIN"}
    Caller = {a, b}
    LastSecond = 1
INVARIANT SharedIsTransitional
CHECK_DEADLOCK FALSE
