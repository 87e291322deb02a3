CONSTANTS
    x = x
    y = y
    z = z
    a = a
    b = b
    Parts = {"managers", "leaders", "schedules", "plans", "fan-out"}
    Managers <- Three
    Lists <- MCLists
    Clients <- MCClients
    MaxLink = 3
    MaxOrder = 1
    Clerks <- Two
    MaxSchedule = 3
    Planners <- Two
    Plans <- Three
    Nobody = nobody
    Readers <- Two
    ReviewRows <- Three
    FanRequests <- Two
SYMMETRY MCSymmetry
CHECK_DEADLOCK FALSE
SPECIFICATION DeskSpec
INVARIANTS
    OneLeader
    SyncShowsTheList
    OneDefaultShift
    OneShiftEach
    WrongOnlyIfOvertaken
PROPERTIES
    OthersKeepTheirOrder
