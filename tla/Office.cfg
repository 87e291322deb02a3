CONSTANTS
    x = x
    y = y
    p = p
    q = q
    ra = ra
    rb = rb
    home = home
    Parts = {"attendance", "payroll", "chat", "trips", "staff"}
    MaxDay = 3
    WorkDays <- MCWorkDays
    MaxEvents = 1
    SyncWorkers <- Two
    MaxRetries = 1
    MaxTasks = 3
    LastDay = 2
    MidDay = 1
    Stored <- MCStored
    PeriodIds <- Two
    Generators <- Two
    Senders <- Two
    MaxGenerations = 3
    ChatUsers <- Two
    MaxMessage = 2
    MaxLoaded = 2
    Regions <- MCRegions
    HomeRegion = home
    Routes <- MCRoutes
    TripRequests <- MCRequests
    MaxStop = 3
    Employees <- Two
    Phones <- PandQ
    MaxAccount = 3
    MaxNews = 4
SYMMETRY MCSymmetry
CONSTRAINT MCNotOvertaken
CHECK_DEADLOCK FALSE
SPECIFICATION OfficeSpec
INVARIANTS
    ReconciledDayComplete
    ApprovedIsClosed
    NoGapBelowRead
    LastMessageIsNewest
    DepartureStands
    OnePlaceAtATime
    OneOpenStop
    OneActiveAccount
PROPERTIES
    CursorPassesStoredDays
    LockedHoursStand
    ReadStaysRead
    RefusedRowsAreClashes
    LeaversAreDisabled
