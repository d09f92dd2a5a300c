SPECIFICATION MCSpec
CONSTANTS
    Menus = {m1, m2, m3}
    NoMenu = NoMenu
    Rows = {0, 1}
    NoRow = NoRow
    Error = Error
    z1 = z1
    h1 = h1
    d1 = d1
    file1 = file1
    file2 = file2
    link = link
    ZoneCalls <- MCZoneCalls
    TimeCalls <- MCTimeCalls
    Zones <- MCZones
    Region <- MCRegion
    Searches <- MCSearches
    ResultLimit = 3
    Hours = {0, 12, 23}
    MaxReads = 3
    Days = {d1}
    LocaleDay = LocaleDay
    Nothing = Nothing
    MaxSettings = 1
    Items <- MCItems
    MaxLaunches = 3
    MaxMoves = 1
    Screens = {1, 2}
    Scales = {1, 2}
    MaxIconChanges = 3
INVARIANTS
    MenusAnswered
    DialogsAnswered
    RowsGrouped
    WeekdayAnswered
    WeekdayCurrent
    OpensDelivered
    IconsCurrent
\* Every call may be answered, and the application may end.
CHECK_DEADLOCK FALSE
