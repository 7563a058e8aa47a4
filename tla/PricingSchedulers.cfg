\* The schedulers alone, with failures and crashes.
CONSTANTS
    Datacenters = {dc1, dc2}
    Requests = {}
    Zone = "utc"
    MonthStart <- TwoDayMonthStart
    DaysInMonth <- TwoDays
    MaxDay = 3
    MaxVersion = 1
    MaxFailures = 1
    LastFaultyDay = 2
    MaxCrashes = 1
SPECIFICATION FairSpec
INVARIANT SchedulerInv
PROPERTIES BookSpec MonthlyPricesSettle DayEventuallyPriced
CHECK_DEADLOCK FALSE
