\* A request beside the schedulers, in a zone west of UTC.
CONSTANTS
    Datacenters = {dc1}
    Requests = {r1}
    Zone = "west"
    MonthStart <- TwoDayMonthStart
    DaysInMonth <- TwoDays
    MaxDay = 3
    MaxVersion = 2
    MaxFailures = 1
    LastFaultyDay = 3
    MaxCrashes = 1
SPECIFICATION Spec
INVARIANTS TypeOK NoDayAhead
PROPERTIES FillCompletes FulfillCompletes
CHECK_DEADLOCK FALSE
