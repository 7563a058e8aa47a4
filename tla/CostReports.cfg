\* One service, whose workload comes and goes, in one datacenter east of Greenwich; a
\* request beside main and the scheduler; one failure and one crash.
CONSTANTS
    Services = {s1}
    Workloads = {w1}
    Owner <- OneOwner
    Datacenters = {dc1}
    Nowhere = nowhere
    Requests = {r1}
    UtcLeads <- EastOfGreenwich
    MaxDay = 2
    MaxPrice = 1
    MaxEdits = 3
    MaxFailures = 1
    MaxCrashes = 1
SPECIFICATION Spec
INVARIANTS TypeOK BreakdownHasReport
PROPERTIES DoneDayAgrees FulfillKeepsReports DayReportedByMidnight FulfillReportsAll
CHECK_DEADLOCK FALSE
