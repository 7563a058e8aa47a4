\* A workload that moves between two datacenters; the property is what a comment of the code says.
CONSTANTS
    Services = {s1}
    Workloads = {w1}
    Owner <- OneOwner
    Datacenters = {dc1, dc2}
    Nowhere = nowhere
    Requests = {r1}
    UtcLeads <- Greenwich
    MaxDay = 1
    MaxPrice = 1
    MaxEdits = 3
    MaxFailures = 0
    MaxCrashes = 0
SPECIFICATION Spec
PROPERTY CalculateOverwrites
CHECK_DEADLOCK FALSE
