\* Every service of three workloads in three datacenters.
CONSTANTS
    Datacenters = {dc1, dc2, dc3}
    Resources = {"ram", "ssd"}
    Hardware <- SmallHardware
    Needs <- SmallNeeds
    DaysInMonth = 2
    MaxWorkloads = 3
SPECIFICATION Spec
INVARIANTS CostWithinPrice TotalIsWhatWorkloadsPay EvenBlendKeepsTotal
PROPERTY AddingCostsNoLess
CHECK_DEADLOCK FALSE
