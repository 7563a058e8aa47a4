\* Two datacenters in two regions, two servers that compete for a hostname, a
\* piece of hardware and a workload.
CONSTANTS
    Datacenters = {d1, d2}
    Servers = {s1, s2}
    Hardware = {h1}
    Workloads = {w1}
    Names = {north, south}
    Regions = {eu, us}
    Hostnames = {host}
    NoFilter = none
    Absent = absent
SYMMETRY Symmetric
SPECIFICATION Spec
INVARIANTS TypeOK PlacesExist UntouchedCountedOnce
