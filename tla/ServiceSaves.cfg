\* Two administrators; a service with a pod and a VM.
CONSTANTS
    d1 = d1
    d2 = d2
    n1 = n1
    Admins = {a1, a2}
    Names = {svc}
    Datacenters = {d1, d2}
    Nodes = {n1}
    DatacenterOf <- InFirst
    NoDatacenter = none
    Forms <- PodAndVM
    MaxServices = 1
    MaxRows = 4
    MaxFailures = 1
SYMMETRY Symmetric
SPECIFICATION Spec
INVARIANTS TypeOK SaveReplacesWhatItRead OneOfTwoReaders
