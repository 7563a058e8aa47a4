\* What the browser keeps of a pod is not what a form needs.
CONSTANTS
    d1 = d1
    d2 = d2
    n1 = n1
    Admins = {a1, a2}
    Names = {svc}
    Datacenters = {d1, d2}
    Nodes = {n1}
    DatacenterOf <- InFirst
    NoDatacenter = none
    Forms <- PodOrVM
    MaxServices = 1
    MaxRows = 4
    MaxFailures = 0
SYMMETRY Symmetric
SPECIFICATION Spec
INVARIANT PodHostIsNode
