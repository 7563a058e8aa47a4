\* One tab with two functions under way.
CONSTANTS
    d1 = d1
    h1 = h1
    u1 = u1
    r1 = r1
    v1 = v1
    Kinds = {"datacenter", "server", "hardware", "user", "report"}
    Ids = {d1, h1, u1, r1}
    Home <- Homes
    Hosted <- SwitchOfDatacenter
    Values = {v1, v2}
    FirstRows <- AllThere
    Phantom = phantom
    None = none
    Slots = {a, b}
    MaxEvents = 3
SPECIFICATION FairSpec
INVARIANTS TypeOK PageIsServer NothingIsLeftBehind
PROPERTIES PageSettles
CHECK_DEADLOCK FALSE
