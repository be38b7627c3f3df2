SPECIFICATION FairSpec
CONSTANTS
    u1 = u1
    n1 = n1
    n2 = n2
    a1 = a1
    a2 = a2
    Users = {u1}
    Nodes = {n1, n2}
    Enrolled = {u1}
    Handlers = {a1}
    Ops = {}
    Named = {{}}
    Configs <- Added
    Overlap = FALSE
    Outages = FALSE
    MaxReqs = 0
    MaxEvents = 1
PROPERTY NewNodeBackfilled
