SPECIFICATION FairSpec
CONSTANTS
    u1 = u1
    n1 = n1
    n2 = n2
    a1 = a1
    a2 = a2
    Users = {u1}
    Nodes = {n1, n2}
    Enrolled = {}
    Handlers = {a1}
    Ops = {"createUser", "disableUser"}
    Named = {{}}
    Configs <- Both
    Overlap = FALSE
    Outages = TRUE
    MaxReqs = 2
    MaxEvents = 1
PROPERTY RemovalReconciled
