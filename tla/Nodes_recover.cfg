SPECIFICATION FairSpec
CONSTANTS
    u1 = u1
    n1 = n1
    n2 = n2
    a1 = a1
    a2 = a2
    Users = {u1}
    Nodes = {n1, n2}
    Enrolled = {u1}
    Handlers <- MCHandlers
    Ops <- AllOps
    Named = {{}, {n1}}
    Configs <- Switched
    Overlap = TRUE
    Outages = TRUE
    MaxReqs = 2
    MaxEvents = 2
INVARIANT NodesInv
PROPERTY EndpointsServed
