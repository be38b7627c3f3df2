SPECIFICATION Spec
CONSTANTS
    u1 = u1
    u2 = u2
    in1 = in1
    in2 = in2
    a1 = a1
    a2 = a2
    s1 = s1
    s2 = s2
    Users = {u1, u2}
    Inbounds = {in1, in2}
    Handlers = {a1}
    Syncs = {s1}
    Modes = {TRUE, FALSE}
    Ops <- WithoutDelete
    Edited = {}
    Overlap = FALSE
    Faults = FALSE
    MaxReqs = 6
    MaxEvents = 0
INVARIANTS RestAgreement FileAgreement
