SPECIFICATION Spec
CONSTANTS
    u1 = u1
    u2 = u2
    in1 = in1
    in2 = in2
    a1 = a1
    a2 = a2
    s1 = s1
    s2 = s2
    Users = {u1, u2}
    Inbounds = {in1}
    Handlers <- MCHandlers
    Syncs = {s1}
    Modes = {TRUE, FALSE}
    Ops <- AllOps
    Edited = {u1}
    Overlap = TRUE
    Faults = TRUE
    MaxReqs = 2
    MaxEvents = 2
INVARIANTS HeldIdsSafe CredentialsOwned IInv
SYMMETRY Symmetry
PROPERTY DisabledStaysDisabled
