SPECIFICATION AccessSpec
CONSTANTS
    vless = vless
    xhttp = xhttp
    reality = reality
    cdn = cdn
    backup = backup
    a1 = a1
    s1 = s1
    Tags <- AllTags
    TagLists <- SomeTagLists
    Admins = {a1}
    Ops <- AllOps
    Faults = TRUE
    MaxProfiles = 1
    MaxCrashes = 1
    Readers = {s1}
    Paths = {"json", "links"}
    ExcludeInboundTags = {cdn}
    FallbackInboundTags = {backup}
    Switched = {vless}
    Filters <- SomeFilters
    MaxTokens = 2
INVARIANTS ServedIsolation RevokedNotServed EmergencyRestricts
