SPECIFICATION AllSpec
CONSTANTS
    a1 = a1
    a2 = a2
    t1 = t1
    t2 = t2
    t3 = t3
    Handlers <- MCHandlers
    Given = {1}
    Lists <- ShortLists
    Legacy <- MCLegacy
    MaxLen = 2
    MaxId = 9
    BalancerStrategy = "leastPing"
    Tags = {t1, t2, t3}
    Inputs <- MCInputs
INVARIANTS RulesIdentified GlobalIdsUnique OnlySpellingDangles RulesInPriority XHTTPPrimary
PROPERTY RulesKept
SYMMETRY Symmetry
