SPECIFICATION FairSpec
CONSTANTS
    t1 = t1
    t2 = t2
    r1 = r1
    r2 = r2
    Tags <- MCTags
    Rows = {t1}
    Togglers <- MCTogglers
    Loop = Loop
    NoOne = NoOne
    MaxEvents = 3
INVARIANTS IInv SwitchApplied
PROPERTIES ImplementsSwitch OffTearsDown
