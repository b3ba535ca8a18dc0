SPECIFICATION FairSpec
CONSTANTS
    k1 = k1
    Keys = {k1}
    NoKey = NoKey
    Quantum = 1
    LeaseDuration = 2
    RenewalInterval = 1
    SafetyMargin = 1
    Tolerance = 1
    MaxFence = 2
    MaxTime = 3
    MaxIntents = 2
INVARIANTS
    StoreConsistent
    CrashRecoversUnlessRearmed
PROPERTIES
    RestartsRewriteNothing
    TransitionsComplete
