CONSTANT
    MaxEvents = 4
SPECIFICATION FairSpec
INVARIANTS
    IInv
    MutualExclusion
    NeverPopsEmpty
PROPERTY
    HandsOver
