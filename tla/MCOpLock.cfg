CONSTANTS
    e1 = e1
    e2 = e2
    e3 = e3
    i1 = i1
    i2 = i2
    Explicit <- MCExplicit
    Incremental <- MCIncremental
    NoOp = NoOp
SPECIFICATION FairSpec
INVARIANTS MutualExclusion NoSpuriousRejection
PROPERTIES EveryWaiterRuns ImplementsSerialOps
