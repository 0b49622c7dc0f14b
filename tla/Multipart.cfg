CONSTANTS
    a = a
    b = b
    f = f
    None = None
    PartNames = {a, b}
    FileNames = {f}
    Bodies <- AllBodies
    CustomLimits <- SmallLimits
SPECIFICATION FairSpec
INVARIANTS TypeOK LimitsHold RefusedForAReason CollectedIsTheBody
PROPERTY CollectorsAnswer
