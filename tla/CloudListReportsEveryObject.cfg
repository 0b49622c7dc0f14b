SPECIFICATION Spec
CONSTANTS
    Tasks = {t1}
    Calls <- DocCalls
    Backends = {"gcs", "s3", "azure"}
    PathPrefix <- Slashed
    OptionsParse = TRUE
    Data = {x, y, z}
    TooBig = {z}
    ByteOrder <- DocNames
    Buckets <- EmptyBucket
    Refusals = {"denied"}
    PageSize = 2
    MaxItems = 4
    MaxSends = 2
    MaxLate = 1
    t1 = t1
    t2 = t2
    x = x
    y = y
    z = z
    None = None
SYMMETRY Symmetry
INVARIANTS ListReportsEveryObject
