SPECIFICATION FairSpec
CONSTANTS
    Tasks = {t1, t2}
    Calls <- ListCalls
    Backends = {"gcs", "s3", "azure"}
    PathPrefix <- Tenant
    OptionsParse = TRUE
    Data = {x, z}
    TooBig = {z}
    ByteOrder <- TenantNames
    Buckets <- TenantBuckets
    Refusals = {"denied"}
    PageSize = 2
    MaxItems = 4
    MaxSends = 1
    MaxLate = 0
    t1 = t1
    t2 = t2
    x = x
    y = y
    z = z
    None = None
INVARIANTS AnswersAreTrue ListReportsEveryObject
PROPERTY CallsReturn
