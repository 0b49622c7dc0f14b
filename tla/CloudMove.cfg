SPECIFICATION Spec
CONSTANTS
    Tasks = {t1, t2}
    Calls <- MoveCalls
    Backends = {"gcs", "s3"}
    PathPrefix <- NoPrefix
    OptionsParse = TRUE
    Data = {x, y, z}
    TooBig = {z}
    ByteOrder <- MoveNames
    Buckets <- MoveBuckets
    Refusals = {"denied"}
    PageSize = 2
    MaxItems = 4
    MaxSends = 2
    MaxLate = 1
    t1 = t1
    t2 = t2
    x = x
    y = y
    z = z
    None = None
SYMMETRY Symmetry
INVARIANTS TypeOK AnswersAreTrue MoveKeepsData QueueMoves
