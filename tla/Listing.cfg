SPECIFICATION ListingFairSpec
CONSTANTS
    Objects <- SomeObjects
    KeyRoot <- SomeRoot
    Matching <- SomeMatching
    Limits = {0, 1}
    DefaultPageSize = 2
    MaxItems = 3
    Absent = Absent
    Dir = Dir
    Link = Link
    File = File
    None = None
INVARIANTS TypeOK ReportedInOrder ReportsWhatIsThere ListingBounded CursorMeansMore 
PROPERTY ListingEnds
