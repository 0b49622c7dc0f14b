CONSTANTS
    upload = upload
    note = note
    r1 = r1
    r2 = r2
    None = None
    PartNames = {upload, note}
    UploadField = upload
    Requests = {r1, r2}
    FileNames <- SomeFileNames
    Stems <- SomeStems
    Exts <- SomeExts
    Clean <- SomeClean
    Lower <- SomeLower
    Guess <- SomeGuess
    SniffLimit = 3
    Inputs <- SomeInputs
    Applications <- SomeApplications
SPECIFICATION FairSpec
INVARIANTS TypeOK OnlyAcceptedFilesAreStored NothingPassesByLying OkMeansStored
    FailureLeavesAPrefix StatusTellsTheFault KeysArePlain
PROPERTY RequestsAnswered
CHECK_DEADLOCK FALSE
