SPECIFICATION Spec
CONSTANTS
    PgSz = 2
    Fan = 2
    Images <- MCImages
    Entry = 34
    MAX_FILE_NUM = 2
    RootEntries = {1, 3}
INVARIANTS
    TypeOK
    NothingHeldOnReturn
    InsideReserved
    EntryMeansComplete
PROPERTIES
    LoaderReturns
CHECK_DEADLOCK FALSE
