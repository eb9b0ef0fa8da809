SPECIFICATION FairSpec
CONSTANTS
    Sets = {none, some}
    Empty = none
    Garbage = {g1, g2, raw}
    Binary = {raw}
    NoFile = NoFile
    MAX_BACKUP_ATTEMPTS = 1
    MaxUnsynced = 2
PROPERTIES
    ImplementsAtomicStore
    QuarantineKeepsBytes
    SaveNeverWidens
    StoreLoads
