CONSTANTS
    ByteBase = 4
    MD5Len = 2
    SyncInterval = 2
    MaxCount = 3
    Magic <- MCMagic
    Syncs <- MCSyncs
    Records <- MCRecords
SPECIFICATION Spec
INVARIANTS
    SeqTypeOK
    RecordsRoundTrip
    WholeRecordsRead
    KeysOrdered
