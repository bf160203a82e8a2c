SPECIFICATION FairSpec
CONSTANTS
    Readers = {r1, r2}
    AllocSize = 2
    MaxCount = 2
    MaxWritten = 3
    MaxBlocks = 1
    AsyncReads = {"take", "peek"}
    SyncReads = {"take", "peek", "copy"}
INVARIANTS LoopsAgree TypeOK CountersAgree NoLostWakeup AcquiredStable EndIsSound
PROPERTIES ImplementsCharStream ClosedReadsReturn
CHECK_DEADLOCK FALSE
