SPECIFICATION AuditTrailSpec
CONSTANTS
    Emitter = {w1, w2}
    Subject = {run}
    Foreign = Foreign
    ReaderLimit = 2
    PageSize = 2
    ExportBatch = 3
    LastStamp = 1
    MaxRows = 3
INVARIANT ExportComplete
CHECK_DEADLOCK FALSE
