SPECIFICATION ControlPlaneSpec
CONSTANTS
    Client = {c1, c2}
    Nothing = Nothing
    FKEnforced = TRUE
    Guarded = {s1}
    Approval = {a1, a2, a3}
    Planner = {q1}
    Chain = {i1}
    Definition = {d1, d2, d3}
    Compiles = {d1, d2}
    Malformed = Malformed
    Step = {1, 2, 3}
    Name = {1, 2, 3, 9}
    MaxNeeds = 2
    RetryLimit = 1
    MaxVersion = 2
    Entry = {e1, e2}
    Value = {v1, v2}
    ValueType = {t1}
    Unknown = Unknown
    Absent = Absent
    Zone = {"UTC", "east"}
    UTC = "UTC"
    Offset <- MCOffset
    Wish <- MCWish
    MaxPerUser = 1
    MinInterval = 2
    MaxClock = 5
    User = {u1, u2}
    Group = {g1, g2}
    Account = {u1, u2}
    Key = {k1, k2, k3}
    Process = {p1, p2}
    Emitter = {w1, w2}
    Subject = {run}
    Foreign = Foreign
    ReaderLimit = 2
    PageSize = 2
    ExportBatch = 3
    LastStamp = 2
    MaxRows = 3
    Adapter = {"registered_tool", "external_mcp", "external_http", "code_runner", "sandbox_command"}
    Urls = 2
    Timeout = 2
    Interval = 1
    MaxElapsed = 4
INVARIANTS
    ControlPlaneTypeOK
    GateHasReason
    StoredChainsCompile
    VersionNamesDefinition
    PlannerBudget
    NeedsHaveResults
    CycleIsReal
    CyclesNeverRun
    RowIsLastPut
    NextIsEarliest
    RestCreationsBounded
    BootstrapLeavesOneKey
    PagingMissesNothing
    SuccessIsReal
    NothingLeftAtWork
    FailureIsReal
PROPERTIES
    DecisionsStand
    MembersLeaveOnPurpose
    CallEnds
CHECK_DEADLOCK FALSE
