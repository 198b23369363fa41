SPECIFICATION FairSpec
CONSTANTS
    Node = {n1}
    Schedule = {s1}
    Run = {r1, r2}
    Client = {c1}
    OneShot = {s1}
    MaxActive = 1
    ForeignKeys = FALSE
    NoRun = NoRun
    NoSchedule = NoSchedule
    NoNode = NoNode
PROPERTIES
    ScheduledRunsSettle
    RunningRunsSettle
