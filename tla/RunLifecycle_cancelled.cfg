SPECIFICATION Spec
CONSTANTS
    Node = {n1}
    Schedule = {s1}
    Run = {r1}
    Client = {c1}
    OneShot = {s1}
    MaxActive = 1
    ForeignKeys = TRUE
    NoRun = NoRun
    NoSchedule = NoSchedule
    NoNode = NoNode
PROPERTY CancelledIsFinal
