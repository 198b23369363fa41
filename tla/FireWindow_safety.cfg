SPECIFICATION Spec
CONSTANTS
    Node = {n1, n2}
    Prober = {p1}
    Editor = {e1}
    Schedule = {s1}
    OneShot = {}
    BadPolicy = TRUE
    MaxTime = 2
    MaxFaults = 1
    Never = Never
    Keep = Keep
    NoOne = NoOne
    NoSchedule = NoSchedule
SYMMETRY Symmetry
INVARIANTS
    TypeOK
    OneLeader
    ReleasesOwn
    FiredOnce
PROPERTY KeepsWindows
