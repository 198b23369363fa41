SPECIFICATION Spec
CONSTANTS
    Node = {n1, n2}
    Prober = {}
    Editor = {}
    Schedule = {s1}
    OneShot = {}
    BadPolicy = FALSE
    MaxTime = 1
    MaxFaults = 0
    Never = Never
    Keep = Keep
    NoOne = NoOne
    NoSchedule = NoSchedule
INVARIANT LeaderExclusive
