SPECIFICATION FairSpec
CONSTANTS
    Node = {n1, n2}
    Prober = {}
    Editor = {}
    Schedule = {s1, s2}
    OneShot = {s2}
    BadPolicy = FALSE
    MaxTime = 2
    MaxFaults = 1
    Never = Never
    Keep = Keep
    NoOne = NoOne
    NoSchedule = NoSchedule
PROPERTY DueSettles
