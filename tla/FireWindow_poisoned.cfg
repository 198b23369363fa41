SPECIFICATION FairSpec
CONSTANTS
    Node = {n1}
    Prober = {}
    Editor = {}
    Schedule = {s1}
    OneShot = {}
    BadPolicy = TRUE
    MaxTime = 1
    MaxFaults = 0
    Never = Never
    Keep = Keep
    NoOne = NoOne
    NoSchedule = NoSchedule
PROPERTY DueSettles
