SPECIFICATION Spec
CONSTANTS
    Nodes = {n1}
    Threads = {t1}
    Messages = {a}
    Absent = Absent
    NoNode = NoNode
    MaxMessages = 1
    WriteConcerns = {3}
    MaxBreaks = 1
    MaxCrashes = 0
INVARIANT DistinctConfirmations
CHECK_DEADLOCK FALSE
