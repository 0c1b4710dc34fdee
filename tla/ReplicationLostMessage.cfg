SPECIFICATION Spec
CONSTANTS
    Nodes = {n1}
    Threads = {t1, t2}
    Messages = {a}
    Absent = Absent
    NoNode = NoNode
    MaxMessages = 2
    WriteConcerns = {1}
    MaxBreaks = 0
    MaxCrashes = 0
INVARIANT NoLostMessage
CHECK_DEADLOCK FALSE
