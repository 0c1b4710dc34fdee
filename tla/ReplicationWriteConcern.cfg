SPECIFICATION Spec
CONSTANTS
    Nodes = {n1, n2}
    Threads = {t1}
    Messages = {a}
    Absent = Absent
    NoNode = NoNode
    MaxMessages = 1
    WriteConcerns = {3}
    MaxBreaks = 1
    MaxCrashes = 0
SYMMETRY Symmetry
PROPERTY ConfirmedByDistinctNodes
CHECK_DEADLOCK FALSE
