SPECIFICATION Spec
CONSTANTS
    Nodes = {n1}
    Threads = {t1, t2}
    Messages = {a, b}
    Absent = Absent
    NoNode = NoNode
    MaxMessages = 2
    WriteConcerns = {1}
    MaxBreaks = 1
    MaxCrashes = 0
SYMMETRY Symmetry
INVARIANT Agreement
INVARIANT ShownIsPrefix
INVARIANT PendingWritesMatchCalls
PROPERTY RefinesLog
CHECK_DEADLOCK FALSE
