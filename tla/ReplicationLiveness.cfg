SPECIFICATION FairSpec
CONSTANTS
    Nodes = {n1}
    Threads = {t1}
    Messages = {a}
    Absent = Absent
    NoNode = NoNode
    MaxMessages = 1
    WriteConcerns = {1, 2}
    MaxBreaks = 1
    MaxCrashes = 1
PROPERTY EventuallyReplicated
PROPERTY RequestsComplete
CHECK_DEADLOCK FALSE
