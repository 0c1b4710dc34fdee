SPECIFICATION Spec
CONSTANTS
    Nodes = {n1}
    Threads = {t1}
    Messages = {a}
    Absent = Absent
    NoNode = NoNode
    MaxMessages = 2
    WriteConcerns = {0, 2}
    MaxBreaks = 1
    MaxCrashes = 1
SYMMETRY Symmetry
INVARIANT TypeOK
INVARIANT NoLostMessage
INVARIANT MasterViewIsSound
INVARIANT ConfirmedIsStored
CHECK_DEADLOCK FALSE
