SPECIFICATION FairSpec
CONSTANTS
    left = left
    right = right
    i1 = i1
    Side = {left, right}
    Stream = {i1}
    Opener <- MC_Opener
    Prio <- MC_Prio
    Guaranteed <- MC_Guaranteed
    Size = {1}
    MaxSent <- MC_MaxSent
    MaxBudget = 2
    Width = 16
    MayDisconnect = {left}
    MayBreak = TRUE
CHECK_DEADLOCK FALSE
INVARIANTS
    OnlyClosedStreamsFail
PROPERTIES
    StreamsAreOrdered
    MessagesArrive
    DropsAreNoticed
    DroppedStreamsAreFreed
    BothSidesEnd
