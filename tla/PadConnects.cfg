\* Liveness with rejections, refusals, a reset and a small ReadyQ.
SPECIFICATION LiveSpec
CONSTANTS
    NumEntries = 2
    NumHandles = 6
    NumSlots = 2
    Pads = {d1, d2}
    NoPad = NoPad
    ReconnectDelay = 1
    NumWiimotes = 2
    Reals = {}
    Phys = {}
    EvtCap = 3
    MaxAcl = 1
    CmdReplies = {2}
    Budgets <- LiveBudgets
    Nobody = Nobody
PROPERTY PadConnects
CHECK_DEADLOCK FALSE
