\* A Wiimote is rejected a second time after its gamepad went to another.
SPECIFICATION Spec
CONSTANTS
    NumEntries = 2
    NumHandles = 6
    NumSlots = 2
    Pads = {d1, d2}
    NoPad = NoPad
    ReconnectDelay = 2
    NumWiimotes = 2
    Reals = {}
    Phys = {}
    EvtCap = 8
    MaxAcl = 1
    CmdReplies = {2}
    Budgets <- RejectTwice
    Nobody = Nobody
INVARIANT TwoWayLink
CHECK_DEADLOCK FALSE
