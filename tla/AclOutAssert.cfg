\* The gamepad is unplugged while the host sends.
SPECIFICATION Spec
CONSTANTS
    NumEntries = 2
    NumHandles = 6
    NumSlots = 2
    Pads = {d1}
    NoPad = NoPad
    ReconnectDelay = 2
    NumWiimotes = 1
    Reals = {}
    Phys = {}
    EvtCap = 8
    MaxAcl = 1
    CmdReplies = {2}
    Budgets <- UnplugOnly
    Nobody = Nobody
INVARIANT AclOutHandleKnown
CHECK_DEADLOCK FALSE
