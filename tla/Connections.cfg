\* Two fake Wiimotes, two gamepads, and a real Wiimote that shares the handles.
SPECIFICATION Spec
CONSTANTS
    NumEntries = 1
    NumHandles = 6
    NumSlots = 2
    Pads = {d1, d2}
    NoPad = NoPad
    ReconnectDelay = 1
    NumWiimotes = 2
    Reals = {r1}
    Phys = {h1}
    EvtCap = 3
    MaxAcl = 1
    CmdReplies = {2}
    Budgets <- SafetyBudgets
    Nobody = Nobody
SYMMETRY PadSymmetry
\* Only the scene with a real Wiimote and a reset meets it.
CONSTRAINT ResetQuiet
INVARIANTS
    AssignedLink
    NoMisroute
    CreditsConserved
    OneOwner
    TableMirrorsDongle
CHECK_DEADLOCK FALSE
