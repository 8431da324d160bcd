\* Handles that are used again, and the keys the host reads.
SPECIFICATION MCSpec
CONSTANTS
    NumEntries = 2
    NumHandles = 3
    Phys = {1, 2}
    MaxCons = 4
    InFlight = 3
INVARIANTS
    HandlesDistinct
    EventHandleKnown
    AnswerNamesConnection
    KeysAnnounced
CHECK_DEADLOCK FALSE
