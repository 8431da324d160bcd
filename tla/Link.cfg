\* Two fake Wiimotes, with room for two packets; the identifiers wrap.
SPECIFICATION LiveSpec
CONSTANTS
    NumWiimotes = 2
    BulkCap = 2
    FirstCid = 2
    CidCount = 6
    HostCids = {1, 2, 3, 4}
    Budgets <- MCBudgets
INVARIANTS
    EndsAgree
    HostCommandsFit
    HidAfterReady
PROPERTIES
    LinkingEnds
CHECK_DEADLOCK FALSE
