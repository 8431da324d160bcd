\* Memory and encryption, reads of all kinds, and changes of the extension.
SPECIFICATION LiveSpec
CONSTANTS
    RegSize = 6
    DataSize = 1
    KeyBegin = 1
    KeyEnd = 3
    EncAddr = 3
    IdAddr = 5
    EepromSize = 4
    Piece = 2
    AddrCount = 8
    OutCap = 3
    Outputs <- MCOutputs
    Budgets <- MCBudgets
INVARIANTS
    KeyFresh
    RepliesMatchReads
    DataOfKnownExtension
PROPERTIES
    ReadNotTorn
    InputReachesHost
    ExtensionSettles
CHECK_DEADLOCK FALSE
