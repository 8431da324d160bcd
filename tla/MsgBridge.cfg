\* Three heap blocks, two buffers per pipe: one pipe can post more buffers
\* than its PendingQ holds, both can overflow their ReadyQ.
SPECIFICATION LiveSpec
CONSTANTS
    intr = intr
    bulk = bulk
    Pipes = {intr, bulk}
    Buffers = {b1, b2}
    Cells = {c1, c2, c3}
    ReadySize <- MCReadySize
    PendingSize <- MCPendingSize
    MaxEvents = 3
INVARIANTS
    TypeOK
    NotBothQueued
    HandDownNotAliased
    QueuedOnce
    NeverStuck
    BuffersAccounted
PROPERTIES
    PipesAreFifos
    QueuedDelivered
    PendingHandedDown
CHECK_DEADLOCK FALSE
