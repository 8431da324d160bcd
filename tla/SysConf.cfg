SPECIFICATION Spec
CONSTANTS
    Max = 5
    Real = {r1, r2, r3, r4}
    Fake0 = f0
    Fake1 = f1
    Nobody = nobody
    PadsSize = 6
    Layouts <- AllLayouts
    Budget = 7
SYMMETRY Perms
PROPERTIES RealsKept NothingRevived BothPaired
