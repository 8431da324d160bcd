\* The console forgets a Wiimote and pairs others before the next start.
SPECIFICATION Spec
CONSTANTS
    Max = 5
    Real = {r1, r2, r3, r4}
    Fake0 = f0
    Fake1 = f1
    Nobody = nobody
    PadsSize = 6
    Layouts <- GoodLayouts
    Budget = 7
PROPERTIES FakesPaired
