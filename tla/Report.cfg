\* What reports say: the pointer, both extensions, the encryption.
SPECIFICATION MCSpec
CONSTANTS
    TouchRes = 1920
    Sticks <- StickPlaces
    Touches <- Fingers
    Garbage <- Stack
    SensorBarTop = TRUE
INVARIANTS
    DotsOnScreen
    ReportTypeOK
    HostSeesInput
    HostSeesDots
    NothingMissed
    HostDecrypts
PROPERTIES
    GentlePushFollowed
    OneSwitchPerPress
