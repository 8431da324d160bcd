\* The stick is pushed as far as it goes.
SPECIFICATION MCSpec
CONSTANTS
    TouchRes = 1920
    Sticks <- StickPlaces
    Touches <- Fingers
    Garbage <- Stack
    SensorBarTop = FALSE
PROPERTIES
    PushFollowed
