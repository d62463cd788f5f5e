SPECIFICATION StreamSpec
CONSTANTS
    Base = 4
    LengthWidth = 3
    Messages <- MC_Sent
    Schemas <- MC_Foreign
    Shortfalls = {0, 1}
CHECK_DEADLOCK FALSE
INVARIANTS MessagesSurvive ParamsDistinguish ReadsInBounds
