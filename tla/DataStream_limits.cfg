SPECIFICATION StreamSpec
CONSTANTS
    Base = 4
    LengthWidth = 2
    Messages <- MC_Long
    Schemas <- MC_NoSchemas
    Shortfalls = {}
INVARIANTS WritesInBounds
CHECK_DEADLOCK FALSE
