SPECIFICATION AdminSpec
CONSTANTS
    r1 = r1
    r2 = r2
    Rooms <- MCRooms
    JunkRoom = JunkRoom
    NoRoom = NoRoom
    MaxOps = 1
INVARIANT
    OutcomeReported
