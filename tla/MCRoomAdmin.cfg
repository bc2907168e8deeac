SPECIFICATION AdminSpec
CONSTANTS
    r1 = r1
    r2 = r2
    Rooms <- MCRooms
    JunkRoom = JunkRoom
    NoRoom = NoRoom
    MaxOps = 2
SYMMETRY AdminSymmetry
INVARIANTS
    AdminTypeOK
    AsksForItsRoom
    FailureNamesItsRoom
