SPECIFICATION FairDCSpec
CONSTANTS
    r1 = r1
    r2 = r2
    n1 = n1
    n2 = n2
    Rooms <- MCRooms
    Names <- MCNames
    NoRoom = NoRoom
    TornName = TornName
    MaxJoins = 2
    MaxPosted = 1
    MaxGot = 2
INVARIANTS
    DCTypeOK
    JoinFirst
    JoinAsAsked
    SaidInJoinedRoom
PROPERTIES
    TextNegotiationEnds
    OpenedIsJoined
