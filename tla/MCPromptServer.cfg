SPECIFICATION PSpec
CONSTANTS
    PingInterval = 5
    PingTimeout = 12
    MaxKeepalives = 3
    Delay = 4
INVARIANTS
    TypeOK
    SilenceBounded
    AckFindsArmedTimer
PROPERTIES
    TimeoutMeansSilence
    SilenceEnds
    HealthyStaysUp
