SPECIFICATION Spec
CONSTANTS
    PingInterval = 5
    PingTimeout = 12
    MaxKeepalives = 3
PROPERTIES
    TimeoutOnlyWhenTimedOut
