SPECIFICATION FairVOSpec
CONSTANTS
    s1 = s1
    s2 = s2
    Streams <- OneStream
    NoStream = NoStream
    MaxVideoW = 8
    MaxVideoH = 4
    Sizes <- MCSizes
PROPERTIES
    LastFrameShown
    StopReturns
