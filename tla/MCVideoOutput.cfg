SPECIFICATION VOSpec
CONSTANTS
    s1 = s1
    s2 = s2
    Streams <- MCStreams
    NoStream = NoStream
    MaxVideoW = 8
    MaxVideoH = 4
    Sizes <- AnySizes
SYMMETRY StreamSymmetry
INVARIANTS
    VOTypeOK
    OverrunNeedsOversize
    CopiesItsFrame
    PaintsOneFrame
