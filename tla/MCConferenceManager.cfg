SPECIFICATION CMSpec
CONSTANTS
    h1 = h1
    h2 = h2
    h3 = h3
    Handles <- MCHandles
    NoHandle = NoHandle
    NumWindows = 2
    MaxMaking = 1
    MaxPosted = 1
CONSTRAINT OneTalks
SYMMETRY HandleSymmetry
INVARIANTS
    CMTypeOK
    WindowsLive
    WindowExclusive
