SPECIFICATION SilentSpec
CONSTANTS
    Peer = {p1, p2}
    Handle = {h1, h2}
    Self = Self
    NoPeer = NoPeer
    NoHandle = NoHandle
    MaxInc = 1
    MaxSeq = 8
    MaxUpdates = 2
    BatchSize = 1
    MaxStarts = 1
PROPERTIES
    SilentPeerDies
CHECK_DEADLOCK FALSE
