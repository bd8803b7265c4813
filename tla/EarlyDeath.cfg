SPECIFICATION HSpec
CONSTANTS
    Peer = {p1}
    Handle = {h1, h2}
    Self = Self
    NoPeer = NoPeer
    NoHandle = NoHandle
    MaxInc = 1
    MaxSeq = 1
    MaxUpdates = 2
    BatchSize = 1
    MaxStarts = 1
PROPERTIES
    FullTimeoutBeforeDead
