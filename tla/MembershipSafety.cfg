SPECIFICATION Spec
CONSTANTS
    Peer = {p1, p2}
    Handle = {h1, h2}
    Self = Self
    NoPeer = NoPeer
    NoHandle = NoHandle
    MaxInc = 2
    MaxSeq = 2
    MaxUpdates = 2
    BatchSize = 1
    MaxStarts = 1
SYMMETRY Symmetry
INVARIANTS
    TypeOK
    SuspectIsTimed
    TimerEntriesLive
    RefutationsCurrent
    ProbesDistinct
    BlockedProbeStaysOpen
