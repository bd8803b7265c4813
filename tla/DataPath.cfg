SPECIFICATION Spec
CONSTANTS
    Capacity = 3
    Priorities <- ThePriorities
    MaxAdds = 5
    BufferSize = 2
    QueueSize = 1
    Batches = {1, 2}
    MaxOwn = 2
    MaxTopic = 3
    MaxStarts = 2
    None = None
    Size = 3
    Values <- TheValues
    Samples <- TheSamples
    Ratio = 2
    Bits = {1, 3, 8}
    NameLength <- TheNames
    Control <- TheControl
    MaxRounds = 4
    Request = {r1, r2}
    NoRequest = NoRequest
SYMMETRY Symmetry
CHECK_DEADLOCK FALSE
INVARIANTS
    RedpandaTypeOK
    ReceivedInOrder
    NothingUnsent
    SampleBounded
    PriorityLag
    FeedbackConserves
    ResidualBounded
    RoundTrip
    WithinHalfStep
    RpcTypeOK
    FuturesAccounted
    CallbackAtMostOnce
    OutcomeReachesCallback
PROPERTIES
    OutcomeFinal
