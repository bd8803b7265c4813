SPECIFICATION RpcSpec
CONSTANTS
    Request = {r1}
    NoRequest = NoRequest
INVARIANTS
    DisconnectFailsPending
