----------------------------- MODULE RpcClient ------------------------------
(***************************************************************************)
(* RpcClient and RpcFuture (cpp/src/rpc_client.cpp) over a TcpTransport:   *)
(* application threads that call, wait and disconnect, against the event   *)
(* loop thread that runs on_message, on_disconnect and send completions.   *)
(*                                                                         *)
(* A region under pending_mutex_ or a future's mutex is one step.          *)
(* Connecting, disconnect and call_async do not overlap (connection_ is a  *)
(* plain shared_ptr), and a client reconnects only when is_connected() is  *)
(* false; wait, on_complete and cancel may come from any thread.  The      *)
(* server and the network are external: an answer may be late, lost with   *)
(* its connection, or never come.                                          *)
(***************************************************************************)
EXTENDS Naturals, FiniteSets

CONSTANTS
    Request,    \* bound: the calls made; stands for next_request_id_
    NoRequest

ASSUME RequestAssumption == NoRequest \notin Request

VARIABLES
    connected,   \* connected_
    link,        \* connection_: null, CONNECTED or CLOSED
    hooked,      \* the transport has this client's disconnect callback
    released,    \* disconnect() was called since the last connect
    reconnects,  \* the transport holds an earlier connection to the endpoint
    stale,       \* an earlier connection still has its receive outstanding
    pending,     \* pending_requests_
    status,      \* the future's response status, "open" until completed
    callback,    \* the future's callback
    runs,        \* how often that callback ran
    cancelled,   \* the future's flag
    waiter,      \* the thread in wait(), if any
    calling,     \* the request call_async has registered and not yet sent
    taken,       \* the request on_message has removed and not yet completed
    sending,     \* sends whose completion is outstanding
    onWire,      \* requests the server may still answer on connection_
    oldWire      \* requests it may still answer on an earlier connection

connVars == <<connected, link, hooked, released, reconnects, stale>>
futVars  == <<status, callback, runs, cancelled, waiter>>
callVars == <<calling, taken, sending, onWire, oldWire>>
rpcVars == <<connected, link, hooked, released, reconnects, stale, pending, status,
          callback, runs, cancelled, waiter, calling, taken, sending, onWire, oldWire>>

Completed == {"ANSWERED", "UNAVAILABLE", "INTERNAL", "RESOURCE_EXHAUSTED"}

RpcTypeOK ==
    /\ connected \in BOOLEAN
    /\ link \in {"none", "up", "closed"}
    /\ hooked \in BOOLEAN
    /\ released \in BOOLEAN
    /\ reconnects \in BOOLEAN
    /\ stale \in BOOLEAN
    /\ pending \in SUBSET Request
    /\ status \in [Request -> Completed \cup {"unused", "open"}]
    /\ callback \in [Request -> {"none", "set"}]
    /\ runs \in [Request -> Nat]
    /\ cancelled \in [Request -> BOOLEAN]
    /\ waiter \in [Request -> {"none", "waiting", "answered", "timedout"}]
    /\ calling \in pending \cup {NoRequest}
    /\ taken \in Request \cup {NoRequest}
    /\ sending \in SUBSET Request
    /\ onWire \in SUBSET Request
    /\ oldWire \in SUBSET Request

RpcInit ==
    /\ connected = FALSE
    /\ link = "none"
    /\ hooked = FALSE
    /\ released = FALSE
    /\ reconnects = FALSE
    /\ stale = FALSE
    /\ pending = {}
    /\ status = [r \in Request |-> "unused"]
    /\ callback = [r \in Request |-> "none"]
    /\ runs = [r \in Request |-> 0]
    /\ cancelled = [r \in Request |-> FALSE]
    /\ waiter = [r \in Request |-> "none"]
    /\ calling = NoRequest
    /\ taken = NoRequest
    /\ sending = {}
    /\ onWire = {}
    /\ oldWire = {}

-----------------------------------------------------------------------------
(* Connecting *)

IsConnected == connected /\ link = "up"

(* connection_ is assigned: a connection that is still open lives on in    *)
(* the transport, with its receive outstanding.                            *)
MoveWire == oldWire' = oldWire \cup onWire /\ onWire' = {}

Replace  == stale' = (stale \/ link = "up") /\ MoveWire

(* connect(): only here is the disconnect callback installed. *)
Connect ==
    /\ calling = NoRequest
    /\ ~IsConnected
    /\ Replace
    /\ connected' = TRUE
    /\ link' = "up"
    /\ hooked' = TRUE
    /\ released' = FALSE
    /\ reconnects' = TRUE
    /\ UNCHANGED <<pending, futVars, calling, taken, sending>>

(* connect() without success: connection_ is null, connected_ stays. *)
ConnectFails ==
    /\ calling = NoRequest
    /\ ~IsConnected
    /\ Replace
    /\ link' = "none"
    /\ UNCHANGED <<connected, hooked, released, reconnects, pending, futVars, calling, taken,
                   sending>>

(* connect_async(), on the event loop thread: the connection is looked up  *)
(* by endpoint among all that the transport made, in no particular order.  *)
ConnectAsync ==
    /\ calling = NoRequest
    /\ taken = NoRequest
    /\ ~IsConnected
    /\ connected' = TRUE
    /\ \/ link' = "up" /\ Replace
       \/ reconnects /\ link' = "closed" /\ stale' = TRUE /\ MoveWire
    /\ released' = FALSE
    /\ reconnects' = TRUE
    /\ UNCHANGED <<hooked, pending, futVars, calling, taken, sending>>

(* Set the response of the futures in R and run their callbacks.           *)
Complete(R, s) ==
    /\ status' = [r \in Request |-> IF r \in R THEN s ELSE status[r]]
    /\ runs' = [r \in Request |-> IF r \in R /\ callback[r] = "set"
                                  THEN runs[r] + 1 ELSE runs[r]]

(* Mutant: the futures are completed and stay in pending_requests_. *)
DisconnectKeepsPending ==
    /\ calling = NoRequest
    /\ released' = TRUE
    /\ IF connected
       THEN /\ connected' = FALSE
            /\ link' = "none"
            /\ stale' = (stale \/ link = "up")
            /\ Complete(pending, "UNAVAILABLE")
            /\ onWire' = {}
       ELSE UNCHANGED <<connected, link, stale, status, runs, onWire>>
    /\ UNCHANGED <<hooked, reconnects, pending, callback, cancelled, waiter, calling, taken,
                   sending, oldWire>>

(* disconnect(), also called by the destructor. *)
Disconnect ==
    /\ calling = NoRequest
    /\ released' = TRUE
    /\ IF connected
       THEN /\ connected' = FALSE
            /\ link' = "none"
            /\ stale' = (stale \/ link = "up")
            /\ Complete(pending, "UNAVAILABLE")
            /\ pending' = {}
            /\ onWire' = {}
       ELSE UNCHANGED <<connected, link, stale, status, runs, pending, onWire>>
    /\ UNCHANGED <<hooked, reconnects, callback, cancelled, waiter, calling, taken, sending,
                   oldWire>>

-----------------------------------------------------------------------------
(* Calling *)

(* call_async without a connection, or without a buffer. *)
CallRejected(r) ==
    /\ calling = NoRequest
    /\ status[r] = "unused"
    /\ \/ ~IsConnected /\ status' = [status EXCEPT ![r] = "UNAVAILABLE"]
       \/ IsConnected /\ status' = [status EXCEPT ![r] = "RESOURCE_EXHAUSTED"]
    /\ UNCHANGED <<connVars, pending, callback, runs, cancelled, waiter, callVars>>

(* Mutant: the request is sent without being registered. *)
CallUnregistered(r) ==
    /\ calling = NoRequest /\ status[r] = "unused" /\ IsConnected
    /\ status' = [status EXCEPT ![r] = "open"]
    /\ calling' = r
    /\ UNCHANGED <<connVars, pending, callback, runs, cancelled, waiter, taken, sending, onWire,
                   oldWire>>

(* call_async: register the future ... *)
CallRegister(r) ==
    /\ calling = NoRequest
    /\ status[r] = "unused"
    /\ IsConnected
    /\ status' = [status EXCEPT ![r] = "open"]
    /\ pending' = pending \cup {r}
    /\ calling' = r
    /\ UNCHANGED <<connVars, callback, runs, cancelled, waiter, taken, sending, onWire,
                   oldWire>>

(* Mutant: the future is failed without looking for it in pending_requests_. *)
SendFailedUnchecked(r) ==
    /\ status' = [status EXCEPT ![r] = "INTERNAL"]
    /\ pending' = pending \ {r}

(* The send callback with success = false: the future is completed, its    *)
(* callback is not run.                                                    *)
SendFailed(r) ==
    IF r \in pending
    THEN /\ status' = [status EXCEPT ![r] = "INTERNAL"]
         /\ pending' = pending \ {r}
    ELSE UNCHANGED <<status, pending>>

(* ... and send it.  A connection that was closed meanwhile refuses.       *)
CallSend ==
    /\ calling # NoRequest
    /\ calling' = NoRequest
    /\ \/ /\ link = "up"
          /\ sending' = sending \cup {calling}
          /\ onWire' = onWire \cup {calling}
          /\ UNCHANGED <<status, pending>>
       \/ /\ link = "closed"
          /\ SendFailed(calling)
          /\ UNCHANGED <<sending, onWire>>
    /\ UNCHANGED <<connVars, callback, runs, cancelled, waiter, taken, oldWire>>

-----------------------------------------------------------------------------
(* The event loop thread.  It does nothing else while on_message is at work. *)

SendCompletes(r) ==
    /\ taken = NoRequest
    /\ r \in sending
    /\ sending' = sending \ {r}
    /\ \/ UNCHANGED <<status, pending, onWire, oldWire>>
       \/ /\ SendFailed(r)
          /\ onWire' = onWire \ {r}
          /\ oldWire' = oldWire \ {r}
    /\ UNCHANGED <<connVars, callback, runs, cancelled, waiter, calling, taken>>

(* Mutant: the request is found and not removed. *)
OnMessageKeepsPending(r) ==
    /\ taken = NoRequest /\ r \in onWire \cup oldWire
    /\ onWire' = onWire \ {r}
    /\ oldWire' = oldWire \ {r}
    /\ taken' = IF r \in pending THEN r ELSE NoRequest
    /\ UNCHANGED <<connVars, futVars, pending, calling, sending>>

(* on_message: find the request and remove it; an unknown id is dropped ... *)
OnMessage(r) ==
    /\ taken = NoRequest
    /\ r \in onWire \cup oldWire
    /\ onWire' = onWire \ {r}
    /\ oldWire' = oldWire \ {r}
    /\ pending' = pending \ {r}
    /\ taken' = IF r \in pending THEN r ELSE NoRequest
    /\ UNCHANGED <<connVars, futVars, calling, sending>>

(* ... then, without pending_mutex_, parse the response and complete.      *)
OnMessageCompletes ==
    /\ taken # NoRequest
    /\ Complete({taken}, "ANSWERED")
    /\ taken' = NoRequest
    /\ UNCHANGED <<connVars, pending, callback, cancelled, waiter, calling, sending, onWire,
                   oldWire>>

(* The peer closed the connection: on_disconnect, then close().            *)
OnDisconnect ==
    /\ taken = NoRequest
    /\ link = "up"
    /\ connected' = IF hooked THEN FALSE ELSE connected
    /\ link' = "closed"
    /\ onWire' = {}
    /\ UNCHANGED <<hooked, released, reconnects, stale, pending, futVars, calling, taken,
                   sending, oldWire>>

(* A receive error only closes the connection: no error callback is set.   *)
ReceiveError ==
    /\ taken = NoRequest
    /\ link = "up"
    /\ link' = "closed"
    /\ onWire' = {}
    /\ UNCHANGED <<connected, hooked, released, reconnects, stale, pending, futVars, calling,
                   taken, sending, oldWire>>

(* The outstanding receive of an earlier connection ends, with the peer's  *)
(* close or with an error.  on_disconnect does not ask which connection.   *)
StaleReceiveEnds ==
    /\ taken = NoRequest
    /\ stale
    /\ stale' = FALSE
    /\ oldWire' = {}
    /\ connected' \in {connected, connected /\ ~hooked}
    /\ UNCHANGED <<link, hooked, released, reconnects, pending, futVars, calling, taken,
                   sending, onWire>>

-----------------------------------------------------------------------------
(* RpcFuture *)

(* Mutant: a callback set after the completion is only stored. *)
OnCompleteOnlyStores(r) ==
    /\ status[r] # "unused" /\ calling # r /\ callback[r] = "none"
    /\ callback' = [callback EXCEPT ![r] = "set"]
    /\ UNCHANGED <<connVars, pending, status, runs, cancelled, waiter, callVars>>

OnComplete(r) ==
    /\ status[r] # "unused"
    /\ calling # r
    /\ callback[r] = "none"
    /\ callback' = [callback EXCEPT ![r] = "set"]
    /\ runs' = IF status[r] \in Completed THEN [runs EXCEPT ![r] = @ + 1] ELSE runs
    /\ UNCHANGED <<connVars, pending, status, cancelled, waiter, callVars>>

Cancel(r) ==
    /\ status[r] # "unused"
    /\ calling # r
    /\ cancelled' = [cancelled EXCEPT ![r] = TRUE]
    /\ UNCHANGED <<connVars, pending, status, callback, runs, waiter, callVars>>

Wait(r) ==
    /\ status[r] # "unused"
    /\ calling # r
    /\ waiter[r] = "none"
    /\ waiter' = [waiter EXCEPT ![r] = "waiting"]
    /\ UNCHANGED <<connVars, pending, status, callback, runs, cancelled, callVars>>

WaitReturns(r) ==
    /\ waiter[r] = "waiting"
    /\ status[r] \in Completed
    /\ waiter' = [waiter EXCEPT ![r] = "answered"]
    /\ UNCHANGED <<connVars, pending, status, callback, runs, cancelled, callVars>>

(* The predicate is tested once more when the time is up.  The request     *)
(* stays in pending_requests_.                                             *)
WaitTimesOut(r) ==
    /\ waiter[r] = "waiting"
    /\ status[r] \notin Completed
    /\ waiter' = [waiter EXCEPT ![r] = "timedout"]
    /\ UNCHANGED <<connVars, pending, status, callback, runs, cancelled, callVars>>

-----------------------------------------------------------------------------
Application ==
    \/ Connect \/ ConnectFails \/ Disconnect \/ CallSend
    \/ \E r \in Request :
          CallRejected(r) \/ CallRegister(r) \/ OnComplete(r) \/ Cancel(r) \/ Wait(r)
            \/ WaitReturns(r) \/ WaitTimesOut(r)

EventLoop ==
    \/ \E r \in Request : SendCompletes(r) \/ OnMessage(r)
    \/ ConnectAsync \/ OnMessageCompletes \/ OnDisconnect \/ ReceiveError \/ StaleReceiveEnds

RpcNext == Application \/ EventLoop

RpcSpec == RpcInit /\ [][RpcNext]_rpcVars

-----------------------------------------------------------------------------
(* No request is lost between its containers: a future that is not yet     *)
(* completed is in pending_requests_ or in the hands of on_message, never  *)
(* in both, and no completed future is left in either, whatever the order  *)
(* of answers, failed sends, timeouts and disconnect().                    *)
FuturesAccounted ==
    /\ \A r \in Request : status[r] = "open" <=> (r \in pending \/ r = taken)
    /\ taken \notin pending

(* A completion callback runs at most once, and only for a completed       *)
(* future, also when on_complete races with the answer, a failed send and  *)
(* disconnect().                                                           *)
CallbackAtMostOnce ==
    \A r \in Request : runs[r] <= 1 /\ (runs[r] = 1 => status[r] \in Completed)

(* Whatever ends a call reaches its callback, whether that was set before  *)
(* or after; only a failed send, which completes the future by itself,     *)
(* may leave a callback unrun.                                             *)
OutcomeReachesCallback ==
    \A r \in Request :
        status[r] \in Completed \ {"INTERNAL"} /\ callback[r] = "set" => runs[r] = 1

(* The outcome of a call is final: a late answer, a failing send or        *)
(* disconnect() never overwrites the response of a completed future.       *)
OutcomeFinal ==
    [][\A r \in Request : status[r] \in Completed => status'[r] = status[r]]_rpcVars

-----------------------------------------------------------------------------
(* "Fail all pending requests": after disconnect() nothing is pending.     *)
DisconnectFailsPending == released => pending = {}
=============================================================================
