--------------------------- MODULE RpcClientProofs --------------------------
(***************************************************************************)
(* Proofs for RpcClient: for any number of calls, no request is lost       *)
(* between pending_requests_ and on_message, outcomes are final, and a     *)
(* completion callback runs at most once and learns the outcome.           *)
(***************************************************************************)
EXTENDS RpcClient, TLAPS

(* A callback that ran was set and its future is completed, so completing  *)
(* an open future runs it for the first time.                              *)
CallbackOrdered ==
    \A r \in Request :
        runs[r] <= 1 /\ (runs[r] # 0 => callback[r] = "set" /\ status[r] \in Completed)

(* A request that is being sent or may be answered was called, and is not  *)
(* the one call_async is still about to send.                              *)
SentWasCalled ==
    \A r \in sending \cup onWire \cup oldWire : status[r] # "unused" /\ r # calling

CInv == RpcTypeOK /\ FuturesAccounted /\ CallbackOrdered /\ SentWasCalled

-----------------------------------------------------------------------------
(* Completing a set of open futures: pending_requests_ on disconnect(), or *)
(* the one on_message has taken.                                           *)
LEMMA CompletesOpen ==
    ASSUME CInv, NEW R \in SUBSET Request, NEW s \in Completed,
           \A r \in R : status[r] = "open",
           Complete(R, s), UNCHANGED callback
    PROVE  /\ status' \in [Request -> Completed \cup {"unused", "open"}]
           /\ runs' \in [Request -> Nat]
           /\ \A r \in Request : status'[r] = IF r \in R THEN s ELSE status[r]
           /\ CallbackOrdered'
           /\ \A r \in Request : status[r] \in Completed => status'[r] = status[r]
<1>1. /\ status' \in [Request -> Completed \cup {"unused", "open"}]
      /\ \A r \in Request : status'[r] = IF r \in R THEN s ELSE status[r]
  BY DEF CInv, RpcTypeOK, Complete
<1>2. /\ runs' \in [Request -> Nat]
      /\ \A r \in Request : runs'[r] = IF r \in R /\ callback[r] = "set"
                                       THEN runs[r] + 1 ELSE runs[r]
  BY DEF CInv, RpcTypeOK, Complete
<1>3. \A r \in R : runs[r] = 0
  BY DEF CInv, RpcTypeOK, CallbackOrdered, Completed
<1>4. CallbackOrdered'
  BY <1>1, <1>2, <1>3 DEF CInv, RpcTypeOK, CallbackOrdered
<1>5. \A r \in Request : status[r] \in Completed => status'[r] = status[r]
  BY <1>1 DEF Completed
<1> QED
  BY <1>1, <1>2, <1>4, <1>5

LEMMA InitCInv == ASSUME RpcInit PROVE CInv
<1>1. RpcTypeOK
  BY DEF RpcInit, RpcTypeOK
<1>2. FuturesAccounted /\ CallbackOrdered /\ SentWasCalled
  BY RequestAssumption DEF RpcInit, FuturesAccounted, CallbackOrdered, SentWasCalled, Completed
<1> QED
  BY <1>1, <1>2 DEF CInv

(* A failing send completes the future only if it is still pending. *)
LEMMA SendFailedKeeps ==
    ASSUME CInv, NEW r \in Request, SendFailed(r), calling' = NoRequest \/ calling' # r,
           calling' \in pending \cup {NoRequest}, taken' = taken,
           UNCHANGED <<callback, runs>>
    PROVE  /\ pending' \in SUBSET Request
           /\ calling' \in pending' \cup {NoRequest}
           /\ status' \in [Request -> Completed \cup {"unused", "open"}]
           /\ FuturesAccounted'
           /\ CallbackOrdered'
           /\ \A q \in Request : status[q] \in Completed => status'[q] = status[q]
           /\ \A q \in Request : status[q] # "unused" => status'[q] # "unused"
<1>1. CASE r \in pending
  <2>1. /\ status' = [status EXCEPT ![r] = "INTERNAL"]
        /\ pending' = pending \ {r}
    BY <1>1 DEF SendFailed
  <2>2. status[r] = "open" /\ r # taken
    BY <1>1 DEF CInv, FuturesAccounted
  <2>3. FuturesAccounted'
    BY <2>1, <2>2 DEF CInv, RpcTypeOK, FuturesAccounted
  <2>4. CallbackOrdered'
    BY <2>1, <2>2 DEF CInv, RpcTypeOK, CallbackOrdered, Completed
  <2>5. calling' \in pending' \cup {NoRequest}
    BY <2>1
  <2>6. \A q \in Request : status[q] \in Completed => status'[q] = status[q]
    BY <2>1, <2>2 DEF CInv, RpcTypeOK, Completed
  <2>7. \A q \in Request : status[q] # "unused" => status'[q] # "unused"
    BY <2>1 DEF CInv, RpcTypeOK
  <2> QED
    BY <2>1, <2>3, <2>4, <2>5, <2>6, <2>7 DEF CInv, RpcTypeOK, Completed
<1>2. CASE r \notin pending
  BY <1>2 DEF SendFailed, CInv, RpcTypeOK, FuturesAccounted, CallbackOrdered
<1> QED
  BY <1>1, <1>2

Final == \A r \in Request : status[r] \in Completed => status'[r] = status[r]

LEMMA ConnectStep ==
    ASSUME CInv, Connect \/ ConnectFails \/ ConnectAsync PROVE CInv' /\ Final
<1> USE DEF CInv, RpcTypeOK, FuturesAccounted, CallbackOrdered, SentWasCalled, Final,
            Replace, MoveWire, futVars
<1>1. CASE Connect       BY <1>1 DEF Connect
<1>2. CASE ConnectFails  BY <1>2 DEF ConnectFails
<1>3. CASE ConnectAsync  BY <1>3 DEF ConnectAsync
<1> QED
  BY <1>1, <1>2, <1>3

LEMMA DisconnectStep ==
    ASSUME CInv, Disconnect PROVE CInv' /\ Final
<1>1. CASE connected
  <2>1. /\ Complete(pending, "UNAVAILABLE") /\ pending' = {} /\ connected' = FALSE
        /\ link' = "none" /\ stale' = (stale \/ link = "up") /\ onWire' = {}
        /\ calling = NoRequest /\ released' = TRUE
        /\ UNCHANGED <<hooked, reconnects, callback, cancelled, waiter, calling, taken,
                       sending, oldWire>>
    BY <1>1 DEF Disconnect
  <2>2. \A r \in pending : status[r] = "open"
    BY DEF CInv, RpcTypeOK, FuturesAccounted
  <2>3. pending \in SUBSET Request
    BY DEF CInv, RpcTypeOK
  <2>4. /\ status' \in [Request -> Completed \cup {"unused", "open"}]
        /\ runs' \in [Request -> Nat]
        /\ \A r \in Request : status'[r] = IF r \in pending THEN "UNAVAILABLE" ELSE status[r]
        /\ CallbackOrdered'
        /\ \A r \in Request : status[r] \in Completed => status'[r] = status[r]
    BY <2>1, <2>2, <2>3, CompletesOpen DEF Completed
  <2>5. RpcTypeOK'
    BY <2>1, <2>4 DEF CInv, RpcTypeOK
  <2>6. FuturesAccounted'
    BY <2>1, <2>4 DEF CInv, RpcTypeOK, FuturesAccounted
  <2>7. SentWasCalled'
    BY <2>1, <2>4 DEF CInv, RpcTypeOK, SentWasCalled
  <2> QED
    BY <2>4, <2>5, <2>6, <2>7 DEF CInv, Final
<1>2. CASE ~connected
  BY <1>2 DEF Disconnect, CInv, RpcTypeOK, FuturesAccounted, CallbackOrdered, SentWasCalled, Final
<1> QED
  BY <1>1, <1>2

LEMMA CallStep ==
    ASSUME CInv, NEW r \in Request, CallRejected(r) \/ CallRegister(r) PROVE CInv' /\ Final
<1> USE DEF CInv, RpcTypeOK, FuturesAccounted, CallbackOrdered, SentWasCalled, Final,
            Completed, connVars, callVars
<1>1. CASE CallRejected(r)  BY <1>1, RequestAssumption DEF CallRejected
<1>2. CASE CallRegister(r)  BY <1>2, RequestAssumption DEF CallRegister
<1> QED
  BY <1>1, <1>2

LEMMA CallSendStep ==
    ASSUME CInv, CallSend PROVE CInv' /\ Final
<1>1. /\ calling \in Request /\ calling \in pending /\ calling' = NoRequest
      /\ UNCHANGED <<connVars, callback, runs, cancelled, waiter, taken, oldWire>>
  BY DEF CallSend, CInv, RpcTypeOK
<1>2. CASE UNCHANGED <<status, pending>> /\ link = "up" /\ sending' = sending \cup {calling}
             /\ onWire' = onWire \cup {calling}
  BY <1>1, <1>2, RequestAssumption
     DEF CInv, RpcTypeOK, FuturesAccounted, CallbackOrdered, SentWasCalled, Final, connVars
<1>3. CASE SendFailed(calling) /\ UNCHANGED <<sending, onWire>>
  <2>1. /\ pending' \in SUBSET Request
        /\ status' \in [Request -> Completed \cup {"unused", "open"}]
        /\ FuturesAccounted' /\ CallbackOrdered' /\ Final
        /\ \A q \in Request : status[q] # "unused" => status'[q] # "unused"
    BY <1>1, <1>3, SendFailedKeeps DEF Final
  <2>2. SentWasCalled'
    BY <1>1, <1>3, <2>1, RequestAssumption DEF CInv, RpcTypeOK, SentWasCalled
  <2> QED
    BY <1>1, <1>3, <2>1, <2>2 DEF CInv, RpcTypeOK, connVars
<1> QED
  BY <1>2, <1>3 DEF CallSend

LEMMA SendCompletesStep ==
    ASSUME CInv, NEW r \in Request, SendCompletes(r) PROVE CInv' /\ Final
<1>1. /\ sending' = sending \ {r}
      /\ UNCHANGED <<connVars, callback, runs, cancelled, waiter, calling, taken>>
  BY DEF SendCompletes
<1>2. CASE UNCHANGED <<status, pending, onWire, oldWire>>
  BY <1>1, <1>2 DEF CInv, RpcTypeOK, FuturesAccounted, CallbackOrdered, SentWasCalled, Final, connVars
<1>3. CASE SendFailed(r) /\ onWire' = onWire \ {r} /\ oldWire' = oldWire \ {r}
  <2>1. calling # r
    BY DEF SendCompletes, CInv, SentWasCalled
  <2>2. calling' \in pending \cup {NoRequest}
    BY <1>1 DEF CInv, RpcTypeOK
  <2>3. /\ pending' \in SUBSET Request
        /\ calling' \in pending' \cup {NoRequest}
        /\ status' \in [Request -> Completed \cup {"unused", "open"}]
        /\ FuturesAccounted' /\ CallbackOrdered' /\ Final
        /\ \A q \in Request : status[q] # "unused" => status'[q] # "unused"
    BY <1>1, <1>3, <2>1, <2>2, SendFailedKeeps DEF Final
  <2>4. SentWasCalled'
    BY <1>1, <1>3, <2>3 DEF CInv, RpcTypeOK, SentWasCalled
  <2> QED
    BY <1>1, <1>3, <2>3, <2>4 DEF CInv, RpcTypeOK, connVars
<1> QED
  BY <1>2, <1>3 DEF SendCompletes

LEMMA OnMessageStep ==
    ASSUME CInv, NEW r \in Request, OnMessage(r) PROVE CInv' /\ Final
<1>1. r # calling
  BY DEF OnMessage, CInv, SentWasCalled
<1>2. RpcTypeOK'
  BY <1>1 DEF OnMessage, CInv, RpcTypeOK, connVars, futVars
<1>3. FuturesAccounted'
  BY RequestAssumption DEF OnMessage, CInv, RpcTypeOK, FuturesAccounted, futVars
<1>4. CallbackOrdered' /\ SentWasCalled' /\ Final
  BY DEF OnMessage, CInv, RpcTypeOK, CallbackOrdered, SentWasCalled, Final, futVars
<1> QED
  BY <1>2, <1>3, <1>4 DEF CInv

LEMMA OnMessageCompletesStep ==
    ASSUME CInv, OnMessageCompletes PROVE CInv' /\ Final
<1>1. /\ taken \in Request /\ Complete({taken}, "ANSWERED") /\ taken' = NoRequest
      /\ UNCHANGED <<connVars, pending, callback, cancelled, waiter, calling, sending,
                     onWire, oldWire>>
  BY DEF OnMessageCompletes, CInv, RpcTypeOK
<1>2. status[taken] = "open"
  BY <1>1 DEF CInv, FuturesAccounted
<1>3. /\ status' \in [Request -> Completed \cup {"unused", "open"}]
      /\ runs' \in [Request -> Nat]
      /\ \A r \in Request : status'[r] = IF r \in {taken} THEN "ANSWERED" ELSE status[r]
      /\ CallbackOrdered'
      /\ \A r \in Request : status[r] \in Completed => status'[r] = status[r]
  BY <1>1, <1>2, CompletesOpen DEF Completed
<1>4. RpcTypeOK'
  BY <1>1, <1>3 DEF CInv, RpcTypeOK, connVars
<1>5. FuturesAccounted'
  BY <1>1, <1>3, RequestAssumption DEF CInv, RpcTypeOK, FuturesAccounted
<1>6. SentWasCalled'
  BY <1>1, <1>3 DEF CInv, RpcTypeOK, SentWasCalled
<1> QED
  BY <1>3, <1>4, <1>5, <1>6 DEF CInv, Final

LEMMA LinkStep ==
    ASSUME CInv, OnDisconnect \/ ReceiveError \/ StaleReceiveEnds PROVE CInv' /\ Final
<1> USE DEF CInv, RpcTypeOK, FuturesAccounted, CallbackOrdered, SentWasCalled, Final, futVars
<1>1. CASE OnDisconnect      BY <1>1 DEF OnDisconnect
<1>2. CASE ReceiveError      BY <1>2 DEF ReceiveError
<1>3. CASE StaleReceiveEnds  BY <1>3 DEF StaleReceiveEnds
<1> QED
  BY <1>1, <1>2, <1>3

LEMMA FutureStep ==
    ASSUME CInv, NEW r \in Request,
           OnComplete(r) \/ Cancel(r) \/ Wait(r) \/ WaitReturns(r) \/ WaitTimesOut(r)
    PROVE  CInv' /\ Final
<1> USE DEF CInv, RpcTypeOK, FuturesAccounted, CallbackOrdered, SentWasCalled, Final,
            connVars, callVars
<1>1. CASE OnComplete(r)    BY <1>1 DEF OnComplete
<1>2. CASE Cancel(r)        BY <1>2 DEF Cancel
<1>3. CASE Wait(r)          BY <1>3 DEF Wait
<1>4. CASE WaitReturns(r)   BY <1>4 DEF WaitReturns
<1>5. CASE WaitTimesOut(r)  BY <1>5 DEF WaitTimesOut
<1> QED
  BY <1>1, <1>2, <1>3, <1>4, <1>5

LEMMA NextCInv == ASSUME CInv, [RpcNext]_rpcVars PROVE CInv' /\ [Final]_rpcVars
<1>1. CASE Application
  BY <1>1, ConnectStep, DisconnectStep, CallStep, CallSendStep, FutureStep DEF Application
<1>2. CASE EventLoop
  BY <1>2, ConnectStep, SendCompletesStep, OnMessageStep, OnMessageCompletesStep, LinkStep
     DEF EventLoop
<1>3. CASE UNCHANGED rpcVars
  BY <1>3 DEF CInv, RpcTypeOK, FuturesAccounted, CallbackOrdered, SentWasCalled, rpcVars
<1> QED
  BY <1>1, <1>2, <1>3 DEF RpcNext

-----------------------------------------------------------------------------
(* OutcomeReachesCallback needs that a future has no callback before its   *)
(* call is made, so a rejected call has none to run.                       *)
UncalledHasNone == \A r \in Request : status[r] = "unused" => callback[r] = "none"

DInv == CInv /\ UncalledHasNone /\ OutcomeReachesCallback

(* Completing open futures runs the callbacks that are set; a future that  *)
(* is still open has not run its own.                                      *)
LEMMA CompletionReaches ==
    ASSUME DInv, NEW R \in SUBSET Request, NEW s \in Completed,
           \A r \in R : status[r] = "open",
           Complete(R, s), UNCHANGED callback
    PROVE  UncalledHasNone' /\ OutcomeReachesCallback'
<1>1. \A r \in Request : status'[r] = IF r \in R THEN s ELSE status[r]
  BY DEF Complete
<1>2. \A r \in Request : runs'[r] = IF r \in R /\ callback[r] = "set"
                                     THEN runs[r] + 1 ELSE runs[r]
  BY DEF Complete
<1>3. \A r \in R : runs[r] = 0
  BY DEF DInv, CInv, RpcTypeOK, CallbackOrdered, Completed
<1>4. UncalledHasNone'
  BY <1>1 DEF DInv, UncalledHasNone, Completed
<1>5. OutcomeReachesCallback'
  BY <1>1, <1>2, <1>3 DEF DInv, OutcomeReachesCallback
<1> QED
  BY <1>4, <1>5

(* A failed send completes the future as INTERNAL or not at all. *)
LEMMA SendFailedReaches ==
    ASSUME DInv, NEW r \in Request, SendFailed(r), UNCHANGED <<callback, runs>>
    PROVE  UncalledHasNone' /\ OutcomeReachesCallback'
<1>1. CASE r \in pending
  <2>1. status' = [status EXCEPT ![r] = "INTERNAL"]
    BY <1>1 DEF SendFailed
  <2> QED
    BY <2>1 DEF DInv, CInv, RpcTypeOK, UncalledHasNone, OutcomeReachesCallback
<1>2. CASE r \notin pending
  BY <1>2 DEF SendFailed, DInv, UncalledHasNone, OutcomeReachesCallback
<1> QED
  BY <1>1, <1>2

(* Every step keeps the callbacks and the outcomes together. *)
LEMMA NextReaches ==
    ASSUME DInv, [RpcNext]_rpcVars
    PROVE  UncalledHasNone' /\ OutcomeReachesCallback'
<1>1. CASE UNCHANGED <<status, callback, runs>>
  BY <1>1 DEF DInv, UncalledHasNone, OutcomeReachesCallback
<1>2. CASE Disconnect
  <2>1. CASE connected
    <3>1. \A r \in pending : status[r] = "open"
      BY DEF DInv, CInv, RpcTypeOK, FuturesAccounted
    <3>2. pending \in SUBSET Request /\ "UNAVAILABLE" \in Completed
      BY DEF DInv, CInv, RpcTypeOK, Completed
    <3> QED
      BY <1>2, <2>1, <3>1, <3>2, CompletionReaches DEF Disconnect
  <2>2. CASE ~connected
    BY <1>1, <1>2, <2>2 DEF Disconnect
  <2> QED
    BY <2>1, <2>2
<1>3. CASE CallSend
  <2>1. calling \in Request
    BY <1>3 DEF CallSend, DInv, CInv, RpcTypeOK
  <2>2. CASE SendFailed(calling)
    BY <1>3, <2>1, <2>2, SendFailedReaches DEF CallSend
  <2>3. CASE UNCHANGED <<status, pending>>
    BY <1>1, <1>3, <2>3 DEF CallSend
  <2> QED
    BY <1>3, <2>2, <2>3 DEF CallSend
<1>4. CASE \E r \in Request : CallRejected(r) \/ CallRegister(r)
  <2>1. PICK r \in Request : CallRejected(r) \/ CallRegister(r)
    BY <1>4
  <2>2. /\ callback[r] = "none" /\ UNCHANGED <<callback, runs>>
        /\ \A q \in Request \ {r} : status'[q] = status[q]
    BY <2>1 DEF CallRejected, CallRegister, DInv, CInv, RpcTypeOK, UncalledHasNone
  <2> QED
    BY <2>2 DEF DInv, UncalledHasNone, OutcomeReachesCallback
<1>5. CASE \E r \in Request : OnComplete(r)
  <2>1. PICK r \in Request : OnComplete(r)
    BY <1>5
  <2>2. /\ status[r] # "unused" /\ callback[r] = "none" /\ UNCHANGED status
        /\ callback' = [callback EXCEPT ![r] = "set"]
        /\ runs' = IF status[r] \in Completed THEN [runs EXCEPT ![r] = @ + 1] ELSE runs
    BY <2>1 DEF OnComplete
  <2>3. runs[r] = 0
    BY <2>2 DEF DInv, CInv, CallbackOrdered
  <2>4. UncalledHasNone'
    BY <2>2 DEF DInv, CInv, RpcTypeOK, UncalledHasNone
  <2>5. OutcomeReachesCallback'
    BY <2>2, <2>3 DEF DInv, CInv, RpcTypeOK, OutcomeReachesCallback
  <2> QED
    BY <2>4, <2>5
<1>6. CASE \E r \in Request : SendCompletes(r)
  <2>1. PICK r \in Request : SendCompletes(r)
    BY <1>6
  <2>2. CASE SendFailed(r)
    BY <2>1, <2>2, SendFailedReaches DEF SendCompletes
  <2>3. CASE UNCHANGED <<status, pending>>
    BY <1>1, <2>1, <2>3 DEF SendCompletes
  <2> QED
    BY <2>1, <2>2, <2>3 DEF SendCompletes
<1>7. CASE OnMessageCompletes
  <2>1. taken \in Request /\ status[taken] = "open"
    BY <1>7 DEF OnMessageCompletes, DInv, CInv, RpcTypeOK, FuturesAccounted
  <2>2. {taken} \in SUBSET Request /\ "ANSWERED" \in Completed
    BY <2>1 DEF Completed
  <2> QED
    BY <1>7, <2>1, <2>2, CompletionReaches DEF OnMessageCompletes
<1>8. CASE Connect \/ ConnectFails \/ ConnectAsync \/ OnDisconnect \/ ReceiveError
             \/ StaleReceiveEnds \/ (\E r \in Request : OnMessage(r))
  BY <1>1, <1>8 DEF Connect, ConnectFails, ConnectAsync, OnDisconnect, ReceiveError,
                    StaleReceiveEnds, OnMessage, futVars
<1>9. CASE \E r \in Request : Cancel(r) \/ Wait(r) \/ WaitReturns(r) \/ WaitTimesOut(r)
  BY <1>1, <1>9 DEF Cancel, Wait, WaitReturns, WaitTimesOut
<1>10. CASE UNCHANGED rpcVars
  BY <1>1, <1>10 DEF rpcVars
<1> QED
  BY <1>2, <1>3, <1>4, <1>5, <1>6, <1>7, <1>8, <1>9, <1>10
     DEF RpcNext, Application, EventLoop

-----------------------------------------------------------------------------
(* The futures, the containers that hold them and the wire keep their      *)
(* types; call_async only ever sends a request it has registered.          *)
THEOREM ClientTypes == RpcSpec => []RpcTypeOK
<1>1. RpcInit => CInv
  BY InitCInv
<1>2. CInv /\ [RpcNext]_rpcVars => CInv'
  BY NextCInv
<1>3. CInv => RpcTypeOK
  BY DEF CInv
<1> QED
  BY <1>1, <1>2, <1>3, PTL DEF RpcSpec

(* Whatever completes a call runs its callback, set before or after, except *)
(* the send callback, which completes the future without running it.        *)
THEOREM OutcomesReachCallbacks == RpcSpec => []OutcomeReachesCallback
<1>1. RpcInit => DInv
  <2>1. RpcInit => UncalledHasNone /\ OutcomeReachesCallback
    BY DEF RpcInit, UncalledHasNone, OutcomeReachesCallback, Completed
  <2> QED
    BY <2>1, InitCInv DEF DInv
<1>2. DInv /\ [RpcNext]_rpcVars => DInv'
  BY NextCInv, NextReaches DEF DInv
<1>3. DInv => OutcomeReachesCallback
  BY DEF DInv
<1> QED
  BY <1>1, <1>2, <1>3, PTL DEF RpcSpec

(* A future that is not completed is always in pending_requests_ or in the *)
(* hands of on_message, and a completed one in neither: call_async, the    *)
(* send callback, on_message and disconnect() lose and duplicate nothing.  *)
THEOREM NothingLost == RpcSpec => []FuturesAccounted
<1>1. RpcInit => CInv
  BY InitCInv
<1>2. CInv /\ [RpcNext]_rpcVars => CInv'
  BY NextCInv
<1>3. CInv => FuturesAccounted
  BY DEF CInv
<1> QED
  BY <1>1, <1>2, <1>3, PTL DEF RpcSpec

(* The callback given to on_complete runs at most once and only for a      *)
(* completed future.                                                       *)
THEOREM AtMostOneCallback == RpcSpec => []CallbackAtMostOnce
<1>1. RpcInit => CInv
  BY InitCInv
<1>2. CInv /\ [RpcNext]_rpcVars => CInv'
  BY NextCInv
<1>3. CInv => CallbackAtMostOnce
  BY DEF CInv, RpcTypeOK, CallbackOrdered, CallbackAtMostOnce
<1> QED
  BY <1>1, <1>2, <1>3, PTL DEF RpcSpec

(* The response of a completed future is never overwritten. *)
THEOREM OutcomesFinal == RpcSpec => OutcomeFinal
<1>1. RpcInit => CInv
  BY InitCInv
<1>2. CInv /\ [RpcNext]_rpcVars => CInv'
  BY NextCInv
<1>3. CInv /\ [RpcNext]_rpcVars
        => [\A r \in Request : status[r] \in Completed => status'[r] = status[r]]_rpcVars
  BY NextCInv DEF Final
<1> QED
  BY <1>1, <1>2, <1>3, PTL DEF RpcSpec, OutcomeFinal
=============================================================================
