------------------------------ MODULE RingFifo ------------------------------
(***************************************************************************)
(* What SharedRingBuffer promises its two users: a bounded FIFO queue on   *)
(* which try_push and try_pop happen at once.                              *)
(***************************************************************************)
EXTENDS Naturals, Sequences

CONSTANTS Value, Capacity, NoValue

VARIABLES
    queue,       \* the elements pushed and not popped, oldest first
    pushResult,  \* what the last try_push returned
    popResult    \* the element of the last successful try_pop, else NoValue

fifoVars == <<queue, pushResult, popResult>>

FifoInit == queue = <<>> /\ pushResult = TRUE /\ popResult = NoValue

TryPush(v) ==
    /\ Len(queue) < Capacity
    /\ queue' = Append(queue, v)
    /\ pushResult' = TRUE
    /\ UNCHANGED popResult

TryPushFull ==
    /\ Len(queue) = Capacity
    /\ pushResult' = FALSE
    /\ UNCHANGED <<queue, popResult>>

TryPop ==
    /\ queue # <<>>
    /\ popResult' = Head(queue)
    /\ queue' = Tail(queue)
    /\ UNCHANGED pushResult

TryPopEmpty ==
    /\ queue = <<>>
    /\ popResult' = NoValue
    /\ UNCHANGED <<queue, pushResult>>

FifoNext == (\E v \in Value : TryPush(v)) \/ TryPushFull \/ TryPop \/ TryPopEmpty

FifoSpec == FifoInit /\ [][FifoNext]_fifoVars
=============================================================================
