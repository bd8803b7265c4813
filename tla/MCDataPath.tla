----------------------------- MODULE MCDataPath -----------------------------
(* The parts that hold or carry data: the two replay buffers a learner can  *)
(* be built with, gradients on their way to a peer, and the RPC client,     *)
(* which makes two calls and connects and disconnects freely.  They share   *)
(* no state; a behaviour is about one of them.                              *)
EXTENDS PrioritizedReplay, RedpandaReplay, GradientWire, MCRpcClient

VARIABLE part   \* which one

Init ==
    /\ PrioritizedInit /\ RedpandaInit /\ WireInit /\ RpcInit
    /\ part \in {"prioritized", "redpanda", "wire", "client"}

Next ==
    /\ UNCHANGED part
    /\ \/ part = "prioritized" /\ PrioritizedNext
          /\ UNCHANGED <<redpandaVars, wireVars, rpcVars>>
       \/ part = "redpanda" /\ RedpandaNext
          /\ UNCHANGED <<prioritizedVars, wireVars, rpcVars>>
       \/ part = "wire" /\ WireNext
          /\ UNCHANGED <<prioritizedVars, redpandaVars, rpcVars>>
       \/ part = "client" /\ RpcNext
          /\ UNCHANGED <<prioritizedVars, redpandaVars, wireVars>>

Spec == Init /\ [][Next]_<<part, prioritizedVars, redpandaVars, wireVars, rpcVars>>

-----------------------------------------------------------------------------
(* Messages with and without a target, a dense gradient and a payload; the  *)
(* first is a PING, the third a gradient that was not compressed.           *)
Plain == [type |-> 1, sender |-> 1, sequence |-> 7, target |-> 2, grad |-> None,
          indices |-> None, version |-> 0, step |-> 0, incarnation |-> 3, payload |-> None]

TheControl ==
    {Plain, [Plain EXCEPT !.type = 5, !.target = None],
     [Plain EXCEPT !.target = None, !.type = 12, !.grad = <<1, 0, -1>>, !.version = 4, !.step = 5],
     [Plain EXCEPT !.type = 10, !.grad = <<2, -2>>, !.indices = <<2, 0>>],
     [Plain EXCEPT !.indices = <<2>>, !.step = 9],
     [Plain EXCEPT !.payload = <<>>], [Plain EXCEPT !.payload = <<5, 6>>, !.grad = <<-1>>]}

ThePriorities == {-1, 0, 2}
TheNames == <<1, 3>>
TheValues == -1..1
TheSamples == -3..4
=============================================================================
