---------------------------- MODULE MCRpcClient -----------------------------
(* Calls on a client that connects and disconnects freely. *)
EXTENDS RpcClient, TLC

Symmetry == Permutations(Request)
=============================================================================
