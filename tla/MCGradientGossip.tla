-------------------------- MODULE MCGradientGossip --------------------------
(* Two agents that know each other.  a1 gossips by push-pull with one peer  *)
(* per round; a2 only pushes, with the default fan-out, and may restart.    *)
EXTENDS GradientGossip, TLC

CONSTANTS a1, a2, dc

Pair(x, y) == a1 :> x @@ a2 :> y

TheLinks      == Pair({a2}, {a1})
TheDatacenter == Pair(dc, dc)
TheFanout     == Pair(1, 3)
ThePushPull   == Pair(TRUE, FALSE)
TheMaxStep    == Pair(2, 2)
TheMaxLife    == Pair(0, 1)
=============================================================================
