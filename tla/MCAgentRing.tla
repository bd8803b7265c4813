---------------------------- MODULE MCAgentRing -----------------------------
(* An agent's process, and the ring through which processes of one host     *)
(* exchange messages: three slots, on which the positions wrap around       *)
(* twice.  They share no state; a behaviour is about one of them, and only  *)
(* its fairness is assumed (Spec of AgentTraining, RingFairSpec).           *)
EXTENDS MCAgentTraining, SharedRing

VARIABLE part   \* which one

MCInit == Init /\ RingInit /\ part \in {"agent", "ring"}

MCNext ==
    /\ UNCHANGED part
    /\ \/ part = "agent" /\ Next /\ UNCHANGED ringVars
       \/ part = "ring" /\ RingNext /\ UNCHANGED vars

MCSpec ==
    /\ MCInit /\ [][MCNext]_<<part, vars, ringVars>>
    /\ WF_vars(part = "agent" /\ Train)
    /\ \A s \in Stopper : WF_vars(part = "agent" /\ Stop(s))
    /\ \A t \in {"gossip", "membership"} : WF_vars(part = "agent" /\ TaskEnds(t))
    /\ WF_ringVars(part = "ring" /\ PushGoesOn)
    /\ WF_ringVars(part = "ring" /\ PopGoesOn)
=============================================================================
