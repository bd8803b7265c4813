---------------------------- MODULE MCMembership ----------------------------
(* Membership on small instances.  Peers are interchangeable, and so are    *)
(* timer handles; symmetry is used for safety only.                         *)
EXTENDS Membership, TLC

Symmetry == Permutations(Peer) \cup Permutations(Handle)

-----------------------------------------------------------------------------
(* Peers that have crashed: no message about them or from them arrives any *)
(* more, while this node goes on probing.  Other nodes may still suspect   *)
(* this one, and a crashed peer may be re-added with a higher incarnation. *)
SilentNext ==
    \/ \E p \in Peer, i \in Incarnation : AddPeer(p, i)
    \/ \E i \in Incarnation : HandleSuspectSelf(i)
    \/ Start
    \/ StopProbe
    \/ GetPendingUpdates
    \/ Loop

SilentSpec ==
    /\ Init
    /\ [][SilentNext]_vars
    /\ LoopFairness
    /\ WF_vars(\E p \in Peer : ProbeRound(p))
    /\ WF_vars(GetPendingUpdates)

(* Failure detection: a silent peer is declared DEAD while the manager runs. *)
SilentPeerDies ==
    \A p \in Peer : (phase = "running" /\ state[p] = "alive")
                      ~> (phase # "running" \/ state[p] = "dead")

=============================================================================
