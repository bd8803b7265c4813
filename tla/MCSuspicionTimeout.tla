------------------------- MODULE MCSuspicionTimeout -------------------------
(* Membership with a history variable: the timers that were started by the  *)
(* present suspicion of their peer.                                         *)
EXTENDS Membership

VARIABLE fresh

HInit == Init /\ fresh = {}

Begins(p) == state[p] # "suspect" /\ state'[p] = "suspect"

HNext ==
    /\ Next
    /\ fresh' = {h \in Handle : /\ owner'[h] # NoPeer
                                /\ \/ owner[h] = NoPeer
                                   \/ h \in fresh /\ ~Begins(owner'[h])}

HSpec == HInit /\ [][HNext]_<<vars, fresh>>

(* "Confirm a peer as dead after suspicion timeout": the timer that ends a  *)
(* suspicion was started when the suspicion began, so a peer has the whole  *)
(* timeout to refute it before _confirm_dead marks it DEAD.                 *)
FullTimeoutBeforeDead ==
    [][\A h \in Handle : ConfirmDead(h) /\ state[owner[h]] = "suspect"
                           => h \in fresh]_<<vars, fresh>>
=============================================================================
