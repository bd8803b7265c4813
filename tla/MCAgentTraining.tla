-------------------------- MODULE MCAgentTraining ---------------------------
(* Rollouts of two transitions, once as two minibatches, once as one, and   *)
(* once with a batch size that the rollout cannot fill.  The schedule       *)
(* decays from 3 to 1 in three steps after a warm-up of one; training goes  *)
(* one step beyond it.                                                      *)
EXTENDS AgentTraining, TLC

CONSTANTS s1, s2

TheConfigs ==
    {[dp |-> d, adaptive |-> a, batch |-> b, sim |-> m] :
        d \in BOOLEAN, a \in BOOLEAN, b \in 1..3, m \in BOOLEAN}

(* What _compute_subsampled_rdp and the conversion in get_epsilon give for   *)
(* orders of the default list, sample rate 1/2, noise multipliers 1, 2 and  *)
(* 3 and delta 1e-5, in thousandths.                                        *)
TheSubsampled ==
    19 :> <<-280, -280, -280>> @@ 29 :> <<222, -2, -35>> @@ 39 :> <<628, 96, 29>>
    @@ 89 :> <<3019, 470, 156>> @@ 630 :> <<30796, 7171, 2797>>

TheConversion ==
    19 :> 12079 @@ 29 :> 5499 @@ 39 :> 3501 @@ 89 :> 1181 @@ 630 :> 119

TheOrders == DOMAIN TheConversion

(* One agent that accounts for subsampled steps with a constant noise.      *)
PlainConfig == {[dp |-> TRUE, adaptive |-> FALSE, batch |-> 1, sim |-> FALSE]}
=============================================================================
