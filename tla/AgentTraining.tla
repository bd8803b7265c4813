---------------------------- MODULE AgentTraining ----------------------------
(***************************************************************************)
(* One agent: the training loop (Agent.run, or MultiAgentSimulator.run_agent*)
(* when cfg.sim), the PPO trainer with its privacy mechanism, noise        *)
(* schedule and RDP accountant, and the ways the loop is brought to an end. *)
(*                                                                         *)
(* Everything runs on one event loop: other tasks take steps only where    *)
(* the training loop suspends, in its sleep and in the awaits of stop().   *)
(* A gradient vector is the minibatch it comes from, the noise multiplier  *)
(* used on it (0: none) and whether it was merged with the aggregate.      *)
(* Noise multipliers and Renyi divergences are integers, in units given by *)
(* the instance; orders are in tenths, as the default list has them.       *)
(***************************************************************************)
EXTENDS Integers, Sequences, FiniteSetsExt

CONSTANTS
    None,
    Signals,        \* the signals that may arrive, each one once
    Configs,        \* the configurations to start from, see Config
    NSteps,         \* training.n_steps
    NEpochs,        \* training.n_epochs
    NoiseMultiplier,          \* privacy.noise_multiplier
    MinNoise, MaxNoise,       \* NoiseScheduleConfig
    TotalSteps, WarmupSteps,  \* NoiseScheduleConfig
    Orders,         \* the orders of the accountant, in tenths
    Scale,          \* unit of divergences: 1/Scale
    Subsampled,     \* Subsampled[o][n]: divergence of a subsampled step
    Conversion,     \* Conversion[o]: (log(delta) + log(o)) / (1 - o)
    Infinity,       \* float('inf')
    CheckpointEvery,          \* 50 in the code
    MaxStep         \* bound on training steps

Noise == {NoiseMultiplier} \cup MinNoise..MaxNoise

(* dp: privacy.enabled; adaptive: privacy.adaptive_noise; batch:           *)
(* training.batch_size; sim: started by MultiAgentSimulator.               *)
Config == [dp: BOOLEAN, adaptive: BOOLEAN, batch: Nat \ {0}, sim: BOOLEAN]

(* Conversion is positive when delta * order < 1, which holds for the       *)
(* default delta 1e-5 and the default orders up to 63.  Subsampled may be   *)
(* negative: _compute_subsampled_rdp ends its sum at int(alpha), which      *)
(* leaves out the rest of the series when alpha is not an integer.          *)
ASSUME TrainingAssumption ==
    /\ Configs \subseteq Config
    /\ NSteps \in Nat \ {0} /\ NEpochs \in Nat \ {0} /\ Scale \in Nat \ {0}
    /\ MinNoise \in Nat \ {0} /\ MaxNoise \in Nat /\ MinNoise <= MaxNoise
    /\ NoiseMultiplier \in Nat \ {0}
    /\ TotalSteps \in Nat \ {0, 1} /\ WarmupSteps \in Nat
    /\ Orders # {} /\ Orders \subseteq Nat \ 0..10
    /\ Subsampled \in [Orders -> [Noise -> Int]]
    /\ Conversion \in [Orders -> Nat \ {0}]
    /\ Infinity \in Nat /\ CheckpointEvery \in Nat \ {0} /\ MaxStep \in Nat
    /\ "run" \notin Signals

VARIABLES
    cfg,
    main,       \* where the training loop is
    running,    \* Agent._running, or MultiAgentSimulator.running
    env,        \* the gymnasium environment
    task,       \* _gossip_task and membership's _probe_task
    stopper,    \* invocations of stop(): one per signal and that of run()
    cached,     \* a peer's gradients are in gradient_cache
    left,       \* minibatches left in this train_step
    step, version,  \* trainer.step, trainer.model_version
    local,      \* trainer.local_gradients
    grad,       \* the .grad of the model's parameters
    shared,     \* gossip.current_gradients
    updates,    \* calls of optimizer.step: what the policy is made of
    used,       \* the gradients the last of them consumed
    stepCount, rdp, history,    \* RDPAccountant
    saved       \* checkpoints written

loopVars == <<main, running, env, task, stopper, cached>>
accountVars == <<stepCount, rdp, history>>
trainVars == <<left, step, version, local, grad, shared, updates, used, saved>>
vars == <<cfg, loopVars, accountVars, trainVars>>

Stopper == Signals \cup {"run"}
Vector == [batch: Nat \ {0}, noise: Nat, merged: BOOLEAN]

(* None is not a gradient vector. *)
ASSUME NoneAssumption == None \notin Vector

TypeOK ==
    /\ cfg \in Configs
    /\ main \in {"start", "loop", "train", "sleep", "stop", "done"}
    /\ running \in BOOLEAN /\ cached \in BOOLEAN
    /\ env \in {"open", "closed"}
    /\ task \in [{"gossip", "membership"} -> {"none", "running", "cancelled", "ended"}]
    /\ stopper \in [Stopper -> {"none", "ready", "gossip", "membership", "done"}]
    /\ left \in Nat /\ step \in Nat /\ version \in Nat /\ updates \in Nat
    /\ version <= step /\ step <= MaxStep
    /\ local \in Vector \cup {None} /\ grad \in Vector \cup {None}
    /\ shared \in Vector \cup {None} /\ used \in Vector \cup {None}
    /\ stepCount \in Nat /\ rdp \in [Orders -> Int]
    /\ history \in Seq([noise: Noise, batch: Nat])
    /\ saved \subseteq [step: Nat, version: Nat, updates: Nat]

Init ==
    /\ cfg \in Configs
    /\ main = "start" /\ running = FALSE /\ env = "open"
    /\ task = [t \in {"gossip", "membership"} |-> "none"]
    /\ stopper = [s \in Stopper |-> "none"]
    /\ cached = FALSE
    /\ left = 0 /\ step = 0 /\ version = 0
    /\ local = None /\ grad = None /\ shared = None
    /\ updates = 0 /\ used = None
    /\ stepCount = 0 /\ rdp = [o \in Orders |-> 0] /\ history = <<>>
    /\ saved = {}

(* The training loop waits, so that the event loop can run other tasks. *)
Suspended ==
    \/ main = "sleep"
    \/ main = "stop" /\ stopper["run"] \in {"gossip", "membership"}

-----------------------------------------------------------------------------
(* Privacy *)

(* _precompute_schedule, linear (the strategy _setup_dp leaves in place),  *)
(* and its use with the step clamped to the last entry.                    *)
Schedule(n) ==
    LET idx == IF n < TotalSteps - 1 THEN n ELSE TotalSteps - 1
    IN MaxNoise - ((MaxNoise - MinNoise) * idx) \div (TotalSteps - 1)

(* get_noise_multiplier: the maximum during the warm-up. *)
ScheduledNoise(n) == IF n < WarmupSteps THEN MaxNoise ELSE Schedule(n)

(* DPMechanism.noise_multiplier when _apply_dp_noise privatizes: the       *)
(* scheduler, if there is one, has just set params.noise_multiplier.       *)
CurrentNoise == IF cfg.adaptive THEN ScheduledNoise(step) ELSE NoiseMultiplier

(* clip_gradients and add_noise. *)
Privatized(g) == [g EXCEPT !.noise = CurrentNoise]

(* _compute_rdp and _compute_subsampled_rdp; the latter is defined for a   *)
(* sample rate cfg.batch / NSteps of at most 1 only, see RateTooHigh.      *)
StepRdp(o, n) ==
    IF cfg.batch = NSteps THEN (Scale * o) \div (20 * n * n) ELSE Subsampled[o][n]

(* math.log(1 - q) raises ValueError. *)
RateTooHigh == cfg.batch > NSteps

(* Mutant: the divergence of a step replaces the sum. *)
AccountReplaces(n) ==
    /\ stepCount' = stepCount + 1
    /\ rdp' = [o \in Orders |-> StepRdp(o, n)]
    /\ history' = Append(history, [noise |-> n, batch |-> cfg.batch])

(* RDPAccountant.step *)
Account(n) ==
    /\ stepCount' = stepCount + 1
    /\ rdp' = [o \in Orders |-> rdp[o] + StepRdp(o, n)]
    /\ history' = Append(history, [noise |-> n, batch |-> cfg.batch])

(* get_epsilon *)
Epsilon ==
    LET positive == {e \in {rdp[o] + Conversion[o] : o \in Orders} : e > 0}
    IN IF positive = {} THEN Infinity ELSE Min(positive)

-----------------------------------------------------------------------------
(* Training *)

(* Both start() calls only create their task. *)
Begin ==
    /\ main = "start"
    /\ main' = "loop" /\ running' = TRUE
    /\ task' = [t \in DOMAIN task |-> "running"]
    /\ UNCHANGED <<cfg, env, stopper, cached, accountVars, trainVars>>

(* run() up to its loop *)
Start == ~ cfg.sim /\ Begin

(* run_simulation sets its flag and run_agent starts the agent's parts; a   *)
(* signal that came earlier is forgotten.                                   *)
SimulatorStart == cfg.sim /\ Begin

(* The loop test and collect_rollout, which clears the rollout buffer and   *)
(* fills it with NSteps transitions; train_step then takes a minibatch at a *)
(* time, NEpochs times through the buffer.                                  *)
Collect ==
    /\ main = "loop" /\ running /\ step < MaxStep
    /\ main' = "train"
    /\ left' = NEpochs * ((NSteps + cfg.batch - 1) \div cfg.batch)
    /\ UNCHANGED <<cfg, running, env, task, stopper, cached, accountVars,
                   step, version, local, grad, shared, updates, used, saved>>

(* An exception leaves the loop through its finally clause. *)
Raise == main' = "stop" /\ stopper' = [stopper EXCEPT !["run"] = "ready"]

(* The environment, external, raises in the middle of the rollout. *)
CollectRaises ==
    /\ main = "loop" /\ running
    /\ Raise
    /\ UNCHANGED <<cfg, running, env, task, cached, accountVars, trainVars>>

(* zero_grad(), loss.backward() and _extract_gradients(): what a merge left *)
(* in .grad is gone.                                                        *)
ComputedGradient == [batch |-> updates + 1, noise |-> 0, merged |-> FALSE]

(* set_gradient_vector(model, noisy_gradients) *)
NoisyGradient == IF cfg.dp THEN Privatized(ComputedGradient) ELSE ComputedGradient

(* Mutant: the noisy gradients go to the model only. *)
LocalGradientRaw == ComputedGradient

(* self.local_gradients = noisy_gradients *)
LocalGradient == NoisyGradient

(* Mutant: the last minibatch of a training step is not recorded. *)
ChargeButLast == IF cfg.dp /\ left > 1 THEN Account(CurrentNoise) ELSE UNCHANGED accountVars

(* The last part of _apply_dp_noise. *)
Charge == IF cfg.dp THEN Account(CurrentNoise) ELSE UNCHANGED accountVars

(* One pass of train_step's inner loop. *)
Minibatch ==
    /\ main = "train" /\ left > 0
    /\ ~ (cfg.dp /\ RateTooHigh)
    /\ local' = LocalGradient
    /\ grad' = NoisyGradient /\ used' = NoisyGradient
    /\ Charge
    /\ updates' = updates + 1 /\ left' = left - 1
    /\ UNCHANGED <<cfg, loopVars, step, version, shared, saved>>

(* The accountant raises after it counted the step, and after the noisy    *)
(* gradients were stored.                                                  *)
MinibatchRaises ==
    /\ main = "train" /\ left > 0
    /\ cfg.dp /\ RateTooHigh
    /\ local' = LocalGradient /\ grad' = NoisyGradient
    /\ stepCount' = stepCount + 1
    /\ Raise
    /\ UNCHANGED <<cfg, running, env, task, cached, rdp, history,
                   left, step, version, shared, updates, used, saved>>

(* Any other exception of train_step: in a forward pass or the statistics,  *)
(* between zero_grad() and the end of backward(), or once the raw gradients *)
(* are extracted and before the noisy ones replace them.                    *)
TrainRaises ==
    /\ main = "train"
    /\ \/ UNCHANGED <<local, grad>>
       \/ left > 0 /\ grad' = None /\ UNCHANGED local
       \/ left > 0 /\ local' = ComputedGradient /\ grad' = ComputedGradient
    /\ Raise
    /\ UNCHANGED <<cfg, running, env, task, cached, accountVars,
                   left, step, version, shared, updates, used, saved>>

(* Mutant: the version grows by the number of contributors. *)
NextVersionByContributors == IF cached THEN version + 2 ELSE version

(* The model_version that apply_aggregated_gradients, if called, leaves. *)
NextVersion == IF cached THEN version + 1 ELSE version

(* The end of train_step, then set_gradients, get_aggregated_gradients and, *)
(* with more than one contributor, apply_aggregated_gradients.             *)
(* set_gradients has just reset the aggregate to the local gradients.      *)
Merge ==
    /\ main = "train" /\ left = 0
    /\ step' = step + 1
    /\ shared' = local
    /\ grad' = IF cached THEN [local EXCEPT !.merged = TRUE] ELSE grad
    /\ version' = NextVersion
    /\ UNCHANGED <<cfg, running, env, task, cached, accountVars,
                   left, local, updates, used>>

(* Then the iteration comes to its sleep. *)
Publish == Merge /\ main' = "sleep" /\ UNCHANGED stopper

(* The rest of an iteration of run() saves a checkpoint.  The budget is    *)
(* compared to Epsilon only to log a warning.                              *)
Share ==
    /\ ~ cfg.sim /\ Publish
    /\ saved' = IF step' % CheckpointEvery = 0
                THEN saved \cup {[step |-> step', version |-> version', updates |-> updates]}
                ELSE saved

(* save_checkpoint, or os.makedirs before it, raises. *)
SaveRaises ==
    /\ ~ cfg.sim /\ Merge
    /\ step' % CheckpointEvery = 0
    /\ Raise
    /\ UNCHANGED saved

SimulatorShare == cfg.sim /\ Publish /\ UNCHANGED saved

(* GossipProtocol.handle_message stores a peer's gradients. *)
PeerGradient ==
    /\ Suspended /\ ~ cached
    /\ cached' = TRUE
    /\ UNCHANGED <<cfg, main, running, env, task, stopper, accountVars, trainVars>>

(* The sleep is over.  (At the bound on steps only a stop is awaited.) *)
Wake ==
    /\ main = "sleep"
    /\ step < MaxStep \/ ~ running \/ cfg.sim
    /\ main' = "loop"
    /\ UNCHANGED <<cfg, running, env, task, stopper, cached, accountVars, trainVars>>

Exit ==
    /\ main = "loop"
    /\ Raise
    /\ UNCHANGED <<cfg, running, env, task, cached, accountVars, trainVars>>

(* The loop test of run() fails. *)
Leave == ~ cfg.sim /\ ~ running /\ Exit

(* That of run_agent: stopped, or the duration is over. *)
SimulatorLeave == cfg.sim /\ Exit

-----------------------------------------------------------------------------
(* Stopping *)

(* handle_signal runs on the event loop and creates a task for stop(). *)
Signal(s) ==
    /\ ~ cfg.sim /\ stopper[s] = "none" /\ Suspended
    /\ stopper' = [stopper EXCEPT ![s] = "ready"]
    /\ UNCHANGED <<cfg, main, running, env, task, cached, accountVars, trainVars>>

(* The simulator's handler runs at once, wherever the loop is, and only    *)
(* clears the flag.                                                        *)
SimulatorSignal(s) ==
    /\ cfg.sim /\ stopper[s] = "none" /\ main # "done"
    /\ running' = FALSE
    /\ stopper' = [stopper EXCEPT ![s] = "done"]
    /\ UNCHANGED <<cfg, main, env, task, cached, accountVars, trainVars>>

(* A stop() may take its next step: that of run() in its finally clause,   *)
(* another one while the training loop is suspended and not finished.      *)
MayRun(s) == IF s = "run" THEN main = "stop" ELSE Suspended

Cancel(t) == task' = [task EXCEPT ![t] = IF @ = "running" THEN "cancelled" ELSE @]

(* Mutant: stop() does not clear the flag. *)
FlagKept == running

(* The flag after the first line of stop(); the finally clause of run_agent *)
(* in the simulator leaves the flag of all agents alone.                    *)
FlagCleared == cfg.sim /\ running

(* Mutant: a second stop() returns at once. *)
StopBeginsOnce(s) ==
    /\ stopper[s] = "ready" /\ MayRun(s)
    /\ running' = FlagCleared
    /\ IF running \/ cfg.sim
       THEN stopper' = [stopper EXCEPT ![s] = "gossip"] /\ Cancel("gossip") /\ UNCHANGED main
       ELSE /\ stopper' = [stopper EXCEPT ![s] = "done"]
            /\ main' = IF s = "run" THEN "done" ELSE main
            /\ UNCHANGED task
    /\ UNCHANGED <<cfg, env, cached, accountVars, trainVars>>

(* stop() up to the await in gossip.stop(). *)
StopBegins(s) ==
    /\ stopper[s] = "ready" /\ MayRun(s)
    /\ running' = FlagCleared
    /\ stopper' = [stopper EXCEPT ![s] = "gossip"]
    /\ Cancel("gossip")
    /\ UNCHANGED <<cfg, main, env, cached, accountVars, trainVars>>

(* Mutant: the task's loop catches its cancellation and goes on. *)
TaskGoesOn(t) ==
    /\ task[t] = "cancelled" /\ Suspended
    /\ task' = [task EXCEPT ![t] = "running"]
    /\ UNCHANGED <<cfg, main, running, env, stopper, cached, accountVars, trainVars>>

(* The cancelled task ends: _gossip_loop breaks, _probe_loop likewise. *)
TaskEnds(t) ==
    /\ task[t] = "cancelled" /\ Suspended
    /\ task' = [task EXCEPT ![t] = "ended"]
    /\ UNCHANGED <<cfg, main, running, env, stopper, cached, accountVars, trainVars>>

StopMembership(s) ==
    /\ stopper[s] = "gossip" /\ MayRun(s) /\ task["gossip"] = "ended"
    /\ stopper' = [stopper EXCEPT ![s] = "membership"]
    /\ Cancel("membership")
    /\ UNCHANGED <<cfg, main, running, env, cached, accountVars, trainVars>>

(* The end of stop().  When run() returns, its event loop is closed: stops *)
(* that signals started and that still wait are dropped.                   *)
StopEnds(s) ==
    /\ stopper[s] = "membership" /\ MayRun(s) /\ task["membership"] = "ended"
    /\ env' = "closed"
    /\ stopper' = [stopper EXCEPT ![s] = "done"]
    /\ main' = IF s = "run" THEN "done" ELSE main
    /\ UNCHANGED <<cfg, running, task, cached, accountVars, trainVars>>

-----------------------------------------------------------------------------
Train ==
    \/ Start \/ Collect \/ Minibatch \/ MinibatchRaises \/ Share \/ Wake \/ Leave
    \/ SimulatorStart \/ SimulatorShare \/ SimulatorLeave

Stop(s) == StopBegins(s) \/ StopMembership(s) \/ StopEnds(s)

Next ==
    \/ Train \/ CollectRaises \/ TrainRaises \/ SaveRaises \/ PeerGradient
    \/ \E s \in Signals : Signal(s) \/ SimulatorSignal(s)
    \/ \E s \in Stopper : Stop(s)
    \/ \E t \in {"gossip", "membership"} : TaskEnds(t)

(* The event loop runs what is ready; the environment and peers owe nothing. *)
Spec ==
    /\ Init /\ [][Next]_vars
    /\ WF_vars(Train)
    /\ \A s \in Stopper : WF_vars(Stop(s))
    /\ \A t \in {"gossip", "membership"} : WF_vars(TaskEnds(t))

-----------------------------------------------------------------------------
(* With privacy enabled, gradients offered to peers carry the noise of the *)
(* schedule, never less than its minimum, and were charged to the          *)
(* accountant with just that noise, also after an exception in the middle  *)
(* of a training step.                                                     *)
SharedIsPrivate ==
    cfg.dp /\ shared # None =>
        /\ shared.noise >= (IF cfg.adaptive THEN MinNoise ELSE NoiseMultiplier)
        /\ shared.batch \in DOMAIN history
        /\ history[shared.batch].noise = shared.noise

(* Partial sums of a sequence of integers. *)
Totals(c) ==
    LET sum[i \in 0..Len(c)] == IF i = 0 THEN 0 ELSE sum[i - 1] + c[i] IN sum

(* The divergences charged for one order, and what they add up to. *)
Charges(o) == [i \in DOMAIN history |-> StepRdp(o, history[i].noise)]
Spent(o) == Totals(Charges(o))[Len(history)]

(* The running divergences are the sum of what was charged, over all       *)
(* minibatches, epochs and noise levels, for every order.                  *)
DivergencesAdd == \A o \in Orders : rdp[o] = Spent(o)

(* Every update of the policy was charged exactly once, and the last one    *)
(* with the noise its gradients carry: the accountant's history has one     *)
(* entry for each call of optimizer.step, also after an exception in the    *)
(* middle of a training step.                                               *)
UpdatesCharged ==
    /\ Len(history) = IF cfg.dp THEN updates ELSE 0
    /\ cfg.dp /\ used # None => used.noise = history[updates].noise

(* Accounting for more steps never lowers the epsilon that get_epsilon     *)
(* reports, as test_composition asserts.                                   *)
EpsilonNeverFalls == [][Epsilon' >= Epsilon]_vars

Merged(g) == g # None /\ g.merged

(* "Merged gradients update the policy" (wiki/Architecture.md): when        *)
(* apply_aggregated_gradients has put merged gradients into the model's     *)
(* .grad, the next call of optimizer.step consumes them.                    *)
MergedUpdatesPolicy == [][updates' > updates /\ Merged(grad) => Merged(used')]_vars

(* No rollout starts on an environment that stop() closed, however the     *)
(* stops started by signals interleave with the training loop.             *)
NoRolloutOnClosedEnv ==
    [][main = "loop" /\ main' = "train" => env = "open"]_vars

(* When run() has returned the agent is down: the environment is closed    *)
(* and no task is left, although its event loop drops unfinished stops.    *)
StoppedCleanly ==
    main = "done" => env = "closed" /\ \A t \in DOMAIN task : task[t] = "ended"

(* A signal brings the agent to its end, as does a signal or the end of    *)
(* the duration in the simulator.                                          *)
SignalEndsAgent == \A s \in Signals : stopper[s] # "none" ~> main = "done"
=============================================================================
