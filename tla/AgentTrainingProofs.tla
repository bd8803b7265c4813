------------------------- MODULE AgentTrainingProofs -------------------------
(* One agent under training, for any configuration, schedule, number of     *)
(* minibatches and set of signals.                                          *)
EXTENDS AgentTraining, WellFoundedInduction, TLAPS

(* Vectors published or held while training goes on were charged to the     *)
(* accountant with their own noise, which is one of the schedule's.         *)
Charged(g) ==
    cfg.dp /\ g # None =>
        /\ g.batch \in DOMAIN history
        /\ history[g.batch].noise = g.noise
        /\ g.noise >= (IF cfg.adaptive THEN MinNoise ELSE NoiseMultiplier)

(* An exception may leave an uncharged vector in local, but only on the way *)
(* out of the loop.                                                         *)
LocalCharged == main \notin {"stop", "done"} => Charged(local)

(* Inside train_step there is a minibatch left, or one was done; the bound  *)
(* on steps is not reached.                                                 *)
InTraining == main = "train" => step < MaxStep /\ (left > 0 \/ local # None)

(* The stages of the stops: that of run() begins when the loop is left and  *)
(* ends with it; those of signals run in an agent that was started.         *)
StopStages ==
    /\ main \in {"start", "loop", "train", "sleep"} => stopper["run"] = "none"
    /\ main = "done" => stopper["run"] = "done"
    /\ main = "start" => \A s \in Stopper : stopper[s] \in {"none", "done"}
    /\ cfg.sim => \A s \in Signals : stopper[s] \in {"none", "done"}

(* A stop that waits for the membership manager, or is past it, has seen    *)
(* the gossip task end.                                                     *)
GossipEndsFirst ==
    \A s \in Stopper :
        /\ stopper[s] = "membership" => task["gossip"] = "ended"
        /\ stopper[s] = "done" /\ (s = "run" \/ ~ cfg.sim) =>
              /\ task["gossip"] = "ended" /\ task["membership"] = "ended"
              /\ env = "closed"

(* A stop that began has cleared the flag, which nothing sets again; only   *)
(* the simulator keeps its flag, and its agents close the environment last. *)
ClosedForGood ==
    /\ ~ cfg.sim /\ (\E s \in Stopper : stopper[s] \in {"gossip", "membership", "done"})
          => ~ running /\ main # "start"
    /\ env = "closed" => IF cfg.sim THEN main = "done" ELSE ~ running /\ main # "start"

(* The inductive invariant. *)
IInv ==
    /\ TypeOK /\ InTraining /\ UpdatesCharged /\ LocalCharged /\ Charged(shared)
    /\ StopStages /\ GossipEndsFirst /\ ClosedForGood

-----------------------------------------------------------------------------
(* A part of a whole, in whole numbers. *)
LEMMA PartOfWhole ==
    ASSUME NEW d \in Nat, NEW t \in Nat \ {0}, NEW i \in 0..t
    PROVE  (d * i) \div t \in 0..d
  <1>1. d * i \in Nat /\ d * i <= d * t
    OBVIOUS
  <1>2. QED
    BY <1>1

(* A quotient of integers is one. *)
LEMMA DivType ==
    ASSUME NEW x \in Int, NEW y \in Nat \ {0}
    PROVE  x \div y \in Int
  OBVIOUS

(* The number of minibatches is positive. *)
LEMMA MinibatchesPositive ==
    ASSUME NEW n \in Nat \ {0}, NEW b \in Nat \ {0}, NEW e \in Nat \ {0}
    PROVE  e * ((n + b - 1) \div b) \in Nat \ {0}
  <1>1. (n + b - 1) \div b \in Nat \ {0}
    OBVIOUS
  <1>2. QED
    BY <1>1

(* The product of positive numbers is positive. *)
LEMMA SquarePositive ==
    ASSUME NEW n \in Nat \ {0}
    PROVE  20 * n * n \in Nat \ {0}
  OBVIOUS

(* The schedule stays between its minimum and its maximum. *)
LEMMA ScheduleRange ==
    ASSUME NEW n \in Nat
    PROVE  Schedule(n) \in MinNoise..MaxNoise
  <1> DEFINE idx == IF n < TotalSteps - 1 THEN n ELSE TotalSteps - 1
             d == MaxNoise - MinNoise
             t == TotalSteps - 1
  <1>1. d \in Nat /\ t \in Nat \ {0} /\ idx \in 0..t
    BY TrainingAssumption
  <1>2. (d * idx) \div t \in 0..d
    <2> HIDE DEF d, idx, t
    <2>1. QED
      BY <1>1, PartOfWhole
  <1>3. Schedule(n) = MaxNoise - (d * idx) \div t
    BY DEF Schedule
  <1> HIDE DEF idx, t
  <1>4. QED
    BY <1>2, <1>3, TrainingAssumption

(* The noise in use is one of the configuration's, and not below what was   *)
(* asked for.                                                               *)
LEMMA NoiseRange ==
    ASSUME TypeOK
    PROVE  /\ CurrentNoise \in Noise /\ CurrentNoise \in Nat \ {0}
           /\ CurrentNoise >= (IF cfg.adaptive THEN MinNoise ELSE NoiseMultiplier)
  <1>1. CASE cfg.adaptive
    <2>1. ScheduledNoise(step) \in MinNoise..MaxNoise
      BY ScheduleRange, TrainingAssumption, SMTT(30) DEF TypeOK, ScheduledNoise
    <2>2. QED
      BY <1>1, <2>1, TrainingAssumption DEF CurrentNoise, Noise
  <1>2. CASE ~ cfg.adaptive
    BY <1>2, TrainingAssumption DEF CurrentNoise, Noise
  <1>3. QED
    BY <1>1, <1>2

(* What the model is stepped with: the gradients of this minibatch, with    *)
(* the noise in use when privacy is enabled.                                *)
LEMMA NoisyGradientIs ==
    ASSUME TypeOK
    PROVE  /\ NoisyGradient \in Vector /\ NoisyGradient # None
           /\ NoisyGradient.batch = updates + 1 /\ NoisyGradient.merged = FALSE
           /\ cfg.dp => NoisyGradient.noise = CurrentNoise
  <1>1. updates + 1 \in Nat \ {0} /\ CurrentNoise \in Nat
    BY NoiseRange DEF TypeOK
  <1>2. NoisyGradient = [batch |-> updates + 1, merged |-> FALSE,
                         noise |-> IF cfg.dp THEN CurrentNoise ELSE 0]
    BY DEF NoisyGradient, Privatized, ComputedGradient
  <1>3. NoisyGradient \in Vector
    BY <1>1, <1>2 DEF Vector
  <1>4. QED
    BY <1>2, <1>3, NoneAssumption

(* Configurations are as declared. *)
LEMMA ConfigType ==
    ASSUME TypeOK
    PROVE  cfg.dp \in BOOLEAN /\ cfg.sim \in BOOLEAN /\ cfg.batch \in Nat \ {0}
  BY TrainingAssumption DEF TypeOK, Config

(* The noise of a step is positive. *)
LEMMA NoisePositive == ASSUME NEW n \in Noise PROVE n \in Nat \ {0}
  BY TrainingAssumption DEF Noise

(* A divergence is an integer. *)
LEMMA StepRdpType ==
    ASSUME TypeOK, NEW o \in Orders, NEW n \in Noise
    PROVE  StepRdp(o, n) \in Int
  <1>1. n \in Nat \ {0}
    BY NoisePositive
  <1>2. CASE cfg.batch = NSteps
    <2>1. Scale * o \in Int
      BY TrainingAssumption
    <2>2. 20 * n * n \in Nat \ {0}
      BY <1>1, SquarePositive
    <2>3. (Scale * o) \div (20 * n * n) \in Int
      BY <2>1, <2>2, DivType
    <2>4. QED
      BY <1>2, <2>3 DEF StepRdp
  <1>3. CASE cfg.batch # NSteps
    BY <1>3, TrainingAssumption DEF StepRdp
  <1>4. QED
    BY <1>2, <1>3

(* Accounting for a step adds one entry to the history. *)
LEMMA AccountStep ==
    ASSUME TypeOK, Account(CurrentNoise)
    PROVE  /\ stepCount' \in Nat /\ rdp' \in [Orders -> Int]
           /\ history' \in Seq([noise: Noise, batch: Nat])
           /\ Len(history') = Len(history) + 1
           /\ \A i \in DOMAIN history : i \in DOMAIN history' /\ history'[i] = history[i]
           /\ Len(history) + 1 \in DOMAIN history'
           /\ history'[Len(history) + 1].noise = CurrentNoise
  <1>1. CurrentNoise \in Noise /\ CurrentNoise \in Nat \ {0} /\ cfg.batch \in Nat
    BY NoiseRange, ConfigType
  <1>2. \A o \in Orders : StepRdp(o, CurrentNoise) \in Int
    BY <1>1, StepRdpType
  <1>3. rdp' \in [Orders -> Int]
    BY <1>2 DEF TypeOK, Account
  <1>4. [noise |-> CurrentNoise, batch |-> cfg.batch] \in [noise: Noise, batch: Nat]
    BY <1>1
  <1>5. history' \in Seq([noise: Noise, batch: Nat])
    BY <1>4 DEF TypeOK, Account
  <1>6. QED
    BY <1>3, <1>4, <1>5 DEF TypeOK, Account

-----------------------------------------------------------------------------
(* The end of an iteration keeps the types of what it writes. *)
LEMMA MergeType ==
    ASSUME TypeOK, InTraining, Merge
    PROVE  /\ step' \in Nat /\ version' \in Nat /\ version' <= step' /\ step' <= MaxStep
           /\ shared' \in Vector \cup {None} /\ grad' \in Vector \cup {None}
           /\ local # None
  <1>1. local # None /\ local \in Vector /\ step < MaxStep /\ step \in Nat /\ MaxStep \in Nat
    BY TrainingAssumption DEF TypeOK, InTraining, Merge
  <1>2. [local EXCEPT !.merged = TRUE] \in Vector
    BY <1>1 DEF Vector
  <1>3. /\ step' \in Nat /\ version' \in Nat /\ version' <= step' /\ step' <= MaxStep
    BY <1>1 DEF TypeOK, Merge, NextVersion
  <1>4. shared' \in Vector \cup {None} /\ grad' \in Vector \cup {None}
    BY <1>2 DEF TypeOK, Merge
  <1>5. QED
    BY <1>1, <1>3, <1>4

(* Every step keeps the types. *)
LEMMA TypeStep ==
    ASSUME TypeOK, InTraining, [Next]_vars
    PROVE  TypeOK'
  <1>1. CASE UNCHANGED vars
    BY <1>1 DEF TypeOK, vars, loopVars, accountVars, trainVars
  <1>2. CASE Begin
    BY <1>2 DEF Begin, TypeOK, accountVars, trainVars
  <1>3. CASE Collect
    <2>1. left' \in Nat
      BY <1>3, MinibatchesPositive, ConfigType, TrainingAssumption DEF Collect
    <2>2. QED
      BY <1>3, <2>1 DEF Collect, TypeOK, accountVars
  <1>4. CASE Minibatch
    <2>1. /\ NoisyGradient \in Vector /\ local' = NoisyGradient /\ grad' = NoisyGradient
          /\ used' = NoisyGradient
      BY <1>4, NoisyGradientIs DEF Minibatch, LocalGradient
    <2>2. /\ stepCount' \in Nat /\ rdp' \in [Orders -> Int]
          /\ history' \in Seq([noise: Noise, batch: Nat])
      <3>1. CASE cfg.dp
        BY <1>4, <3>1, AccountStep DEF Minibatch, Charge
      <3>2. CASE ~ cfg.dp
        BY <1>4, <3>2 DEF Minibatch, Charge, TypeOK, accountVars
      <3>3. QED
        BY <3>1, <3>2
    <2>3. updates' \in Nat /\ left' \in Nat
      BY <1>4 DEF Minibatch, TypeOK
    <2>4. QED
      BY <1>4, <2>1, <2>2, <2>3 DEF Minibatch, TypeOK, loopVars
  <1>5. CASE MinibatchRaises
    <2>1. /\ NoisyGradient \in Vector /\ local' = NoisyGradient /\ grad' = NoisyGradient
      BY <1>5, NoisyGradientIs DEF MinibatchRaises, LocalGradient
    <2>2. stopper' \in [Stopper -> {"none", "ready", "gossip", "membership", "done"}]
      BY <1>5 DEF MinibatchRaises, Raise, TypeOK, Stopper
    <2>3. QED
      BY <1>5, <2>1, <2>2 DEF MinibatchRaises, Raise, TypeOK
  <1>6. CASE Share
    <2>1. saved' \subseteq [step: Nat, version: Nat, updates: Nat]
      BY <1>6, MergeType DEF Share, Publish, TypeOK
    <2>2. QED
      BY <1>6, <2>1, MergeType DEF Share, Publish, Merge, TypeOK, accountVars
  <1>7. CASE SimulatorShare
    BY <1>7, MergeType DEF SimulatorShare, Publish, Merge, TypeOK, accountVars
  <1>8. CASE Wake
    BY <1>8 DEF Wake, TypeOK, accountVars, trainVars
  <1>9. CASE Exit \/ CollectRaises
    BY <1>9 DEF Exit, CollectRaises, Raise, TypeOK, accountVars, trainVars
  <1>10. CASE PeerGradient
    BY <1>10 DEF PeerGradient, TypeOK, accountVars, trainVars
  <1>11. CASE \E s \in Signals : Signal(s) \/ SimulatorSignal(s)
    BY <1>11, ZenonT(60) DEF Signal, SimulatorSignal, TypeOK, accountVars, trainVars
  <1>12. CASE \E s \in Stopper : StopBegins(s) \/ StopMembership(s)
    <2>1. PICK s \in Stopper : StopBegins(s) \/ StopMembership(s)
      BY <1>12
    <2>2. task' \in [{"gossip", "membership"} -> {"none", "running", "cancelled", "ended"}]
      BY <2>1 DEF StopBegins, StopMembership, Cancel, TypeOK
    <2>3. stopper' \in [Stopper -> {"none", "ready", "gossip", "membership", "done"}]
      BY <2>1 DEF StopBegins, StopMembership, TypeOK
    <2>4. running' \in BOOLEAN
      BY <2>1 DEF StopBegins, StopMembership, FlagCleared, TypeOK
    <2>5. QED
      BY <2>1, <2>2, <2>3, <2>4 DEF StopBegins, StopMembership, TypeOK, accountVars, trainVars
  <1>13. CASE \E s \in Stopper : StopEnds(s)
    BY <1>13 DEF StopEnds, TypeOK, accountVars, trainVars
  <1>14. CASE \E t \in {"gossip", "membership"} : TaskEnds(t)
    BY <1>14 DEF TaskEnds, TypeOK, accountVars, trainVars
  <1>15. CASE TrainRaises
    <2>1. ComputedGradient \in Vector
      BY DEF ComputedGradient, Vector, TypeOK
    <2>2. local' \in Vector \cup {None} /\ grad' \in Vector \cup {None}
      BY <1>15, <2>1 DEF TrainRaises, TypeOK
    <2>3. stopper' \in [Stopper -> {"none", "ready", "gossip", "membership", "done"}]
      BY <1>15 DEF TrainRaises, Raise, TypeOK, Stopper
    <2>4. QED
      BY <1>15, <2>2, <2>3 DEF TrainRaises, Raise, TypeOK, accountVars
  <1>16. CASE SaveRaises
    <2>1. stopper' \in [Stopper -> {"none", "ready", "gossip", "membership", "done"}]
      BY <1>16 DEF SaveRaises, Raise, TypeOK, Stopper
    <2>2. QED
      BY <1>16, <2>1, MergeType DEF SaveRaises, Merge, Raise, TypeOK, accountVars
  <1>17. QED
    BY <1>1, <1>2, <1>3, <1>4, <1>5, <1>6, <1>7, <1>8, <1>9, <1>10, <1>11, <1>12, <1>13, <1>14,
       <1>15, <1>16
       DEF Next, Train, Start, SimulatorStart, Leave, SimulatorLeave, Stop

-----------------------------------------------------------------------------
(* What the accounting and the vectors depend on. *)
vectorVars == <<cfg, history, updates, local, shared, used>>

(* The part of the invariant that is about gradients and their accounting. *)
Accounted ==
    /\ InTraining /\ UpdatesCharged /\ LocalCharged /\ Charged(shared)

(* A minibatch charges what it computed. *)
LEMMA MinibatchAccounted ==
    ASSUME TypeOK, Accounted, Minibatch
    PROVE  Accounted'
  <1>1. /\ local' = NoisyGradient /\ used' = NoisyGradient /\ UNCHANGED <<cfg, shared, main, step>>
        /\ updates' = updates + 1
    BY DEF Minibatch, LocalGradient, loopVars
  <1>2. /\ NoisyGradient # None /\ NoisyGradient.batch = updates + 1
        /\ NoisyGradient.merged = FALSE
        /\ cfg.dp => NoisyGradient.noise = CurrentNoise
    BY NoisyGradientIs
  <1>3. InTraining'
    BY <1>1, <1>2 DEF Accounted, InTraining, Minibatch
  <1>4. CASE cfg.dp
    <2>1. /\ Len(history) = updates /\ Len(history') = updates + 1
          /\ \A i \in DOMAIN history : i \in DOMAIN history' /\ history'[i] = history[i]
          /\ updates + 1 \in DOMAIN history' /\ history'[updates + 1].noise = CurrentNoise
      BY <1>4, AccountStep DEF Accounted, UpdatesCharged, Minibatch, Charge
    <2>2. UpdatesCharged'
      BY <1>1, <1>2, <1>4, <2>1 DEF UpdatesCharged
    <2>3. Charged(local)' /\ LocalCharged'
      BY <1>1, <1>2, <2>1, <1>4, NoiseRange DEF LocalCharged, Charged
    <2>4. Charged(shared)'
      BY <1>1, <2>1 DEF Accounted, Charged
    <2>5. QED
      BY <1>3, <2>2, <2>3, <2>4 DEF Accounted
  <1>5. CASE ~ cfg.dp
    <2>1. history' = history
      BY <1>5 DEF Minibatch, Charge, accountVars
    <2>2. UpdatesCharged'
      BY <1>1, <1>5, <2>1 DEF Accounted, UpdatesCharged
    <2>3. LocalCharged' /\ Charged(shared)'
      BY <1>1, <1>5 DEF LocalCharged, Charged
    <2>4. QED
      BY <1>3, <2>2, <2>3 DEF Accounted
  <1>6. QED
    BY <1>4, <1>5

(* Every step keeps gradients and accounting together. *)
LEMMA AccountedStep ==
    ASSUME TypeOK, Accounted, [Next]_vars
    PROVE  Accounted'
  <1>1. CASE Minibatch
    BY <1>1, MinibatchAccounted
  <1>2. CASE MinibatchRaises
    BY <1>2 DEF MinibatchRaises, Raise, Accounted, InTraining, UpdatesCharged, LocalCharged,
                Charged
  <1>3. CASE Merge /\ main' \in {"sleep", "stop"}
    BY <1>3 DEF Merge, accountVars, Accounted, InTraining, UpdatesCharged, LocalCharged,
                Charged
  <1>4. CASE Collect
    <2>1. left' \in Nat \ {0}
      BY <1>4, MinibatchesPositive, ConfigType, TrainingAssumption DEF Collect
    <2>2. QED
      BY <1>4, <2>1 DEF Collect, accountVars, Accounted, InTraining, UpdatesCharged,
                        LocalCharged, Charged
  <1>5. CASE UNCHANGED <<vectorVars, left, step>> /\ main' = main
    BY <1>5 DEF vectorVars, Accounted, InTraining, UpdatesCharged, LocalCharged, Charged
  <1>6. CASE /\ UNCHANGED <<vectorVars, left, step>>
             /\ main' # "train" /\ main \notin {"stop", "done"}
    BY <1>6 DEF vectorVars, Accounted, InTraining, UpdatesCharged, LocalCharged, Charged
  <1>7. CASE UNCHANGED <<vectorVars, left, step>> /\ main' = "done"
    BY <1>7 DEF vectorVars, Accounted, InTraining, UpdatesCharged, LocalCharged, Charged
  <1>8. CASE TrainRaises
    BY <1>8 DEF TrainRaises, Raise, accountVars, Accounted, InTraining, UpdatesCharged,
                 LocalCharged, Charged
  <1>9. \/ Minibatch \/ MinibatchRaises \/ Collect \/ TrainRaises
        \/ Merge /\ main' \in {"sleep", "stop"}
        \/ /\ UNCHANGED <<vectorVars, left, step>>
           /\ \/ main' = main \/ main' = "done"
              \/ main' # "train" /\ main \notin {"stop", "done"}
    BY DEF Next, vars, Train, Start, SimulatorStart, Begin, Share, SimulatorShare, Publish,
           SaveRaises, Wake, Leave,
           SimulatorLeave, Exit, CollectRaises, Raise, PeerGradient, Signal, SimulatorSignal,
           Stop, StopBegins, StopMembership, StopEnds, TaskEnds,
           loopVars, accountVars, trainVars, vectorVars
  <1>10. QED
    BY <1>1, <1>2, <1>3, <1>4, <1>5, <1>6, <1>7, <1>8, <1>9

-----------------------------------------------------------------------------
(* The part of the invariant that is about the end of an agent. *)
Ending == StopStages /\ GossipEndsFirst /\ ClosedForGood

(* What it depends on. *)
endingVars == <<cfg, main, running, env, task, stopper>>

(* Every step keeps the order in which an agent is taken down. *)
LEMMA EndingStep ==
    ASSUME TypeOK, Ending, [Next]_vars
    PROVE  Ending'
  <1> USE DEF Ending, StopStages, GossipEndsFirst, ClosedForGood
  <1>1. "run" \in Stopper /\ "run" \notin Signals /\ \A s \in Signals : s \in Stopper
    BY TrainingAssumption DEF Stopper
  <1>2. CASE UNCHANGED endingVars
    BY <1>2 DEF endingVars
  <1>3. CASE Begin
    BY <1>1, <1>3 DEF Begin, TypeOK
  <1>4. CASE /\ UNCHANGED <<cfg, running, env, task, stopper>>
             /\ main \in {"loop", "train", "sleep"} /\ main' \in {"loop", "train", "sleep"}
    BY <1>1, <1>4
  <1>5. CASE /\ UNCHANGED <<cfg, running, env, task>> /\ Raise
             /\ main \in {"loop", "train"}
    BY <1>1, <1>5 DEF Raise, TypeOK
  <1>6. CASE \E s \in Signals : Signal(s)
    BY <1>1, <1>6 DEF Signal, Suspended, TypeOK
  <1>7. CASE \E s \in Signals : SimulatorSignal(s)
    BY <1>1, <1>7 DEF SimulatorSignal, TypeOK
  <1>8. CASE \E s \in Stopper : StopBegins(s)
    BY <1>1, <1>8, ZenonT(60) DEF StopBegins, MayRun, Suspended, FlagCleared, Cancel, TypeOK
  <1>9. CASE \E s \in Stopper : StopMembership(s)
    BY <1>1, <1>9 DEF StopMembership, MayRun, Suspended, Cancel, TypeOK
  <1>10. CASE \E s \in Stopper : StopEnds(s)
    <2>1. PICK s \in Stopper : StopEnds(s)
      BY <1>10
    <2>2. /\ stopper[s] = "membership" /\ task["membership"] = "ended"
          /\ task["gossip"] = "ended" /\ env' = "closed"
          /\ stopper' = [stopper EXCEPT ![s] = "done"]
          /\ main' = IF s = "run" THEN "done" ELSE main
          /\ UNCHANGED <<cfg, running, task>>
      BY <2>1 DEF StopEnds
    <2>3. main = "stop" \/ (s # "run" /\ main = "sleep")
      BY <2>1 DEF StopEnds, MayRun, Suspended
    <2>4. cfg.sim => s = "run"
      BY <2>2 DEF Stopper
    <2>5. StopStages'
      BY <1>1, <2>2, <2>3 DEF TypeOK
    <2>6. GossipEndsFirst'
      BY <2>2 DEF TypeOK
    <2>7. ClosedForGood'
      BY <2>2, <2>3, <2>4 DEF TypeOK
    <2>8. QED
      BY <2>5, <2>6, <2>7
  <1>11. CASE \E t \in {"gossip", "membership"} : TaskEnds(t)
    BY <1>1, <1>11 DEF TaskEnds, Suspended, TypeOK
  <1>12. \/ UNCHANGED endingVars \/ Begin
         \/ /\ UNCHANGED <<cfg, running, env, task, stopper>>
            /\ main \in {"loop", "train", "sleep"} /\ main' \in {"loop", "train", "sleep"}
         \/ /\ UNCHANGED <<cfg, running, env, task>> /\ Raise
            /\ main \in {"loop", "train"}
         \/ \E s \in Signals : Signal(s) \/ SimulatorSignal(s)
         \/ \E s \in Stopper : StopBegins(s) \/ StopMembership(s) \/ StopEnds(s)
         \/ \E t \in {"gossip", "membership"} : TaskEnds(t)
    BY DEF Next, vars, Train, Start, SimulatorStart, Collect, Minibatch, MinibatchRaises,
           TrainRaises, Share, SimulatorShare, Publish, SaveRaises, Merge, Wake, Leave,
           SimulatorLeave, Exit, CollectRaises, PeerGradient, Stop, loopVars, accountVars, trainVars, endingVars
  <1>13. QED
    BY <1>2, <1>3, <1>4, <1>5, <1>6, <1>7, <1>8, <1>9, <1>10, <1>11, <1>12

-----------------------------------------------------------------------------
(* The initial state satisfies the inductive invariant. *)
LEMMA InvInit == Init => IInv
  <1> SUFFICES ASSUME Init PROVE IInv
    OBVIOUS
  <1>1. TypeOK
    <2>1. /\ stopper \in [Stopper -> {"none", "ready", "gossip", "membership", "done"}]
          /\ task \in [{"gossip", "membership"} -> {"none", "running", "cancelled", "ended"}]
          /\ rdp \in [Orders -> Int] /\ history \in Seq([noise: Noise, batch: Nat])
      BY DEF Init
    <2>2. /\ left \in Nat /\ step \in Nat /\ version \in Nat /\ updates \in Nat
          /\ version <= step /\ step <= MaxStep /\ stepCount \in Nat
      BY TrainingAssumption DEF Init
    <2>3. /\ main \in {"start", "loop", "train", "sleep", "stop", "done"}
          /\ running \in BOOLEAN /\ cached \in BOOLEAN /\ env \in {"open", "closed"}
          /\ cfg \in Configs /\ saved \subseteq [step: Nat, version: Nat, updates: Nat]
          /\ local = None /\ grad = None /\ shared = None /\ used = None
      BY DEF Init
    <2>4. QED
      BY <2>1, <2>2, <2>3 DEF TypeOK
  <1>2. Accounted
    BY DEF Init, Accounted, InTraining, UpdatesCharged, LocalCharged, Charged
  <1>3. Ending
    BY DEF Init, Ending, StopStages, GossipEndsFirst, ClosedForGood, Stopper
  <1>4. QED
    BY <1>1, <1>2, <1>3 DEF IInv, Accounted, Ending

(* Every step keeps it. *)
LEMMA InvStep == IInv /\ [Next]_vars => IInv'
  <1> SUFFICES ASSUME IInv, [Next]_vars PROVE IInv'
    OBVIOUS
  <1>1. TypeOK /\ InTraining /\ Accounted /\ Ending
    BY DEF IInv, Accounted, Ending
  <1>2. TypeOK'
    BY <1>1, TypeStep
  <1>3. Accounted'
    BY <1>1, AccountedStep
  <1>4. Ending'
    BY <1>1, EndingStep
  <1>5. QED
    BY <1>2, <1>3, <1>4 DEF IInv, Accounted, Ending

(* Every behaviour of an agent satisfies the inductive invariant. *)
THEOREM Invariance == Spec => []IInv
  BY InvInit, InvStep, PTL DEF Spec

(* The state of trainer, accountant and loop is as declared, and a model    *)
(* version never exceeds the training step.                                 *)
THEOREM TrainingTypes == Spec => []TypeOK
  <1>1. IInv => TypeOK
    BY DEF IInv
  <1>2. QED
    BY <1>1, Invariance, PTL

(* With privacy enabled no gradients are offered to peers without noise of  *)
(* at least the configured level and an entry in the accountant for it.     *)
THEOREM NothingSharedRaw == Spec => []SharedIsPrivate
  <1>1. IInv => SharedIsPrivate
    BY DEF IInv, Charged, SharedIsPrivate
  <1>2. QED
    BY <1>1, Invariance, PTL

(* optimizer.step and RDPAccountant.step go together, one for one, with the *)
(* noise of the gradients the optimizer consumed, whatever part of the      *)
(* training loop raises.                                                    *)
THEOREM ChargedOnce == Spec => []UpdatesCharged
  <1>1. IInv => UpdatesCharged
    BY DEF IInv
  <1>2. QED
    BY <1>1, Invariance, PTL

(* When run() returns, the environment is closed and both tasks have ended, *)
(* whatever signals arrived meanwhile.                                      *)
THEOREM DownWhenDone == Spec => []StoppedCleanly
  <1>1. IInv => StoppedCleanly
    <2> SUFFICES ASSUME IInv, main = "done"
                 PROVE  env = "closed" /\ \A t \in DOMAIN task : task[t] = "ended"
      BY DEF StoppedCleanly
    <2>1. "run" \in Stopper /\ stopper["run"] = "done"
      BY DEF IInv, StopStages, Stopper
    <2>2. env = "closed" /\ task["gossip"] = "ended" /\ task["membership"] = "ended"
      BY <2>1 DEF IInv, GossipEndsFirst
    <2>3. DOMAIN task = {"gossip", "membership"}
      BY DEF IInv, TypeOK
    <2>4. QED
      BY <2>2, <2>3
  <1>2. QED
    BY <1>1, Invariance, PTL

(* No step of the training loop starts a rollout on an environment that a   *)
(* stop has closed.                                                         *)
THEOREM RolloutsOnOpenEnv == Spec => NoRolloutOnClosedEnv
  <1>1. IInv /\ [Next]_vars => [main = "loop" /\ main' = "train" => env = "open"]_vars
    <2> SUFFICES ASSUME IInv, [Next]_vars, main = "loop", main' = "train"
                 PROVE  env = "open"
      OBVIOUS
    <2>1. Collect
      BY DEF Next, vars, Train, Start, SimulatorStart, Begin, Minibatch, MinibatchRaises,
             TrainRaises, Share, SimulatorShare, Publish, SaveRaises, Merge, Wake, Leave, SimulatorLeave, Exit, Raise,
             CollectRaises, PeerGradient, Signal, SimulatorSignal, Stop, StopBegins,
             StopMembership, StopEnds, TaskEnds, loopVars
    <2>2. env # "closed"
      BY <2>1 DEF Collect, IInv, ClosedForGood
    <2>3. QED
      BY <2>2 DEF IInv, TypeOK
  <1>2. QED
    BY <1>1, Invariance, PTL DEF Spec, NoRolloutOnClosedEnv

-----------------------------------------------------------------------------
(* The sum of the charges.  Totals is defined by recursion; that it exists  *)
(* and is unique follows by looking at a least length, or a least index,    *)
(* for which it is not so.                                                  *)

(* A set of natural numbers that is not empty has a least one. *)
LEMMA LeastExists ==
    ASSUME NEW S \in SUBSET Nat, S # {}
    PROVE  \E m \in S : \A x \in S : m <= x
  <1>1. PICK m \in S : \A x \in S : ~ (<<x, m>> \in OpToRel(<, Nat))
    BY NatLessThanWellFounded, WFMin
  <1>2. ASSUME NEW x \in S PROVE m <= x
    <2>1. x \in Nat /\ m \in Nat /\ <<x, m>> \in Nat \X Nat
      OBVIOUS
    <2>2. ~ (x < m)
      BY <1>1, <2>1 DEF OpToRel
    <2>3. QED
      BY <2>1, <2>2
  <1>3. QED
    BY <1>2

(* t holds the partial sums of the first n elements of c. *)
AreTotals(t, c, n) ==
    t[0] = 0 /\ \A i \in 1..n : t[i] = t[i - 1] + c[i]

(* Partial sums exist. *)
LEMMA TotalsExist ==
    ASSUME NEW n \in Nat, NEW c
    PROVE  \E t : AreTotals(t, c, n)
  <1> DEFINE S == {k \in 0..n : ~ \E t : AreTotals(t, c, k)}
  <1>1. SUFFICES ASSUME S # {} PROVE FALSE
    <2>1. n \in 0..n
      OBVIOUS
    <2>2. n \notin S => \E t : AreTotals(t, c, n)
      BY <2>1
    <2>3. QED
      BY <2>2
  <1>2. PICK m \in S : \A x \in S : m <= x
    <2>1. S \in SUBSET Nat
      OBVIOUS
    <2> HIDE DEF S
    <2>2. QED
      BY <1>1, <2>1, LeastExists
  <1>3. m \in 0..n /\ ~ \E t : AreTotals(t, c, m)
    OBVIOUS
  <1>4. CASE m = 0
    <2> DEFINE z == [i \in 0..0 |-> 0]
    <2>1. AreTotals(z, c, 0)
      BY DEF AreTotals
    <2>2. QED
      BY <1>3, <1>4, <2>1
  <1>5. CASE m # 0
    <2>1. m - 1 \in 0..n /\ ~ (m <= m - 1) /\ m \in Nat
      BY <1>3, <1>5
    <2>2. m - 1 \notin S
      BY <1>2, <2>1
    <2>3. PICK t : AreTotals(t, c, m - 1)
      BY <2>1, <2>2
    <2> DEFINE u == [i \in 0..m |-> IF i = m THEN t[m - 1] + c[m] ELSE t[i]]
    <2>4. t[0] = 0 /\ \A i \in 1..(m - 1) : t[i] = t[i - 1] + c[i]
      BY <2>3 DEF AreTotals
    <2>5. u[0] = 0
      BY <1>5, <2>1, <2>4
    <2>6. ASSUME NEW i \in 1..m PROVE u[i] = u[i - 1] + c[i]
      <3>1. i - 1 \in 0..m /\ i \in 0..m /\ i - 1 # m
        BY <2>1
      <3>2. u[i - 1] = t[i - 1]
        BY <3>1
      <3>3. CASE i = m
        BY <3>1, <3>2, <3>3
      <3>4. CASE i # m
        <4>1. i \in 1..(m - 1)
          BY <2>1, <3>4
        <4>2. QED
          BY <2>4, <3>1, <3>2, <3>4, <4>1
      <3>5. QED
        BY <3>3, <3>4
    <2> HIDE DEF u
    <2>7. AreTotals(u, c, m)
      BY <2>5, <2>6 DEF AreTotals
    <2>8. QED
      BY <1>3, <2>7
  <1>6. QED
    BY <1>4, <1>5

(* Partial sums are unique. *)
LEMMA TotalsUnique ==
    ASSUME NEW n \in Nat, NEW c, NEW t, NEW u, AreTotals(t, c, n), AreTotals(u, c, n)
    PROVE  t[n] = u[n]
  <1> DEFINE S == {i \in 0..n : t[i] # u[i]}
  <1>1. CASE S = {}
    BY <1>1
  <1>2. CASE S # {}
    <2>1. PICK k \in S : \A x \in S : k <= x
      <3>1. S \in SUBSET Nat
        OBVIOUS
      <3> HIDE DEF S
      <3>2. QED
        BY <1>2, <3>1, LeastExists
    <2>2. k \in 0..n /\ t[k] # u[k]
      OBVIOUS
    <2>3. k # 0
      BY <2>2 DEF AreTotals
    <2>4. k - 1 \in 0..n /\ ~ (k <= k - 1) /\ k \in 1..n
      BY <2>2, <2>3
    <2>5. t[k - 1] = u[k - 1]
      BY <2>1, <2>4
    <2>6. QED
      BY <2>2, <2>4, <2>5 DEF AreTotals
  <1>3. QED
    BY <1>1, <1>2

(* Totals holds the partial sums. *)
LEMMA TotalsAre ==
    ASSUME NEW c \in Seq(Int)
    PROVE  AreTotals(Totals(c), c, Len(c))
  <1> DEFINE P(f) == f = [i \in 0..Len(c) |-> IF i = 0 THEN 0 ELSE f[i - 1] + c[i]]
             n == Len(c)
  <1>1. n \in Nat
    OBVIOUS
  <1>2. Totals(c) = CHOOSE f : P(f)
    BY DEF Totals
  <1>3. PICK t : AreTotals(t, c, n)
    <2> HIDE DEF n
    <2>1. QED
      BY <1>1, TotalsExist
  <1> DEFINE g == [i \in 0..n |-> t[i]]
  <1>4. P(g)
    <2>1. ASSUME NEW i \in 0..n PROVE g[i] = IF i = 0 THEN 0 ELSE g[i - 1] + c[i]
      <3>1. CASE i = 0
        BY <1>3, <3>1 DEF AreTotals
      <3>2. CASE i # 0
        <4>1. i \in 1..n /\ i - 1 \in 0..n
          BY <1>1, <3>2
        <4>2. QED
          BY <1>3, <3>2, <4>1 DEF AreTotals
      <3>3. QED
        BY <3>1, <3>2
    <2>2. g = [i \in 0..n |-> g[i]]
      OBVIOUS
    <2> HIDE DEF g
    <2>3. QED
      BY <2>1, <2>2
  <1> HIDE DEF P, g
  <1>5. P(Totals(c))
    BY <1>2, <1>4
  <1>6. \A i \in 0..n : Totals(c)[i] = IF i = 0 THEN 0 ELSE Totals(c)[i - 1] + c[i]
    BY <1>5 DEF P
  <1>7. \A i \in 1..n : i \in 0..n /\ i # 0
    BY <1>1
  <1>8. 0 \in 0..n
    BY <1>1
  <1> HIDE DEF n
  <1>9. AreTotals(Totals(c), c, n)
    BY <1>6, <1>7, <1>8 DEF AreTotals
  <1>10. QED
    BY <1>9 DEF n

(* Append as a function. *)
LEMMA AppendIs ==
    ASSUME NEW c \in Seq(Int), NEW x \in Int
    PROVE  /\ Append(c, x) \in [1..(Len(c) + 1) -> Int]
           /\ \A i \in 1..Len(c) : Append(c, x)[i] = c[i]
           /\ Append(c, x)[Len(c) + 1] = x
  <1>1. Append(c, x) \in Seq(Int) /\ Len(Append(c, x)) = Len(c) + 1 /\ Len(c) \in Nat
    OBVIOUS
  <1>2. Append(c, x) \in [1..(Len(c) + 1) -> Int]
    <2>1. \A d \in Seq(Int) : d \in [1..Len(d) -> Int]
      OBVIOUS
    <2>2. QED
      BY <1>1, <2>1, Zenon
  <1>3. \A i \in 1..Len(c) : Append(c, x)[i] = c[i]
    OBVIOUS
  <1>4. Append(c, x)[Len(c) + 1] = x
    OBVIOUS
  <1>5. QED
    BY <1>2, <1>3, <1>4

(* One more element adds itself to the last sum. *)
LEMMA TotalsAppend ==
    ASSUME NEW c \in Seq(Int), NEW x \in Int
    PROVE  Totals(Append(c, x))[Len(c) + 1] = Totals(c)[Len(c)] + x
  <1> DEFINE d == Append(c, x)
             n == Len(c)
  <1>1. /\ n \in Nat /\ d \in Seq(Int) /\ Len(d) = n + 1 /\ d[n + 1] = x
        /\ \A i \in 1..n : c[i] = d[i]
    OBVIOUS
  <1> HIDE DEF d
  <1>2. AreTotals(Totals(c), c, n) /\ AreTotals(Totals(d), d, n + 1)
    BY <1>1, TotalsAre
  <1> HIDE DEF n
  <1>3. Totals(c)[n] = Totals(d)[n]
    <2>1. \A i \in 1..n : i \in 1..(n + 1)
      BY <1>1
    <2>2. AreTotals(Totals(d), c, n)
      BY <1>1, <1>2, <2>1 DEF AreTotals
    <2>3. QED
      BY <1>1, <1>2, <2>2, TotalsUnique
  <1>4. n + 1 \in 1..(n + 1) /\ (n + 1) - 1 = n
    BY <1>1
  <1>5. Totals(d)[n + 1] = Totals(d)[n] + d[n + 1]
    BY <1>2, <1>4 DEF AreTotals
  <1>6. QED
    BY <1>1, <1>3, <1>5 DEF d, n

(* The charges of an order are integers. *)
LEMMA ChargesType ==
    ASSUME TypeOK, NEW o \in Orders
    PROVE  Charges(o) \in Seq(Int) /\ Len(Charges(o)) = Len(history)
  <1>1. ASSUME NEW i \in DOMAIN history PROVE StepRdp(o, history[i].noise) \in Int
    <2> DEFINE R == [noise: Noise, batch: Nat]
    <2>1. history \in Seq(R)
      BY DEF TypeOK
    <2>2. history[i] \in R
      <3> HIDE DEF R
      <3>1. QED
        BY <2>1
    <2>3. history[i].noise \in Noise
      BY <2>2
    <2>4. QED
      BY <2>3, StepRdpType
  <1>2. DOMAIN history = 1..Len(history) /\ Len(history) \in Nat
    BY DEF TypeOK
  <1>3. QED
    BY <1>1, <1>2 DEF Charges

(* Accounting for a step adds its divergence to every sum. *)
LEMMA AccountAdds ==
    ASSUME TypeOK, DivergencesAdd, Account(CurrentNoise), UNCHANGED cfg
    PROVE  DivergencesAdd'
  <1> SUFFICES ASSUME NEW o \in Orders PROVE rdp'[o] = Spent(o)'
    BY DEF DivergencesAdd
  <1> DEFINE x == StepRdp(o, CurrentNoise)
  <1>1. x \in Int /\ CurrentNoise \in Noise
    BY NoiseRange, StepRdpType
  <1>2. Charges(o) \in Seq(Int) /\ Len(Charges(o)) = Len(history)
    BY ChargesType
  <1>3. history' = Append(history, [noise |-> CurrentNoise, batch |-> cfg.batch])
    BY DEF Account
  <1>4. Charges(o)' = Append(Charges(o), x)
    <2>1. /\ Len(history') = Len(history) + 1 /\ DOMAIN history' = 1..(Len(history) + 1)
          /\ DOMAIN history = 1..Len(history) /\ Len(history) \in Nat
          /\ \A i \in 1..Len(history) : history'[i] = history[i]
          /\ history'[Len(history) + 1].noise = CurrentNoise
      BY <1>3 DEF TypeOK
    <2>2. \A n : StepRdp(o, n)' = StepRdp(o, n)
      BY DEF StepRdp
    <2>3. Charges(o)' = [i \in 1..(Len(history) + 1) |-> StepRdp(o, history'[i].noise)]
      BY <2>1 DEF Charges, StepRdp
    <2>4. \A i \in 1..Len(history) : StepRdp(o, history'[i].noise) = Charges(o)[i]
      BY <2>1 DEF Charges
    <2>5. StepRdp(o, history'[Len(history) + 1].noise) = x
      BY <2>1
    <2> HIDE DEF x
    <2>6. /\ Append(Charges(o), x) \in [1..(Len(history) + 1) -> Int]
          /\ \A i \in 1..Len(history) : Append(Charges(o), x)[i] = Charges(o)[i]
          /\ Append(Charges(o), x)[Len(history) + 1] = x
      BY <1>1, <1>2, AppendIs
    <2>7. \A i \in 1..(Len(history) + 1) :
             StepRdp(o, history'[i].noise) = Append(Charges(o), x)[i]
      BY <2>1, <2>4, <2>5, <2>6
    <2>8. QED
      BY <2>3, <2>6, <2>7
  <1> HIDE DEF x
  <1>5. Len(history') = Len(history) + 1
    BY <1>3 DEF TypeOK
  <1>6. Spent(o)' = Spent(o) + x
    BY <1>1, <1>2, <1>4, <1>5, TotalsAppend DEF Spent
  <1>7. rdp'[o] = rdp[o] + x
    BY DEF Account, x
  <1>8. QED
    BY <1>6, <1>7 DEF DivergencesAdd

(* The accountant's divergence of every order is the sum of what its        *)
(* history charged, through all minibatches, schedules and exceptions.      *)
THEOREM DivergencesCompose == Spec => []DivergencesAdd
  <1>1. Init => DivergencesAdd
    <2> SUFFICES ASSUME Init, NEW o \in Orders PROVE rdp[o] = Spent(o)
      BY DEF DivergencesAdd
    <2>1. history = <<>> /\ rdp[o] = 0
      BY DEF Init
    <2>2. Charges(o) \in Seq(Int) /\ Len(Charges(o)) = 0
      BY <2>1 DEF Charges
    <2>3. Totals(Charges(o))[0] = 0
      BY <2>2, TotalsAre DEF AreTotals
    <2>4. QED
      BY <2>1, <2>3 DEF Spent
  <1>2. IInv /\ DivergencesAdd /\ [Next]_vars => DivergencesAdd'
    <2> SUFFICES ASSUME IInv, DivergencesAdd, [Next]_vars PROVE DivergencesAdd'
      OBVIOUS
    <2>1. CASE UNCHANGED <<cfg, rdp, history>>
      BY <2>1 DEF DivergencesAdd, Spent, Charges, StepRdp
    <2>2. CASE Account(CurrentNoise) /\ UNCHANGED cfg
      BY <2>2, AccountAdds DEF IInv
    <2>3. UNCHANGED <<cfg, rdp, history>> \/ (Account(CurrentNoise) /\ UNCHANGED cfg)
      BY DEF Next, vars, Train, Start, SimulatorStart, Begin, Collect, Minibatch, Charge,
             MinibatchRaises, TrainRaises, Publish, Share, SimulatorShare, SaveRaises, Merge, Wake, Leave, SimulatorLeave,
             Exit, CollectRaises, Raise, PeerGradient, Signal, SimulatorSignal, Stop,
             StopBegins, StopMembership, StopEnds, TaskEnds, loopVars, accountVars, trainVars
    <2>4. QED
      BY <2>1, <2>2, <2>3
  <1>3. QED
    BY <1>1, <1>2, Invariance, PTL DEF Spec

=============================================================================
