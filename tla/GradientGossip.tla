--------------------------- MODULE GradientGossip ---------------------------
(***************************************************************************)
(* GossipProtocol (python/gossip_rl/gossip/protocol.py) and the training   *)
(* loop that feeds it (Agent.run), for a set of agents and a network.      *)
(*                                                                         *)
(* A gradient vector is the training step it comes from; the mean of       *)
(* several vectors is the set of its contributions.  cache_lock and        *)
(* aggregation_lock are never held across a suspension, so a handler and   *)
(* one iteration of the training loop up to its sleep are one step each.   *)
(* The transport is external: a message that was sent may be delivered     *)
(* late, out of order, repeatedly or never.                                *)
(***************************************************************************)
EXTENDS Naturals, FiniteSets

CONSTANTS
    Agent,
    None,        \* no gradients yet, no cache entry
    Links,       \* Links[a]: the peers a's membership reports ALIVE
    Datacenter,  \* Datacenter[a], None when not configured
    Fanout,      \* Fanout[a]: config.fanout of a
    PushPull,    \* PushPull[a]: config.push_pull of a
    Pullers,     \* bound: agents on whose behalf PULL_GRADIENT is sent
    MaxStep,     \* bound: MaxStep[a] training steps in each life of a
    MaxLife      \* bound: MaxLife[a] restarts of a

ASSUME ConfigAssumption ==
    /\ Links \in [Agent -> SUBSET Agent]
    /\ \A a \in Agent : a \notin Links[a] /\ IsFiniteSet(Links[a])
    /\ Fanout \in [Agent -> Nat] /\ PushPull \in [Agent -> BOOLEAN]
    /\ Pullers \subseteq Agent
    /\ MaxStep \in [Agent -> Nat] /\ MaxLife \in [Agent -> Nat]

VARIABLES
    life,        \* restarts of the agent's process
    step,        \* trainer.step
    version,     \* trainer.model_version
    current,     \* current_gradients with the step and version set with them
    cache,       \* gradient_cache
    aggregated,  \* aggregated_gradients, as the set of gradients averaged
    applied,     \* what the trainer last merged into its gradients
    newest,      \* newest[a][b]: latest of b's gradients a was ever handed
    network      \* messages sent

agentVars == <<life, step, version, current, cache, aggregated, applied, newest>>
vars == <<life, step, version, current, cache, aggregated, applied, newest, network>>

(* A gradient vector.  Step 0 stands for the empty array that an agent     *)
(* without gradients sends; its shape differs from every real one.         *)
Gradient == UNION {[from: {a}, life: 0..MaxLife[a], step: 0..MaxStep[a],
                    version: 0..MaxStep[a]] : a \in Agent}

(* None is not a gradient vector. *)
ASSUME NoneAssumption == None \notin Gradient

Message == [type: {"push", "pull", "push_pull"}, to: Agent, grad: Gradient]

TypeOK ==
    /\ life \in [Agent -> Nat] /\ step \in [Agent -> Nat] /\ version \in [Agent -> Nat]
    /\ \A a \in Agent :
          life[a] <= MaxLife[a] /\ version[a] <= step[a] /\ step[a] <= MaxStep[a]
    /\ current \in [Agent -> Gradient \cup {None}]
    /\ cache \in [Agent -> [Agent -> Gradient \cup {None}]]
    /\ aggregated \in [Agent -> SUBSET Gradient]
    /\ applied \in [Agent -> SUBSET Gradient]
    /\ newest \in [Agent -> [Agent -> Gradient \cup {None}]]
    /\ network \in SUBSET Message

Init ==
    /\ life = [a \in Agent |-> 0]
    /\ step = [a \in Agent |-> 0]
    /\ version = [a \in Agent |-> 0]
    /\ current = [a \in Agent |-> None]
    /\ cache = [a \in Agent |-> [b \in Agent |-> None]]
    /\ aggregated = [a \in Agent |-> {}]
    /\ applied = [a \in Agent |-> {}]
    /\ newest = [a \in Agent |-> [b \in Agent |-> None]]
    /\ network = {}

-----------------------------------------------------------------------------
(* The training loop *)

Cached(a) == {b \in Agent : cache[a][b] # None}

(* get_aggregated_gradients: the second component of its result. *)
Contributors(a) == Cardinality(Cached(a)) + 1

(* One iteration of Agent.run: train_step, set_gradients (which resets the *)
(* aggregate to the local gradients), get_aggregated_gradients and, with   *)
(* more than one contributor, apply_aggregated_gradients.                  *)
Train(a) ==
    LET g == [from |-> a, life |-> life[a], step |-> step[a] + 1, version |-> version[a]]
    IN /\ step[a] < MaxStep[a]
       /\ step' = [step EXCEPT ![a] = @ + 1]
       /\ current' = [current EXCEPT ![a] = g]
       /\ aggregated' = [aggregated EXCEPT ![a] = {g}]
       /\ IF Contributors(a) > 1
          THEN /\ applied' = [applied EXCEPT ![a] = {g}]
               /\ version' = [version EXCEPT ![a] = @ + 1]
          ELSE UNCHANGED <<applied, version>>
       /\ UNCHANGED <<life, cache, newest, network>>

(* External: the agent's process ends and is started again under the same   *)
(* id, while its peers go on.  All of this state is in memory only; a       *)
(* checkpoint is written by Agent.run and read by nothing, so a new life    *)
(* numbers its steps and versions from zero.                                *)
Restart(a) ==
    /\ life[a] < MaxLife[a]
    /\ life' = [life EXCEPT ![a] = @ + 1]
    /\ step' = [step EXCEPT ![a] = 0]
    /\ version' = [version EXCEPT ![a] = 0]
    /\ current' = [current EXCEPT ![a] = None]
    /\ cache' = [cache EXCEPT ![a] = [b \in Agent |-> None]]
    /\ newest' = [newest EXCEPT ![a] = [b \in Agent |-> None]]
    /\ aggregated' = [aggregated EXCEPT ![a] = {}]
    /\ applied' = [applied EXCEPT ![a] = {}]
    /\ UNCHANGED network

-----------------------------------------------------------------------------
(* Sending *)

AtMost(m, n) == IF m < n THEN m ELSE n

IsLocal(b, a) == Datacenter[b] # None /\ Datacenter[b] = Datacenter[a]

(* Mutant: the places left over are not filled from the own datacenter. *)
TargetsUnfilled(a) ==
    LET same   == {b \in Links[a] : IsLocal(b, a)}
        others == Links[a] \ same
        local  == AtMost(Cardinality(same), (Fanout[a] * 2) \div 3)
        remote == AtMost(Fanout[a] - local, Cardinality(others))
    IN {S \in SUBSET Links[a] :
           Cardinality(S \cap same) = local /\ Cardinality(S \cap others) = remote}

(* _select_gossip_peers: about two thirds from the own datacenter, the     *)
(* rest from others, then again from the own one.  (No send ever fails in  *)
(* _gossip_round, so no peer is ever in backoff.)                          *)
Targets(a) ==
    LET same   == {b \in Links[a] : IsLocal(b, a)}
        others == Links[a] \ same
        local  == AtMost(Cardinality(same), (Fanout[a] * 2) \div 3)
        remote == AtMost(Fanout[a] - local, Cardinality(others))
    IN {S \in SUBSET Links[a] :
           /\ Cardinality(S) = AtMost(Fanout[a], Cardinality(Links[a]))
           /\ Cardinality(S \cap others) = remote}

(* Mutant: a round before the first gradients is not skipped. *)
GossipRoundUnchecked(a) ==
    /\ Links[a] # {}
    /\ \E S \in Targets(a) :
          network' = network \cup
              {[type |-> IF PushPull[a] THEN "push_pull" ELSE "push",
                to |-> b, grad |-> current[a]] : b \in S}
    /\ UNCHANGED agentVars

(* _gossip_round sends current_gradients, not the aggregate.  The code     *)
(* counts the message where the transport, external here, would send it.   *)
GossipRound(a) ==
    /\ current[a] # None
    /\ Links[a] # {}
    /\ \E S \in Targets(a) :
          network' = network \cup
              {[type |-> IF PushPull[a] THEN "push_pull" ELSE "push",
                to |-> b, grad |-> current[a]] : b \in S}
    /\ UNCHANGED agentVars

Empty(a) == [from |-> a, life |-> life[a], step |-> 0, version |-> 0]

(* Mutant: the version is read from the trainer, not kept with the gradients. *)
AnswerLiveVersion(a) ==
    IF current[a] # None THEN [current[a] EXCEPT !.version = version[a]] ELSE Empty(a)

(* What an agent answers to a pull. *)
Answer(a) == IF current[a] # None THEN current[a] ELSE Empty(a)

(* External: a peer asks for gradients with a PULL_GRADIENT message, which *)
(* the protocol answers and never sends itself.                            *)
RequestPull(a, b) ==
    /\ a \in Pullers /\ b \in Links[a]
    /\ network' = network \cup {[type |-> "pull", to |-> b, grad |-> Empty(a)]}
    /\ UNCHANGED agentVars

-----------------------------------------------------------------------------
(* Receiving *)

(* Mutant: one number that did not grow makes an update stale. *)
StaleEither(a, g) ==
    LET c == cache[a][g.from] IN
    c # None /\ (c.step >= g.step \/ c.version >= g.version)

(* The test of _process_gradient for an update it already has. *)
Stale(a, g) ==
    LET c == cache[a][g.from] IN
    c # None /\ c.step >= g.step /\ c.version >= g.version

(* Real gradients in a cache; an empty array has another shape. *)
Usable(c) == {c[b] : b \in {x \in Agent : c[x] # None /\ c[x].step > 0}}

Later(g, h) == g.life > h.life \/ (g.life = h.life /\ g.step > h.step)

(* Mutant: the new gradients are added to the aggregate there is. *)
ProcessGradientAccumulates(a, g) ==
    /\ newest' = IF newest[a][g.from] = None \/ Later(g, newest[a][g.from])
                 THEN [newest EXCEPT ![a][g.from] = g] ELSE newest
    /\ IF Stale(a, g) THEN UNCHANGED <<cache, aggregated>>
       ELSE /\ cache' = [cache EXCEPT ![a][g.from] = g]
            /\ aggregated' = IF current[a] # None /\ g.step > 0
                             THEN [aggregated EXCEPT ![a] = @ \cup {g}] ELSE aggregated

(* _process_gradient with the trailing _aggregate_gradients. *)
ProcessGradient(a, g) ==
    /\ newest' = IF newest[a][g.from] = None \/ Later(g, newest[a][g.from])
                 THEN [newest EXCEPT ![a][g.from] = g] ELSE newest
    /\ IF Stale(a, g) THEN UNCHANGED <<cache, aggregated>>
       ELSE LET c == [cache[a] EXCEPT ![g.from] = g] IN
            /\ cache' = [cache EXCEPT ![a] = c]
            /\ aggregated' = IF current[a] # None /\ Usable(c) # {}
                             THEN [aggregated EXCEPT ![a] = {current[a]} \cup Usable(c)]
                             ELSE aggregated

Reply(a, m) == [type |-> "push", to |-> m.grad.from, grad |-> Answer(a)]

(* handle_message for the three gradient messages.  The reply travels back *)
(* as a PUSH_GRADIENT.                                                     *)
HandlePush(m) ==
    /\ m.type = "push"
    /\ ProcessGradient(m.to, m.grad)
    /\ UNCHANGED <<life, step, version, current, applied, network>>

HandlePull(m) ==
    /\ m.type = "pull"
    /\ network' = network \cup {Reply(m.to, m)}
    /\ UNCHANGED agentVars

HandlePushPull(m) ==
    /\ m.type = "push_pull"
    /\ ProcessGradient(m.to, m.grad)
    /\ network' = network \cup {Reply(m.to, m)}
    /\ UNCHANGED <<life, step, version, current, applied>>

-----------------------------------------------------------------------------
Deliver(m) == HandlePush(m) \/ HandlePull(m) \/ HandlePushPull(m)

Next ==
    \/ \E a \in Agent : Train(a) \/ Restart(a) \/ GossipRound(a)
    \/ \E a, b \in Agent : RequestPull(a, b)
    \/ \E m \in network : Deliver(m)

Spec == Init /\ [][Next]_vars

(* Training and gossip loops keep running, and the network in the end       *)
(* delivers pushed gradients; used to ask whether a neighbour is heard.     *)
FairSpec ==
    /\ Spec
    /\ \A a \in Agent : WF_vars(Train(a)) /\ WF_vars(GossipRound(a))
    /\ \A a, b \in Agent, g \in Gradient :
          (b # a /\ g.from = a /\ g.step > 0 /\ g.version < g.step) =>
              LET m == [type |-> IF PushPull[a] THEN "push_pull" ELSE "push",
                        to |-> b, grad |-> g]
              IN WF_vars(m \in network /\ Deliver(m))

-----------------------------------------------------------------------------
(* What b sent to a comes from one life of b. *)
OneLife(a, b) ==
    \A m, n \in network :
        m.to = a /\ n.to = a /\ m.grad.from = b /\ n.grad.from = b
            => m.grad.life = n.grad.life

(* The cache follows its senders: whatever the order and number of         *)
(* deliveries, the entry of a peer is the latest of its gradients that     *)
(* arrived ("Check if we already have newer gradients from this peer").    *)
(* A restarted sender numbers its gradients from zero again, so this holds *)
(* while what it sent comes from one life; with messages of two lives      *)
(* about, the order in which they arrive decides.                          *)
CacheIsNewest ==
    \A a, b \in Agent :
        /\ cache[a][b] = None <=> newest[a][b] = None
        /\ OneLife(a, b) => cache[a][b] = newest[a][b]

(* The aggregate is never a mixture of old and new: it is the local        *)
(* gradients alone (just reset), or these and every real entry of the      *)
(* cache, each one once.                                                   *)
AggregateConsistent ==
    \A a \in Agent :
        IF current[a] = None THEN aggregated[a] = {}
        ELSE aggregated[a] \in {{current[a]}, {current[a]} \cup Usable(cache[a])}

(* A sender's numbers order its gradients: a later step never carries a    *)
(* smaller version, which is what the staleness test relies on.            *)
VersionsFollowSteps ==
    \A m, n \in network :
        m.grad.from = n.grad.from /\ m.grad.life = n.grad.life
            /\ m.grad.step <= n.grad.step
        => m.grad.version <= n.grad.version

(* Every agent that goes on gossiping is heard by the peers it is linked to. *)
NeighboursHear ==
    \A a \in Agent : \A b \in Links[a] :
        current[a] # None ~> cache[b][a] # None /\ cache[b][a].step > 0

-----------------------------------------------------------------------------
(* "Get merged gradients from all contributors": what the trainer applies  *)
(* contains a gradient of another agent.                                   *)
AppliedIsMerged ==
    \A a \in Agent : applied[a] # {} => \E g \in applied[a] : g.from # a
=============================================================================
