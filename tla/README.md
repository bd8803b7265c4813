# Verification of the gossip-based distributed RL training system

TLA+ models of the parts of the repository that run concurrently, exchange
messages or account for what was done, the TLC runs that check them on small instances, and theorems that
TLAPS proves for every instance. Paths below are relative to the repository.

## 1. The system

An *agent* (`python/gossip_rl/agent.py`) trains a PPO policy and shares its
gradients with a few peers per round. All of an agent's Python code runs on one
asyncio event loop. A separate C++ library (`cpp/`) offers RPC over TCP and over
shared memory; the Python code does not call it yet: where it would send a
message it only counts it ("This would send through transport layer").

| Part | State | Operations | What is hard | What makes it correct |
|---|---|---|---|---|
| Membership manager (`gossip/membership.py`, `peer.py`) | peer table with incarnations, suspicion timers, pending probes, update queue | message handlers, probe task, timer callbacks, add/remove, start/stop | tasks that interleave at every await, timers that fire while being replaced, a lock held across awaits | every suspicion is timed and ends; an entry in the timer table is live; refutations are current; silent peers are found |
| Gossip protocol (`gossip/protocol.py`) | current gradients, cache per peer, aggregate | gossip round, push, pull, push-pull, aggregation, peer selection | messages late, repeated, reordered or lost; restarted senders | a cache entry never rolls back; the aggregate is consistent with the cache; neighbours are heard |
| Agent and simulator loops (`agent.py`, `scripts/launch_multi_agent.py`) | running flag, tasks, environment | start, iterate, handle signals, stop | signals and exceptions at any iteration, several stops at once | a stop ends everything exactly once and the loop never goes on afterwards |
| PPO trainer and privacy (`training/ppo.py`, `privacy/`) | gradients in three places, noise level, accountant | rollout, minibatch, merge, checkpoint | noise and charge decided in different objects, an exception between them | what leaves the agent is noisy and charged; what is applied is merged from several agents |
| Replay buffers (`training/replay.py`) | deques, priorities, Kafka producer and consumer | add, sample, update, start, stop, close | a consumer thread beside the learner, joins that time out, failed deliveries | nothing stored twice, lost or attributed to another experience |
| Compression and messages (`gossip/compression.py`, `message.py`) | the residual of error feedback | compress, decompress, pack, unpack | ties, boundaries, optional fields | nothing is lost or starved; what is unpacked is what was packed |
| Shared memory ring (`cpp/include/rpc/buffer_pool.hpp`) | two positions, slots | `try_push`, `try_pop` in two processes | lock-free, non-atomic copies | a bounded FIFO queue, elements whole |
| RPC client (`cpp/src/rpc_client.cpp`) | connection, pending requests, futures | connect, call, wait, on_complete, cancel, disconnect; events of the loop thread | several threads, late answers, lost and replaced connections | no future lost, overwritten or completed twice |
| TCP transport, event loop, buffer pool, shared memory transport, RPC server, connection pool | connections, queues, buffers | accept, send, receive, acquire, release, dispatch | callbacks on another thread, exhausted pools | see the plan |
| Networks, configuration, command line, other scripts | | | numeric code, or code that runs once | |

`PROJECT.json` lists all parts with their status, and the hazards: the places in
this code that tests hardly reach, each at its line, with the properties aimed
at it.

## 2. Modules

| Module | Models |
|---|---|
| `Membership` | one membership manager and everything that can happen to it |
| `MCMembership`, `MCSuspicionTimeout` | instances of it: silent peers; a history variable for suspicion timers |
| `MembershipProofs` | theorems about it |
| `GradientGossip`, `MCGradientGossip`, `GradientGossipProofs` | agents that train and gossip over an unreliable network |
| `RingFifo` | abstract specification: a bounded FIFO queue |
| `SharedRing`, `SharedRingProofs` | the ring, shown to implement `RingFifo` |
| `RpcClient`, `MCRpcClient`, `RpcClientProofs` | the client and its futures over a TCP connection |
| `AgentTraining`, `MCAgentTraining`, `AgentTrainingProofs` | one agent: training loop, trainer, privacy, signals and stop |
| `PrioritizedReplay`, `RedpandaReplay`, and their `...Proofs` | the replay buffers |
| `GradientWire`, `GradientWireProofs` | a gradient from compression through the byte format to decompression |
| `MCDataPath` | instances of the replay buffers, the wire and the client in one run |
| `MCAgentRing` | instances of an agent and of the ring in one run |

Parts in one run share no state: the variable `part` says which of them a
behaviour is about, and the others stay in their initial state.

Definitions named "Mutant" are plausible bugs. Replacing the definition that
follows by the mutant makes TLC report the property it is paired with, which
shows that the property depends on the code and is not true by construction.

### Membership

`state` and `incarnation` are `peers`; a peer outside the table is `"absent"`.
`suspicion_timers` is the dictionary of the same name. A timer handle is in use
while `owner[h]` names its peer; once its callback ran it is in `fired`, and the
`_confirm_dead` task it created is pending. `peer_lock` and `updates_lock` are
never held across a suspension, so handlers that take only these are single
steps. `probe_lock` is held across awaits, and is modelled: `probe.at` says
where the probe task is, and ACK handlers that find the lock taken wait in
`ackWaiting`. `stop()` has two steps, before and after it awaits the probe task.
When `_indirect_probe` finds helpers it waits for the lock that `_probe_peer`
holds (`ProbeBlocks`); the rest of that function is never reached. The probe
remembers a `Peer` object; `probe.stale` keeps that object's incarnation when
the table has replaced it, because the SUSPECT update is built from it.
PINGs and ACKs carry the default incarnation 0, as `create_ping` and
`create_ack` leave it. Messages come from the transport, which is external: in
any order, repeated, or never; only sequence numbers that were sent are ACKed.
`add_peer` is given an ALIVE peer, since every caller builds a new `Peer`. The
state LEFT is left out: nothing sets it.

### GradientGossip

A gradient vector is represented by who computed it, in which life (restart
count), step and model version; a mean is the set of the vectors averaged. Both
locks of the protocol are held only without suspension, so handlers are single
steps, and so is an iteration of the training loop up to its sleep. `network`
is the set of messages ever sent: delivering without removing gives delay,
reordering, repetition and loss. The transport is external, and so is the
sender of PULL_GRADIENT, which the protocol answers and never sends. The empty
array that an agent without gradients answers with has step 0 and is never
averaged, since its shape differs. `Restart` stands for the end of a process and
the start of a new one, which is external: all of its state is in memory, and
messages of the old life are still about. Backoff is left out because nothing in
`_gossip_round` can fail. `newest` is a history variable.

### SharedRing

One step per load or store of a position; an element is copied in two halves,
so that a torn copy is visible. `try_push` reads its own position first, which
nobody else writes, so the load of the other position is its first step.
Release and acquire order the copies before the positions. `MaxPos` bounds the
positions, which are 64 bit numbers in the code. One producer and one consumer
are what the type is made for; `ShmConnection::send` takes no lock that would
keep a second sender out, so this is an assumption about its users.

### RpcClient

A region under `pending_mutex_` or a future's mutex is a step. `call_async` has
two steps (register, send), `on_message` two (remove, complete). `status` is the
future's response, `"open"` until it is completed; `"ANSWERED"` stands for any
status the server sent. `link` is `connection_`; `stale` and `oldWire` describe
earlier connections that the transport still holds, whose events reach the same
callbacks. Assumed of the application: connecting, disconnecting and calling do
not overlap (`connection_` is not protected), and it reconnects only when
`is_connected()` is false. `RpcConnectionPool` hands one client to several
threads, whose calls may then overlap; that is not modelled. Nor is a second
`on_complete` that replaces the first callback, and of a response only the
status: payload and error text are moved out to whoever reads the response
first. Server and network are external.

### AgentTraining

`main` is where `Agent.run` is (or the simulator's `run_agent`, when `cfg.sim`).
Nothing else runs on the event loop while the training loop does not suspend, so
the other tasks, the `stop()` tasks of signals (`stopper`) and the messages of
peers take steps only in its sleep and in the awaits of its own `stop()`. The
simulator's signal handler is the exception: it is a real signal handler and
clears the flag anywhere. `task` holds the gossip and the probe task; a
`stop()` cancels each and awaits it. When `run()` returns its event loop is
closed, which drops stops that still wait.

A gradient vector is the minibatch it comes from, the noise multiplier used on
it and whether it was merged. It exists in `local_gradients` (`local`), in the
parameters' `.grad` (`grad`) and at the gossip protocol (`shared`); `used` is
what the optimizer consumed last. The accountant is exact: `rdp` by order,
`history` by step. The logarithms of `_compute_subsampled_rdp` are out of TLC's
reach; their values are a constant, `Subsampled`, in thousandths, and the
instance holds what the function returns for a sample rate of 1/2. Only the
linear schedule is modelled, which is the one that `_setup_dp` leaves in place.
The environment is external and may raise. A batch size above `n_steps` makes
the accountant raise (`MinibatchRaises`). Any other part of `train_step` may
raise as well (`TrainRaises`), before, within and after the gradients are
computed, and so may saving a checkpoint (`SaveRaises`); `optimizer.step()` is
taken to succeed.

### PrioritizedReplay and RedpandaReplay

An experience is its number. `PrioritizedReplay` keeps what was meant for each
experience and to which one a priority was given (`meant`, `givenTo`, history
variables) beside the array that the code keeps by position. Priorities are any
numbers, zero and negative ones too, as `update_priorities` stores what it is
given; `sample` raises, and changes nothing, while one in the buffer is negative
(its probability is negative or not a number). In `RedpandaReplay` the learner's calls are sequential, as in one
thread, and suspended where they wait or where a consumer thread can act
between two reads; consumer threads take one step per loop test, poll and
append, or drop a message that cannot be parsed (`ParseFails`). The Kafka client, broker and other agents are external: deliveries
succeed or fail at any time, a poll may return nothing, and closing a closed
consumer may raise.

### GradientWire

Vectors hold integers, so that sums are exact and the only rounding is that of
the quantizer, computed with integers. `balance` is a history variable: what was
computed, minus what arrived, minus what was dropped on purpose (no error
feedback, random selection, a reset). A byte is modelled as the value it
encodes a part of, which part, and the width, so that a field read at a wrong
offset or width is `Garbage`, a number that no field holds. Names have any
positive number of bytes (`NameLength`). Gradients have elements of four bytes
and indices of eight: whatever builds a message or compresses casts them to
float32 and int64 (message.py:206 and 227, compression.py:59, 73 and 127,
protocol.py:110). `argpartition`, the random selection and the order
of indices (falling magnitude with ties either way for top-K, any order for
random-K) are choices. The compressors have no caller in the repository yet.

## 3. Runs

| Run | Checks | Result |
|---|---|---|
| `membership_safety` | `TypeOK`, `SuspectIsTimed`, `TimerEntriesLive`, `RefutationsCurrent`, `ProbesDistinct`, `BlockedProbeStaysOpen` | hold |
| `membership_live` | `SuspicionResolves`, `QueuedAcksHandled` | hold |
| `silent_peer_undetected` | `SilentPeerDies` | violated |
| `early_death` | `FullTimeoutBeforeDead` | violated |
| `rpc_disconnect` | `DisconnectFailsPending` | violated |
| `gossip_pair` | `TypeOK`, `CacheIsNewest`, `AggregateConsistent`, `VersionsFollowSteps`, `NeighboursHear` | hold |
| `gossip_applied` | `AppliedIsMerged` | violated |
| `agent_and_ring` | `TypeOK`, `SharedIsPrivate`, `UpdatesCharged`, `DivergencesAdd`, `StoppedCleanly`, `NoRolloutOnClosedEnv`, `SignalEndsAgent`; `RingTypeOK`, `NoTornRead`, `SlotsDisjoint`, `ImplementsFifo`, `PushedIsPopped` | hold |
| `epsilon_falls` | `EpsilonNeverFalls` | violated |
| `data_and_client` | `RedpandaTypeOK`, `ReceivedInOrder`, `NothingUnsent`, `SampleBounded`, `PriorityLag`, `FeedbackConserves`, `ResidualBounded`, `RoundTrip`, `WithinHalfStep`; `RpcTypeOK`, `FuturesAccounted`, `CallbackAtMostOnce`, `OutcomeReachesCallback`, `OutcomeFinal` | hold |
| `priorities_shift` | `PriorityBelongs` | violated |
| `merge_unused` | `MergedUpdatesPolicy` | violated |

**Bounds.** Membership: two peers are the least for which there is a helper to
ask and the probe can block; two timer handles let an old timer and a new one
of the same peer coexist; incarnations 0..2 give an old, a current and a higher
one; two sequence numbers let a probe and an update share the counter. Ring:
three slots and positions up to 7 wrap around twice, with two values to tell
halves apart. Client: two calls, so that one can be completed, late or pending
while the other runs, and any number of reconnects. Gossip: two agents with
different settings (push-pull with fan-out 1; push with fan-out 3), two steps
each, one restart, PULL requests from one side. Training: all 24 combinations of
privacy, schedule, launcher and batch size (half of the rollout, all of it, more
than it), four steps, which pass the warm-up, the decay and the end of the
schedule, two signals. Replay: buffers of two and three entries that overflow, a
producer queue of one, two consumer threads; a negative priority, zero and one
above the initial maximum. Messages: names of one and of three bytes.
Compression: vectors of three with
one component sent, four rounds, twice what it takes to reach the bound on
residuals; bit widths 1, 3 and 8, the smallest, a middle and the largest one
allowed. Symmetry is used in safety runs
only. In `silent_peer_undetected` TLC does not check deadlock: the bounded
number of probes ends. Nor does it in the runs of `MCAgentTraining` and
`MCAgentRing`, where the agent ends, and in those of `MCDataPath`, where the
bounds do.

**Fairness.** `LoopFairness` says that the event loop runs every task that is
ready and every timer that is due, which asyncio does; the network and the
application owe nothing. `SilentSpec` adds that the probe loop goes on and that
updates are fetched. `RingFairSpec` assumes that a process inside `try_push` or
`try_pop` leaves it and that the consumer polls. `GradientGossip!FairSpec`
assumes that both loops of an agent go on, and that the external network in the
end delivers what is pushed: without that no gossip is heard at all.
`AgentTraining!Spec` assumes of the event loop that it runs the training loop,
the stops and cancelled tasks when they are ready; the environment, peers and
the sender of signals owe nothing.

**What the violated properties show.**

1. `silent_peer_undetected`: `_probe_peer` calls `_indirect_probe` under
   `probe_lock`, which takes the same lock again (membership.py:362 and 379).
   asyncio locks are not reentrant: as soon as one probe is unanswered while
   another peer is alive, the probe task is stuck and failure detection ends.
   With no other peer to ask, the branch that suspects at once works.
2. `early_death`: `add_peer` with a higher incarnation (and `remove_peer`) leave
   the suspicion timer of the old entry running; a later suspicion finds the
   entry and starts no timer of its own (membership.py:273), so the peer is
   declared dead by the old timer.
3. `rpc_disconnect`: when the server closed the connection first, `connected_`
   is false and `disconnect()` skips "Fail all pending requests"
   (rpc_client.cpp:104); futures and callbacks of these calls wait for ever.
4. `gossip_applied`: `Agent.run` calls `set_gradients`, which resets the
   aggregate, and reads it with no suspension in between; the trainer merges its
   own gradients with themselves (protocol.py:116).
5. `epsilon_falls`: `_compute_subsampled_rdp` ends the binomial series at
   `int(alpha)` (accountant.py:148). For the default orders 1.1 to 1.9 the
   truncated sum is below 1, so every subsampled step is charged a negative
   amount. The run uses values of the code for five of the default orders; at
   the 14th minibatch order 1.9 becomes the minimum and the reported epsilon
   starts to fall (8.39, then 8.16), as it does with the full list. With the
   default batch of 64 of 2048 transitions it starts to fall before training
   step 20; when it has reached 0 the order drops out of `eps > 0` and the next
   one takes over.
6. `priorities_shift`: a full deque drops its oldest experience and so moves all
   others by a position, while `add()` writes only the last of the priorities
   (replay.py:135). From then on an experience is sampled by the priority of one
   added before it. How far off it can be is `PriorityLag`, which holds: it
   lags by at most the number of experiences dropped, never runs ahead, and is
   exact until the first drop.
7. `merge_unused`: `apply_aggregated_gradients` writes the merged gradients to
   `.grad` when the optimizer steps of the iteration are over (ppo.py:410), and
   the next minibatch begins with `zero_grad()`. "Merged gradients update the
   policy" (wiki/Architecture.md) is never true, whatever the aggregate holds.

Further behaviour that the models show and no run reports by itself: an ACK
never clears a suspicion, since its incarnation is 0 (`AnswerProbe`); a PING
resets the sender's incarnation (`HandlePing`); suspicions that exist when the
manager is stopped are not timed again after a restart (`Start`); `cancel()`
only sets a flag that nothing reads (`Cancel`). A send that fails completes its
future and does not run the callback that `on_complete` set (`SendFailed`,
rpc_client.cpp:183), unlike an answer and `disconnect()`, which is why
`OutcomeReachesCallback` leaves that status out. `on_disconnect` ignores which
connection ended (`StaleReceiveEnds`, rpc_client.cpp:285): after `disconnect()`
and `connect()` the end of the old connection's receive clears `connected_`, and
the client refuses calls over a connection that is up.

`CacheIsNewest` speaks of senders whose messages to a peer come from one life,
because steps and versions start from zero in a restarted agent: a peer that
holds gradients of its earlier life drops the new ones as stale (protocol.py:203)
until the numbers have caught up. With messages of both lives about, order is
lost within the new life too: let the
peer take step 4, version 0 of the old life, then step 3, version 2 of the new one (a higher version wins). A late repetition of the old message replaces it
again (a higher step wins), and now step 2, version 1 of the new life is taken
although step 3 was. `Stale` compares steps and versions that no longer grow
together, so it is not an order. The smallest such behaviour needs four training
steps in the first life and 18 states, more than `gossip_pair` allows; it was
the proof attempt that found it, and a run with that bound confirmed it.

In the training loop: an exhausted privacy budget is only logged (`Share`),
while `wiki/Architecture.md` has training continue "until convergence or budget
exhausted"; checkpoints hold no accountant state. In the replay buffers: after
`stop_consumer` a later `start_consumer` polls the closed consumer for ever and
receives nothing (`StartConsumer`, `PollNothing`). In compression: `compress_gradients` makes a compressor
per call and so drops every residual (`CompressOnce`), and
`RandomKCompressor.decompress` undoes the scaling that was to keep the
expectation (`CompressRandom`). `_aggregate_gradients` averages vectors of equal
shape without looking at `indices`.

## 4. Proofs

TLAPS checks all proofs, and every invariant and action property of section 3
that holds is a theorem. They hold for all values of the constants under the
named assumptions of the modules: distinct ids, natural bounds, a positive
capacity, `None` outside the values it stands for the absence of, positive noise
multipliers, and for the wire a finite set of gradient values that is not empty
(float32 has finitely many), names that are not empty and messages with the
declared fields. Priorities are any integers. Each
module of proofs has one inductive invariant, made of named parts, and a lemma
for each part or action.

* `MembershipProofs`: `TypeCorrect`, `EntriesAreLive`, `SuspicionIsTimed`,
  `NewestRefutationIsCurrent`, `AcksUnambiguous`, `BlockedProbeNeverAnswered`.
  `SuspectIsTimed` is not inductive: a cancelled handle might be the only one of
  a suspect peer. The inductive invariant adds that an entry of
  `suspicion_timers` names a handle owned by its peer (`TimerEntriesLive`), that
  a handle whose callback ran is still owned, and that `stop()` follows a
  `start()`. The crucial step is `_start_suspicion_timer` with an existing entry:
  that entry is live, so the new suspicion is timed by it. The last three are
  inductive together: a broadcast or probe takes a number above all in use, an
  appended ALIVE becomes the newest refutation, an appended SUSPECT and a drained
  prefix leave the newest one what it was, and no ACK is handled while the probe
  task is at its own lock.
* `SharedRingProofs`: `RingTypes`, `NeverTorn`, `NeverSameSlot`,
  `RingImplementsFifo`. The invariant says where each process is relative to the
  positions and that the slots between `read_pos` and `write_pos` hold whole
  elements. Slots are taken modulo the capacity; a lemma shows that two positions
  less than a capacity apart never share one. For the refinement `queue` is the
  sequence of elements between the positions: `PushStore` is `TryPush`,
  `PopStore` is `TryPop`, the copies are stutters.
* `RpcClientProofs`: `ClientTypes`, `NothingLost`, `AtMostOneCallback`,
  `OutcomesReachCallbacks`, `OutcomesFinal`. The invariant joins
  `FuturesAccounted` with two facts: a callback that ran belongs to a completed
  future, so that completing an open future runs it for the first time; and a
  request that was sent is not the one still being registered, so that neither a
  failed send nor an answer removes the latter. `OutcomeReachesCallback` also
  needs that a future has no callback before its call.
* `GradientGossipProofs`: `GossipTypes`, `CacheFollowsSenders`,
  `AggregateNeverMixed`, `NumbersAgree`. The invariant adds to the properties
  that a sender's current gradients are the latest of its life, that every
  gradient in the network was computed by the agent it names with numbers that
  agent had reached, and that what caches and `newest` hold was sent. Then, in
  one life, of two gradients the later step has the later version, so `Stale` is
  a total order and the cache keeps its maximum. Without the condition of one
  life this step fails, which is how the behaviour described above was found.
* `AgentTrainingProofs`: `TrainingTypes`, `NothingSharedRaw`, `ChargedOnce`,
  `DivergencesCompose`, `DownWhenDone`, `RolloutsOnOpenEnv`. Two halves.
  Gradients: `local` is charged with its own noise except on the way out of the
  loop, where an exception may leave a raw or uncharged vector that nobody shares
  any more; so what `Merge` shares is charged, and what the optimizer used has
  the noise of the last entry in the history. Ending: which stages the stops are in for each place of the loop, that
  a stop past the gossip task has seen it end, and that the running flag, once
  cleared, stays so. `DivergencesCompose` is about a recursive sum; that partial
  sums exist and are unique is proved from the well-foundedness of the natural
  numbers, by looking at a least counterexample, and not read off the recursive
  definition.
* `RedpandaReplayProofs`: `BuffersBounded`, `TopicOrderKept`,
  `ProducerLosesNothing`, `SamplesFit`. For the order the invariant says that while
  the consumer is open only one thread was ever started, and that what this
  thread has polled and not yet appended comes after all that was received; a
  thread started later finds the consumer closed. Samples: the two shares drawn never exceed the batch, and
  `received` only grows or keeps its length while one is taken.
* `PrioritizedReplayProofs`: `PrioritiesLag`. The invariant says that the
  experiences in the buffer are consecutive and the last one is the newest, that
  a pending sample names positions whose experiences were at most as many adds
  away as have been dropped, and that the same holds of the experience that each
  priority was given to. An add to a full buffer moves all of them by one and
  counts one drop, which is why the lag is bounded by drops and not by zero.
  That the new maximum exists is a lemma about functions on finite sets.
* `GradientWireProofs`: `FeedbackLosesNothing`, `ResidualsStayBounded`,
  `MessagesSurvive`, `QuantizerAccurate`. The bound on residuals is the hard one:
  the invariant is not the bound but its layers. With `V` the largest magnitude
  of a computed value, for every `j` at most `Size - (j + 1) * K` residuals
  exceed `j * V`. One round adds at most `V` to every component and then
  clears the `K` largest, which moves what exceeds `j * V` after it among what
  exceeded `(j - 1) * V` before, less `K`. When the count reaches zero the bound
  follows. `MessagesSurvive` computes the offset of every field of a packed
  message once (`PackedLayout`) and shows that each read of `unpack` starts
  there. `QuantizerAccurate` compares a rounded quotient with the exact one.

Only model-checked: the liveness properties (`SuspicionResolves`,
`QueuedAcksHandled`, `PushedIsPopped`, `NeighboursHear`, `SignalEndsAgent`),
which need fairness and `ENABLED`, and the violated properties, which TLC
refutes.

## 5. Plan

1. Done: all modules above, with proofs of all their invariants and action
   properties.
2. The rest of the C++ library: `BufferPool` with the receive path of
   `TcpTransport`; `RpcServer` and `RpcConnectionPool` over `RpcClient`;
   `ShmTransport` over two `SharedRing`s; `EventLoop`.

Not modelled: networks, losses, advantages and the values of noise and
divergences, floating point code that TLC cannot evaluate; privacy mechanisms,
schedules and accountants that nothing in the repository uses; `load_checkpoint`
and `set_parameters`, which have no caller; configuration, command line and the
benchmark and export scripts, which keep no state; the C++ parts under 2.
