----------------------------- MODULE Membership -----------------------------
(***************************************************************************)
(* One MembershipManager (python/gossip_rl/gossip/membership.py): the SWIM *)
(* style failure detector of a node, driven by the messages the transport  *)
(* hands to handle_message, by its probe task and by its suspicion timers. *)
(*                                                                         *)
(* Everything runs on one asyncio event loop.  peer_lock and updates_lock  *)
(* are never held across a suspension, so a handler that takes them is one *)
(* step.  What does interleave is: the probe task between its sleeps, the  *)
(* timer callbacks, the _confirm_dead tasks those callbacks create, and    *)
(* handlers that wait for probe_lock.  The transport is external: a        *)
(* message may come at any time, in any order, repeatedly or never.        *)
(***************************************************************************)
EXTENDS Integers, Sequences, FiniteSets

CONSTANTS
    Peer,        \* ids of the remote peers
    Self,        \* local_peer.id
    Handle,      \* asyncio.TimerHandle objects; bounds the timers in flight
    NoPeer,      \* owner of a handle that is not in use
    NoHandle,    \* "no entry" in suspicion_timers
    MaxInc,      \* bound: largest incarnation number
    MaxSeq,      \* bound: largest sequence number
    MaxUpdates,  \* bound: longest updates_queue
    BatchSize,   \* max_updates of get_pending_updates
    MaxStarts    \* bound: how often start() is called

ASSUME PeerAssumption   == NoPeer \notin Peer /\ Self \notin Peer
ASSUME HandleAssumption == NoHandle \notin Handle
ASSUME BoundsAssumption ==
    /\ MaxInc \in Nat /\ MaxSeq \in Nat /\ MaxUpdates \in Nat /\ MaxStarts \in Nat
    /\ BatchSize \in Nat \ {0}

VARIABLES
    phase,             \* life cycle of the manager: start() and stop()
    starts,            \* number of calls of start()
    state,             \* peers[p].state, or "absent"
    incarnation,       \* peers[p].incarnation (0 when absent)
    suspicion_timers,  \* the dict: peer id -> timer handle
    owner,             \* owner[h]: the peer h was started for, NoPeer if unused
    fired,             \* handles whose callback ran: their _confirm_dead is pending
    probe,             \* the probe task: where it is, what it probes
    pending_probes,    \* the dict, as a set of <<sequence, target>>
    ackWaiting,        \* ACK handlers queued on probe_lock (their sequences)
    sequence_num,
    localInc,          \* local_peer.incarnation
    updates_queue

peerVars  == <<state, incarnation>>
timerVars == <<suspicion_timers, owner, fired>>
probeVars == <<probe, pending_probes, ackWaiting>>
outVars   == <<sequence_num, localInc, updates_queue>>
lifeVars  == <<phase, starts>>
vars == <<phase, starts, state, incarnation, suspicion_timers, owner, fired,
          probe, pending_probes, ackWaiting, sequence_num, localInc, updates_queue>>

PeerState   == {"alive", "suspect", "dead"}   \* nothing sets LEFT
Incarnation == 0..MaxInc
Sequence    == 1..MaxSeq
Phase       == {"new", "running", "stopping", "stopped"}

(* The probe task is not running, sleeps until its next round, sleeps for   *)
(* the direct ACK, or waits for probe_lock, which it holds itself.          *)
ProbeAt == {"off", "idle", "direct", "locked"}

(* target and seq are meaningless unless a probe is under way.  "stale" is  *)
(* the incarnation of the captured Peer object once peers[target] is        *)
(* another object (or gone), and -1 as long as they are the same object.    *)
ProbeTask  == [at: ProbeAt, target: Peer \cup {NoPeer}, seq: 0..MaxSeq,
               stale: -1..MaxInc]
NoProbe(a) == [at |-> a, target |-> NoPeer, seq |-> 0, stale |-> -1]

(* Incarnation of every PING and ACK: create_ping and create_ack leave the *)
(* field at its default.                                                   *)
DefaultIncarnation == 0

Update == [type: {"ALIVE"}, target: {Self}, seq: Sequence, inc: Incarnation]
            \cup [type: {"SUSPECT"}, target: Peer, seq: Sequence, inc: Incarnation]

TypeOK ==
    /\ phase \in Phase
    /\ starts \in 0..MaxStarts
    /\ state \in [Peer -> PeerState \cup {"absent"}]
    /\ incarnation \in [Peer -> Incarnation]
    /\ suspicion_timers \in [Peer -> Handle \cup {NoHandle}]
    /\ owner \in [Handle -> Peer \cup {NoPeer}]
    /\ fired \in SUBSET Handle
    /\ probe \in ProbeTask
    /\ pending_probes \in SUBSET (Sequence \X Peer)
    /\ ackWaiting \in SUBSET Sequence
    /\ sequence_num \in 0..MaxSeq
    /\ localInc \in Incarnation
    /\ updates_queue \in Seq(Update)

Init ==
    /\ phase = "new"
    /\ starts = 0
    /\ state = [p \in Peer |-> "absent"]
    /\ incarnation = [p \in Peer |-> 0]
    /\ suspicion_timers = [p \in Peer |-> NoHandle]
    /\ owner = [h \in Handle |-> NoPeer]
    /\ fired = {}
    /\ probe = NoProbe("off")
    /\ pending_probes = {}
    /\ ackWaiting = {}
    /\ sequence_num = 0
    /\ localInc = 0
    /\ updates_queue = <<>>

-----------------------------------------------------------------------------
(* Suspicion timers *)

(* TimerHandle.cancel(): nothing happens to a handle that already ran.     *)
Cancelled(hs) == [h \in Handle |-> IF h \in hs \ fired THEN NoPeer ELSE owner[h]]

(* Mutant: the handle is cancelled, its entry is not deleted. *)
CancelTimerKeepsEntry(p) ==
    /\ owner' = Cancelled({suspicion_timers[p]})
    /\ UNCHANGED <<suspicion_timers, fired>>

(* Cancel and delete the entry of p, if there is one. *)
CancelTimer(p) ==
    /\ suspicion_timers' = [suspicion_timers EXCEPT ![p] = NoHandle]
    /\ owner' = Cancelled({suspicion_timers[p]})
    /\ fired' = fired

(* _start_suspicion_timer: an existing entry is left as it is. *)
StartSuspicionTimer(p) ==
    /\ \/ /\ suspicion_timers[p] # NoHandle
          /\ UNCHANGED <<suspicion_timers, owner>>
       \/ /\ suspicion_timers[p] = NoHandle
          /\ \E h \in Handle :
                /\ owner[h] = NoPeer
                /\ suspicion_timers' = [suspicion_timers EXCEPT ![p] = h]
                /\ owner' = [owner EXCEPT ![h] = p]
    /\ fired' = fired

(* on_timeout: the callback only creates the task that runs _confirm_dead. *)
TimerFires(h) ==
    /\ owner[h] # NoPeer
    /\ h \notin fired
    /\ fired' = fired \cup {h}
    /\ UNCHANGED <<suspicion_timers, owner, peerVars, probeVars, outVars, lifeVars>>

(* Mutant: the entry of the timer that fired is not deleted. *)
ConfirmDeadKeepsEntry(h) ==
    /\ h \in fired
    /\ owner' = [owner EXCEPT ![h] = NoPeer]
    /\ fired' = fired \ {h}
    /\ state' = [state EXCEPT ![owner[h]] = IF @ = "suspect" THEN "dead" ELSE @]
    /\ UNCHANGED <<suspicion_timers, incarnation, probeVars, outVars, lifeVars>>

(* _confirm_dead knows the peer, not the handle it was created for: it      *)
(* deletes whatever entry the peer has, without cancelling it.             *)
ConfirmDead(h) ==
    LET p == owner[h] IN
    /\ h \in fired
    /\ suspicion_timers' = [suspicion_timers EXCEPT ![p] = NoHandle]
    /\ owner' = [owner EXCEPT ![h] = NoPeer]
    /\ fired' = fired \ {h}
    /\ state' = [state EXCEPT ![p] = IF @ = "suspect" THEN "dead" ELSE @]
    /\ UNCHANGED <<incarnation, probeVars, outVars, lifeVars>>

-----------------------------------------------------------------------------
(* The peers table *)

(* The probe's captured Peer object stops being peers[p]. *)
Detach(p) ==
    probe' = IF probe.target = p /\ probe.stale = -1
             THEN [probe EXCEPT !.stale = incarnation[p]] ELSE probe

(* add_peer with a new Peer object, which is ALIVE, as Agent.add_peer makes *)
(* it: it replaces a known one only with a higher incarnation, and never    *)
(* touches the timers.                                                     *)
AddPeer(p, i) ==
    /\ \/ state[p] = "absent" /\ UNCHANGED probe
       \/ state[p] # "absent" /\ i > incarnation[p] /\ Detach(p)
    /\ state' = [state EXCEPT ![p] = "alive"]
    /\ incarnation' = [incarnation EXCEPT ![p] = i]
    /\ UNCHANGED <<timerVars, pending_probes, ackWaiting, outVars, lifeVars>>

RemovePeer(p) ==
    /\ state[p] # "absent"
    /\ state' = [state EXCEPT ![p] = "absent"]
    /\ incarnation' = [incarnation EXCEPT ![p] = 0]
    /\ Detach(p)
    /\ UNCHANGED <<timerVars, pending_probes, ackWaiting, outVars, lifeVars>>

(* mark_alive, and the handler's reaction when it reports a change. *)
ApplyAlive(p, i) ==
    IF state[p] # "absent" /\ i > incarnation[p]
    THEN /\ state' = [state EXCEPT ![p] = "alive"]
         /\ incarnation' = [incarnation EXCEPT ![p] = i]
         /\ IF state[p] # "alive" THEN CancelTimer(p) ELSE UNCHANGED timerVars
    ELSE UNCHANGED <<peerVars, timerVars>>

-----------------------------------------------------------------------------
(* Message handlers.  A message without a target_id is ignored, and so is a *)
(* PING_REQ (_handle_ping_req sends nothing).                               *)

(* _handle_ping: the sender's incarnation is overwritten, not compared. *)
HandlePing(p) ==
    /\ state[p] # "absent"
    /\ incarnation' = [incarnation EXCEPT ![p] = DefaultIncarnation]
    /\ UNCHANGED <<state, timerVars, probeVars, outVars, lifeVars>>

HandleAlive(p, i) ==
    /\ ApplyAlive(p, i)
    /\ UNCHANGED <<probeVars, outVars, lifeVars>>

(* Mutant: the peer is marked and no timer is started. *)
HandleSuspectUntimed(p, i) ==
    /\ state[p] = "alive"
    /\ i >= incarnation[p]
    /\ state' = [state EXCEPT ![p] = "suspect"]
    /\ UNCHANGED <<incarnation, timerVars, probeVars, outVars, lifeVars>>

(* mark_suspect succeeds for an ALIVE peer and a current incarnation. *)
HandleSuspect(p, i) ==
    /\ state[p] = "alive"
    /\ i >= incarnation[p]
    /\ state' = [state EXCEPT ![p] = "suspect"]
    /\ StartSuspicionTimer(p)
    /\ UNCHANGED <<incarnation, probeVars, outVars, lifeVars>>

(* mark_dead fails for a peer that is DEAD already: nothing changes. *)
HandleDead(p, i) ==
    /\ state[p] \in {"alive", "suspect"}
    /\ i >= incarnation[p]
    /\ state' = [state EXCEPT ![p] = "dead"]
    /\ CancelTimer(p)
    /\ UNCHANGED <<incarnation, probeVars, outVars, lifeVars>>

(* _next_sequence and an append to updates_queue. *)
Broadcast(type, target, i) ==
    /\ sequence_num < MaxSeq
    /\ Len(updates_queue) < MaxUpdates
    /\ sequence_num' = sequence_num + 1
    /\ updates_queue' = Append(updates_queue,
           [type |-> type, target |-> target, seq |-> sequence_num + 1, inc |-> i])

Refutation(i) == (IF i > localInc THEN i ELSE localInc) + 1

(* Mutant: the refutation is built before the incarnation is raised. *)
HandleSuspectSelfAnnouncesOld(i) ==
    /\ Refutation(i) <= MaxInc
    /\ localInc' = Refutation(i)
    /\ Broadcast("ALIVE", Self, localInc)
    /\ UNCHANGED <<peerVars, timerVars, probeVars, lifeVars>>

(* A SUSPECT message about this node: refute it with a higher incarnation. *)
HandleSuspectSelf(i) ==
    /\ Refutation(i) <= MaxInc
    /\ localInc' = Refutation(i)
    /\ Broadcast("ALIVE", Self, Refutation(i))
    /\ UNCHANGED <<peerVars, timerVars, probeVars, lifeVars>>

(* The body of _handle_ack, under probe_lock. *)
AnswerProbe(s) ==
    /\ pending_probes' = {e \in pending_probes : e[1] # s}
    /\ \/ \E e \in pending_probes : e[1] = s /\ ApplyAlive(e[2], DefaultIncarnation)
       \/ /\ \A e \in pending_probes : e[1] # s
          /\ UNCHANGED <<peerVars, timerVars>>

(* Mutant: the handler does not take probe_lock. *)
HandleAckUnlocked(s) ==
    /\ AnswerProbe(s)
    /\ UNCHANGED <<probe, ackWaiting, outVars, lifeVars>>

(* _handle_ack when probe_lock is free, and when the probe task holds it. *)
HandleAck(s) ==
    /\ probe.at # "locked"
    /\ AnswerProbe(s)
    /\ UNCHANGED <<probe, ackWaiting, outVars, lifeVars>>

HandleAckWaits(s) ==
    /\ probe.at = "locked"
    /\ ackWaiting' = ackWaiting \cup {s}
    /\ UNCHANGED <<probe, pending_probes, peerVars, timerVars, outVars, lifeVars>>

(* A queued ACK handler gets probe_lock. *)
HandleAckResumes(s) ==
    /\ probe.at # "locked"
    /\ s \in ackWaiting
    /\ ackWaiting' = ackWaiting \ {s}
    /\ AnswerProbe(s)
    /\ UNCHANGED <<probe, outVars, lifeVars>>

-----------------------------------------------------------------------------
(* The probe task *)

AlivePeers == {p \in Peer : state[p] = "alive"}

(* Mutant: the probe is registered under the number of the previous message. *)
ProbeRoundOldSequence(p) ==
    /\ probe.at = "idle" /\ p \in AlivePeers /\ ackWaiting = {}
    /\ sequence_num < MaxSeq
    /\ sequence_num' = sequence_num + 1
    /\ pending_probes' = pending_probes \cup {<<sequence_num, p>>}
    /\ probe' = [at |-> "direct", target |-> p, seq |-> sequence_num, stale |-> -1]
    /\ UNCHANGED <<ackWaiting, localInc, updates_queue, peerVars, timerVars, lifeVars>>

(* Mutant: a probe does not use up a sequence number. *)
ProbeRoundSharesSequence(p) ==
    /\ probe.at = "idle" /\ p \in AlivePeers /\ ackWaiting = {}
    /\ sequence_num > 0
    /\ pending_probes' = pending_probes \cup {<<sequence_num, p>>}
    /\ probe' = [at |-> "direct", target |-> p, seq |-> sequence_num, stale |-> -1]
    /\ UNCHANGED <<ackWaiting, outVars, peerVars, timerVars, lifeVars>>

(* _probe_round and _probe_peer up to the sleep that waits for the ACK.    *)
(* probe_lock is fair: queued ACK handlers get it first.                   *)
ProbeRound(p) ==
    /\ probe.at = "idle"
    /\ p \in AlivePeers
    /\ ackWaiting = {}
    /\ sequence_num < MaxSeq
    /\ sequence_num' = sequence_num + 1
    /\ pending_probes' = pending_probes \cup {<<sequence_num + 1, p>>}
    /\ probe' = [at |-> "direct", target |-> p, seq |-> sequence_num + 1, stale |-> -1]
    /\ UNCHANGED <<ackWaiting, localInc, updates_queue, peerVars, timerVars, lifeVars>>

ProbeUnanswered == <<probe.seq, probe.target>> \in pending_probes

ProbeAnswered ==
    /\ probe.at = "direct"
    /\ ~ProbeUnanswered
    /\ probe' = NoProbe("idle")
    /\ UNCHANGED <<pending_probes, ackWaiting, peerVars, timerVars, outVars, lifeVars>>

(* select_random_peers(indirect_probes, exclude the target) is empty. *)
NoHelpers == AlivePeers \ {probe.target} = {}

(* Mutant: the suspicion is announced and no timer is started. *)
SuspectPeerUntimed(p) ==
    IF state[p] = "alive"
    THEN /\ state' = [state EXCEPT ![p] = "suspect"]
         /\ Broadcast("SUSPECT", p, incarnation[p])
         /\ UNCHANGED <<incarnation, localInc, timerVars>>
    ELSE UNCHANGED <<peerVars, timerVars, outVars>>

(* _suspect_peer: the update carries the captured object's incarnation. *)
SuspectPeer(p) ==
    IF state[p] = "alive"
    THEN /\ state' = [state EXCEPT ![p] = "suspect"]
         /\ StartSuspicionTimer(p)
         /\ Broadcast("SUSPECT", p,
                      IF probe.stale = -1 THEN incarnation[p] ELSE probe.stale)
         /\ UNCHANGED <<incarnation, localInc>>
    ELSE UNCHANGED <<peerVars, timerVars, outVars>>

(* No ACK and nobody to ask: suspect at once.  The pending_probes entry stays. *)
ProbeSuspects ==
    /\ probe.at = "direct"
    /\ ProbeUnanswered
    /\ NoHelpers
    /\ SuspectPeer(probe.target)
    /\ probe' = NoProbe("idle")
    /\ UNCHANGED <<pending_probes, ackWaiting, lifeVars>>

(* No ACK and helpers to ask: _indirect_probe waits for probe_lock, which   *)
(* its caller _probe_peer holds.  asyncio.Lock is not reentrant: the rest  *)
(* of _indirect_probe never runs, only cancellation ends the wait.         *)
ProbeBlocks ==
    /\ probe.at = "direct"
    /\ ProbeUnanswered
    /\ ~NoHelpers
    /\ probe' = [probe EXCEPT !.at = "locked"]
    /\ UNCHANGED <<pending_probes, ackWaiting, peerVars, timerVars, outVars, lifeVars>>

-----------------------------------------------------------------------------
(* Life cycle *)

Start ==
    /\ phase \in {"new", "stopped"}
    /\ starts < MaxStarts
    /\ phase' = "running"
    /\ starts' = starts + 1
    /\ probe' = NoProbe("idle")
    /\ UNCHANGED <<pending_probes, ackWaiting, peerVars, timerVars, outVars>>

(* Mutant: stop() does not cancel the probe task. *)
StopProbeUncancelled ==
    /\ phase = "running"
    /\ phase' = "stopping"
    /\ UNCHANGED <<starts, probeVars, peerVars, timerVars, outVars>>

(* stop() up to the await: the probe task is cancelled, and with it goes   *)
(* its hold on probe_lock.                                                 *)
StopProbe ==
    /\ phase = "running"
    /\ phase' = "stopping"
    /\ probe' = NoProbe("off")
    /\ UNCHANGED <<starts, pending_probes, ackWaiting, peerVars, timerVars, outVars>>

(* stop() after the await: cancel every timer in the dict and clear it. *)
StopTimers ==
    /\ phase = "stopping"
    /\ phase' = "stopped"
    /\ suspicion_timers' = [p \in Peer |-> NoHandle]
    /\ owner' = Cancelled({suspicion_timers[p] : p \in Peer})
    /\ UNCHANGED <<starts, fired, peerVars, probeVars, outVars>>

-----------------------------------------------------------------------------
(* get_pending_updates *)
GetPendingUpdates ==
    /\ updates_queue # <<>>
    /\ updates_queue' = IF Len(updates_queue) <= BatchSize THEN <<>>
                        ELSE SubSeq(updates_queue, BatchSize + 1, Len(updates_queue))
    /\ UNCHANGED <<sequence_num, localInc, peerVars, timerVars, probeVars, lifeVars>>

(* Messages come from the transport; only PINGs that were sent are ACKed. *)
Message ==
    \/ \E p \in Peer : HandlePing(p)
    \/ \E p \in Peer, i \in Incarnation :
          HandleAlive(p, i) \/ HandleSuspect(p, i) \/ HandleDead(p, i)
    \/ \E i \in Incarnation : HandleSuspectSelf(i)
    \/ \E s \in 1..sequence_num : HandleAck(s) \/ HandleAckWaits(s)

Application ==
    \/ \E p \in Peer, i \in Incarnation : AddPeer(p, i)
    \/ \E p \in Peer : RemovePeer(p)
    \/ Start
    \/ StopProbe
    \/ GetPendingUpdates

ProbeTimeout == ProbeAnswered \/ ProbeSuspects \/ ProbeBlocks

(* Steps the event loop takes by itself. *)
Loop ==
    \/ \E h \in Handle : TimerFires(h) \/ ConfirmDead(h)
    \/ \E p \in Peer : ProbeRound(p)
    \/ ProbeTimeout
    \/ \E s \in Sequence : HandleAckResumes(s)
    \/ StopTimers

Next == Message \/ Application \/ Loop

Spec == Init /\ [][Next]_vars

(* The event loop runs every task that is ready and every timer that is    *)
(* due; nothing is assumed of the network or of the application.           *)
LoopFairness ==
    /\ \A h \in Handle : WF_vars(TimerFires(h)) /\ WF_vars(ConfirmDead(h))
    /\ WF_vars(ProbeTimeout)
    /\ \A s \in Sequence : WF_vars(HandleAckResumes(s))
    /\ WF_vars(StopTimers)

FairSpec == Spec /\ LoopFairness

-----------------------------------------------------------------------------
(* Properties *)

(* Until the first stop() the timers are complete. *)
NeverStopped == starts <= 1 /\ phase # "stopped"

(* A peer that is SUSPECT always has a suspicion timer running or a         *)
(* _confirm_dead task under way, however removals, re-additions, ALIVE     *)
(* refutations and late timeouts interleave: no suspicion is forgotten.    *)
(* Probing skips SUSPECT peers, so nothing else would end it.              *)
SuspectIsTimed ==
    NeverStopped =>
        \A p \in Peer : state[p] = "suspect" => \E h \in Handle : owner[h] = p

(* An entry of suspicion_timers is never left over: its handle is the      *)
(* entry's own, and is scheduled or has its _confirm_dead pending.  A      *)
(* left-over entry would make _start_suspicion_timer return without a timer. *)
TimerEntriesLive ==
    \A p \in Peer : suspicion_timers[p] # NoHandle =>
        owner[suspicion_timers[p]] = p

(* updates_queue holds updates in the order they were numbered, and the    *)
(* last refutation in it carries this node's present incarnation: no drain *)
(* or interleaved broadcast leaves an outdated refutation as the newest.   *)
RefutationsCurrent ==
    LET U == DOMAIN updates_queue IN
    /\ \A m, n \in U : m < n => updates_queue[m].seq < updates_queue[n].seq
    /\ \A n \in U :
          /\ updates_queue[n].seq <= sequence_num
          /\ (updates_queue[n].type = "ALIVE"
              /\ \A m \in U : m > n => updates_queue[m].type # "ALIVE")
             => updates_queue[n].inc = localInc

(* A sequence number names one probe, and no queued update shares it: an   *)
(* ACK can only answer the PING it was sent for.                           *)
ProbesDistinct ==
    /\ \A e, f \in pending_probes : e[1] = f[1] => e = f
    /\ \A e \in pending_probes : e[1] <= sequence_num
    /\ \A e \in pending_probes, n \in DOMAIN updates_queue :
          e[1] # updates_queue[n].seq

(* While the probe task waits for its own lock, its probe stays open: the  *)
(* ACK that would answer it is queued behind the same lock.                *)
BlockedProbeStaysOpen == probe.at = "locked" => ProbeUnanswered

(* ACK handlers wait only for the blocked probe task; once it is cancelled *)
(* every queued ACK is handled.                                            *)
QueuedAcksHandled ==
    \A s \in Sequence : (s \in ackWaiting /\ phase = "stopping") ~> s \notin ackWaiting

(* Every suspicion ends: the peer is refuted, removed or declared DEAD,    *)
(* unless the manager is stopped.                                          *)
SuspicionResolves ==
    \A p \in Peer : state[p] = "suspect" ~> (state[p] # "suspect" \/ ~NeverStopped)
=============================================================================
