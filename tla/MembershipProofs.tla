-------------------------- MODULE MembershipProofs --------------------------
(* For any sets of peers and handles and any bounds: type correctness of   *)
(* Membership, that a suspicion always has a timer, and that the numbers   *)
(* of updates and probes identify them.                                    *)
EXTENDS Membership, TLAPS

(* The timer part of TypeOK. *)
TimersType ==
    /\ suspicion_timers \in [Peer -> Handle \cup {NoHandle}]
    /\ owner \in [Handle -> Peer \cup {NoPeer}]
    /\ fired \in SUBSET Handle

(* CancelTimer keeps the types of the timer variables. *)
LEMMA CancelTimerType ==
    ASSUME TypeOK, NEW p \in Peer, CancelTimer(p)
    PROVE  TimersType'
  BY DEF TypeOK, CancelTimer, Cancelled, TimersType

(* StartSuspicionTimer keeps the types of the timer variables. *)
LEMMA StartTimerType ==
    ASSUME TypeOK, NEW p \in Peer, StartSuspicionTimer(p)
    PROVE  TimersType'
  BY DEF TypeOK, StartSuspicionTimer, TimersType

(* ApplyAlive keeps the types of the peers table and of the timers. *)
LEMMA ApplyAliveType ==
    ASSUME TypeOK, NEW p \in Peer, NEW i \in Incarnation, ApplyAlive(p, i)
    PROVE  /\ state' \in [Peer -> PeerState \cup {"absent"}]
           /\ incarnation' \in [Peer -> Incarnation]
           /\ TimersType'
  <1>1. CASE state[p] # "absent" /\ i > incarnation[p] /\ state[p] # "alive"
    <2>1. CancelTimer(p) /\ state' = [state EXCEPT ![p] = "alive"]
                         /\ incarnation' = [incarnation EXCEPT ![p] = i]
      BY <1>1 DEF ApplyAlive
    <2>2. QED
      BY <2>1, CancelTimerType DEF TypeOK, PeerState
  <1>2. CASE state[p] # "absent" /\ i > incarnation[p] /\ state[p] = "alive"
    BY <1>2 DEF ApplyAlive, TypeOK, PeerState, timerVars, TimersType
  <1>3. CASE ~(state[p] # "absent" /\ i > incarnation[p])
    BY <1>3 DEF ApplyAlive, TypeOK, peerVars, timerVars, TimersType
  <1>4. QED
    BY <1>1, <1>2, <1>3

(* Broadcast keeps the type of the queue and of the sequence counter. *)
LEMMA BroadcastType ==
    ASSUME TypeOK, NEW type, NEW target, NEW i \in Incarnation,
           \/ type = "ALIVE" /\ target = Self
           \/ type = "SUSPECT" /\ target \in Peer,
           Broadcast(type, target, i)
    PROVE  /\ sequence_num' \in 0..MaxSeq
           /\ updates_queue' \in Seq(Update)
  <1>1. sequence_num' \in 0..MaxSeq /\ sequence_num + 1 \in Sequence
    BY BoundsAssumption DEF TypeOK, Broadcast, Sequence
  <1>2. [type |-> type, target |-> target, seq |-> sequence_num + 1, inc |-> i]
          \in Update
    BY <1>1 DEF Update
  <1>3. QED
    BY <1>1, <1>2 DEF TypeOK, Broadcast

(* AnswerProbe keeps the types of everything it touches. *)
LEMMA AnswerProbeType ==
    ASSUME TypeOK, NEW s, AnswerProbe(s)
    PROVE  /\ state' \in [Peer -> PeerState \cup {"absent"}]
           /\ incarnation' \in [Peer -> Incarnation]
           /\ TimersType'
           /\ pending_probes' \in SUBSET (Sequence \X Peer)
  <1>1. pending_probes' \in SUBSET (Sequence \X Peer)
    BY DEF TypeOK, AnswerProbe
  <1>2. CASE \E e \in pending_probes : e[1] = s /\ ApplyAlive(e[2], DefaultIncarnation)
    <2>1. PICK e \in pending_probes : ApplyAlive(e[2], DefaultIncarnation)
      BY <1>2
    <2>2. e[2] \in Peer /\ DefaultIncarnation \in Incarnation
      BY BoundsAssumption DEF TypeOK, DefaultIncarnation, Incarnation
    <2>3. QED
      BY <1>1, <2>1, <2>2, ApplyAliveType
  <1>3. CASE UNCHANGED <<peerVars, timerVars>>
    BY <1>1, <1>3 DEF TypeOK, peerVars, timerVars, TimersType
  <1>4. QED
    BY <1>2, <1>3 DEF AnswerProbe

(* Detach yields a probe task. *)
LEMMA DetachType ==
    ASSUME TypeOK, NEW p \in Peer, Detach(p)
    PROVE  probe' \in ProbeTask
  <1>1. incarnation[p] \in -1..MaxInc
    BY BoundsAssumption DEF TypeOK, Incarnation
  <1>2. CASE probe.target = p /\ probe.stale = -1
    <2>1. probe' = [probe EXCEPT !.stale = incarnation[p]]
      BY <1>2 DEF Detach
    <2>2. QED
      BY <1>1, <2>1 DEF TypeOK, ProbeTask
  <1>3. CASE ~(probe.target = p /\ probe.stale = -1)
    BY <1>3 DEF TypeOK, Detach
  <1>4. QED
    BY <1>2, <1>3

(* NoProbe is a probe task. *)
LEMMA NoProbeType ==
    ASSUME NEW a \in ProbeAt
    PROVE  NoProbe(a) \in ProbeTask
  BY BoundsAssumption DEF NoProbe, ProbeTask

-----------------------------------------------------------------------------
(* Every step of the manager keeps the types. *)
LEMMA TypeStep ==
    ASSUME TypeOK, [Next]_vars
    PROVE  TypeOK'
  <1>1. CASE UNCHANGED vars
    BY <1>1 DEF vars, TypeOK
  <1>2. CASE \E p \in Peer : HandlePing(p)
    <2>1. PICK p \in Peer : HandlePing(p)
      BY <1>2
    <2>2. DefaultIncarnation \in Incarnation
      BY BoundsAssumption DEF DefaultIncarnation, Incarnation
    <2>3. QED
      BY <2>1, <2>2 DEF HandlePing, TypeOK, timerVars, probeVars, outVars, lifeVars
  <1>3. CASE \E p \in Peer, i \in Incarnation : HandleAlive(p, i)
    BY <1>3, ApplyAliveType
       DEF HandleAlive, TypeOK, TimersType, probeVars, outVars, lifeVars
  <1>4. CASE \E p \in Peer, i \in Incarnation : HandleSuspect(p, i)
    BY <1>4, StartTimerType
       DEF HandleSuspect, TypeOK, TimersType, PeerState, probeVars, outVars, lifeVars
  <1>5. CASE \E p \in Peer, i \in Incarnation : HandleDead(p, i)
    BY <1>5, CancelTimerType
       DEF HandleDead, TypeOK, TimersType, PeerState, probeVars, outVars, lifeVars
  <1>6. CASE \E i \in Incarnation : HandleSuspectSelf(i)
    <2>1. PICK i \in Incarnation : HandleSuspectSelf(i)
      BY <1>6
    <2>2. Refutation(i) \in Incarnation
      BY <2>1, BoundsAssumption
         DEF HandleSuspectSelf, Refutation, TypeOK, Incarnation
    <2>3. sequence_num' \in 0..MaxSeq /\ updates_queue' \in Seq(Update)
      BY <2>1, <2>2, BroadcastType DEF HandleSuspectSelf
    <2>4. QED
      BY <2>1, <2>2, <2>3
         DEF HandleSuspectSelf, TypeOK, peerVars, timerVars, probeVars, lifeVars
  <1>7. CASE \E s \in 1..sequence_num : HandleAck(s) \/ HandleAckWaits(s)
    <2>1. PICK s \in 1..sequence_num : HandleAck(s) \/ HandleAckWaits(s)
      BY <1>7
    <2>2. s \in Sequence
      BY <2>1, BoundsAssumption DEF TypeOK, Sequence
    <2>3. CASE HandleAck(s)
      BY <2>3, AnswerProbeType DEF HandleAck, TypeOK, TimersType, outVars, lifeVars
    <2>4. CASE HandleAckWaits(s)
      BY <2>2, <2>4
         DEF HandleAckWaits, TypeOK, peerVars, timerVars, outVars, lifeVars
    <2>5. QED
      BY <2>1, <2>3, <2>4
  <1>8. CASE \E p \in Peer, i \in Incarnation : AddPeer(p, i)
    <2>1. PICK p \in Peer, i \in Incarnation : AddPeer(p, i)
      BY <1>8
    <2>2. probe' \in ProbeTask
      BY <2>1, DetachType DEF AddPeer, TypeOK
    <2>3. QED
      BY <2>1, <2>2 DEF AddPeer, TypeOK, PeerState, timerVars, outVars, lifeVars
  <1>9. CASE \E p \in Peer : RemovePeer(p)
    <2>1. PICK p \in Peer : RemovePeer(p)
      BY <1>9
    <2>2. probe' \in ProbeTask /\ 0 \in Incarnation
      BY <2>1, DetachType, BoundsAssumption DEF RemovePeer, Incarnation
    <2>3. QED
      BY <2>1, <2>2 DEF RemovePeer, TypeOK, timerVars, outVars, lifeVars
  <1>10. CASE Start
    BY <1>10, NoProbeType, BoundsAssumption
       DEF Start, TypeOK, Phase, ProbeAt, peerVars, timerVars, outVars
  <1>11. CASE StopProbe
    BY <1>11, NoProbeType
       DEF StopProbe, TypeOK, Phase, ProbeAt, peerVars, timerVars, outVars
  <1>12. CASE StopTimers
    BY <1>12
       DEF StopTimers, Cancelled, TypeOK, Phase, peerVars, probeVars, outVars
  <1>13. CASE GetPendingUpdates
    <2>1. updates_queue' \in Seq(Update)
      BY <1>13, BoundsAssumption DEF GetPendingUpdates, TypeOK
    <2>2. QED
      BY <1>13, <2>1
         DEF GetPendingUpdates, TypeOK, peerVars, timerVars, probeVars, lifeVars
  <1>14. CASE \E h \in Handle : TimerFires(h)
    BY <1>14 DEF TimerFires, TypeOK, peerVars, probeVars, outVars, lifeVars
  <1>15. CASE \E h \in Handle : ConfirmDead(h)
    <2>1. PICK h \in Handle : ConfirmDead(h)
      BY <1>15
    <2>2. state' \in [Peer -> PeerState \cup {"absent"}]
      BY <2>1 DEF ConfirmDead, TypeOK, PeerState
    <2>3. QED
      BY <2>1, <2>2 DEF ConfirmDead, TypeOK, probeVars, outVars, lifeVars
  <1>16. CASE \E p \in Peer : ProbeRound(p)
    <2>1. PICK p \in Peer : ProbeRound(p)
      BY <1>16
    <2>2. sequence_num + 1 \in Sequence /\ sequence_num + 1 \in 0..MaxSeq
      BY <2>1, BoundsAssumption DEF ProbeRound, TypeOK, Sequence
    <2>3. probe' \in ProbeTask
      BY <2>1, <2>2, BoundsAssumption DEF ProbeRound, ProbeTask, ProbeAt
    <2>4. QED
      BY <2>1, <2>2, <2>3 DEF ProbeRound, TypeOK, peerVars, timerVars, lifeVars
  <1>17. CASE ProbeAnswered
    BY <1>17, NoProbeType
       DEF ProbeAnswered, ProbeAt, TypeOK, peerVars, timerVars, outVars, lifeVars
  <1>18. CASE ProbeSuspects
    <2>1. probe' \in ProbeTask
      BY <1>18, NoProbeType DEF ProbeSuspects, ProbeAt
    <2>2. CASE state[probe.target] # "alive"
      BY <1>18, <2>1, <2>2
         DEF ProbeSuspects, SuspectPeer, TypeOK, peerVars, timerVars, outVars, lifeVars
    <2>3. CASE state[probe.target] = "alive"
      <3>1. probe.target \in Peer
        BY <1>18 DEF ProbeSuspects, ProbeUnanswered, TypeOK
      <3> DEFINE i == IF probe.stale = -1 THEN incarnation[probe.target] ELSE probe.stale
      <3>2. i \in Incarnation
        BY <3>1, BoundsAssumption DEF TypeOK, ProbeTask, Incarnation
      <3>3. /\ StartSuspicionTimer(probe.target)
            /\ Broadcast("SUSPECT", probe.target, i)
            /\ state' = [state EXCEPT ![probe.target] = "suspect"]
            /\ UNCHANGED <<incarnation, localInc>>
        BY <1>18, <2>3 DEF ProbeSuspects, SuspectPeer
      <3> HIDE DEF i
      <3>4. sequence_num' \in 0..MaxSeq /\ updates_queue' \in Seq(Update)
        BY <3>1, <3>2, <3>3, BroadcastType
      <3>5. TimersType'
        BY <3>1, <3>3, StartTimerType
      <3>6. QED
        BY <1>18, <2>1, <3>1, <3>3, <3>4, <3>5
           DEF ProbeSuspects, TypeOK, TimersType, PeerState, lifeVars
    <2>4. QED
      BY <2>2, <2>3
  <1>19. CASE ProbeBlocks
    BY <1>19 DEF ProbeBlocks, TypeOK, ProbeTask, ProbeAt,
                 peerVars, timerVars, outVars, lifeVars
  <1>20. CASE \E s \in Sequence : HandleAckResumes(s)
    BY <1>20, AnswerProbeType
       DEF HandleAckResumes, TypeOK, TimersType, outVars, lifeVars
  <1>21. QED
    BY <1>1, <1>2, <1>3, <1>4, <1>5, <1>6, <1>7, <1>8, <1>9, <1>10, <1>11, <1>12,
       <1>13, <1>14, <1>15, <1>16, <1>17, <1>18, <1>19, <1>20
       DEF Next, Message, Application, Loop, ProbeTimeout

(* A new manager has the right types. *)
LEMMA TypeInit == Init => TypeOK
  BY BoundsAssumption, NoProbeType
     DEF Init, TypeOK, Phase, Incarnation, PeerState, ProbeAt

(* Every variable of the manager keeps its type in every behaviour. *)
THEOREM TypeCorrect == Spec => []TypeOK
  <1>1. Init => TypeOK
    BY TypeInit
  <1>2. TypeOK /\ [Next]_vars => TypeOK'
    BY TypeStep
  <1>3. QED
    BY <1>1, <1>2, PTL DEF Spec

-----------------------------------------------------------------------------
(* SuspectIsTimed is not inductive by itself.  It needs that an entry of    *)
(* suspicion_timers names a handle of that peer (so cancelling it takes no *)
(* other peer's timer away), that a fired handle still has its peer (so     *)
(* _confirm_dead ends that peer's suspicion and no other), and that a       *)
(* manager which has stopped was started.                                   *)
FiredHandlesOwned == \A h \in fired : owner[h] # NoPeer
StartedBeforeStop == phase # "new" => starts >= 1

IInv ==
    /\ TypeOK
    /\ TimerEntriesLive
    /\ FiredHandlesOwned
    /\ StartedBeforeStop
    /\ SuspectIsTimed

(* What the steps do to the timers, given the inductive invariant. *)
TimersInv == TimerEntriesLive /\ FiredHandlesOwned

(* Cancelling the entry of p frees no handle of another peer. *)
LEMMA CancelTimerKeeps ==
    ASSUME IInv, NEW p \in Peer, CancelTimer(p)
    PROVE  /\ TimersInv'
           /\ \A q \in Peer \ {p} : \A h \in Handle : owner[h] = q => owner'[h] = q
  BY HandleAssumption, PeerAssumption
     DEF IInv, TypeOK, CancelTimer, Cancelled, TimersInv, TimerEntriesLive,
         FiredHandlesOwned

(* Starting a timer for p leaves p with one, and takes none from others. *)
LEMMA StartTimerKeeps ==
    ASSUME IInv, NEW p \in Peer, StartSuspicionTimer(p)
    PROVE  /\ TimersInv'
           /\ \E h \in Handle : owner'[h] = p
           /\ \A q \in Peer : \A h \in Handle : owner[h] = q => owner'[h] = q
  <1>1. CASE suspicion_timers[p] # NoHandle
    <2>1. UNCHANGED timerVars
      BY <1>1 DEF StartSuspicionTimer, timerVars
    <2>2. suspicion_timers[p] \in Handle /\ owner[suspicion_timers[p]] = p
      BY <1>1 DEF IInv, TypeOK, TimerEntriesLive
    <2>3. QED
      BY <2>1, <2>2
         DEF IInv, timerVars, TimersInv, TimerEntriesLive, FiredHandlesOwned
  <1>2. CASE suspicion_timers[p] = NoHandle
    <2>1. PICK h \in Handle :
            /\ owner[h] = NoPeer
            /\ suspicion_timers' = [suspicion_timers EXCEPT ![p] = h]
            /\ owner' = [owner EXCEPT ![h] = p]
            /\ fired' = fired
      BY <1>2 DEF StartSuspicionTimer
    <2>2. QED
      BY <2>1, PeerAssumption
         DEF IInv, TypeOK, TimersInv, TimerEntriesLive, FiredHandlesOwned
  <1>3. QED
    BY <1>1, <1>2

(* Steps that leave the timers and the life cycle alone and make no peer   *)
(* SUSPECT keep the invariant.                                              *)
LEMMA NoTimerStep ==
    ASSUME IInv, TypeOK', UNCHANGED timerVars, UNCHANGED lifeVars,
           \A q \in Peer : state'[q] = "suspect" => state[q] = "suspect"
    PROVE  IInv'
  BY DEF IInv, TimerEntriesLive, FiredHandlesOwned, StartedBeforeStop,
         SuspectIsTimed, NeverStopped, timerVars, lifeVars

(* Likewise ApplyAlive, which may cancel the timer of the revived peer. *)
LEMMA ApplyAliveKeeps ==
    ASSUME IInv, TypeOK', NEW p \in Peer, NEW i \in Incarnation, ApplyAlive(p, i),
           UNCHANGED lifeVars
    PROVE  IInv'
  <1>1. \A q \in Peer : state'[q] = "suspect" => state[q] = "suspect"
    BY DEF IInv, TypeOK, ApplyAlive, peerVars
  <1>2. CASE UNCHANGED timerVars
    BY <1>1, <1>2, NoTimerStep
  <1>3. CASE CancelTimer(p) /\ state' = [state EXCEPT ![p] = "alive"]
    BY <1>1, <1>3, CancelTimerKeeps
       DEF IInv, TypeOK, TimersInv, StartedBeforeStop, SuspectIsTimed, NeverStopped,
           lifeVars
  <1>4. QED
    BY <1>2, <1>3 DEF ApplyAlive

(* Making p SUSPECT together with _start_suspicion_timer keeps it. *)
LEMMA SuspectKeeps ==
    ASSUME IInv, TypeOK', NEW p \in Peer, StartSuspicionTimer(p),
           state' = [state EXCEPT ![p] = "suspect"], UNCHANGED lifeVars
    PROVE  IInv'
  BY StartTimerKeeps
     DEF IInv, TypeOK, TimersInv, StartedBeforeStop, SuspectIsTimed, NeverStopped,
         lifeVars

(* And so does the body of _handle_ack. *)
LEMMA AnswerProbeKeeps ==
    ASSUME IInv, TypeOK', NEW s, AnswerProbe(s), UNCHANGED lifeVars
    PROVE  IInv'
  <1>1. CASE UNCHANGED <<peerVars, timerVars>>
    BY <1>1, NoTimerStep DEF peerVars, timerVars
  <1>2. CASE \E e \in pending_probes : e[1] = s /\ ApplyAlive(e[2], DefaultIncarnation)
    <2>1. PICK e \in pending_probes : ApplyAlive(e[2], DefaultIncarnation)
      BY <1>2
    <2>2. e[2] \in Peer /\ DefaultIncarnation \in Incarnation
      BY BoundsAssumption DEF IInv, TypeOK, DefaultIncarnation, Incarnation
    <2>3. QED
      BY <2>1, <2>2, ApplyAliveKeeps
  <1>3. QED
    BY <1>1, <1>2 DEF AnswerProbe

(* The inductive invariant is kept by every step: one case per action. *)
LEMMA InvStep ==
    ASSUME IInv, [Next]_vars
    PROVE  IInv'
  <1>0. TypeOK'
    BY TypeStep DEF IInv
  <1>1. CASE UNCHANGED vars
    BY <1>0, <1>1, NoTimerStep DEF vars, timerVars, lifeVars
  <1>2. CASE \E p \in Peer : HandlePing(p)
    BY <1>0, <1>2, NoTimerStep DEF HandlePing
  <1>3. CASE \E p \in Peer, i \in Incarnation : HandleAlive(p, i)
    BY <1>0, <1>3, ApplyAliveKeeps DEF HandleAlive
  <1>4. CASE \E p \in Peer, i \in Incarnation : HandleSuspect(p, i)
    BY <1>0, <1>4, SuspectKeeps DEF HandleSuspect
  <1>5. CASE \E p \in Peer, i \in Incarnation : HandleDead(p, i)
    <2>1. PICK p \in Peer, i \in Incarnation : HandleDead(p, i)
      BY <1>5
    <2>2. CancelTimer(p) /\ UNCHANGED lifeVars /\ state' = [state EXCEPT ![p] = "dead"]
      BY <2>1 DEF HandleDead
    <2>3. QED
      BY <1>0, <2>2, CancelTimerKeeps
         DEF IInv, TypeOK, TimersInv, StartedBeforeStop, SuspectIsTimed, NeverStopped,
             lifeVars
  <1>6. CASE \E i \in Incarnation : HandleSuspectSelf(i)
    BY <1>0, <1>6, NoTimerStep DEF HandleSuspectSelf, peerVars
  <1>7. CASE \E s \in 1..sequence_num : HandleAck(s) \/ HandleAckWaits(s)
    <2>1. PICK s \in 1..sequence_num : HandleAck(s) \/ HandleAckWaits(s)
      BY <1>7
    <2>2. CASE HandleAck(s)
      BY <1>0, <2>2, AnswerProbeKeeps DEF HandleAck
    <2>3. CASE HandleAckWaits(s)
      BY <1>0, <2>3, NoTimerStep DEF HandleAckWaits, peerVars
    <2>4. QED
      BY <2>1, <2>2, <2>3
  <1>8. CASE \E p \in Peer, i \in Incarnation : AddPeer(p, i)
    <2>1. PICK p \in Peer, i \in Incarnation : AddPeer(p, i)
      BY <1>8
    <2>2. \A q \in Peer : state'[q] = "suspect" => state[q] = "suspect"
      BY <2>1 DEF AddPeer, IInv, TypeOK
    <2>3. QED
      BY <1>0, <2>1, <2>2, NoTimerStep DEF AddPeer
  <1>9. CASE \E p \in Peer : RemovePeer(p)
    <2>1. PICK p \in Peer : RemovePeer(p)
      BY <1>9
    <2>2. \A q \in Peer : state'[q] = "suspect" => state[q] = "suspect"
      BY <2>1 DEF RemovePeer, IInv, TypeOK
    <2>3. QED
      BY <1>0, <2>1, <2>2, NoTimerStep DEF RemovePeer
  <1>10. CASE Start
    BY <1>0, <1>10
       DEF Start, IInv, TypeOK, TimerEntriesLive, FiredHandlesOwned, StartedBeforeStop,
           SuspectIsTimed, NeverStopped, peerVars, timerVars
  <1>11. CASE StopProbe
    BY <1>0, <1>11
       DEF StopProbe, IInv, TypeOK, TimerEntriesLive, FiredHandlesOwned,
           StartedBeforeStop, SuspectIsTimed, NeverStopped, peerVars, timerVars
  <1>12. CASE StopTimers
    BY <1>0, <1>12
       DEF StopTimers, Cancelled, IInv, TypeOK, TimerEntriesLive, FiredHandlesOwned,
           StartedBeforeStop, SuspectIsTimed, NeverStopped
  <1>13. CASE GetPendingUpdates
    BY <1>0, <1>13, NoTimerStep DEF GetPendingUpdates, peerVars
  <1>14. CASE \E h \in Handle : TimerFires(h)
    BY <1>0, <1>14
       DEF TimerFires, IInv, TimerEntriesLive, FiredHandlesOwned, StartedBeforeStop,
           SuspectIsTimed, NeverStopped, peerVars, lifeVars
  <1>15. CASE \E h \in Handle : ConfirmDead(h)
    <2>1. PICK h \in Handle : ConfirmDead(h)
      BY <1>15
    <2> DEFINE p == owner[h]
    <2>2. p \in Peer
      BY <2>1 DEF ConfirmDead, IInv, TypeOK, FiredHandlesOwned
    <2>3. TimerEntriesLive' /\ FiredHandlesOwned' /\ StartedBeforeStop'
      BY <2>1, <2>2 DEF ConfirmDead, IInv, TypeOK, TimerEntriesLive,
                        FiredHandlesOwned, StartedBeforeStop, lifeVars
    <2>4. \A q \in Peer : state'[q] = "suspect" => state[q] = "suspect" /\ q # p
      BY <2>1, <2>2 DEF ConfirmDead, IInv, TypeOK
    <2>5. \A g \in Handle : owner[g] # p => owner'[g] = owner[g]
      BY <2>1 DEF ConfirmDead, IInv, TypeOK
    <2>6. SuspectIsTimed'
      BY <2>1, <2>4, <2>5
         DEF ConfirmDead, IInv, SuspectIsTimed, NeverStopped, lifeVars
    <2>7. QED
      BY <1>0, <2>3, <2>6 DEF IInv
  <1>16. CASE \E p \in Peer : ProbeRound(p)
    BY <1>0, <1>16, NoTimerStep DEF ProbeRound, peerVars
  <1>17. CASE ProbeAnswered
    BY <1>0, <1>17, NoTimerStep DEF ProbeAnswered, peerVars
  <1>18. CASE ProbeSuspects
    <2>1. probe.target \in Peer /\ UNCHANGED lifeVars
      BY <1>18 DEF ProbeSuspects, ProbeUnanswered, IInv, TypeOK
    <2>2. CASE state[probe.target] = "alive"
      BY <1>0, <1>18, <2>1, <2>2, SuspectKeeps DEF ProbeSuspects, SuspectPeer
    <2>3. CASE state[probe.target] # "alive"
      BY <1>0, <1>18, <2>1, <2>3, NoTimerStep
         DEF ProbeSuspects, SuspectPeer, peerVars, timerVars
    <2>4. QED
      BY <2>2, <2>3
  <1>19. CASE ProbeBlocks
    BY <1>0, <1>19, NoTimerStep DEF ProbeBlocks, peerVars
  <1>20. CASE \E s \in Sequence : HandleAckResumes(s)
    BY <1>0, <1>20, AnswerProbeKeeps DEF HandleAckResumes
  <1>21. QED
    BY <1>1, <1>2, <1>3, <1>4, <1>5, <1>6, <1>7, <1>8, <1>9, <1>10, <1>11, <1>12,
       <1>13, <1>14, <1>15, <1>16, <1>17, <1>18, <1>19, <1>20
       DEF Next, Message, Application, Loop, ProbeTimeout

(* The inductive invariant holds in every behaviour. *)
LEMMA Inductive == Spec => []IInv
  <1>1. Init => IInv
    BY TypeInit
       DEF Init, IInv, TimerEntriesLive, FiredHandlesOwned, StartedBeforeStop,
           SuspectIsTimed
  <1>2. IInv /\ [Next]_vars => IInv'
    BY InvStep
  <1>3. QED
    BY <1>1, <1>2, PTL DEF Spec

(* No suspicion is forgotten: until the first stop(), a SUSPECT peer has a *)
(* timer running or a _confirm_dead task pending.                          *)
THEOREM SuspicionIsTimed == Spec => []SuspectIsTimed
  <1>1. IInv => SuspectIsTimed
    BY DEF IInv
  <1>2. QED
    BY <1>1, Inductive, PTL

(* suspicion_timers never holds a left-over entry, also after stop(). *)
THEOREM EntriesAreLive == Spec => []TimerEntriesLive
  <1>1. IInv => TimerEntriesLive
    BY DEF IInv
  <1>2. QED
    BY <1>1, Inductive, PTL

-----------------------------------------------------------------------------
(* The queue of updates and the open probes share one counter, so their    *)
(* invariants are proved together.                                         *)
SequenceInv == RefutationsCurrent /\ ProbesDistinct /\ BlockedProbeStaysOpen

(* An update in the queue has its fields. *)
LEMMA UpdateFields ==
    ASSUME TypeOK, NEW n \in DOMAIN updates_queue
    PROVE  updates_queue[n].seq \in Sequence
  <1>1. updates_queue[n] \in Update
    BY DEF TypeOK
  <1>2. QED
    BY <1>1 DEF Update

(* A broadcast takes a number above all those in use.  An ALIVE becomes the *)
(* newest refutation and carries the incarnation just raised; a SUSPECT     *)
(* leaves the newest refutation what it was.                                *)
LEMMA BroadcastKeeps ==
    ASSUME TypeOK, RefutationsCurrent, ProbesDistinct, pending_probes' = pending_probes,
           NEW type, NEW target, NEW i, Broadcast(type, target, i),
           \/ type = "SUSPECT" /\ localInc' = localInc
           \/ type = "ALIVE" /\ localInc' = i
    PROVE  RefutationsCurrent' /\ ProbesDistinct'
  <1> DEFINE u == [type |-> type, target |-> target, seq |-> sequence_num + 1, inc |-> i]
             L == Len(updates_queue)
  <1>1. /\ updates_queue' = Append(updates_queue, u)
        /\ sequence_num' = sequence_num + 1
        /\ sequence_num \in Nat /\ L \in Nat /\ updates_queue \in Seq(Update)
    BY BoundsAssumption DEF Broadcast, TypeOK
  <1>2. u.type = type /\ u.seq = sequence_num + 1 /\ u.inc = i
    OBVIOUS
  <1> HIDE DEF u
  <1>3. /\ DOMAIN updates_queue = 1..L /\ DOMAIN updates_queue' = 1..(L + 1)
        /\ \A n \in 1..L : updates_queue'[n] = updates_queue[n]
        /\ updates_queue'[L + 1] = u
    BY <1>1
  <1>4. \A n \in 1..L : updates_queue[n].seq \in Nat /\ updates_queue[n].seq <= sequence_num
    BY <1>3, UpdateFields DEF RefutationsCurrent, Sequence
  <1> HIDE DEF L
  <1>5. ASSUME NEW m \in 1..(L + 1), NEW n \in 1..(L + 1), m < n
        PROVE  updates_queue'[m].seq < updates_queue'[n].seq
    <2>1. m \in 1..L
      BY <1>1, <1>5
    <2>2. CASE n = L + 1
      BY <1>1, <1>2, <1>3, <1>4, <2>1, <2>2
    <2>3. CASE n # L + 1
      <3>1. n \in 1..L
        BY <1>1, <2>3
      <3>2. QED
        BY <1>3, <1>5, <2>1, <3>1 DEF RefutationsCurrent
    <2>4. QED
      BY <2>2, <2>3
  <1>6. ASSUME NEW n \in 1..(L + 1)
        PROVE  updates_queue'[n].seq <= sequence_num'
    <2>1. CASE n = L + 1
      BY <1>1, <1>2, <1>3, <2>1
    <2>2. CASE n # L + 1
      <3>1. n \in 1..L
        BY <1>1, <2>2
      <3>2. QED
        BY <1>1, <1>3, <1>4, <3>1
    <2>3. QED
      BY <2>1, <2>2
  <1>7. ASSUME NEW n \in 1..(L + 1), updates_queue'[n].type = "ALIVE",
               \A m \in 1..(L + 1) : m > n => updates_queue'[m].type # "ALIVE"
        PROVE  updates_queue'[n].inc = localInc'
    <2>1. CASE n = L + 1
      BY <1>2, <1>3, <1>7, <2>1
    <2>2. CASE n # L + 1
      <3>1. n \in 1..L /\ L + 1 > n /\ L + 1 \in 1..(L + 1) /\ 1..L \subseteq 1..(L + 1)
        BY <1>1, <2>2
      <3>2. type # "ALIVE"
        BY <1>2, <1>3, <1>7, <3>1
      <3>3. updates_queue[n].inc = localInc
        BY <1>3, <1>7, <3>1 DEF RefutationsCurrent
      <3>4. QED
        BY <1>3, <3>1, <3>2, <3>3
    <2>3. QED
      BY <2>1, <2>2
  <1>8. RefutationsCurrent'
    BY <1>3, <1>5, <1>6, <1>7 DEF RefutationsCurrent
  <1>9. \A e \in pending_probes : e[1] \in Nat /\ e[1] <= sequence_num
    BY BoundsAssumption DEF TypeOK, Sequence, ProbesDistinct
  <1>10. ASSUME NEW e \in pending_probes, NEW n \in 1..(L + 1)
         PROVE  e[1] # updates_queue'[n].seq
    <2>1. CASE n = L + 1
      BY <1>1, <1>2, <1>3, <1>9, <2>1
    <2>2. CASE n # L + 1
      <3>1. n \in 1..L
        BY <1>1, <2>2
      <3>2. QED
        BY <1>3, <3>1 DEF ProbesDistinct
    <2>3. QED
      BY <2>1, <2>2
  <1>11. \A e \in pending_probes : e[1] <= sequence_num'
    BY <1>1, <1>9
  <1>12. ProbesDistinct'
    BY <1>3, <1>10, <1>11 DEF ProbesDistinct
  <1>13. QED
    BY <1>8, <1>12

(* get_pending_updates takes the oldest updates: a refutation that stays    *)
(* behind keeps every later one behind it.                                  *)
LEMMA DrainKeeps ==
    ASSUME TypeOK, RefutationsCurrent, ProbesDistinct, GetPendingUpdates
    PROVE  RefutationsCurrent' /\ ProbesDistinct'
  <1> DEFINE L == Len(updates_queue)
             q == SubSeq(updates_queue, BatchSize + 1, L)
  <1>1. /\ updates_queue \in Seq(Update) /\ L \in Nat /\ BatchSize \in Nat
        /\ DOMAIN updates_queue = 1..L
        /\ UNCHANGED <<sequence_num, localInc, pending_probes>>
    BY BoundsAssumption DEF TypeOK, GetPendingUpdates, probeVars
  <1>2. CASE L <= BatchSize
    <2>1. updates_queue' = <<>>
      BY <1>2 DEF GetPendingUpdates
    <2>2. DOMAIN updates_queue' = {}
      BY <2>1
    <2>3. QED
      BY <1>1, <2>2 DEF RefutationsCurrent, ProbesDistinct
  <1>3. CASE L > BatchSize
    <2> DEFINE K == L - BatchSize
    <2>1. updates_queue' = q
      BY <1>1, <1>3 DEF GetPendingUpdates
    <2>2. /\ K \in Nat /\ DOMAIN q = 1..K
          /\ \A n \in 1..K : q[n] = updates_queue[n + BatchSize]
      BY <1>1, <1>3
    <2> HIDE DEF q
    <2>3. \A n \in 1..K : n + BatchSize \in 1..L
      BY <1>1
    <2>4. ASSUME NEW m \in 1..K, NEW n \in 1..K, m < n
          PROVE  q[m].seq < q[n].seq
      <3>1. m + BatchSize < n + BatchSize
        BY <1>1, <2>4
      <3>2. QED
        BY <1>1, <2>2, <2>3, <3>1 DEF RefutationsCurrent
    <2>5. \A n \in 1..K : q[n].seq <= sequence_num
      BY <1>1, <2>2, <2>3 DEF RefutationsCurrent
    <2>6. ASSUME NEW n \in 1..K, q[n].type = "ALIVE",
                 \A m \in 1..K : m > n => q[m].type # "ALIVE"
          PROVE  q[n].inc = localInc
      <3>1. ASSUME NEW m \in 1..L, m > n + BatchSize
            PROVE  updates_queue[m].type # "ALIVE"
        <4>1. /\ m - BatchSize \in 1..K /\ m - BatchSize > n
              /\ (m - BatchSize) + BatchSize = m
          BY <1>1, <1>3, <3>1
        <4>2. QED
          BY <2>2, <2>6, <4>1
      <3>2. QED
        BY <1>1, <2>2, <2>3, <2>6, <3>1 DEF RefutationsCurrent
    <2>7. RefutationsCurrent'
      BY <1>1, <2>1, <2>2, <2>4, <2>5, <2>6 DEF RefutationsCurrent
    <2>8. ProbesDistinct'
      BY <1>1, <2>1, <2>2, <2>3 DEF ProbesDistinct
    <2>9. QED
      BY <2>7, <2>8
  <1>4. QED
    BY <1>1, <1>2, <1>3

(* A step that leaves the counter, the queue and the incarnation alone and *)
(* opens no probe keeps them consistent.                                   *)
LEMMA QuietStep ==
    ASSUME RefutationsCurrent, ProbesDistinct, UNCHANGED outVars,
           pending_probes' \subseteq pending_probes
    PROVE  RefutationsCurrent' /\ ProbesDistinct'
  BY DEF RefutationsCurrent, ProbesDistinct, outVars

(* An answer is handled only while nobody holds probe_lock. *)
LEMMA AnswerStep ==
    ASSUME SequenceInv, NEW s, AnswerProbe(s), probe.at # "locked", UNCHANGED probe,
           UNCHANGED outVars
    PROVE  SequenceInv'
  <1>1. pending_probes' \subseteq pending_probes
    BY DEF AnswerProbe
  <1>2. BlockedProbeStaysOpen'
    BY DEF BlockedProbeStaysOpen
  <1>3. QED
    BY <1>1, <1>2, QuietStep DEF SequenceInv

(* Detaching the probe's Peer object leaves its place, number and target. *)
LEMMA DetachKeeps ==
    ASSUME TypeOK, NEW p, Detach(p), SequenceInv, UNCHANGED <<pending_probes, outVars>>
    PROVE  SequenceInv'
  <1>1. probe'.at = probe.at /\ probe'.seq = probe.seq /\ probe'.target = probe.target
    BY DEF Detach, TypeOK, ProbeTask
  <1>2. BlockedProbeStaysOpen'
    BY <1>1 DEF SequenceInv, BlockedProbeStaysOpen, ProbeUnanswered
  <1>3. QED
    BY <1>2, QuietStep DEF SequenceInv

(* A probe task that is off or idle holds nothing. *)
LEMMA NoProbeStep ==
    ASSUME SequenceInv, NEW a \in {"off", "idle"}, probe' = NoProbe(a),
           UNCHANGED <<pending_probes, outVars>>
    PROVE  SequenceInv'
  <1>1. BlockedProbeStaysOpen'
    BY DEF BlockedProbeStaysOpen, NoProbe
  <1>2. QED
    BY <1>1, QuietStep DEF SequenceInv

(* Every step keeps the updates, the probes and their numbers consistent. *)
LEMMA SequenceStep ==
    ASSUME TypeOK, SequenceInv, [Next]_vars
    PROVE  SequenceInv'
  <1>1. CASE UNCHANGED <<probe, pending_probes, outVars>>
    <2>1. BlockedProbeStaysOpen'
      BY <1>1 DEF SequenceInv, BlockedProbeStaysOpen, ProbeUnanswered
    <2>2. QED
      BY <1>1, <2>1, QuietStep DEF SequenceInv
  <1>2. CASE \/ \E p \in Peer : HandlePing(p)
             \/ \E p \in Peer, i \in Incarnation :
                   HandleAlive(p, i) \/ HandleSuspect(p, i) \/ HandleDead(p, i)
             \/ \E s \in 1..sequence_num : HandleAckWaits(s)
    BY <1>1, <1>2 DEF HandlePing, HandleAlive, HandleSuspect, HandleDead, HandleAckWaits,
                      probeVars
  <1>3. CASE \E h \in Handle : TimerFires(h) \/ ConfirmDead(h)
    BY <1>1, <1>3 DEF TimerFires, ConfirmDead, probeVars
  <1>4. CASE StopTimers \/ UNCHANGED vars
    BY <1>1, <1>4 DEF StopTimers, vars, probeVars, outVars
  <1>5. CASE \E i \in Incarnation : HandleSuspectSelf(i)
    <2>1. PICK i \in Incarnation : HandleSuspectSelf(i)
      BY <1>5
    <2>2. UNCHANGED <<probe, pending_probes>>
      BY <2>1 DEF HandleSuspectSelf, probeVars
    <2>3. Broadcast("ALIVE", Self, Refutation(i)) /\ localInc' = Refutation(i)
      BY <2>1 DEF HandleSuspectSelf
    <2>4. RefutationsCurrent' /\ ProbesDistinct'
      BY <2>2, <2>3, BroadcastKeeps DEF SequenceInv
    <2>5. QED
      BY <2>2, <2>4 DEF SequenceInv, BlockedProbeStaysOpen, ProbeUnanswered
  <1>6. CASE \E s \in 1..sequence_num : HandleAck(s)
    BY <1>6, AnswerStep DEF HandleAck
  <1>7. CASE \E s \in Sequence : HandleAckResumes(s)
    BY <1>7, AnswerStep DEF HandleAckResumes
  <1>8. CASE \E p \in Peer, i \in Incarnation : AddPeer(p, i)
    <2>1. PICK p \in Peer, i \in Incarnation : AddPeer(p, i)
      BY <1>8
    <2>2. UNCHANGED <<pending_probes, outVars>>
      BY <2>1 DEF AddPeer
    <2>3. UNCHANGED probe \/ Detach(p)
      BY <2>1 DEF AddPeer
    <2>4. QED
      BY <1>1, <2>2, <2>3, DetachKeeps
  <1>9. CASE \E p \in Peer : RemovePeer(p)
    BY <1>9, DetachKeeps DEF RemovePeer
  <1>10. CASE Start \/ StopProbe \/ ProbeAnswered
    BY <1>10, NoProbeStep DEF Start, StopProbe, ProbeAnswered
  <1>11. CASE GetPendingUpdates
    <2>1. RefutationsCurrent' /\ ProbesDistinct'
      BY <1>11, DrainKeeps DEF SequenceInv
    <2>2. QED
      BY <1>11, <2>1
         DEF GetPendingUpdates, SequenceInv, BlockedProbeStaysOpen, ProbeUnanswered, probeVars
  <1>12. CASE \E p \in Peer : ProbeRound(p)
    <2>1. PICK p \in Peer : ProbeRound(p)
      BY <1>12
    <2>2. /\ sequence_num' = sequence_num + 1 /\ sequence_num \in Nat
          /\ pending_probes' = pending_probes \cup {<<sequence_num + 1, p>>}
          /\ UNCHANGED <<localInc, updates_queue>> /\ probe'.at = "direct"
      BY <2>1, BoundsAssumption DEF ProbeRound, TypeOK
    <2>3. \A n \in DOMAIN updates_queue :
             updates_queue[n].seq \in Nat /\ updates_queue[n].seq <= sequence_num
      BY UpdateFields DEF SequenceInv, RefutationsCurrent, Sequence
    <2>4. \A e \in pending_probes : e[1] \in Nat /\ e[1] <= sequence_num
      BY BoundsAssumption DEF TypeOK, Sequence, SequenceInv, ProbesDistinct
    <2>5. RefutationsCurrent'
      BY <2>2, <2>3 DEF SequenceInv, RefutationsCurrent
    <2>6. ProbesDistinct'
      BY <2>2, <2>3, <2>4 DEF SequenceInv, ProbesDistinct
    <2>7. QED
      BY <2>2, <2>5, <2>6 DEF SequenceInv, BlockedProbeStaysOpen
  <1>13. CASE ProbeSuspects
    <2>1. pending_probes' = pending_probes /\ probe' = NoProbe("idle")
      BY <1>13 DEF ProbeSuspects
    <2>2. CASE state[probe.target] = "alive"
      <3>1. PICK i : Broadcast("SUSPECT", probe.target, i) /\ localInc' = localInc
        BY <1>13, <2>2 DEF ProbeSuspects, SuspectPeer
      <3>2. RefutationsCurrent' /\ ProbesDistinct'
        BY <2>1, <3>1, BroadcastKeeps DEF SequenceInv
      <3>3. QED
        BY <2>1, <3>2 DEF SequenceInv, BlockedProbeStaysOpen, NoProbe
    <2>3. CASE state[probe.target] # "alive"
      BY <1>13, <2>1, <2>3, NoProbeStep DEF ProbeSuspects, SuspectPeer
    <2>4. QED
      BY <2>2, <2>3
  <1>14. CASE ProbeBlocks
    <2>1. /\ ProbeUnanswered /\ UNCHANGED <<pending_probes, outVars>>
          /\ probe' = [probe EXCEPT !.at = "locked"]
      BY <1>14 DEF ProbeBlocks
    <2>2. probe'.seq = probe.seq /\ probe'.target = probe.target
      BY <2>1 DEF TypeOK, ProbeTask
    <2>3. BlockedProbeStaysOpen'
      BY <2>1, <2>2 DEF BlockedProbeStaysOpen, ProbeUnanswered
    <2>4. QED
      BY <2>1, <2>3, QuietStep DEF SequenceInv
  <1>15. QED
    BY <1>2, <1>3, <1>4, <1>5, <1>6, <1>7, <1>8, <1>9, <1>10, <1>11, <1>12, <1>13, <1>14
       DEF Next, Message, Application, Loop, ProbeTimeout

(* The counter's invariant holds in every behaviour. *)
LEMMA SequenceInductive == Spec => [](TypeOK /\ SequenceInv)
  <1>1. Init => TypeOK /\ SequenceInv
    <2>1. Init => RefutationsCurrent /\ ProbesDistinct /\ BlockedProbeStaysOpen
      BY DEF Init, RefutationsCurrent, ProbesDistinct, BlockedProbeStaysOpen, NoProbe
    <2>2. QED
      BY <2>1, TypeInit DEF SequenceInv
  <1>2. TypeOK /\ SequenceInv /\ [Next]_vars => (TypeOK /\ SequenceInv)'
    BY TypeStep, SequenceStep
  <1>3. QED
    BY <1>1, <1>2, PTL DEF Spec

(* The newest refutation in updates_queue carries the node's present        *)
(* incarnation, and updates leave in the order they were numbered, however *)
(* suspicions of this node and of peers interleave with draining.           *)
THEOREM NewestRefutationIsCurrent == Spec => []RefutationsCurrent
  <1>1. TypeOK /\ SequenceInv => RefutationsCurrent
    BY DEF SequenceInv
  <1>2. QED
    BY <1>1, SequenceInductive, PTL

(* An ACK's sequence number names one PING: no second probe and no queued   *)
(* update ever shares it.                                                   *)
THEOREM AcksUnambiguous == Spec => []ProbesDistinct
  <1>1. TypeOK /\ SequenceInv => ProbesDistinct
    BY DEF SequenceInv
  <1>2. QED
    BY <1>1, SequenceInductive, PTL

(* While _indirect_probe waits for the probe_lock its caller holds, no ACK  *)
(* can close the probe: nothing but cancellation ends the wait.             *)
THEOREM BlockedProbeNeverAnswered == Spec => []BlockedProbeStaysOpen
  <1>1. TypeOK /\ SequenceInv => BlockedProbeStaysOpen
    BY DEF SequenceInv
  <1>2. QED
    BY <1>1, SequenceInductive, PTL

=============================================================================
