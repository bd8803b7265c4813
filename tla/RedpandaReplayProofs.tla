------------------------ MODULE RedpandaReplayProofs ------------------------
(* The distributed replay buffer for any sizes, any number of consumer      *)
(* threads and any traffic on the topic.                                    *)
EXTENDS RedpandaReplay, SequenceTheorems, TLAPS

(* A consumer exists once start_consumer was called.  While it is open only *)
(* one thread was ever started, and nobody can start another one: it runs,  *)
(* or a stop is under way that will close the consumer.                     *)
OneConsumer ==
    /\ consumer = "none" <=> starts = 0
    /\ consumer = "open" => starts = 1 /\ (consuming \/ learner \in {"join", "shut"})
    /\ \A t \in Thread : thread[t] # "none" => t <= starts

(* What was received lies before the position; what a thread still has in   *)
(* hand lies before the position too and after all that was received.       *)
ReadInOrder ==
    /\ \A i \in DOMAIN received : received[i] < position
    /\ \A t \in Thread : thread[t] = "append" =>
          /\ t = 1 /\ hand[t] \in 1..position - 1 /\ topic[hand[t]] = Other
          /\ \A i \in DOMAIN received : received[i] < hand[t]

(* A sample has its remote part only when its positions are drawn. *)
SampleParts ==
    /\ draw.local <= draw.batch
    /\ learner = "read" => draw.more = draw.batch - draw.local
    /\ learner # "read" => draw.more = 0

(* The inductive invariant. *)
IInv ==
    /\ RedpandaTypeOK /\ OneConsumer /\ ReadInOrder /\ SampleParts
    /\ ReceivedInOrder /\ NothingUnsent /\ SampleBounded

-----------------------------------------------------------------------------
(* Appending to a sequence. *)
LEMMA AppendIs ==
    ASSUME NEW S, NEW s \in Seq(S), NEW e \in S
    PROVE  /\ Append(s, e) \in Seq(S) /\ Len(Append(s, e)) = Len(s) + 1
           /\ DOMAIN Append(s, e) = 1..Len(s) + 1
           /\ \A i \in 1..Len(s) : Append(s, e)[i] = s[i]
           /\ Append(s, e)[Len(s) + 1] = e
  OBVIOUS

(* u is s with e at its end, moved by d places. *)
Moved(u, s, e, d) ==
    /\ Len(u) = Len(s) + 1 - d /\ Len(s) - d \in Nat
    /\ \A i \in 1..Len(s) - d : u[i] = s[i + d] /\ i + d \in 1..Len(s)
    /\ u[Len(s) - d + 1] = e

(* deque.append: the new element is last, and what the deque keeps of the   *)
(* others has moved by no place or by one.                                  *)
LEMMA KeptIs ==
    ASSUME NEW S, NEW s \in Seq(S), NEW e \in S, Len(s) <= BufferSize
    PROVE  /\ Kept(s, e) \in Seq(S) /\ Len(Kept(s, e)) <= BufferSize
           /\ Len(Kept(s, e)) >= Len(s)
           /\ \E d \in {0, 1} : Moved(Kept(s, e), s, e, d)
  <1>1. Len(s) \in Nat /\ BufferSize \in Nat \ {0}
    BY RedpandaAssumption
  <1>2. CASE Len(s) = BufferSize
    <2>1. s # <<>>
      BY <1>1, <1>2
    <2>2. /\ Tail(s) \in Seq(S) /\ Len(Tail(s)) = Len(s) - 1
          /\ \A i \in 1..Len(s) - 1 : Tail(s)[i] = s[i + 1]
      BY <2>1, HeadTailProperties
    <2>3. Kept(s, e) = Append(Tail(s), e)
      BY <1>2 DEF Kept
    <2> DEFINE u == Tail(s)
    <2>4. /\ Kept(s, e) \in Seq(S) /\ Len(Kept(s, e)) = Len(s)
          /\ \A i \in 1..Len(s) - 1 : Kept(s, e)[i] = s[i + 1] /\ i + 1 \in 1..Len(s)
          /\ Kept(s, e)[Len(s)] = e
      <3> HIDE DEF u
      <3>1. QED
        BY <1>1, <2>2, <2>3, AppendIs DEF u
    <2>5. Moved(Kept(s, e), s, e, 1)
      BY <1>1, <1>2, <2>4 DEF Moved
    <2>6. QED
      BY <1>1, <1>2, <2>4, <2>5
  <1>3. CASE Len(s) # BufferSize
    <2>1. Kept(s, e) = Append(s, e)
      BY <1>3 DEF Kept
    <2>2. Moved(Kept(s, e), s, e, 0)
      BY <1>1, <1>3, <2>1, AppendIs DEF Moved
    <2>3. QED
      BY <1>1, <1>3, <2>1, <2>2, AppendIs
  <1>4. QED
    BY <1>2, <1>3

(* What add() stores is well typed. *)
LEMMA StoreType ==
    ASSUME RedpandaTypeOK, Store
    PROVE  /\ own' \in 0..MaxOwn /\ own' = own + 1 /\ own' \in 1..own'
           /\ local' \in Seq(1..own') /\ Len(local') <= BufferSize
           /\ topic' \in Seq(0..own') /\ failed' \subseteq 1..own'
           /\ accepted \subseteq 1..own' /\ outbox \in Seq(1..own')
  <1>1. own \in Nat /\ own' = own + 1 /\ own' \in 0..MaxOwn
    BY RedpandaAssumption DEF RedpandaTypeOK, Store
  <1>2. 1..own \subseteq 1..own' /\ 0..own \subseteq 0..own' /\ own' \in 1..own'
    BY <1>1
  <1>3. /\ local \in Seq(1..own') /\ topic \in Seq(0..own') /\ outbox \in Seq(1..own')
    BY <1>2, SeqMonotonic DEF RedpandaTypeOK
  <1>4. local' \in Seq(1..own') /\ Len(local') <= BufferSize
    BY <1>2, <1>3, KeptIs DEF Store, RedpandaTypeOK
  <1>5. QED
    BY <1>1, <1>2, <1>3, <1>4 DEF RedpandaTypeOK, Store

(* A longer topic invalidates nothing. *)
LEMMA TopicType ==
    ASSUME RedpandaTypeOK, NEW e \in 0..own, topic' = Append(topic, e),
           UNCHANGED <<received, position, hand, own>>
    PROVE  /\ topic' \in Seq(0..own') /\ received' \in Seq(1..Len(topic'))
           /\ position' \in 1..Len(topic') + 1 /\ hand' \in [Thread -> 0..Len(topic')]
  <1>1. topic' \in Seq(0..own) /\ Len(topic') = Len(topic) + 1 /\ Len(topic) \in Nat
    BY AppendIs DEF RedpandaTypeOK
  <1>2. 1..Len(topic) \subseteq 1..Len(topic')
    BY <1>1
  <1>3. received \in Seq(1..Len(topic'))
    BY <1>2, SeqMonotonic DEF RedpandaTypeOK
  <1>4. QED
    BY <1>1, <1>3, SMTT(30) DEF RedpandaTypeOK

(* The set of samples in progress, as RedpandaTypeOK has it. *)
Draw == [batch: Nat, remote: BOOLEAN, local: Nat, more: Nat, index: Nat]

(* The empty sample is one. *)
LEMMA NoDrawType == NoDraw \in Draw
  BY DEF NoDraw, Draw

(* Every step keeps the types. *)
LEMMA TypeStep ==
    ASSUME RedpandaTypeOK, OneConsumer, ReadInOrder, SampleParts, [RedpandaNext]_redpandaVars
    PROVE  RedpandaTypeOK'
  <1>1. CASE UNCHANGED redpandaVars
    BY <1>1 DEF RedpandaTypeOK, redpandaVars, bufferVars, producerVars, consumerVars, learnerVars
  <1>2. CASE AddPublished
    <2>1. outbox' \in Seq(1..own') /\ Len(outbox') <= QueueSize
      <3>1. outbox \in Seq(1..own') /\ own' \in 1..own' /\ Len(outbox) \in Nat /\ QueueSize \in Nat
        BY <1>2, StoreType, RedpandaAssumption DEF AddPublished
      <3>2. QED
        BY <1>2, <3>1, AppendIs DEF AddPublished
    <2>2. accepted' \subseteq 1..own'
      BY <1>2, StoreType DEF AddPublished
    <2>3. QED
      BY <1>2, <2>1, <2>2, StoreType
         DEF AddPublished, Store, RedpandaTypeOK, consumerVars, learnerVars
  <1>3. CASE AddUnpublished
    BY <1>3, StoreType DEF AddUnpublished, Store, RedpandaTypeOK, consumerVars, learnerVars
  <1>4. CASE Delivered
    <2>1. Head(outbox) \in 1..own /\ Tail(outbox) \in Seq(1..own) /\ Len(Tail(outbox)) = Len(outbox) - 1
      BY <1>4, HeadTailProperties DEF Delivered, RedpandaTypeOK
    <2>2. Len(outbox') <= QueueSize
      BY <1>4, <2>1, RedpandaAssumption DEF Delivered, RedpandaTypeOK
    <2>3. Head(outbox) \in 0..own
      BY <2>1 DEF RedpandaTypeOK
    <2>4. /\ topic' \in Seq(0..own') /\ received' \in Seq(1..Len(topic'))
          /\ position' \in 1..Len(topic') + 1 /\ hand' \in [Thread -> 0..Len(topic')]
      BY <1>4, <2>3, TopicType DEF Delivered, bufferVars, consumerVars
    <2>5. QED
      BY <1>4, <2>1, <2>2, <2>4
         DEF Delivered, RedpandaTypeOK, bufferVars, consumerVars, learnerVars
  <1>5. CASE DeliveryFailed
    <2>1. Head(outbox) \in 1..own /\ Tail(outbox) \in Seq(1..own) /\ Len(Tail(outbox)) = Len(outbox) - 1
      BY <1>5, HeadTailProperties DEF DeliveryFailed, RedpandaTypeOK
    <2>2. Len(outbox') <= QueueSize
      BY <1>5, <2>1, RedpandaAssumption DEF DeliveryFailed, RedpandaTypeOK
    <2>3. QED
      BY <1>5, <2>1, <2>2
         DEF DeliveryFailed, RedpandaTypeOK, bufferVars, consumerVars, learnerVars
  <1>6. CASE OtherPublishes
    <2>1. Other \in 0..own
      BY DEF Other, RedpandaTypeOK
    <2>2. /\ topic' \in Seq(0..own') /\ received' \in Seq(1..Len(topic'))
          /\ position' \in 1..Len(topic') + 1 /\ hand' \in [Thread -> 0..Len(topic')]
      BY <1>6, <2>1, TopicType DEF OtherPublishes, bufferVars, consumerVars
    <2>3. QED
      BY <1>6, <2>2 DEF OtherPublishes, RedpandaTypeOK, bufferVars, consumerVars, learnerVars
  <1>7. CASE StartConsumer
    <2>1. starts' \in 0..MaxStarts /\ position' \in 1..Len(topic) + 1
      BY <1>7, RedpandaAssumption, SMTT(30) DEF StartConsumer, RedpandaTypeOK
    <2>2. QED
      BY <1>7, <2>1 DEF StartConsumer, RedpandaTypeOK, bufferVars, producerVars, learnerVars
  <1>8. CASE StopConsumer \/ Join \/ Shut \/ ShutRaises
    BY <1>8 DEF StopConsumer, Join, Shut, ShutRaises, ShutConsumer, RedpandaTypeOK,
                bufferVars, producerVars, consumerVars
  <1>9. CASE FlushAndForget
    BY <1>9, RedpandaAssumption, SMTT(30)
       DEF FlushAndForget, RedpandaTypeOK, bufferVars, consumerVars
  <1>10. CASE \E t \in Thread : Check(t) \/ PollNothing(t)
    BY <1>10, ZenonT(60) DEF Check, PollNothing, Goes, RedpandaTypeOK, bufferVars, producerVars, learnerVars
  <1>11. CASE \E t \in Thread : PollMessage(t)
    <2>1. PICK t \in Thread : PollMessage(t)
      BY <1>11
    <2>2. position' \in 1..Len(topic) + 1 /\ position \in 0..Len(topic)
      BY <2>1 DEF PollMessage, RedpandaTypeOK
    <2>3. hand' \in [Thread -> 0..Len(topic)]
      BY <2>1, <2>2 DEF PollMessage, RedpandaTypeOK
    <2>4. thread' \in [Thread -> {"none", "check", "poll", "append", "ended"}]
      BY <2>1 DEF PollMessage, Goes, RedpandaTypeOK
    <2>5. QED
      BY <2>1, <2>2, <2>3, <2>4 DEF PollMessage, RedpandaTypeOK, bufferVars, producerVars, learnerVars
  <1>12. CASE \E t \in Thread : AppendReceived(t)
    <2>1. PICK t \in Thread : AppendReceived(t)
      BY <1>12
    <2>2. hand[t] \in 1..Len(topic)
      BY <2>1 DEF AppendReceived, ReadInOrder, RedpandaTypeOK
    <2>3. received' \in Seq(1..Len(topic)) /\ Len(received') <= BufferSize
      BY <2>1, <2>2, KeptIs DEF AppendReceived, RedpandaTypeOK
    <2>4. hand' \in [Thread -> 0..Len(topic)]
      BY <2>1 DEF AppendReceived, RedpandaTypeOK
    <2>5. QED
      BY <2>1, <2>3, <2>4 DEF AppendReceived, Goes, RedpandaTypeOK, producerVars, learnerVars
  <1>17. CASE \E t \in Thread : ParseFails(t)
    <2>1. PICK t \in Thread : ParseFails(t)
      BY <1>17
    <2>2. hand' \in [Thread -> 0..Len(topic)]
      BY <2>1 DEF ParseFails, RedpandaTypeOK
    <2>3. QED
      BY <2>1, <2>2 DEF ParseFails, Goes, RedpandaTypeOK, bufferVars, producerVars, learnerVars
  <1>13. CASE \E b \in Batches, r \in BOOLEAN : SampleLocal(b, r)
    <2>1. PICK b \in Batches, r \in BOOLEAN : SampleLocal(b, r)
      BY <1>13
    <2>2. b \in Nat /\ b \div 2 \in Nat
      BY RedpandaAssumption
    <2>3. draw' \in Draw
      BY <2>1, <2>2 DEF SampleLocal, NoDraw, Draw
    <2>4. QED
      BY <2>1, <2>3 DEF SampleLocal, Draw, RedpandaTypeOK, bufferVars, producerVars, consumerVars
  <1>14. CASE \E i \in 1..BufferSize : SampleDraw(i)
    <2>1. PICK i \in 1..BufferSize : SampleDraw(i)
      BY <1>14
    <2>2. RemoteShare \in Nat /\ i \in Nat
      BY RedpandaAssumption, SMTT(30) DEF RemoteShare, SampleParts, RedpandaTypeOK
    <2>3. draw' \in Draw
      BY <2>1, <2>2, NoDrawType DEF SampleDraw, Draw, RedpandaTypeOK
    <2>4. QED
      BY <2>1, <2>3 DEF SampleDraw, Draw, RedpandaTypeOK, bufferVars, producerVars, consumerVars
  <1>15. CASE SampleRead
    BY <1>15, NoDrawType
       DEF SampleRead, Draw, RedpandaTypeOK, bufferVars, producerVars, consumerVars
  <1>16. QED
    BY <1>1, <1>2, <1>3, <1>4, <1>5, <1>6, <1>7, <1>8, <1>9, <1>10, <1>11, <1>12, <1>13,
       <1>14, <1>15, <1>17 DEF RedpandaNext

-----------------------------------------------------------------------------
(* Never two threads with an open consumer. *)
LEMMA OneConsumerStep ==
    ASSUME RedpandaTypeOK, OneConsumer, [RedpandaNext]_redpandaVars
    PROVE  OneConsumer'
  <1> USE DEF OneConsumer
  <1>1. CASE StartConsumer
    <2>1. /\ starts \in Nat /\ starts' = starts + 1 /\ consuming' = TRUE /\ starts' \in Thread
          /\ thread' = [thread EXCEPT ![starts'] = "check"]
          /\ consumer' = IF consumer = "none" THEN "open" ELSE consumer
          /\ consumer # "open"
      BY <1>1, RedpandaAssumption DEF StartConsumer, RedpandaTypeOK, Thread
    <2>2. \A t \in Thread : t \in Nat
      BY RedpandaAssumption DEF Thread
    <2>3. QED
      BY <2>1, <2>2, SMTT(30) DEF RedpandaTypeOK
  <1>2. CASE StopConsumer \/ Join \/ Shut \/ ShutRaises
    BY <1>2 DEF StopConsumer, Join, Shut, ShutRaises, ShutConsumer, consumerVars
  <1>3. CASE \E t \in Thread, at \in {"check", "poll", "append", "ended"} :
                /\ Goes(t, at) /\ thread[t] # "none"
                /\ UNCHANGED <<consumer, consuming, starts, learner>>
    BY <1>3 DEF Goes, RedpandaTypeOK
  <1>4. CASE UNCHANGED consumerVars /\ (learner' = learner \/ learner \notin {"join", "shut"})
    BY <1>4 DEF consumerVars
  <1>5. \A t \in Thread :
           Check(t) \/ PollNothing(t) \/ PollMessage(t) \/ ParseFails(t) \/ AppendReceived(t) =>
           /\ \E at \in {"check", "poll", "append", "ended"} : Goes(t, at)
           /\ thread[t] # "none" /\ UNCHANGED <<consumer, consuming, starts, learner>>
    BY DEF Check, PollNothing, PollMessage, ParseFails, AppendReceived, learnerVars
  <1>6. \/ StartConsumer \/ StopConsumer \/ Join \/ Shut \/ ShutRaises
        \/ \E t \in Thread : \/ Check(t) \/ PollNothing(t) \/ PollMessage(t)
                             \/ ParseFails(t) \/ AppendReceived(t)
        \/ UNCHANGED consumerVars /\ (learner' = learner \/ learner \notin {"join", "shut"})
    BY DEF RedpandaNext, redpandaVars, learnerVars, AddPublished, AddUnpublished, Store,
           Delivered, DeliveryFailed, OtherPublishes, FlushAndForget, SampleLocal, SampleDraw,
           SampleRead
  <1>7. QED
    BY <1>1, <1>2, <1>3, <1>4, <1>5, <1>6

(* Every element is below the later ones. *)
Rising(s) == \A i, j \in DOMAIN s : i < j => s[i] < s[j]

(* Keeping an element above all others keeps the order. *)
LEMMA KeptRises ==
    ASSUME NEW S \in SUBSET Nat, NEW s \in Seq(S), NEW e \in S, Len(s) <= BufferSize,
           Rising(s), \A i \in DOMAIN s : s[i] < e
    PROVE  /\ Rising(Kept(s, e))
           /\ \A i \in DOMAIN Kept(s, e) :
                 Kept(s, e)[i] = e \/ \E k \in DOMAIN s : Kept(s, e)[i] = s[k]
  <1> DEFINE u == Kept(s, e)
  <1>0. PICK d \in {0, 1} : Moved(u, s, e, d)
    BY KeptIs
  <1>1. /\ Len(u) = Len(s) + 1 - d /\ Len(s) - d \in Nat
        /\ \A i \in 1..Len(s) - d : u[i] = s[i + d] /\ i + d \in 1..Len(s)
        /\ u[Len(s) - d + 1] = e
    BY <1>0 DEF Moved
  <1>2. u \in Seq(S)
    BY KeptIs
  <1>3. DOMAIN s = 1..Len(s) /\ Len(s) \in Nat
    BY LenProperties
  <1> HIDE DEF u
  <1>4. DOMAIN u = 1..Len(u) /\ Len(u) \in Nat
    BY <1>2, LenProperties
  <1>5. ASSUME NEW i \in DOMAIN u
        PROVE  \/ i = Len(s) - d + 1 /\ u[i] = e
               \/ /\ i < Len(s) - d + 1 /\ u[i] = s[i + d] /\ i + d \in DOMAIN s
    <2>1. i \in Nat /\ i >= 1 /\ i <= Len(s) - d + 1
      BY <1>1, <1>3, <1>4
    <2>2. QED
      BY <1>1, <1>3, <2>1
  <1>6. ASSUME NEW i \in DOMAIN u, NEW j \in DOMAIN u, i < j
        PROVE  u[i] < u[j]
    <2>1. i \in Nat /\ j \in Nat
      BY <1>4
    <2>2. i < Len(s) - d + 1
      BY <1>1, <1>3, <1>5, <1>6, <2>1
    <2>3. u[i] = s[i + d] /\ i + d \in DOMAIN s
      BY <1>1, <1>3, <1>5, <2>1, <2>2, SMTT(30)
    <2>4. CASE j = Len(s) - d + 1
      BY <1>1, <2>3, <2>4
    <2>5. CASE j # Len(s) - d + 1
      <3>1. u[j] = s[j + d] /\ j + d \in DOMAIN s /\ i + d < j + d
        BY <1>5, <1>6, <2>1, <2>5
      <3>2. QED
        BY <2>3, <3>1 DEF Rising
    <2>6. QED
      BY <2>4, <2>5
  <1>7. \A i \in DOMAIN u : u[i] = e \/ \E k \in DOMAIN s : u[i] = s[k]
    BY <1>5
  <1>8. QED
    BY <1>6, <1>7 DEF Rising, u

(* The order of what is received, as a property of one state. *)
InOrder == ReadInOrder /\ ReceivedInOrder

(* What was received are positions of the topic. *)
LEMMA ReceivedBounds ==
    ASSUME RedpandaTypeOK
    PROVE  /\ \A i \in DOMAIN received : received[i] \in 1..Len(topic) /\ received[i] \in Nat
           /\ Len(topic) \in Nat /\ position \in Nat /\ position - 1 \in 0..Len(topic)
  <1>1. received \in Seq(1..Len(topic)) /\ Len(topic) \in Nat /\ position \in 1..Len(topic) + 1
    BY DEF RedpandaTypeOK
  <1>2. \A i \in DOMAIN received : received[i] \in 1..Len(topic)
    BY <1>1, ElementOfSeq, LenProperties
  <1>3. QED
    BY <1>1, <1>2

(* The topic only grows: what was read stays where it was. *)
LEMMA TopicStep ==
    ASSUME RedpandaTypeOK, InOrder, NEW e \in 0..own, topic' = Append(topic, e),
           UNCHANGED <<received, consumerVars>>
    PROVE  InOrder'
  <1>1. \A i \in 1..Len(topic) : topic'[i] = topic[i]
    BY AppendIs DEF RedpandaTypeOK
  <1>2. /\ \A i \in DOMAIN received : received[i] \in 1..Len(topic)
        /\ position - 1 \in 0..Len(topic)
    BY ReceivedBounds
  <1>3. ReceivedInOrder'
    BY <1>1, <1>2 DEF InOrder, ReceivedInOrder
  <1>4. ReadInOrder'
    BY <1>1, <1>2 DEF InOrder, ReadInOrder, consumerVars, RedpandaTypeOK
  <1>5. QED
    BY <1>3, <1>4 DEF InOrder

(* Every step keeps what is received in the order of the topic. *)
LEMMA OrderStep ==
    ASSUME RedpandaTypeOK, OneConsumer, InOrder, [RedpandaNext]_redpandaVars
    PROVE  InOrder'
  <1>1. CASE Delivered
    <2>1. Head(outbox) \in 1..own /\ own \in Nat
      BY <1>1, HeadTailProperties, SMTT(30) DEF Delivered, RedpandaTypeOK
    <2>2. Head(outbox) \in 0..own
      BY <2>1
    <2>3. QED
      BY <1>1, <2>2, TopicStep DEF Delivered, bufferVars
  <1>2. CASE OtherPublishes
    <2>1. Other \in 0..own
      BY DEF Other, RedpandaTypeOK
    <2>2. QED
      BY <1>2, <2>1, TopicStep DEF OtherPublishes, bufferVars
  <1>3. CASE StartConsumer
    <2>1. UNCHANGED <<received, topic, hand>> /\ starts \in Nat /\ starts' = starts + 1
      BY <1>3 DEF StartConsumer, bufferVars, producerVars, RedpandaTypeOK
    <2>2. starts' \in Thread /\ thread' = [thread EXCEPT ![starts'] = "check"]
      BY <1>3, <2>1, RedpandaAssumption DEF StartConsumer, RedpandaTypeOK, Thread
    <2>3. \A t \in Thread : thread'[t] = "append" => thread[t] = "append" /\ t <= starts
      BY <2>1, <2>2 DEF OneConsumer, RedpandaTypeOK
    <2>4. CASE consumer = "none"
      <3>1. \A t \in Thread : t \in Nat /\ t > 0
        BY RedpandaAssumption DEF Thread
      <3>2. \A t \in Thread : thread'[t] # "append"
        BY <2>1, <2>3, <2>4, <3>1 DEF OneConsumer
      <3>3. \A i \in DOMAIN received : received[i] < Len(topic) + 1
        BY ReceivedBounds
      <3>4. position' = Len(topic) + 1
        BY <1>3, <2>4 DEF StartConsumer
      <3>5. QED
        BY <2>1, <3>2, <3>3, <3>4 DEF InOrder, ReadInOrder, ReceivedInOrder
    <2>5. CASE consumer # "none"
      <3>1. position' = position
        BY <1>3, <2>5 DEF StartConsumer
      <3>2. QED
        BY <2>1, <2>3, <3>1 DEF InOrder, ReadInOrder, ReceivedInOrder
    <2>6. QED
      BY <2>4, <2>5
  <1>4. CASE \E t \in Thread : Check(t) \/ PollNothing(t)
    <2>1. PICK t \in Thread : Check(t) \/ PollNothing(t)
      BY <1>4
    <2>2. /\ \E at \in {"check", "poll", "ended"} : thread' = [thread EXCEPT ![t] = at]
          /\ UNCHANGED <<received, topic, position, hand>>
      BY <2>1 DEF Check, PollNothing, Goes, bufferVars, producerVars
    <2>3. \A x \in Thread : thread'[x] = "append" => thread[x] = "append"
      BY <2>2 DEF RedpandaTypeOK
    <2>4. QED
      BY <2>2, <2>3 DEF InOrder, ReadInOrder, ReceivedInOrder
  <1>5. CASE \E t \in Thread : PollMessage(t)
    <2>1. PICK t \in Thread : PollMessage(t)
      BY <1>5
    <2>2. /\ UNCHANGED <<received, topic>> /\ position' = position + 1 /\ position \in Nat \ {0}
          /\ starts = 1
      BY <2>1 DEF PollMessage, OneConsumer, bufferVars, producerVars, RedpandaTypeOK
    <2>3. t = 1
      BY <2>1, <2>2, RedpandaAssumption DEF PollMessage, OneConsumer, Thread
    <2>4. \A i \in DOMAIN received : received[i] \in Nat /\ received[i] < position
      BY ReceivedBounds DEF InOrder, ReadInOrder
    <2>5. CASE SkipsOwn(topic[position])
      <3>1. thread' = [thread EXCEPT ![t] = "check"] /\ hand' = hand
        BY <2>1, <2>5 DEF PollMessage, Goes
      <3>2. \A x \in Thread : thread'[x] = "append" => thread[x] = "append"
        BY <3>1 DEF RedpandaTypeOK
      <3>3. ReadInOrder'
        BY <2>2, <2>4, <3>1, <3>2 DEF InOrder, ReadInOrder
      <3>4. QED
        BY <2>2, <3>3 DEF InOrder, ReceivedInOrder
    <2>6. CASE ~ SkipsOwn(topic[position])
      <3>1. /\ thread' = [thread EXCEPT ![t] = "append"]
            /\ hand' = [hand EXCEPT ![t] = position] /\ topic[position] = Other
        BY <2>1, <2>6 DEF PollMessage, Goes, SkipsOwn
      <3>2. \A x \in Thread : thread'[x] = "append" =>
               \/ x = t /\ hand'[x] = position
               \/ x # t /\ thread[x] = "append" /\ hand'[x] = hand[x]
        BY <3>1 DEF RedpandaTypeOK
      <3>3. ReadInOrder'
        BY <2>2, <2>3, <2>4, <3>1, <3>2 DEF InOrder, ReadInOrder
      <3>4. QED
        BY <2>2, <3>3 DEF InOrder, ReceivedInOrder
    <2>7. QED
      BY <2>5, <2>6
  <1>6. CASE \E t \in Thread : AppendReceived(t)
    <2>1. PICK t \in Thread : AppendReceived(t)
      BY <1>6
    <2>2. /\ thread[t] = "append" /\ received' = Kept(received, hand[t])
          /\ thread' = [thread EXCEPT ![t] = "check"] /\ UNCHANGED <<topic, position>>
      BY <2>1 DEF AppendReceived, Goes, producerVars
    <2>3. /\ t = 1 /\ hand[t] \in 1..Len(topic) /\ hand[t] < position
          /\ topic[hand[t]] = Other /\ position \in Nat
          /\ \A i \in DOMAIN received : received[i] < hand[t]
      BY <2>2, SMTT(30) DEF InOrder, ReadInOrder, RedpandaTypeOK
    <2>4. /\ Rising(received') /\ \A i \in DOMAIN received' :
                received'[i] = hand[t] \/ \E k \in DOMAIN received : received'[i] = received[k]
      <3>1. /\ Rising(received) /\ received \in Seq(1..Len(topic)) /\ Len(received) <= BufferSize
            /\ 1..Len(topic) \in SUBSET Nat
        BY SMTT(30) DEF Rising, InOrder, ReceivedInOrder, RedpandaTypeOK
      <3>2. QED
        BY <2>2, <2>3, <3>1, KeptRises
    <2>5. \A x \in Thread : thread'[x] # "append"
      BY <2>2, <2>3 DEF InOrder, ReadInOrder, RedpandaTypeOK
    <2>6. ReceivedInOrder'
      BY <2>2, <2>3, <2>4 DEF InOrder, ReceivedInOrder, Rising
    <2>7. ReadInOrder'
      BY <2>2, <2>3, <2>4, <2>5 DEF InOrder, ReadInOrder
    <2>8. QED
      BY <2>6, <2>7 DEF InOrder
  <1>10. CASE \E t \in Thread : ParseFails(t)
    <2>1. PICK t \in Thread : ParseFails(t)
      BY <1>10
    <2>2. /\ thread[t] = "append" /\ thread' = [thread EXCEPT ![t] = "check"]
          /\ UNCHANGED <<received, topic, position>>
      BY <2>1 DEF ParseFails, Goes, bufferVars, producerVars
    <2>3. \A x \in Thread : thread'[x] # "append"
      BY <2>2 DEF InOrder, ReadInOrder, RedpandaTypeOK
    <2>4. QED
      BY <2>2, <2>3 DEF InOrder, ReadInOrder, ReceivedInOrder
  <1>7. CASE UNCHANGED <<received, topic, position, thread, hand>>
    BY <1>7 DEF InOrder, ReadInOrder, ReceivedInOrder
  <1>8. \/ Delivered \/ OtherPublishes \/ StartConsumer
        \/ \E t \in Thread : \/ Check(t) \/ PollNothing(t) \/ PollMessage(t)
                             \/ ParseFails(t) \/ AppendReceived(t)
        \/ UNCHANGED <<received, topic, position, thread, hand>>
    BY DEF RedpandaNext, redpandaVars, bufferVars, producerVars, consumerVars, AddPublished,
           AddUnpublished, Store, DeliveryFailed, FlushAndForget, StopConsumer, Join, Shut,
           ShutRaises, SampleLocal, SampleDraw, SampleRead
  <1>9. QED
    BY <1>1, <1>2, <1>3, <1>4, <1>5, <1>6, <1>7, <1>8, <1>10

-----------------------------------------------------------------------------
(* Where an experience that the producer took may be. *)
In(e, s) == \E i \in DOMAIN s : s[i] = e
Whereabouts(e) == e \in failed \/ In(e, topic) \/ In(e, outbox)

(* Appending adds an element and loses none. *)
LEMMA InAppend ==
    ASSUME NEW S, NEW s \in Seq(S), NEW e \in S
    PROVE  /\ In(e, Append(s, e))
           /\ \A x : In(x, s) => In(x, Append(s, e))
  <1>1. /\ DOMAIN s = 1..Len(s) /\ DOMAIN Append(s, e) = 1..Len(s) + 1 /\ Len(s) \in Nat
        /\ \A i \in 1..Len(s) : Append(s, e)[i] = s[i]
        /\ Append(s, e)[Len(s) + 1] = e
    BY AppendIs, LenProperties
  <1>2. Len(s) + 1 \in DOMAIN Append(s, e)
    BY <1>1
  <1>3. \A i \in DOMAIN s : i \in DOMAIN Append(s, e) /\ Append(s, e)[i] = s[i]
    BY <1>1
  <1>4. QED
    BY <1>1, <1>2, <1>3 DEF In

(* Taking the head of a queue loses nothing but the head. *)
LEMMA InTail ==
    ASSUME NEW S, NEW s \in Seq(S), s # <<>>, NEW x, In(x, s)
    PROVE  x = Head(s) \/ In(x, Tail(s))
  <1>1. PICK i \in DOMAIN s : s[i] = x
    BY DEF In
  <1>2. /\ DOMAIN s = 1..Len(s) /\ Len(s) \in Nat /\ Tail(s) \in Seq(S) /\ Head(s) = s[1]
        /\ Len(Tail(s)) = Len(s) - 1 /\ \A k \in 1..Len(Tail(s)) : Tail(s)[k] = s[k + 1]
    BY LenProperties, HeadTailProperties
  <1>3. CASE i = 1
    BY <1>1, <1>2, <1>3
  <1>4. CASE i # 1
    <2>1. i - 1 \in 1..Len(Tail(s)) /\ DOMAIN Tail(s) = 1..Len(Tail(s))
      BY <1>1, <1>2, <1>4, LenProperties
    <2>2. Tail(s)[i - 1] = x
      BY <1>1, <1>2, <2>1
    <2>3. QED
      BY <2>1, <2>2 DEF In
  <1>5. QED
    BY <1>3, <1>4

(* Every step leaves what the producer took in the topic, with the broker's *)
(* refusals, or in the queue of a producer that is alive.                   *)
LEMMA UnsentStep ==
    ASSUME RedpandaTypeOK, NothingUnsent, [RedpandaNext]_redpandaVars
    PROVE  NothingUnsent'
  <1>1. /\ \A e \in accepted : Whereabouts(e)
        /\ outbox # <<>> => producer = "open"
    BY DEF NothingUnsent, Whereabouts, In
  <1> SUFFICES /\ \A e \in accepted' : Whereabouts(e)'
               /\ outbox' # <<>> => producer' = "open"
    BY DEF NothingUnsent, Whereabouts, In
  <1>2. CASE AddPublished
    <2>1. /\ outbox' = Append(outbox, own') /\ accepted' = accepted \cup {own'}
          /\ UNCHANGED <<topic, failed>> /\ producer' = "open"
      BY <1>2 DEF AddPublished, Store
    <2>2. outbox \in Seq(1..own') /\ own' \in 1..own'
      BY <1>2, StoreType DEF AddPublished
    <2>3. In(own', outbox') /\ \A x : In(x, outbox) => In(x, outbox')
      BY <2>1, <2>2, InAppend
    <2>4. QED
      BY <1>1, <2>1, <2>3 DEF Whereabouts
  <1>3. CASE AddUnpublished
    <2>1. /\ UNCHANGED <<topic, failed, outbox, accepted>>
          /\ producer = "open" => producer' = "open"
      BY <1>3 DEF AddUnpublished, Store
    <2>2. QED
      BY <1>1, <2>1 DEF Whereabouts
  <1>4. CASE Delivered
    <2>1. /\ outbox # <<>> /\ topic' = Append(topic, Head(outbox)) /\ outbox' = Tail(outbox)
          /\ UNCHANGED <<accepted, failed, producer>>
      BY <1>4 DEF Delivered
    <2>2. outbox \in Seq(1..own) /\ topic \in Seq(0..own) /\ Head(outbox) \in 1..own /\ own \in Nat
      BY <2>1, HeadTailProperties, SMTT(30) DEF RedpandaTypeOK
    <2>3. Head(outbox) \in 0..own
      BY <2>2
    <2>4. In(Head(outbox), topic') /\ \A x : In(x, topic) => In(x, topic')
      BY <2>1, <2>2, <2>3, InAppend
    <2>5. \A x : In(x, outbox) => x = Head(outbox) \/ In(x, outbox')
      BY <2>1, <2>2, InTail
    <2>6. QED
      BY <1>1, <2>1, <2>4, <2>5 DEF Whereabouts
  <1>5. CASE DeliveryFailed
    <2>1. /\ outbox # <<>> /\ failed' = failed \cup {Head(outbox)} /\ outbox' = Tail(outbox)
          /\ UNCHANGED <<accepted, topic, producer>>
      BY <1>5 DEF DeliveryFailed
    <2>2. \A x : In(x, outbox) => x = Head(outbox) \/ In(x, outbox')
      BY <2>1, InTail DEF RedpandaTypeOK
    <2>3. QED
      BY <1>1, <2>1, <2>2 DEF Whereabouts
  <1>6. CASE OtherPublishes
    <2>1. topic' = Append(topic, Other) /\ UNCHANGED <<accepted, failed, outbox, producer>>
      BY <1>6 DEF OtherPublishes
    <2>2. topic \in Seq(0..own) /\ Other \in 0..own
      BY DEF RedpandaTypeOK, Other
    <2>3. \A x : In(x, topic) => In(x, topic')
      BY <2>1, <2>2, InAppend
    <2>4. QED
      BY <1>1, <2>1, <2>3 DEF Whereabouts
  <1>7. CASE FlushAndForget
    <2>1. outbox = <<>> /\ outbox' = <<>> /\ UNCHANGED <<accepted, topic, failed>>
      BY <1>7 DEF FlushAndForget, Flushed
    <2>2. QED
      BY <1>1, <2>1 DEF Whereabouts
  <1>8. CASE UNCHANGED producerVars
    BY <1>1, <1>8 DEF producerVars, Whereabouts
  <1>9. \/ AddPublished \/ AddUnpublished \/ Delivered \/ DeliveryFailed \/ OtherPublishes
        \/ FlushAndForget \/ UNCHANGED producerVars
    BY DEF RedpandaNext, redpandaVars, StartConsumer, StopConsumer, Join, Shut, ShutRaises,
           Check, PollNothing, PollMessage, ParseFails, AppendReceived, SampleLocal, SampleDraw, SampleRead
  <1>10. QED
    BY <1>2, <1>3, <1>4, <1>5, <1>6, <1>7, <1>8, <1>9

-----------------------------------------------------------------------------
(* Every step keeps samples within the size asked for and their positions   *)
(* within the buffer, which never gets shorter.                             *)
LEMMA SampleStep ==
    ASSUME RedpandaTypeOK, ReadInOrder, SampleParts, SampleBounded,
           [RedpandaNext]_redpandaVars
    PROVE  SampleParts' /\ SampleBounded'
  <1>1. /\ draw.batch \in Nat /\ draw.local \in Nat /\ draw.more \in Nat
        /\ received \in Seq(1..Len(topic)) /\ DOMAIN received = 1..Len(received)
        /\ Len(received) \in Nat
    BY LenProperties DEF RedpandaTypeOK
  <1>2. CASE \E t \in Thread : AppendReceived(t)
    <2>1. PICK t \in Thread : AppendReceived(t)
      BY <1>2
    <2>2. /\ UNCHANGED learnerVars /\ received' = Kept(received, hand[t])
          /\ hand[t] \in 1..Len(topic)
      BY <2>1 DEF AppendReceived, ReadInOrder, RedpandaTypeOK
    <2>3. received' \in Seq(1..Len(topic)) /\ Len(received') >= Len(received)
      BY <1>1, <2>2, KeptIs DEF RedpandaTypeOK
    <2>4. DOMAIN received' = 1..Len(received') /\ Len(received') \in Nat
      BY <2>3, LenProperties
    <2>5. DOMAIN received \subseteq DOMAIN received'
      BY <1>1, <2>3, <2>4
    <2>6. QED
      BY <2>2, <2>5 DEF learnerVars, SampleParts, SampleBounded
  <1>3. CASE \E b \in Batches, r \in BOOLEAN : SampleLocal(b, r)
    <2>1. PICK b \in Batches, r \in BOOLEAN : SampleLocal(b, r)
      BY <1>3
    <2>2. b \in Nat /\ b \div 2 \in Nat /\ b \div 2 <= b
      BY RedpandaAssumption
    <2>3. /\ draw'.batch = b /\ draw'.local \in {0, b, b \div 2} /\ draw'.more = 0
          /\ learner' = "draw"
      BY <2>1 DEF SampleLocal, NoDraw
    <2>4. QED
      BY <2>2, <2>3 DEF SampleParts, SampleBounded
  <1>4. CASE \E i \in 1..BufferSize : SampleDraw(i)
    <2>1. PICK i \in 1..BufferSize : SampleDraw(i)
      BY <1>4
    <2>2. received' = received
      BY <2>1 DEF SampleDraw, bufferVars
    <2>3. CASE learner' = "read" /\ i \in DOMAIN received
               /\ draw' = [draw EXCEPT !.more = RemoteShare, !.index = i]
      <3>1. /\ draw'.batch = draw.batch /\ draw'.local = draw.local
            /\ draw'.more = draw.batch - draw.local /\ draw'.index = i
        BY <2>3 DEF RemoteShare, RedpandaTypeOK
      <3>2. QED
        BY <1>1, <2>2, <2>3, <3>1 DEF SampleParts, SampleBounded
    <2>4. CASE learner' = "idle" /\ draw' = NoDraw
      BY <2>4 DEF NoDraw, SampleParts, SampleBounded
    <2>5. QED
      BY <2>1, <2>3, <2>4 DEF SampleDraw
  <1>5. CASE SampleRead
    BY <1>5 DEF SampleRead, NoDraw, SampleParts, SampleBounded
  <1>6. CASE /\ UNCHANGED <<received, draw>>
             /\ learner' = learner \/ (learner # "read" /\ learner' # "read")
    BY <1>6 DEF SampleParts, SampleBounded
  <1>7. \/ \E t \in Thread : AppendReceived(t)
        \/ \E b \in Batches, r \in BOOLEAN : SampleLocal(b, r)
        \/ \E i \in 1..BufferSize : SampleDraw(i)
        \/ SampleRead
        \/ /\ UNCHANGED <<received, draw>>
           /\ learner' = learner \/ (learner # "read" /\ learner' # "read")
    BY DEF RedpandaNext, redpandaVars, bufferVars, learnerVars, AddPublished, AddUnpublished,
           Store, Delivered, DeliveryFailed, OtherPublishes, StartConsumer, StopConsumer, Join,
           Shut, ShutRaises, FlushAndForget, Check, PollNothing, PollMessage, ParseFails
  <1>8. QED
    BY <1>2, <1>3, <1>4, <1>5, <1>6, <1>7

-----------------------------------------------------------------------------
(* The initial state satisfies the inductive invariant. *)
LEMMA InvInit == RedpandaInit => IInv
  <1> SUFFICES ASSUME RedpandaInit PROVE IInv
    OBVIOUS
  <1>1. RedpandaTypeOK
    <2>1. Len(<<>>) = 0 /\ <<>> \in Seq(1..0) /\ <<>> \in Seq(0..0)
      BY EmptySeq
    <2>2. local \in Seq(1..own) /\ Len(local) <= BufferSize
      BY <2>1, RedpandaAssumption DEF RedpandaInit
    <2>3. received \in Seq(1..Len(topic)) /\ Len(received) <= BufferSize
      BY <2>1, RedpandaAssumption DEF RedpandaInit
    <2>4. outbox \in Seq(1..own) /\ Len(outbox) <= QueueSize /\ topic \in Seq(0..own)
      BY <2>1, RedpandaAssumption DEF RedpandaInit
    <2>5. /\ own \in 0..MaxOwn /\ accepted \subseteq 1..own /\ failed \subseteq 1..own
          /\ starts \in 0..MaxStarts /\ position \in 1..Len(topic) + 1
      BY <2>1, RedpandaAssumption DEF RedpandaInit
    <2>6. /\ thread \in [Thread -> {"none", "check", "poll", "append", "ended"}]
          /\ hand \in [Thread -> 0..Len(topic)]
      BY <2>1 DEF RedpandaInit
    <2>7. /\ producer \in {"none", "open"} /\ consumer \in {"none", "open", "closed"}
          /\ consuming \in BOOLEAN /\ closing \in BOOLEAN
          /\ learner \in {"idle", "join", "shut", "flush", "draw", "read"}
      BY DEF RedpandaInit
    <2>8. draw \in [batch: Nat, remote: BOOLEAN, local: Nat, more: Nat, index: Nat]
      BY NoDrawType DEF RedpandaInit, Draw
    <2>9. QED
      BY <2>2, <2>3, <2>4, <2>5, <2>6, <2>7, <2>8 DEF RedpandaTypeOK
  <1>2. OneConsumer /\ ReadInOrder /\ ReceivedInOrder /\ NothingUnsent
    BY DEF RedpandaInit, OneConsumer, ReadInOrder, ReceivedInOrder, NothingUnsent
  <1>3. SampleParts /\ SampleBounded
    BY DEF RedpandaInit, SampleParts, SampleBounded, NoDraw
  <1>4. QED
    BY <1>1, <1>2, <1>3 DEF IInv

(* Every step keeps it. *)
LEMMA InvStep == IInv /\ [RedpandaNext]_redpandaVars => IInv'
  <1> SUFFICES ASSUME IInv, [RedpandaNext]_redpandaVars PROVE IInv'
    OBVIOUS
  <1> USE DEF IInv
  <1>1. RedpandaTypeOK'
    BY TypeStep
  <1>2. OneConsumer'
    BY OneConsumerStep
  <1>3. ReadInOrder' /\ ReceivedInOrder'
    BY OrderStep DEF InOrder
  <1>4. NothingUnsent'
    BY UnsentStep
  <1>5. SampleParts' /\ SampleBounded'
    BY SampleStep
  <1>6. QED
    BY <1>1, <1>2, <1>3, <1>4, <1>5

(* Every behaviour of the replay buffer satisfies the inductive invariant. *)
THEOREM Invariance == RedpandaSpec => []IInv
  BY InvInit, InvStep, PTL DEF RedpandaSpec

(* Buffers stay within local_buffer_size and the producer's queue within    *)
(* its limit, and hold what was added or read.                              *)
THEOREM BuffersBounded == RedpandaSpec => []RedpandaTypeOK
  <1>1. IInv => RedpandaTypeOK
    BY DEF IInv
  <1>2. QED
    BY <1>1, Invariance, PTL

(* Experiences of other agents are stored in topic order, each one once,    *)
(* although consumer threads outlive stop_consumer and may overlap.         *)
THEOREM TopicOrderKept == RedpandaSpec => []ReceivedInOrder
  <1>1. IInv => ReceivedInOrder
    BY DEF IInv
  <1>2. QED
    BY <1>1, Invariance, PTL

(* Neither close() nor a failed delivery makes the agent forget what the    *)
(* producer accepted.                                                       *)
THEOREM ProducerLosesNothing == RedpandaSpec => []NothingUnsent
  <1>1. IInv => NothingUnsent
    BY DEF IInv
  <1>2. QED
    BY <1>1, Invariance, PTL

(* sample() returns at most batch_size experiences, and the consumer cannot *)
(* take the positions away that it drew.                                    *)
THEOREM SamplesFit == RedpandaSpec => []SampleBounded
  <1>1. IInv => SampleBounded
    BY DEF IInv
  <1>2. QED
    BY <1>1, Invariance, PTL
=============================================================================
