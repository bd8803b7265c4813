--------------------------- MODULE RedpandaReplay ---------------------------
(***************************************************************************)
(* RedpandaReplayBuffer (python/gossip_rl/training/replay.py): the learner's *)
(* thread, its consumer threads and the Kafka client library, which is     *)
(* external, as are broker and other agents.                               *)
(*                                                                         *)
(* Own experiences are numbered; a received one is its offset in the topic. *)
(***************************************************************************)
EXTENDS Integers, Sequences

CONSTANTS
    BufferSize,   \* local_buffer_size
    QueueSize,    \* messages the producer holds before produce() raises
    Batches,      \* batch sizes asked for
    MaxOwn, MaxTopic, MaxStarts   \* bounds: own adds, topic length, threads

ASSUME RedpandaAssumption ==
    /\ BufferSize \in Nat \ {0} /\ QueueSize \in Nat
    /\ Batches \subseteq Nat
    /\ MaxOwn \in Nat /\ MaxTopic \in Nat /\ MaxStarts \in Nat

Thread == 1..MaxStarts
Other == 0      \* stands for any other agent's experience in the topic

VARIABLES
    local, received,      \* local_buffer, received_buffer
    own,                  \* experiences added
    producer, outbox,     \* _producer and the messages it still holds
    accepted,             \* experiences produce() took
    topic, failed,        \* what the broker has, what it refused
    consumer, position,   \* _consumer and the next offset it reads
    consuming,            \* _consumer_running
    starts, thread, hand, \* consumer threads, and what each one has polled
    learner,              \* where the learner's call is
    closing,              \* the call is close()
    draw                  \* the sample being taken

bufferVars == <<local, received, own>>
producerVars == <<producer, outbox, accepted, topic, failed>>
consumerVars == <<consumer, position, consuming, starts, thread, hand>>
learnerVars == <<learner, closing, draw>>
redpandaVars == <<bufferVars, producerVars, consumerVars, learnerVars>>

NoDraw == [batch |-> 0, remote |-> FALSE, local |-> 0, more |-> 0, index |-> 0]

RedpandaTypeOK ==
    /\ local \in Seq(1..own) /\ Len(local) <= BufferSize
    /\ received \in Seq(1..Len(topic)) /\ Len(received) <= BufferSize
    /\ own \in 0..MaxOwn /\ accepted \subseteq 1..own
    /\ producer \in {"none", "open"}
    /\ outbox \in Seq(1..own) /\ Len(outbox) <= QueueSize
    /\ topic \in Seq(0..own) /\ failed \subseteq 1..own
    /\ consumer \in {"none", "open", "closed"}
    /\ position \in 1..Len(topic) + 1
    /\ consuming \in BOOLEAN /\ starts \in 0..MaxStarts
    /\ thread \in [Thread -> {"none", "check", "poll", "append", "ended"}]
    /\ hand \in [Thread -> 0..Len(topic)]
    /\ learner \in {"idle", "join", "shut", "flush", "draw", "read"}
    /\ closing \in BOOLEAN
    /\ draw \in [batch: Nat, remote: BOOLEAN, local: Nat, more: Nat, index: Nat]

RedpandaInit ==
    /\ local = <<>> /\ received = <<>> /\ own = 0
    /\ producer = "none" /\ outbox = <<>> /\ accepted = {}
    /\ topic = <<>> /\ failed = {}
    /\ consumer = "none" /\ position = 1 /\ consuming = FALSE
    /\ starts = 0 /\ thread = [t \in Thread |-> "none"] /\ hand = [t \in Thread |-> 0]
    /\ learner = "idle" /\ closing = FALSE /\ draw = NoDraw

(* Mutant: the buffer is not bounded. *)
KeptAll(s, e) == Append(s, e)

(* deque(maxlen=local_buffer_size).append(e) *)
Kept(s, e) == Append(IF Len(s) = BufferSize THEN Tail(s) ELSE s, e)

-----------------------------------------------------------------------------
(* Producer *)

Store ==
    /\ learner = "idle" /\ own < MaxOwn
    /\ own' = own + 1
    /\ local' = Kept(local, own')
    /\ UNCHANGED <<received, topic, failed, consumerVars, learnerVars>>

(* add() with a producer, which is created when there is none. *)
AddPublished ==
    /\ Store
    /\ Len(outbox) < QueueSize
    /\ producer' = "open"
    /\ outbox' = Append(outbox, own')
    /\ accepted' = accepted \cup {own'}

(* add() when the producer cannot be created, the experience cannot be      *)
(* encoded, or produce() raises since its queue is full: the experience is  *)
(* only stored locally.                                                     *)
AddUnpublished ==
    /\ Store
    /\ producer' \in {"none", "open"} /\ (producer = "open" => producer' = "open")
    /\ UNCHANGED <<outbox, accepted>>

(* External: the client library sends what the producer holds, in order. *)
Delivered ==
    /\ outbox # <<>> /\ Len(topic) < MaxTopic
    /\ topic' = Append(topic, Head(outbox))
    /\ outbox' = Tail(outbox)
    /\ UNCHANGED <<bufferVars, producer, accepted, failed, consumerVars, learnerVars>>

(* _delivery_callback with an error only logs it. *)
DeliveryFailed ==
    /\ outbox # <<>>
    /\ failed' = failed \cup {Head(outbox)}
    /\ outbox' = Tail(outbox)
    /\ UNCHANGED <<bufferVars, producer, accepted, topic, consumerVars, learnerVars>>

(* External: another agent publishes. *)
OtherPublishes ==
    /\ Len(topic) < MaxTopic
    /\ topic' = Append(topic, Other)
    /\ UNCHANGED <<bufferVars, producer, outbox, accepted, failed, consumerVars, learnerVars>>

-----------------------------------------------------------------------------
(* Consumer *)

(* start_consumer: _get_consumer creates a consumer only if there never was *)
(* one, and subscribes to what is published from now on.                    *)
StartConsumer ==
    /\ learner = "idle" /\ ~ consuming /\ starts < MaxStarts
    /\ consumer' = IF consumer = "none" THEN "open" ELSE consumer
    /\ position' = IF consumer = "none" THEN Len(topic) + 1 ELSE position
    /\ consuming' = TRUE /\ starts' = starts + 1
    /\ thread' = [thread EXCEPT ![starts'] = "check"]
    /\ UNCHANGED <<bufferVars, producerVars, hand, learnerVars>>

Goes(t, at) == thread' = [thread EXCEPT ![t] = at]

(* _consume_loop: the loop test, *)
Check(t) ==
    /\ thread[t] = "check"
    /\ Goes(t, IF consuming THEN "poll" ELSE "ended")
    /\ UNCHANGED <<bufferVars, producerVars, consumer, position, consuming, starts, hand, learnerVars>>

(* poll() that returns nothing or an error, or raises on a closed consumer, *)
PollNothing(t) ==
    /\ thread[t] = "poll"
    /\ Goes(t, "check")
    /\ UNCHANGED <<bufferVars, producerVars, consumer, position, consuming, starts, hand, learnerVars>>

(* sender_id == self.agent_id *)
SkipsOwn(m) == m # Other

(* poll() that returns a message, *)
PollMessage(t) ==
    /\ thread[t] = "poll" /\ consumer = "open" /\ position <= Len(topic)
    /\ position' = position + 1
    /\ IF SkipsOwn(topic[position])
       THEN Goes(t, "check") /\ UNCHANGED hand
       ELSE Goes(t, "append") /\ hand' = [hand EXCEPT ![t] = position]
    /\ UNCHANGED <<bufferVars, producerVars, consumer, consuming, starts, learnerVars>>

(* a message that cannot be parsed, which the except clause only logs,      *)
ParseFails(t) ==
    /\ thread[t] = "append"
    /\ Goes(t, "check")
    /\ hand' = [hand EXCEPT ![t] = 0]
    /\ UNCHANGED <<bufferVars, producerVars, consumer, position, consuming, starts, learnerVars>>

(* and the rest of the loop. *)
AppendReceived(t) ==
    /\ thread[t] = "append"
    /\ received' = Kept(received, hand[t])
    /\ Goes(t, "check")
    /\ hand' = [hand EXCEPT ![t] = 0]
    /\ UNCHANGED <<local, own, producerVars, consumer, position, consuming, starts, learnerVars>>

(* stop_consumer, called by the learner or by close(). *)
StopConsumer ==
    /\ learner = "idle"
    /\ consuming' = FALSE
    /\ closing' \in BOOLEAN
    /\ learner' = IF starts = 0 THEN "shut" ELSE "join"
    /\ UNCHANGED <<bufferVars, producerVars, consumer, position, starts, thread, hand, draw>>

(* join(timeout=5.0): the thread ended, or did not in time. *)
Join ==
    /\ learner = "join"
    /\ learner' = "shut"
    /\ UNCHANGED <<bufferVars, producerVars, consumerVars, closing, draw>>

(* Mutant: the consumer is left to a thread that has not ended. *)
ShutConsumerUnlessBusy ==
    IF \E t \in Thread : thread[t] \notin {"none", "ended"} THEN consumer
    ELSE IF consumer = "none" THEN "none" ELSE "closed"

(* self._consumer.close(); the attribute keeps the closed consumer. *)
ShutConsumer == IF consumer = "none" THEN "none" ELSE "closed"

Shut ==
    /\ learner = "shut"
    /\ consumer' = ShutConsumer
    /\ learner' = IF closing THEN "flush" ELSE "idle"
    /\ UNCHANGED <<bufferVars, producerVars, position, consuming, starts, thread, hand, closing, draw>>

(* External: closing a closed consumer may raise; close() then ends here. *)
ShutRaises ==
    /\ learner = "shut" /\ consumer = "closed"
    /\ learner' = "idle"
    /\ UNCHANGED <<bufferVars, producerVars, consumerVars, closing, draw>>

(* Mutant: close() does not wait for the flush. *)
Unflushed == TRUE

(* flush() returns when the producer holds nothing any more. *)
Flushed == outbox = <<>>

(* The end of close(): the producer is given up with all it holds. *)
FlushAndForget ==
    /\ learner = "flush" /\ Flushed
    /\ producer' = "none" /\ outbox' = <<>>
    /\ learner' = "idle"
    /\ UNCHANGED <<bufferVars, accepted, topic, failed, consumerVars, closing, draw>>

-----------------------------------------------------------------------------
(* Sampling *)

(* sample(batch, remote): the local part. *)
SampleLocal(batch, remote) ==
    LET count == IF remote /\ received # <<>> THEN batch \div 2 ELSE batch IN
    /\ learner = "idle"
    /\ learner' = "draw"
    /\ draw' = [NoDraw EXCEPT !.batch = batch, !.remote = remote,
                              !.local = IF Len(local) >= count THEN count ELSE 0]
    /\ UNCHANGED <<bufferVars, producerVars, consumerVars, closing>>

(* Mutant: the remote share is computed from the batch size once more. *)
RemoteShareHalf == draw.batch - draw.batch \div 2

(* remote_count *)
RemoteShare == draw.batch - draw.local

(* The remote part looks at received_buffer again, and draws positions. *)
SampleDraw(i) ==
    /\ learner = "draw"
    /\ IF draw.remote /\ received # <<>> /\ Len(received) >= RemoteShare
       THEN /\ i \in DOMAIN received
            /\ learner' = "read"
            /\ draw' = [draw EXCEPT !.more = RemoteShare, !.index = i]
       ELSE i = 1 /\ learner' = "idle" /\ draw' = NoDraw
    /\ UNCHANGED <<bufferVars, producerVars, consumerVars, closing>>

(* The positions are read while the consumer goes on appending. *)
SampleRead ==
    /\ learner = "read"
    /\ learner' = "idle" /\ draw' = NoDraw
    /\ UNCHANGED <<bufferVars, producerVars, consumerVars, closing>>

-----------------------------------------------------------------------------
RedpandaNext ==
    \/ AddPublished \/ AddUnpublished \/ Delivered \/ DeliveryFailed \/ OtherPublishes
    \/ StartConsumer \/ StopConsumer \/ Join \/ Shut \/ ShutRaises \/ FlushAndForget
    \/ \E t \in Thread : \/ Check(t) \/ PollNothing(t) \/ PollMessage(t)
                         \/ ParseFails(t) \/ AppendReceived(t)
    \/ \E b \in Batches, r \in BOOLEAN : SampleLocal(b, r)
    \/ \E i \in 1..BufferSize : SampleDraw(i)
    \/ SampleRead

RedpandaSpec == RedpandaInit /\ [][RedpandaNext]_redpandaVars

-----------------------------------------------------------------------------
(* Experiences of others are stored in the order of the topic, each once,  *)
(* and never the agent's own, although a consumer thread may outlive the   *)
(* join of stop_consumer and meet the thread of a later start_consumer.    *)
ReceivedInOrder ==
    /\ \A i, j \in DOMAIN received : i < j => received[i] < received[j]
    /\ \A i \in DOMAIN received : topic[received[i]] = Other

(* An experience that the producer took is never dropped by the agent: it  *)
(* is in the topic, refused by the broker, or still held by a producer     *)
(* that is alive, also across close() and a later add().                   *)
NothingUnsent ==
    /\ \A e \in accepted :
          \/ e \in failed
          \/ \E i \in DOMAIN topic : topic[i] = e
          \/ \E i \in DOMAIN outbox : outbox[i] = e
    /\ outbox # <<>> => producer = "open"

(* Whatever arrives while a sample is taken, it has at most the size asked *)
(* for, and the positions drawn still exist when they are read.            *)
SampleBounded ==
    /\ draw.local + draw.more <= draw.batch
    /\ learner = "read" => draw.index \in DOMAIN received
=============================================================================
