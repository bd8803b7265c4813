----------------------------- MODULE SharedRing -----------------------------
(***************************************************************************)
(* SharedRingBuffer (cpp/include/rpc/buffer_pool.hpp): the lock-free ring  *)
(* in a shared memory region, with one producer and one consumer process.  *)
(* Every load and store of write_pos and read_pos is a step.  An element   *)
(* (64 KB) is copied piecemeal, so a copy is two steps, of its first and    *)
(* of its second half, and the other process may run in between.           *)
(* The release stores and acquire loads order the copies before the        *)
(* positions, so the steps are sequentially consistent here.               *)
(***************************************************************************)
EXTENDS Integers, Sequences

CONSTANTS
    Value,     \* elements
    NoValue,   \* no element
    Capacity,  \* slots of the ring
    MaxPos     \* bound: largest position (2^64 - 1 in the code)

ASSUME CapacityAssumption == Capacity \in Nat \ {0}
ASSUME PosAssumption      == MaxPos \in Nat
ASSUME NoValueAssumption  == NoValue \notin Value

VARIABLES
    write_pos, read_pos,  \* the header
    first, second,        \* halves of the elements in data_
    producer, consumer,   \* the two processes: program counter and locals
    pushed, popped        \* results returned to their callers

ringVars == <<write_pos, read_pos, first, second, producer, consumer, pushed, popped>>

Half == Value \cup {NoValue}
Slot == 0 .. Capacity - 1
Pos  == 0 .. MaxPos

RingTypeOK ==
    /\ write_pos \in Pos /\ read_pos \in Pos
    /\ first \in [Slot -> Half] /\ second \in [Slot -> Half]
    /\ producer \in [pc: {"idle", "write1", "write2", "store"}, pos: Pos, value: Half]
    /\ consumer \in [pc: {"idle", "read1", "read2", "store"}, pos: Pos,
                     one: Half, two: Half]
    /\ pushed \in BOOLEAN
    /\ popped \in Half

(* A created region is zeroed: both positions are 0. *)
RingInit ==
    /\ write_pos = 0 /\ read_pos = 0
    /\ first = [s \in Slot |-> NoValue] /\ second = [s \in Slot |-> NoValue]
    /\ producer = [pc |-> "idle", pos |-> 0, value |-> NoValue]
    /\ consumer = [pc |-> "idle", pos |-> 0, one |-> NoValue, two |-> NoValue]
    /\ pushed = TRUE
    /\ popped = NoValue

-----------------------------------------------------------------------------
(* try_push(v).  write_pos is only stored by the producer itself, so the   *)
(* step is the load of read_pos, with the test on what it returned.        *)
PushFull ==
    /\ producer.pc = "idle"
    /\ write_pos - read_pos >= Capacity
    /\ pushed' = FALSE
    /\ UNCHANGED <<write_pos, read_pos, first, second, producer, consumer, popped>>

(* Mutant: a full ring takes one more element. *)
PushBeginOffByOne(v) ==
    /\ producer.pc = "idle"
    /\ write_pos < MaxPos
    /\ ~(write_pos - read_pos > Capacity)
    /\ producer' = [pc |-> "write1", pos |-> write_pos, value |-> v]
    /\ UNCHANGED <<write_pos, read_pos, first, second, consumer, pushed, popped>>

(* Mutant: write_pos is stored before the element is copied. *)
PushBeginPublishes(v) ==
    /\ producer.pc = "idle"
    /\ write_pos < MaxPos
    /\ ~(write_pos - read_pos >= Capacity)
    /\ producer' = [pc |-> "write1", pos |-> write_pos, value |-> v]
    /\ write_pos' = write_pos + 1
    /\ UNCHANGED <<read_pos, first, second, consumer, pushed, popped>>

PushBegin(v) ==
    /\ producer.pc = "idle"
    /\ write_pos < MaxPos
    /\ ~(write_pos - read_pos >= Capacity)
    /\ producer' = [pc |-> "write1", pos |-> write_pos, value |-> v]
    /\ UNCHANGED <<write_pos, read_pos, first, second, consumer, pushed, popped>>

(* data_[write % capacity] = value, half by half. *)
PushFirst ==
    /\ producer.pc = "write1"
    /\ first' = [first EXCEPT ![producer.pos % Capacity] = producer.value]
    /\ producer' = [producer EXCEPT !.pc = "write2"]
    /\ UNCHANGED <<write_pos, read_pos, second, consumer, pushed, popped>>

PushSecond ==
    /\ producer.pc = "write2"
    /\ second' = [second EXCEPT ![producer.pos % Capacity] = producer.value]
    /\ producer' = [producer EXCEPT !.pc = "store"]
    /\ UNCHANGED <<write_pos, read_pos, first, consumer, pushed, popped>>

PushStore ==
    /\ producer.pc = "store"
    /\ write_pos' = producer.pos + 1
    /\ producer' = [producer EXCEPT !.pc = "idle"]
    /\ pushed' = TRUE
    /\ UNCHANGED <<read_pos, first, second, consumer, popped>>

-----------------------------------------------------------------------------
(* try_pop, likewise: the step is the load of write_pos. *)
PopEmpty ==
    /\ consumer.pc = "idle"
    /\ read_pos >= write_pos
    /\ popped' = NoValue
    /\ UNCHANGED <<write_pos, read_pos, first, second, producer, consumer, pushed>>

(* Mutant: try_pop does not test for an empty ring. *)
PopBeginUnchecked ==
    /\ consumer.pc = "idle"
    /\ consumer' = [consumer EXCEPT !.pc = "read1", !.pos = read_pos]
    /\ UNCHANGED <<write_pos, read_pos, first, second, producer, pushed, popped>>

PopBegin ==
    /\ consumer.pc = "idle"
    /\ ~(read_pos >= write_pos)
    /\ consumer' = [consumer EXCEPT !.pc = "read1", !.pos = read_pos]
    /\ UNCHANGED <<write_pos, read_pos, first, second, producer, pushed, popped>>

(* value = data_[read % capacity], half by half. *)
PopFirst ==
    /\ consumer.pc = "read1"
    /\ consumer' = [consumer EXCEPT !.pc = "read2", !.one = first[consumer.pos % Capacity]]
    /\ UNCHANGED <<write_pos, read_pos, first, second, producer, pushed, popped>>

PopSecond ==
    /\ consumer.pc = "read2"
    /\ consumer' = [consumer EXCEPT !.pc = "store", !.two = second[consumer.pos % Capacity]]
    /\ UNCHANGED <<write_pos, read_pos, first, second, producer, pushed, popped>>

(* Mutant: read_pos is not advanced. *)
PopStoreStays ==
    /\ consumer.pc = "store"
    /\ read_pos' = consumer.pos
    /\ consumer' = [pc |-> "idle", pos |-> 0, one |-> NoValue, two |-> NoValue]
    /\ popped' = consumer.one
    /\ UNCHANGED <<write_pos, first, second, producer, pushed>>

PopStore ==
    /\ consumer.pc = "store"
    /\ read_pos' = consumer.pos + 1
    /\ consumer' = [pc |-> "idle", pos |-> 0, one |-> NoValue, two |-> NoValue]
    /\ popped' = consumer.one
    /\ UNCHANGED <<write_pos, first, second, producer, pushed>>

-----------------------------------------------------------------------------
Push == PushFull \/ (\E v \in Value : PushBegin(v)) \/ PushFirst \/ PushSecond \/ PushStore
Pop  == PopEmpty \/ PopBegin \/ PopFirst \/ PopSecond \/ PopStore

RingNext == Push \/ Pop

RingSpec == RingInit /\ [][RingNext]_ringVars

PushGoesOn == PushFirst \/ PushSecond \/ PushStore
PopGoesOn  == PopBegin \/ PopFirst \/ PopSecond \/ PopStore

(* A process that is inside try_push or try_pop leaves it, and the consumer *)
(* polls again and again; nobody has to push.                              *)
RingFairSpec ==
    /\ RingSpec
    /\ WF_ringVars(PushGoesOn)
    /\ WF_ringVars(PopGoesOn)

-----------------------------------------------------------------------------
(* The consumer never returns a torn element, one whose halves come from   *)
(* two different pushes: the producer does not overwrite a slot that is    *)
(* being copied out, also when the ring is full and try_push keeps retrying. *)
NoTornRead == consumer.pc = "store" => consumer.one = consumer.two /\ consumer.one \in Value

(* Neither process passes the other: at most Capacity elements are in the  *)
(* ring, and a slot in use by the producer is never in use by the consumer. *)
SlotsDisjoint ==
    /\ read_pos <= write_pos
    /\ write_pos - read_pos <= Capacity
    /\ (producer.pc \in {"write1", "write2"} /\ consumer.pc \in {"read1", "read2"})
         => producer.pos % Capacity # consumer.pos % Capacity

(* Elements in the ring, oldest first. *)
Contents == [n \in 1 .. write_pos - read_pos |-> first[(read_pos + n - 1) % Capacity]]

Fifo == INSTANCE RingFifo
            WITH queue <- Contents, pushResult <- pushed, popResult <- popped

(* The ring implements the bounded FIFO queue: each call takes effect at   *)
(* one of its steps, and elements come out whole, once and in order.       *)
ImplementsFifo == Fifo!FifoSpec

(* Every element that is pushed is popped: again and again the ring is      *)
(* empty, or the oldest of its elements is taken out.                       *)
PushedIsPopped ==
    []<>(write_pos = read_pos) \/ []<><<read_pos' = read_pos + 1>>_read_pos
=============================================================================
