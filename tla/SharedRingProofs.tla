-------------------------- MODULE SharedRingProofs --------------------------
(* SharedRing never tears an element and implements RingFifo, for every     *)
(* capacity, set of elements and bound on the positions.                    *)
EXTENDS SharedRing, TLAPS

(* Slots of positions less than Capacity apart are different. *)
LEMMA SlotsDiffer ==
    ASSUME NEW i \in Nat, NEW j \in Nat, i < j, j - i < Capacity
    PROVE  i % Capacity # j % Capacity
  <1>1. Capacity \in Nat /\ Capacity > 0
    BY CapacityAssumption
  <1> DEFINE a == i \div Capacity
             b == j \div Capacity
  <1>2. a \in Int /\ b \in Int
    BY <1>1
  <1>3. i = Capacity * a + (i % Capacity) /\ j = Capacity * b + (j % Capacity)
    BY <1>1
  <1>4. SUFFICES ASSUME i % Capacity = j % Capacity PROVE FALSE
    OBVIOUS
  <1> HIDE DEF a, b
  <1>5. Capacity * (b - a) = j - i
    BY <1>1, <1>2, <1>3, <1>4
  <1>6. b - a \in Int
    BY <1>2
  <1>7. CASE b - a <= 0
    BY <1>1, <1>2, <1>5, <1>7
  <1>8. CASE b - a >= 1
    BY <1>1, <1>2, <1>5, <1>8
  <1>9. QED
    BY <1>6, <1>7, <1>8

(* A position has a slot. *)
LEMMA SlotInRange ==
    ASSUME NEW i \in Nat
    PROVE  i % Capacity \in Slot
  BY CapacityAssumption DEF Slot

-----------------------------------------------------------------------------
(* The producer works on the slot after the last element, and there is room *)
(* for it; what it has written so far is its value.                         *)
ProducerInv ==
    producer.pc # "idle" =>
        /\ producer.pos = write_pos
        /\ producer.value \in Value
        /\ write_pos < MaxPos
        /\ write_pos - read_pos < Capacity
        /\ producer.pc \in {"write2", "store"} =>
              first[write_pos % Capacity] = producer.value
        /\ producer.pc = "store" => second[write_pos % Capacity] = producer.value

(* The consumer works on the oldest element, and there is one; what it has *)
(* copied so far is that element.                                           *)
ConsumerInv ==
    consumer.pc # "idle" =>
        /\ consumer.pos = read_pos
        /\ read_pos < write_pos
        /\ consumer.pc \in {"read2", "store"} =>
              consumer.one = first[read_pos % Capacity]
        /\ consumer.pc = "store" => consumer.two = second[read_pos % Capacity]

(* The elements between the positions are whole. *)
ContentsInv ==
    \A n \in Pos : read_pos <= n /\ n < write_pos =>
        /\ first[n % Capacity] = second[n % Capacity]
        /\ first[n % Capacity] \in Value

BoundInv == read_pos <= write_pos /\ write_pos - read_pos <= Capacity

RingInv == RingTypeOK /\ BoundInv /\ ProducerInv /\ ConsumerInv /\ ContentsInv

USE CapacityAssumption, PosAssumption, NoValueAssumption

(* A slot outside the contents is written without touching them. *)
LEMMA WriteOutside ==
    ASSUME RingInv, write_pos - read_pos < Capacity,
           NEW n \in Pos, read_pos <= n, n < write_pos
    PROVE  /\ n % Capacity \in Slot
           /\ write_pos % Capacity \in Slot
           /\ n % Capacity # write_pos % Capacity
  <1>1. n \in Nat /\ write_pos \in Nat /\ read_pos \in Nat
    BY DEF RingInv, RingTypeOK, Pos
  <1>2. n < write_pos /\ write_pos - n < Capacity
    BY <1>1
  <1>3. QED
    BY <1>1, <1>2, SlotsDiffer, SlotInRange

(* Every step of either process keeps the ring invariant. *)
LEMMA RingStep ==
    ASSUME RingInv, [RingNext]_ringVars
    PROVE  RingInv'
  <1>0. /\ write_pos \in Nat /\ read_pos \in Nat
        /\ write_pos % Capacity \in Slot /\ read_pos % Capacity \in Slot
    BY SlotInRange DEF RingInv, RingTypeOK, Pos
  <1>1. CASE UNCHANGED ringVars
    BY <1>1 DEF ringVars, RingInv, RingTypeOK, BoundInv, ProducerInv, ConsumerInv, ContentsInv
  <1>2. CASE PushFull
    BY <1>2 DEF PushFull, RingInv, RingTypeOK, BoundInv, ProducerInv, ConsumerInv, ContentsInv
  <1>3. CASE \E v \in Value : PushBegin(v)
    <2>1. PICK v \in Value : PushBegin(v)
      BY <1>3
    <2>2. RingTypeOK' /\ BoundInv' /\ ConsumerInv' /\ ContentsInv'
      BY <2>1 DEF PushBegin, RingInv, RingTypeOK, BoundInv, ConsumerInv, ContentsInv, Half
    <2>3. ProducerInv'
      BY <1>0, <2>1 DEF PushBegin, RingInv, ProducerInv
    <2>4. QED
      BY <2>2, <2>3 DEF RingInv
  <1>4. CASE PushFirst
    <2>1. /\ producer.pos = write_pos /\ write_pos - read_pos < Capacity
          /\ producer.value \in Value /\ write_pos < MaxPos
          /\ first' = [first EXCEPT ![write_pos % Capacity] = producer.value]
          /\ producer' = [producer EXCEPT !.pc = "write2"]
          /\ UNCHANGED <<write_pos, read_pos, second, consumer, pushed, popped>>
      BY <1>4 DEF PushFirst, RingInv, ProducerInv
    <2>2. RingTypeOK' /\ BoundInv'
      BY <1>0, <2>1 DEF RingInv, RingTypeOK, BoundInv, Half
    <2>3. \A n \in Pos : read_pos <= n /\ n < write_pos =>
             first'[n % Capacity] = first[n % Capacity]
      BY <2>1, WriteOutside DEF RingInv, RingTypeOK
    <2>4. ProducerInv'
      BY <1>0, <2>1 DEF RingInv, RingTypeOK, ProducerInv
    <2>5. ConsumerInv'
      <3>1. read_pos < write_pos => first'[read_pos % Capacity] = first[read_pos % Capacity]
        BY <1>0, <2>3 DEF RingInv, RingTypeOK
      <3>2. QED
        BY <2>1, <3>1 DEF RingInv, ConsumerInv
    <2>6. ContentsInv'
      BY <2>1, <2>3 DEF RingInv, ContentsInv
    <2>7. QED
      BY <2>2, <2>4, <2>5, <2>6 DEF RingInv
  <1>5. CASE PushSecond
    <2>1. /\ producer.pos = write_pos /\ write_pos - read_pos < Capacity
          /\ producer.value \in Value /\ write_pos < MaxPos
          /\ first[write_pos % Capacity] = producer.value
          /\ second' = [second EXCEPT ![write_pos % Capacity] = producer.value]
          /\ producer' = [producer EXCEPT !.pc = "store"]
          /\ UNCHANGED <<write_pos, read_pos, first, consumer, pushed, popped>>
      BY <1>5 DEF PushSecond, RingInv, ProducerInv
    <2>2. RingTypeOK' /\ BoundInv'
      BY <1>0, <2>1 DEF RingInv, RingTypeOK, BoundInv, Half
    <2>3. \A n \in Pos : read_pos <= n /\ n < write_pos =>
             second'[n % Capacity] = second[n % Capacity]
      BY <2>1, WriteOutside DEF RingInv, RingTypeOK
    <2>4. ProducerInv'
      BY <1>0, <2>1 DEF RingInv, RingTypeOK, ProducerInv
    <2>5. ConsumerInv'
      <3>1. read_pos < write_pos => second'[read_pos % Capacity] = second[read_pos % Capacity]
        BY <1>0, <2>3 DEF RingInv, RingTypeOK
      <3>2. QED
        BY <2>1, <3>1 DEF RingInv, ConsumerInv
    <2>6. ContentsInv'
      BY <2>1, <2>3 DEF RingInv, ContentsInv
    <2>7. QED
      BY <2>2, <2>4, <2>5, <2>6 DEF RingInv
  <1>6. CASE PushStore
    <2>1. /\ write_pos' = write_pos + 1
          /\ write_pos - read_pos < Capacity /\ write_pos < MaxPos
          /\ producer.value \in Value
          /\ first[write_pos % Capacity] = producer.value
          /\ second[write_pos % Capacity] = producer.value
          /\ producer' = [producer EXCEPT !.pc = "idle"]
          /\ pushed' = TRUE
          /\ UNCHANGED <<read_pos, first, second, consumer, popped>>
      BY <1>6 DEF PushStore, RingInv, ProducerInv
    <2>2. RingTypeOK' /\ BoundInv'
      BY <1>0, <2>1 DEF RingInv, RingTypeOK, BoundInv, Pos
    <2>3. ProducerInv' /\ ConsumerInv'
      BY <1>0, <2>1 DEF RingInv, RingTypeOK, ProducerInv, ConsumerInv
    <2>4. ContentsInv'
      BY <1>0, <2>1 DEF RingInv, ContentsInv, Pos
    <2>5. QED
      BY <2>2, <2>3, <2>4 DEF RingInv
  <1>7. CASE PopEmpty
    BY <1>7 DEF PopEmpty, RingInv, RingTypeOK, BoundInv, ProducerInv, ConsumerInv,
                ContentsInv, Half
  <1>8. CASE PopBegin
    <2>1. RingTypeOK' /\ BoundInv' /\ ProducerInv' /\ ContentsInv'
      BY <1>8 DEF PopBegin, RingInv, RingTypeOK, BoundInv, ProducerInv, ContentsInv
    <2>2. ConsumerInv'
      BY <1>0, <1>8 DEF PopBegin, RingInv, RingTypeOK, ConsumerInv
    <2>3. QED
      BY <2>1, <2>2 DEF RingInv
  <1>9. CASE PopFirst
    <2>1. RingTypeOK' /\ BoundInv' /\ ProducerInv' /\ ContentsInv'
      BY <1>0, <1>9 DEF PopFirst, RingInv, RingTypeOK, BoundInv, ProducerInv, ConsumerInv,
                        ContentsInv
    <2>2. ConsumerInv'
      BY <1>0, <1>9 DEF PopFirst, RingInv, RingTypeOK, ConsumerInv
    <2>3. QED
      BY <2>1, <2>2 DEF RingInv
  <1>10. CASE PopSecond
    <2>1. RingTypeOK' /\ BoundInv' /\ ProducerInv' /\ ContentsInv'
      BY <1>0, <1>10 DEF PopSecond, RingInv, RingTypeOK, BoundInv, ProducerInv, ConsumerInv,
                         ContentsInv
    <2>2. ConsumerInv'
      BY <1>0, <1>10 DEF PopSecond, RingInv, RingTypeOK, ConsumerInv
    <2>3. QED
      BY <2>1, <2>2 DEF RingInv
  <1>11. CASE PopStore
    <2>1. /\ read_pos' = read_pos + 1 /\ read_pos < write_pos
          /\ consumer' = [pc |-> "idle", pos |-> 0, one |-> NoValue, two |-> NoValue]
          /\ popped' = consumer.one
          /\ UNCHANGED <<write_pos, first, second, producer, pushed>>
      BY <1>11 DEF PopStore, RingInv, ConsumerInv
    <2>2. RingTypeOK' /\ BoundInv'
      BY <1>0, <2>1 DEF RingInv, RingTypeOK, BoundInv, Pos, Half
    <2>3. ProducerInv' /\ ConsumerInv'
      BY <1>0, <2>1 DEF RingInv, RingTypeOK, ProducerInv, ConsumerInv
    <2>4. ContentsInv'
      BY <1>0, <2>1 DEF RingInv, ContentsInv, Pos
    <2>5. QED
      BY <2>2, <2>3, <2>4 DEF RingInv
  <1>12. QED
    BY <1>1, <1>2, <1>3, <1>4, <1>5, <1>6, <1>7, <1>8, <1>9, <1>10, <1>11
       DEF RingNext, Push, Pop

(* A new ring satisfies the invariant. *)
LEMMA InitRingInv == RingInit => RingInv
  BY DEF RingInit, RingInv, RingTypeOK, BoundInv, ProducerInv, ConsumerInv, ContentsInv, Pos, Half

(* The ring invariant holds in every behaviour. *)
LEMMA RingInductive == RingSpec => []RingInv
  BY InitRingInv, RingStep, PTL DEF RingSpec

(* Positions, slots and locals of both processes keep their types: neither *)
(* position leaves its range, also when the ring wraps around.             *)
THEOREM RingTypes == RingSpec => []RingTypeOK
  <1>1. RingInv => RingTypeOK
    BY DEF RingInv
  <1>2. QED
    BY <1>1, RingInductive, PTL

(* No torn element is ever returned by try_pop. *)
THEOREM NeverTorn == RingSpec => []NoTornRead
  <1>1. RingInv => NoTornRead
    <2>1. SUFFICES ASSUME RingInv, consumer.pc = "store"
                   PROVE  consumer.one = consumer.two /\ consumer.one \in Value
      BY DEF NoTornRead
    <2>2. /\ consumer.one = first[read_pos % Capacity]
          /\ consumer.two = second[read_pos % Capacity]
          /\ read_pos \in Pos /\ read_pos < write_pos
      BY <2>1 DEF RingInv, RingTypeOK, ConsumerInv
    <2>3. read_pos <= read_pos
      BY <2>2 DEF Pos
    <2>4. QED
      BY <2>1, <2>2, <2>3 DEF RingInv, ContentsInv
  <1>2. QED
    BY <1>1, RingInductive, PTL

(* The two processes never work on the same slot. *)
THEOREM NeverSameSlot == RingSpec => []SlotsDisjoint
  <1>1. RingInv => SlotsDisjoint
    <2>1. SUFFICES ASSUME RingInv,
                          producer.pc \in {"write1", "write2"},
                          consumer.pc \in {"read1", "read2"}
                   PROVE  producer.pos % Capacity # consumer.pos % Capacity
      BY DEF SlotsDisjoint, RingInv, BoundInv
    <2>2. /\ producer.pos = write_pos /\ consumer.pos = read_pos
          /\ write_pos - read_pos < Capacity
          /\ read_pos < write_pos /\ read_pos \in Pos
      BY <2>1 DEF RingInv, RingTypeOK, ProducerInv, ConsumerInv
    <2>3. read_pos <= read_pos
      BY <2>2 DEF Pos
    <2>4. QED
      BY <2>1, <2>2, <2>3, WriteOutside
  <1>2. QED
    BY <1>1, RingInductive, PTL

-----------------------------------------------------------------------------
(* Refinement *)

(* Contents is a sequence with one element per position in use. *)
LEMMA ContentsSeq ==
    ASSUME RingInv
    PROVE  /\ Contents \in Seq(Value)
           /\ Len(Contents) = write_pos - read_pos
  <1>1. write_pos \in Nat /\ read_pos \in Nat /\ write_pos - read_pos \in Nat
    BY DEF RingInv, RingTypeOK, BoundInv, Pos
  <1>2. ASSUME NEW n \in 1 .. write_pos - read_pos
        PROVE  first[(read_pos + n - 1) % Capacity] \in Value
    <2>1. read_pos + n - 1 \in Pos /\ read_pos <= read_pos + n - 1
                                   /\ read_pos + n - 1 < write_pos
      BY <1>1 DEF RingInv, RingTypeOK, Pos
    <2>2. QED
      BY <2>1 DEF RingInv, ContentsInv
  <1>3. QED
    BY <1>1, <1>2 DEF Contents

(* A step that leaves the positions and the elements in use alone leaves   *)
(* the contents alone.                                                     *)
LEMMA SameContents ==
    ASSUME RingInv, UNCHANGED <<write_pos, read_pos>>,
           \A n \in Pos : read_pos <= n /\ n < write_pos =>
               first'[n % Capacity] = first[n % Capacity]
    PROVE  Contents' = Contents
  <1>1. write_pos \in Nat /\ read_pos \in Nat
    BY DEF RingInv, RingTypeOK, Pos
  <1>2. ASSUME NEW n \in 1 .. write_pos - read_pos
        PROVE  first'[(read_pos + n - 1) % Capacity] = first[(read_pos + n - 1) % Capacity]
    <2>1. read_pos + n - 1 \in Pos /\ read_pos <= read_pos + n - 1
                                   /\ read_pos + n - 1 < write_pos
      BY <1>1 DEF RingInv, RingTypeOK, Pos
    <2>2. QED
      BY <2>1
  <1>3. QED
    BY <1>1, <1>2 DEF Contents

(* Every step of the ring is a step of the queue or leaves it unchanged. *)
LEMMA FifoStep ==
    ASSUME RingInv, RingInv', [RingNext]_ringVars
    PROVE  [Fifo!FifoNext]_(Fifo!fifoVars)
  <1>0. /\ write_pos \in Nat /\ read_pos \in Nat
        /\ Contents \in Seq(Value) /\ Len(Contents) = write_pos - read_pos
    BY ContentsSeq DEF RingInv, RingTypeOK, Pos
  <1>1. CASE UNCHANGED <<write_pos, read_pos, first, pushed, popped>>
    BY <1>1, SameContents DEF Fifo!fifoVars
  <1>2. CASE PushFull
    <2>1. Contents' = Contents
      BY <1>2, SameContents DEF PushFull
    <2>2. Len(Contents) = Capacity
      BY <1>0, <1>2 DEF PushFull, RingInv, BoundInv
    <2>3. QED
      BY <1>2, <2>1, <2>2 DEF PushFull, Fifo!FifoNext, Fifo!TryPushFull
  <1>3. CASE PushFirst
    <2>1. \A n \in Pos : read_pos <= n /\ n < write_pos =>
             first'[n % Capacity] = first[n % Capacity]
      BY <1>3, WriteOutside DEF PushFirst, RingInv, RingTypeOK, ProducerInv
    <2>2. QED
      BY <1>3, <2>1, SameContents DEF PushFirst, Fifo!fifoVars
  <1>4. CASE PushStore
    <2>1. /\ write_pos' = write_pos + 1 /\ UNCHANGED <<read_pos, first, popped>>
          /\ pushed' = TRUE
          /\ write_pos - read_pos < Capacity
          /\ producer.value \in Value
          /\ first[write_pos % Capacity] = producer.value
      BY <1>4 DEF PushStore, RingInv, ProducerInv
    <2>2. Contents' = Append(Contents, producer.value)
      <3> DEFINE A == Append(Contents, producer.value)
                 N == write_pos - read_pos + 1
      <3>1. Contents' = [n \in 1 .. N |-> first[(read_pos + n - 1) % Capacity]]
        <4>1. write_pos' - read_pos' = N
          BY <1>0, <2>1
        <4>2. QED
          BY <2>1, <4>1 DEF Contents
      <3>2. A \in Seq(Value) /\ Len(A) = N
        BY <1>0, <2>1
      <3>3. A = [n \in 1 .. N |-> A[n]]
        BY <3>2
      <3>4. ASSUME NEW n \in 1 .. N
            PROVE  A[n] = first[(read_pos + n - 1) % Capacity]
        <4>1. CASE n = N
          <5>1. A[n] = producer.value
            BY <1>0, <4>1
          <5>2. read_pos + n - 1 = write_pos
            BY <1>0, <4>1
          <5>3. QED
            BY <2>1, <5>1, <5>2
        <4>2. CASE n \in 1 .. write_pos - read_pos
          <5>1. A[n] = Contents[n]
            BY <1>0, <4>2
          <5>2. QED
            BY <4>2, <5>1 DEF Contents
        <4>3. QED
          BY <1>0, <4>1, <4>2
      <3> HIDE DEF A, N
      <3>5. QED
        BY <3>1, <3>3, <3>4 DEF A
    <2>3. Fifo!TryPush(producer.value)
      BY <1>0, <2>1, <2>2 DEF Fifo!TryPush
    <2>4. QED
      BY <2>1, <2>3 DEF Fifo!FifoNext
  <1>5. CASE PopEmpty
    <2>1. Contents' = Contents
      BY <1>5, SameContents DEF PopEmpty
    <2>2. Contents = <<>>
      BY <1>0, <1>5 DEF PopEmpty, RingInv, BoundInv
    <2>3. QED
      BY <1>5, <2>1, <2>2 DEF PopEmpty, Fifo!FifoNext, Fifo!TryPopEmpty
  <1>6. CASE PopStore
    <2>1. /\ read_pos' = read_pos + 1 /\ UNCHANGED <<write_pos, first, pushed>>
          /\ read_pos < write_pos
          /\ popped' = first[read_pos % Capacity]
      BY <1>6 DEF PopStore, RingInv, ConsumerInv
    <2>2. Contents # <<>> /\ Head(Contents) = popped'
      <3>1. Contents # <<>> /\ Head(Contents) = Contents[1]
        BY <1>0, <2>1
      <3>2. 1 \in 1 .. write_pos - read_pos /\ read_pos + 1 - 1 = read_pos
        BY <1>0, <2>1
      <3>3. QED
        BY <2>1, <3>1, <3>2 DEF Contents
    <2>3. Contents' = Tail(Contents)
      <3> DEFINE N == write_pos - read_pos - 1
      <3>1. Contents' = [n \in 1 .. N |-> first[(read_pos + 1 + n - 1) % Capacity]]
        <4>1. write_pos' - read_pos' = N
          BY <1>0, <2>1
        <4>2. QED
          BY <2>1, <4>1 DEF Contents
      <3>2. Tail(Contents) = [n \in 1 .. N |-> Contents[n + 1]]
        <4> DEFINE T == Tail(Contents)
        <4>1. T \in Seq(Value) /\ Len(T) = N
          BY <1>0, <2>2
        <4>2. \A n \in 1 .. N : T[n] = Contents[n + 1]
          BY <1>0, <2>2
        <4> HIDE DEF T, N
        <4>3. T = [n \in 1 .. N |-> T[n]]
          BY <4>1
        <4>4. T = [n \in 1 .. N |-> Contents[n + 1]]
          BY <4>2, <4>3
        <4>5. QED
          BY <4>4 DEF T
      <3>3. ASSUME NEW n \in 1 .. N
            PROVE  Contents[n + 1] = first[(read_pos + 1 + n - 1) % Capacity]
        <4>1. n + 1 \in 1 .. write_pos - read_pos
              /\ read_pos + (n + 1) - 1 = read_pos + 1 + n - 1
          BY <1>0, <2>1
        <4>2. QED
          BY <4>1 DEF Contents
      <3> HIDE DEF N
      <3>4. QED
        BY <3>1, <3>2, <3>3
    <2>4. QED
      BY <2>1, <2>2, <2>3 DEF Fifo!FifoNext, Fifo!TryPop
  <1>7. QED
    BY <1>1, <1>2, <1>3, <1>4, <1>5, <1>6
       DEF RingNext, Push, Pop, ringVars, PushBegin, PushSecond, PopBegin, PopFirst, PopSecond

(* SharedRingBuffer implements the bounded FIFO queue. *)
THEOREM RingImplementsFifo == RingSpec => ImplementsFifo
  <1>1. RingInit => Fifo!FifoInit
    BY DEF RingInit, Contents, Fifo!FifoInit
  <1>2. RingInv /\ RingInv' /\ [RingNext]_ringVars => [Fifo!FifoNext]_(Fifo!fifoVars)
    BY FifoStep
  <1>3. QED
    BY <1>1, <1>2, RingInductive, PTL DEF RingSpec, ImplementsFifo, Fifo!FifoSpec

=============================================================================
