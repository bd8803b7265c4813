----------------------- MODULE PrioritizedReplayProofs -----------------------
(***************************************************************************)
(* Proofs about PrioritizedReplay, for every capacity, every set of         *)
(* priorities and every number of experiences.                              *)
(*                                                                          *)
(* PriorityLag is not inductive: the learner's update writes by position    *)
(* what it means for the experiences it was given, and those may have moved *)
(* on since (SampleLagging); and a priority that stays where it is comes to *)
(* lie under the next experience, whose number is one higher only because   *)
(* the deque holds the latest experiences without a gap (Recent).           *)
(***************************************************************************)
EXTENDS PrioritizedReplay, FiniteSetTheorems, SequenceTheorems, TLAPS

(* What the variables hold.  sampled is a function on some positions. *)
Types ==
    /\ adds \in 0..MaxAdds /\ dropped \in Nat
    /\ buffer \in Seq(1..adds) /\ Len(buffer) <= Capacity
    /\ maxPriority \in Nat \ {0}
    /\ priorities \in [0..Capacity - 1 -> Int]
    /\ givenTo \in [0..Capacity - 1 -> Int]
    /\ DOMAIN sampled \subseteq 0..Capacity - 1

(* The deque holds the latest experiences, in the order of their insertion. *)
Recent ==
    \A i \in 1..Len(buffer) : buffer[i] = adds - Len(buffer) + i

(* The experience now at a sampled position is the one that was handed out, *)
(* or a later one, by at most the number of drops.                          *)
SampleLagging ==
    \A i \in DOMAIN sampled :
        i + 1 \in 1..Len(buffer) /\ sampled[i] \in (buffer[i + 1] - dropped)..buffer[i + 1]

(* The part of PriorityLag about experiences. *)
Lagging ==
    \A i \in 1..Len(buffer) : givenTo[i - 1] \in (buffer[i] - dropped)..buffer[i]

(* The part about the maximum, for every position of the array. *)
MaximumBounds ==
    \A i \in 0..Capacity - 1 : priorities[i] <= maxPriority

IInv == Types /\ Recent /\ SampleLagging /\ Lagging /\ MaximumBounds

-----------------------------------------------------------------------------
(* A function on a finite set that is not empty takes a greatest value: a   *)
(* point with fewest points above it has none.                              *)
LEMMA GreatestExists ==
    ASSUME NEW D, IsFiniteSet(D), D # {}, NEW f \in [D -> Int]
    PROVE  \E x \in D : \A y \in D : f[x] >= f[y]
  <1> DEFINE Above(x) == {y \in D : f[y] > f[x]}
             T == {Above(x) : x \in D}
  <1>1. FiniteSubsetsOf(D) = SUBSET D
    BY FS_FiniteSubsetsOfFinite
  <1>2. T \subseteq FiniteSubsetsOf(D) /\ T # {}
    <2>1. \A x \in D : Above(x) \in SUBSET D
      OBVIOUS
    <2> HIDE DEF Above
    <2>2. T \subseteq SUBSET D
      BY <2>1
    <2>3. T # {}
      OBVIOUS
    <2>4. QED
      BY <2>2, <2>3, <1>1
  <1>3. \E m \in T : \A n \in T : <<n, m>> \notin StrictSubsetOrdering(D)
    BY <1>2, FS_StrictSubsetOrderingWellFounded, WFMin
  <1>4. PICK x \in D : \A y \in D : <<Above(y), Above(x)>> \notin StrictSubsetOrdering(D)
    BY <1>3
  <1>5. ASSUME NEW y \in D, f[y] > f[x] PROVE FALSE
    <2>1. Above(y) \subseteq Above(x) /\ y \in Above(x) /\ y \notin Above(y)
      BY <1>5
    <2>2. Above(y) # Above(x) /\ Above(x) \subseteq D
      BY <2>1
    <2> HIDE DEF Above
    <2>3. QED
      BY <2>1, <2>2, <1>4 DEF StrictSubsetOrdering
  <1>6. QED
    BY <1>5

(* A sequence over a set is one over a larger set. *)
LEMMA SeqWiden ==
    ASSUME NEW S, NEW T, S \subseteq T, NEW s \in Seq(S)
    PROVE  s \in Seq(T)
  OBVIOUS

(* When an experience moves up by one and the deque drops one, what was     *)
(* within the bounds stays within them.                                     *)
LEMMA Widens ==
    ASSUME NEW b \in Int, NEW d \in Nat, NEW off \in {0, 1},
           NEW x \in (b - d)..b
    PROVE  x \in ((b + off) - (d + off))..(b + off)
  OBVIOUS

(* The new maximum is at least the old one and every reported priority. *)
LEMMA NewMaximum ==
    ASSUME NEW D \in SUBSET (0..Capacity - 1), D # {},
           NEW p \in [D -> Priorities], NEW m \in Nat \ {0}
    PROVE  LET n == Max({m} \cup {p[i] : i \in D}) IN
           n \in Nat /\ n >= m /\ \A i \in D : p[i] <= n
  <1> DEFINE S == {m} \cup {p[i] : i \in D}
  <1>1. IsFiniteSet(D)
    <2>1. 0 \in Int /\ Capacity - 1 \in Int
      BY PrioritizedAssumption
    <2>2. IsFiniteSet(0..Capacity - 1)
      BY <2>1, FS_Interval
    <2>3. QED
      BY <2>2, FS_Subset
  <1>2. p \in [D -> Int]
    <2>1. Priorities \subseteq Int
      BY PrioritizedAssumption
    <2>2. QED
      BY <2>1
  <1>3. PICK x \in D : \A y \in D : p[x] >= p[y]
    BY <1>1, <1>2, GreatestExists
  <1>4. S \subseteq Int /\ m \in S
    <2>1. \A i \in D : p[i] \in Int
      BY PrioritizedAssumption
    <2>2. QED
      BY <2>1
  <1>5. \E n \in S : \A y \in S : n >= y
    <2>1. CASE p[x] >= m
      BY <2>1, <1>3, <1>4
    <2>2. CASE ~ (p[x] >= m)
      <3>1. p[x] \in Int
        BY PrioritizedAssumption
      <3>2. ASSUME NEW y \in D PROVE p[y] \in Int /\ m >= p[y]
        <4>1. p[y] \in Int /\ p[x] >= p[y]
          BY <1>3, PrioritizedAssumption
        <4>2. QED
          BY <4>1, <3>1, <2>2
      <3>3. QED
        BY <3>2
    <2>3. QED
      BY <2>1, <2>2
  <1>6. Max(S) \in S /\ \A y \in S : Max(S) >= y
    <2> HIDE DEF S
    <2>1. QED
      BY <1>5 DEF Max
  <1>7. QED
    BY <1>4, <1>6

-----------------------------------------------------------------------------
(* add(): what the deque and the array hold afterwards. *)
LEMMA AddStep == IInv /\ AddPrioritized => IInv'
  <1> SUFFICES ASSUME IInv, AddPrioritized PROVE IInv'
    OBVIOUS
  <1> USE PrioritizedAssumption
  <1> DEFINE kept == IF Len(buffer) = Capacity THEN Tail(buffer) ELSE buffer
             off == IF Len(buffer) = Capacity THEN 1 ELSE 0
  <1>1. adds \in Nat /\ adds' = adds + 1 /\ adds' \in 0..MaxAdds /\ adds' \in 1..MaxAdds
    BY DEF IInv, Types, AddPrioritized
  <1>2. /\ buffer \in Seq(1..adds) /\ Len(buffer) \in 0..Capacity
        /\ \A i \in 1..Len(buffer) : buffer[i] \in 1..adds
    <2>1. buffer \in Seq(1..adds) /\ Len(buffer) <= Capacity
      BY DEF IInv, Types
    <2>2. Len(buffer) \in Nat
      BY <2>1
    <2>3. \A i \in 1..Len(buffer) : buffer[i] \in 1..adds
      BY <2>1, ElementOfSeq
    <2>4. QED
      BY <2>1, <2>2, <2>3
  <1>3. /\ kept \in Seq(1..adds) /\ Len(kept) = Len(buffer) - off
        /\ \A i \in 1..Len(kept) : kept[i] = buffer[i + off]
        /\ off \in {0, 1} /\ (off = 0 => Len(buffer) < Capacity)
    <2>1. CASE Len(buffer) = Capacity
      <3>1. buffer # <<>> /\ kept = Tail(buffer) /\ off = 1
        BY <2>1, <1>2, EmptySeq
      <3>2. /\ Tail(buffer) \in Seq(1..adds) /\ Len(Tail(buffer)) = Len(buffer) - 1
            /\ \A i \in 1..Len(Tail(buffer)) : Tail(buffer)[i] = buffer[i + 1]
        BY <3>1, <1>2, HeadTailProperties
      <3> HIDE DEF kept, off
      <3>3. QED
        BY <3>1, <3>2
    <2>2. CASE Len(buffer) # Capacity
      <3>1. kept = buffer /\ off = 0
        BY <2>2
      <3>2. QED
        BY <3>1, <2>2, <1>2
    <2>3. QED
      BY <2>1, <2>2
  <1>4. buffer' = Append(kept, adds')
    BY DEF AddPrioritized, Appended
  <1>5. dropped' = dropped + off /\ maxPriority' = maxPriority /\ sampled' = sampled
    BY DEF AddPrioritized
  <1> HIDE DEF kept, off
  <1>6. kept \in Seq(1..adds') /\ Len(kept) \in 0..Capacity - 1
    <2>1. 1..adds \subseteq 1..adds'
      BY <1>1
    <2>2. kept \in Seq(1..adds')
      BY <2>1, <1>3, SeqWiden
    <2>3. QED
      BY <2>2, <1>2, <1>3
  <1>7. /\ buffer' \in Seq(1..adds') /\ Len(buffer') = Len(kept) + 1 /\ Len(buffer') <= Capacity
        /\ \A i \in 1..Len(kept) : buffer'[i] = buffer[i + off]
        /\ buffer'[Len(kept) + 1] = adds'
    BY <1>1, <1>3, <1>4, <1>6
  <1>8. NewPosition(Len(buffer')) = Len(kept)
    BY <1>6, <1>7 DEF NewPosition
  <1>9. /\ priorities' = [priorities EXCEPT ![Len(kept)] = maxPriority]
        /\ givenTo' = [givenTo EXCEPT ![Len(kept)] = adds']
    BY <1>8 DEF AddPrioritized
  <1>10. /\ maxPriority \in Nat \ {0} /\ priorities \in [0..Capacity - 1 -> Int]
         /\ givenTo \in [0..Capacity - 1 -> Int] /\ DOMAIN sampled \subseteq 0..Capacity - 1
         /\ dropped \in Nat
    BY DEF IInv, Types
  <1>11. Types'
    <2>1. priorities' \in [0..Capacity - 1 -> Int] /\ givenTo' \in [0..Capacity - 1 -> Int]
      BY <1>1, <1>6, <1>9, <1>10
    <2>2. dropped' \in Nat
      BY <1>3, <1>5, <1>10
    <2>3. QED
      BY <2>1, <2>2, <1>1, <1>5, <1>7, <1>10 DEF Types
  <1>12. \A i \in 1..Len(kept) :
            /\ i \in 1..Len(buffer) /\ i + off \in 1..Len(buffer)
            /\ buffer[i] \in Int /\ buffer'[i] = buffer[i] + off
    <2> TAKE i \in 1..Len(kept)
    <2>1. i \in 1..Len(buffer) /\ i + off \in 1..Len(buffer)
      BY <1>2, <1>3, <1>6
    <2>2. /\ buffer[i] = adds - Len(buffer) + i
          /\ buffer[i + off] = adds - Len(buffer) + (i + off)
      BY <2>1 DEF IInv, Recent
    <2>3. buffer[i] \in Int /\ buffer[i + off] = buffer[i] + off
      BY <2>2, <1>1, <1>2, <1>3
    <2>4. QED
      BY <2>1, <2>3, <1>7
  <1>13. Recent'
    <2> SUFFICES ASSUME NEW i \in 1..Len(buffer') PROVE buffer'[i] = adds' - Len(buffer') + i
      BY DEF Recent
    <2>1. CASE i = Len(kept) + 1
      BY <2>1, <1>1, <1>6, <1>7
    <2>2. CASE i \in 1..Len(kept)
      <3>1. buffer[i] = adds - Len(buffer) + i
        BY <2>2, <1>12 DEF IInv, Recent
      <3>2. buffer'[i] = buffer[i] + off
        BY <2>2, <1>12
      <3>3. QED
        BY <3>1, <3>2, <2>2, <1>1, <1>2, <1>3, <1>7
    <2>3. QED
      BY <2>1, <2>2, <1>6, <1>7
  <1>14. SampleLagging'
    <2> SUFFICES ASSUME NEW i \in DOMAIN sampled
                 PROVE  /\ i + 1 \in 1..Len(buffer')
                        /\ sampled[i] \in (buffer'[i + 1] - dropped')..buffer'[i + 1]
      BY <1>5 DEF SampleLagging
    <2>1. /\ i \in Int /\ i + 1 \in 1..Len(buffer)
          /\ sampled[i] \in (buffer[i + 1] - dropped)..buffer[i + 1]
      BY <1>10 DEF IInv, SampleLagging
    <2>2. i + 1 \in 1..Len(kept) + 1
      BY <2>1, <1>2, <1>3, <1>6
    <2>3. buffer'[i + 1] = buffer[i + 1] + off /\ buffer[i + 1] \in Int
      <3>1. CASE i + 1 \in 1..Len(kept)
        BY <3>1, <1>12
      <3>2. CASE i + 1 = Len(kept) + 1
        <4>1. off = 1 => i + 1 = Len(buffer)
          BY <3>2, <1>2, <1>3
        <4>2. off = 0 => FALSE
          BY <3>2, <2>1, <1>2, <1>3
        <4>3. buffer[i + 1] = adds - Len(buffer) + (i + 1)
          BY <2>1 DEF IInv, Recent
        <4>4. off = 1 /\ i + 1 = Len(buffer) /\ Len(buffer) \in Int
          BY <4>1, <4>2, <1>2, <1>3
        <4>5. buffer[i + 1] = adds
          BY <4>3, <4>4, <1>1
        <4>6. buffer'[i + 1] = adds + 1
          BY <3>2, <1>1, <1>7
        <4>7. QED
          BY <4>4, <4>5, <4>6, <1>1
      <3>3. QED
        BY <3>1, <3>2, <2>2, <1>6
    <2>4. sampled[i] \in (buffer'[i + 1] - dropped')..buffer'[i + 1]
      <3>1. sampled[i] \in (buffer[i + 1] - dropped)..buffer[i + 1]
        BY <2>1
      <3>2. QED
        BY <3>1, <2>3, Widens, <1>3, <1>5, <1>10
    <2>5. QED
      BY <2>2, <2>4, <1>7
  <1>15. Lagging'
    <2> SUFFICES ASSUME NEW i \in 1..Len(buffer')
                 PROVE  givenTo'[i - 1] \in (buffer'[i] - dropped')..buffer'[i]
      BY DEF Lagging
    <2>1. CASE i = Len(kept) + 1
      <3>1. givenTo'[i - 1] = adds' /\ buffer'[i] = adds'
        BY <2>1, <1>6, <1>7, <1>9, <1>10
      <3>2. QED
        BY <3>1, <1>1, <1>3, <1>5, <1>10
    <2>2. CASE i \in 1..Len(kept)
      <3>1. i - 1 # Len(kept) /\ i - 1 \in 0..Capacity - 1
        BY <2>2, <1>6
      <3>2. givenTo'[i - 1] = givenTo[i - 1]
        BY <3>1, <1>9, <1>10
      <3>3. givenTo[i - 1] \in (buffer[i] - dropped)..buffer[i]
        BY <2>2, <1>12 DEF IInv, Lagging
      <3>4. buffer[i] \in Int /\ buffer'[i] = buffer[i] + off
        BY <2>2, <1>12
      <3>5. QED
        BY <3>2, <3>3, <3>4, Widens, <1>3, <1>5, <1>10
    <2>3. QED
      BY <2>1, <2>2, <1>6, <1>7
  <1>16. MaximumBounds'
    <2> SUFFICES ASSUME NEW i \in 0..Capacity - 1 PROVE priorities'[i] <= maxPriority
      BY <1>5 DEF MaximumBounds
    <2>1. priorities[i] <= maxPriority
      BY DEF IInv, MaximumBounds
    <2>2. QED
      BY <2>1, <1>6, <1>9, <1>10
  <1>17. QED
    BY <1>11, <1>13, <1>14, <1>15, <1>16 DEF IInv

(* update_priorities(): a priority is written at the position the sample    *)
(* gave, which an experience of the sample or a later one is at.            *)
LEMMA UpdateStep ==
    ASSUME IInv, NEW p \in [DOMAIN sampled -> Priorities], UpdatePriorities(p)
    PROVE  IInv'
  <1> USE PrioritizedAssumption
  <1> DEFINE D == DOMAIN sampled
  <1>1. /\ D # {} /\ sampled' = <<>> /\ buffer' = buffer /\ adds' = adds /\ dropped' = dropped
        /\ maxPriority' = Max({maxPriority} \cup {p[i] : i \in D})
        /\ priorities' = [i \in DOMAIN priorities |-> IF i \in D THEN p[i] ELSE priorities[i]]
        /\ givenTo' = [i \in DOMAIN givenTo |-> IF i \in D THEN sampled[i] ELSE givenTo[i]]
    BY DEF UpdatePriorities
  <1>2. /\ maxPriority \in Nat \ {0} /\ priorities \in [0..Capacity - 1 -> Int]
        /\ givenTo \in [0..Capacity - 1 -> Int] /\ D \subseteq 0..Capacity - 1
        /\ dropped \in Nat /\ adds \in 0..MaxAdds
        /\ buffer \in Seq(1..adds) /\ Len(buffer) \in 0..Capacity
    <2>1. Types
      BY DEF IInv
    <2>2. Len(buffer) \in Nat
      BY <2>1 DEF Types
    <2>3. QED
      BY <2>1, <2>2, SMTT(30) DEF Types
  <1>3. maxPriority' \in Nat /\ maxPriority' >= maxPriority /\ \A i \in D : p[i] <= maxPriority'
    <2> DEFINE n == Max({maxPriority} \cup {p[i] : i \in D})
    <2>1. D \in SUBSET (0..Capacity - 1) /\ D # {} /\ p \in [D -> Priorities]
      BY <1>1, <1>2, Zenon
    <2>2. maxPriority \in Nat \ {0} /\ maxPriority' = n
      BY <1>1, <1>2, Zenon
    <2> HIDE DEF D
    <2>3. n \in Nat /\ n >= maxPriority /\ \A i \in D : p[i] <= n
      BY <2>1, <2>2, NewMaximum, Zenon
    <2>4. QED
      BY <2>2, <2>3, Zenon
  <1>4. \A i \in D : p[i] \in Int
    OBVIOUS
  <1>5. \A i \in D : i + 1 \in 1..Len(buffer)
                     /\ sampled[i] \in (buffer[i + 1] - dropped)..buffer[i + 1]
    BY DEF IInv, SampleLagging
  <1> HIDE DEF D
  <1>6. \A i \in 0..Capacity - 1 :
            /\ priorities'[i] = IF i \in D THEN p[i] ELSE priorities[i]
            /\ givenTo'[i] = IF i \in D THEN sampled[i] ELSE givenTo[i]
    BY <1>1, <1>2
  <1>7. Types'
    <2>1. priorities' \in [0..Capacity - 1 -> Int]
      BY <1>1, <1>2, <1>4
    <2>2. \A i \in D : sampled[i] \in Int
      BY <1>5
    <2>3. givenTo' \in [0..Capacity - 1 -> Int]
      BY <2>2, <1>1, <1>2
    <2>4. DOMAIN sampled' = {}
      BY <1>1
    <2>5. maxPriority' \in Nat \ {0} /\ Len(buffer') <= Capacity
      BY <1>1, <1>2, <1>3
    <2>6. /\ adds' \in 0..MaxAdds /\ buffer' \in Seq(1..adds') /\ dropped' \in Nat
          /\ DOMAIN sampled' \subseteq 0..Capacity - 1
      BY <2>4, <1>1, <1>2
    <2>7. QED
      BY <2>1, <2>3, <2>5, <2>6 DEF Types
  <1>8. Recent'
    BY <1>1 DEF IInv, Recent
  <1>9. SampleLagging'
    BY <1>1 DEF SampleLagging
  <1>10. Lagging'
    <2> SUFFICES ASSUME NEW j \in 1..Len(buffer)
                 PROVE  givenTo'[j - 1] \in (buffer[j] - dropped)..buffer[j]
      BY <1>1 DEF Lagging
    <2>1. j - 1 \in 0..Capacity - 1 /\ (j - 1) + 1 = j
      BY <1>2
    <2>2. CASE j - 1 \in D
      <3>1. sampled[j - 1] \in (buffer[j] - dropped)..buffer[j]
        BY <2>1, <2>2, <1>5
      <3>2. QED
        BY <3>1, <2>1, <2>2, <1>6
    <2>3. CASE j - 1 \notin D
      <3>1. givenTo[j - 1] \in (buffer[j] - dropped)..buffer[j]
        BY DEF IInv, Lagging
      <3>2. QED
        BY <3>1, <2>1, <2>3, <1>6
    <2>4. QED
      BY <2>2, <2>3
  <1>11. MaximumBounds'
    <2> SUFFICES ASSUME NEW i \in 0..Capacity - 1 PROVE priorities'[i] <= maxPriority'
      BY DEF MaximumBounds
    <2>1. priorities[i] \in Int /\ priorities[i] <= maxPriority
      BY <1>2 DEF IInv, MaximumBounds
    <2>2. CASE i \in D
      <3>1. priorities'[i] = p[i]
        BY <2>2, <1>6
      <3>2. QED
        BY <3>1, <2>2, <1>3
    <2>3. CASE i \notin D
      <3>1. priorities'[i] = priorities[i]
        BY <2>3, <1>6
      <3>2. QED
        BY <3>1, <2>1, <1>2, <1>3
    <2>4. QED
      BY <2>2, <2>3
  <1>12. QED
    BY <1>7, <1>8, <1>9, <1>10, <1>11 DEF IInv

-----------------------------------------------------------------------------
(* The initial state satisfies the inductive invariant. *)
LEMMA InvInit == PrioritizedInit => IInv
  <1> SUFFICES ASSUME PrioritizedInit PROVE IInv
    OBVIOUS
  <1>1. Len(<<>>) = 0 /\ <<>> \in Seq(1..0)
    BY EmptySeq
  <1>2. DOMAIN sampled = {}
    <2>1. sampled = <<>>
      BY DEF PrioritizedInit
    <2>2. QED
      BY <2>1
  <1>3. Types
    <2>1. /\ buffer \in Seq(1..adds) /\ Len(buffer) <= Capacity /\ adds \in 0..MaxAdds
          /\ dropped \in Nat
      BY <1>1, PrioritizedAssumption DEF PrioritizedInit
    <2>2. /\ priorities \in [0..Capacity - 1 -> Int] /\ givenTo \in [0..Capacity - 1 -> Int]
          /\ maxPriority \in Nat \ {0}
      BY DEF PrioritizedInit
    <2>3. QED
      BY <2>1, <2>2, <1>2 DEF Types
  <1>4. Recent /\ Lagging
    BY <1>1 DEF PrioritizedInit, Recent, Lagging
  <1>5. SampleLagging
    BY <1>2 DEF SampleLagging
  <1>6. MaximumBounds
    BY DEF PrioritizedInit, MaximumBounds
  <1>7. QED
    BY <1>3, <1>4, <1>5, <1>6 DEF IInv

(* Every step keeps it. *)
LEMMA InvStep == IInv /\ [PrioritizedNext]_prioritizedVars => IInv'
  <1> SUFFICES ASSUME IInv, [PrioritizedNext]_prioritizedVars PROVE IInv'
    OBVIOUS
  <1>1. CASE AddPrioritized
    BY <1>1, AddStep
  <1>2. ASSUME NEW P \in SUBSET (0..Capacity - 1), SamplePrioritized(P) PROVE IInv'
    <2>1. /\ P \subseteq 0..Len(buffer) - 1 /\ sampled' = [i \in P |-> buffer[i + 1]]
          /\ UNCHANGED <<buffer, priorities, maxPriority, adds, dropped, givenTo>>
      BY <1>2 DEF SamplePrioritized
    <2>2. Len(buffer) \in Nat /\ buffer \in Seq(1..adds) /\ dropped \in Nat /\ adds \in Nat
      BY DEF IInv, Types
    <2>3. \A i \in DOMAIN sampled' : i + 1 \in 1..Len(buffer) /\ sampled'[i] = buffer[i + 1]
      BY <2>1, <2>2
    <2>4. Types'
      <3>1. DOMAIN sampled' = P
        BY <2>1
      <3>2. QED
        BY <3>1, <2>1 DEF IInv, Types
    <2>5. SampleLagging'
      <3>1. ASSUME NEW j \in 1..Len(buffer)
            PROVE  buffer[j] \in (buffer[j] - dropped)..buffer[j]
        <4>1. buffer[j] \in 1..adds
          BY <2>2, ElementOfSeq
        <4>2. buffer[j] \in Int
          BY <4>1
        <4>3. QED
          BY <4>2, <2>2
      <3>2. ASSUME NEW i \in DOMAIN sampled'
            PROVE  /\ i + 1 \in 1..Len(buffer')
                   /\ sampled'[i] \in (buffer'[i + 1] - dropped')..buffer'[i + 1]
        <4>1. i + 1 \in 1..Len(buffer) /\ sampled'[i] = buffer[i + 1]
          BY <2>3
        <4>2. sampled'[i] \in (buffer[i + 1] - dropped)..buffer[i + 1]
          BY <4>1, <3>1
        <4>3. buffer' = buffer /\ dropped' = dropped
          BY <2>1
        <4>4. QED
          BY <4>1, <4>2, <4>3
      <3>3. QED
        BY <3>2 DEF SampleLagging
    <2>6. QED
      BY <2>1, <2>4, <2>5 DEF IInv, Recent, Lagging, MaximumBounds
  <1>3. ASSUME NEW p \in [DOMAIN sampled -> Priorities], UpdatePriorities(p) PROVE IInv'
    BY <1>3, UpdateStep
  <1>4. CASE ClearPrioritized
    <2>1. /\ DOMAIN sampled = {} /\ buffer' = <<>> /\ dropped' = 0
          /\ UNCHANGED <<priorities, maxPriority, sampled, adds, givenTo>>
      BY <1>4 DEF ClearPrioritized
    <2>2. Len(buffer') = 0 /\ buffer' \in Seq(1..adds')
      BY <2>1, EmptySeq
    <2>3. Types'
      <3>1. Len(buffer') <= Capacity
        BY <2>2, PrioritizedAssumption
      <3>2. QED
        BY <3>1, <2>1, <2>2 DEF IInv, Types
    <2>4. QED
      BY <2>1, <2>2, <2>3 DEF IInv, Recent, SampleLagging, Lagging, MaximumBounds
  <1>5. CASE UNCHANGED prioritizedVars
    BY <1>5 DEF prioritizedVars, IInv, Types, Recent, SampleLagging, Lagging, MaximumBounds
  <1>6. QED
    BY <1>1, <1>2, <1>3, <1>4, <1>5 DEF PrioritizedNext

(* The inductive invariant implies the property. *)
LEMMA InvLag == IInv => PriorityLag
  <1> SUFFICES ASSUME IInv, NEW i \in DOMAIN buffer
               PROVE  /\ givenTo[i - 1] \in (buffer[i] - dropped)..buffer[i]
                      /\ priorities[i - 1] <= maxPriority
    BY DEF PriorityLag
  <1>1. /\ i \in 1..Len(buffer) /\ Len(buffer) \in Nat /\ Len(buffer) <= Capacity
    BY DEF IInv, Types
  <1>2. i - 1 \in 0..Capacity - 1
    BY <1>1, PrioritizedAssumption
  <1>3. QED
    BY <1>1, <1>2 DEF IInv, Lagging, MaximumBounds

(* The inductive invariant holds in every reachable state: in particular a  *)
(* sample's positions stay positions of the deque, however many experiences *)
(* are added before update_priorities() is called with them.                *)
THEOREM Invariance == PrioritizedSpec => []IInv
  BY InvInit, InvStep, PTL DEF PrioritizedSpec

(* For every capacity and whatever priorities the learner reports, zero and *)
(* negative ones included: the priority an experience is sampled by was     *)
(* given to it or to an earlier experience, by at most as many as the deque *)
(* has dropped, whatever add(), sample(), update_priorities() and clear()   *)
(* calls interleave; and it is at most max_priority.                        *)
THEOREM PrioritiesLag == PrioritizedSpec => []PriorityLag
  BY Invariance, InvLag, PTL
=============================================================================
