------------------------ MODULE GradientGossipProofs ------------------------
(* The gossip of gradients between any number of agents, over a network    *)
(* that delivers late, out of order, repeatedly or never, with restarts.   *)
EXTENDS GradientGossip, TLAPS

(* The gradients an agent holds are those of its last training step, with  *)
(* at most its present version; without any it has not trained in this life. *)
HoldsLast(a) ==
    IF current[a] = None THEN step[a] = 0 /\ version[a] = 0
    ELSE /\ current[a].from = a /\ current[a].life = life[a]
         /\ current[a].step = step[a] /\ step[a] > 0
         /\ current[a].version <= version[a]

CurrentIsLast == \A a \in Agent : HoldsLast(a)

(* What was sent is no later than its sender: of an earlier life, or of    *)
(* this one with numbers up to those of the sender's gradients, and the    *)
(* same gradients when of the same step.  An empty array has version 0.    *)
NotAhead(g, b) ==
    /\ g.step = 0 => g.version = 0
    /\ g.life <= life[b]
    /\ g.life = life[b] =>
          IF current[b] = None THEN g.step = 0
          ELSE /\ g.step <= step[b] /\ g.version <= current[b].version
               /\ g.step = step[b] => g.version = current[b].version

SentBySender == \A m \in network : NotAhead(m.grad, m.grad.from)

(* What an agent keeps of its peers was sent to it by them. *)
KeptWasSent ==
    \A a, b \in Agent :
        /\ cache[a][b] # None =>
              cache[a][b].from = b /\ \E m \in network : m.to = a /\ m.grad = cache[a][b]
        /\ newest[a][b] # None =>
              newest[a][b].from = b /\ \E m \in network : m.to = a /\ m.grad = newest[a][b]

(* The inductive invariant. *)
IInv ==
    /\ TypeOK /\ CurrentIsLast /\ SentBySender /\ KeptWasSent
    /\ VersionsFollowSteps /\ CacheIsNewest /\ AggregateConsistent

-----------------------------------------------------------------------------
(* What the fields of a gradient vector are. *)
LEMMA GradientFields ==
    ASSUME NEW g \in Gradient
    PROVE  /\ g.from \in Agent
           /\ g.life \in Nat /\ g.step \in Nat /\ g.version \in Nat
  <1>1. PICK a \in Agent : g \in [from: {a}, life: 0..MaxLife[a], step: 0..MaxStep[a],
                                  version: 0..MaxStep[a]]
    BY DEF Gradient
  <1>2. QED
    BY <1>1

(* Numbers within the bounds of an agent make a gradient vector. *)
LEMMA GradientIntro ==
    ASSUME NEW a \in Agent, NEW l \in 0..MaxLife[a], NEW s \in 0..MaxStep[a],
           NEW v \in 0..MaxStep[a]
    PROVE  [from |-> a, life |-> l, step |-> s, version |-> v] \in Gradient
  BY DEF Gradient

(* The fields of the vector that Train makes, and its type. *)
LEMMA TrainedType ==
    ASSUME TypeOK, NEW a \in Agent, step[a] < MaxStep[a]
    PROVE  [from |-> a, life |-> life[a], step |-> step[a] + 1, version |-> version[a]]
              \in Gradient
  <1>1. /\ life[a] \in 0..MaxLife[a] /\ step[a] + 1 \in 0..MaxStep[a]
        /\ version[a] \in 0..MaxStep[a]
    BY ConfigAssumption DEF TypeOK
  <1>2. QED
    BY <1>1, GradientIntro

(* An empty array has the type of a gradient vector. *)
LEMMA EmptyType ==
    ASSUME TypeOK, NEW a \in Agent
    PROVE  Empty(a) \in Gradient
  <1>1. life[a] \in 0..MaxLife[a] /\ 0 \in 0..MaxStep[a]
    BY ConfigAssumption DEF TypeOK
  <1>2. QED
    BY <1>1, GradientIntro DEF Empty

(* So has the answer to a pull. *)
LEMMA AnswerType ==
    ASSUME TypeOK, NEW a \in Agent
    PROVE  Answer(a) \in Gradient
  BY EmptyType DEF Answer, TypeOK

(* The reply to a message is a message. *)
LEMMA ReplyType ==
    ASSUME TypeOK, NEW m \in network
    PROVE  Reply(m.to, m) \in Message
  <1>1. m.to \in Agent /\ m.grad \in Gradient
    BY DEF TypeOK, Message
  <1>2. m.grad.from \in Agent /\ Answer(m.to) \in Gradient
    BY <1>1, GradientFields, AnswerType
  <1>3. QED
    BY <1>2 DEF Reply, Message

(* ProcessGradient keeps the types of what it writes. *)
LEMMA ProcessGradientType ==
    ASSUME TypeOK, NEW a \in Agent, NEW g \in Gradient, ProcessGradient(a, g)
    PROVE  /\ cache' \in [Agent -> [Agent -> Gradient \cup {None}]]
           /\ newest' \in [Agent -> [Agent -> Gradient \cup {None}]]
           /\ aggregated' \in [Agent -> SUBSET Gradient]
  <1>1. g.from \in Agent
    BY GradientFields
  <1>2. newest' \in [Agent -> [Agent -> Gradient \cup {None}]]
    BY <1>1 DEF ProcessGradient, TypeOK
  <1>3. CASE Stale(a, g)
    BY <1>2, <1>3 DEF ProcessGradient, TypeOK
  <1>4. CASE ~ Stale(a, g)
    <2> DEFINE c == [cache[a] EXCEPT ![g.from] = g]
    <2>1. c \in [Agent -> Gradient \cup {None}]
      BY <1>1 DEF TypeOK
    <2>2. Usable(c) \subseteq Gradient
      BY <2>1 DEF Usable
    <2>3. /\ cache' = [cache EXCEPT ![a] = c]
          /\ aggregated' = IF current[a] # None /\ Usable(c) # {}
                           THEN [aggregated EXCEPT ![a] = {current[a]} \cup Usable(c)]
                           ELSE aggregated
      BY <1>4 DEF ProcessGradient
    <2>4. cache' \in [Agent -> [Agent -> Gradient \cup {None}]]
      BY <2>1, <2>3 DEF TypeOK
    <2>5. aggregated' \in [Agent -> SUBSET Gradient]
      <3>1. CASE current[a] # None /\ Usable(c) # {}
        <4>1. {current[a]} \cup Usable(c) \in SUBSET Gradient
          BY <2>2, <3>1 DEF TypeOK
        <4>2. aggregated' = [aggregated EXCEPT ![a] = {current[a]} \cup Usable(c)]
          BY <2>3, <3>1
        <4> HIDE DEF c
        <4>3. QED
          BY <4>1, <4>2 DEF TypeOK
      <3>2. CASE ~ (current[a] # None /\ Usable(c) # {})
        BY <2>3, <3>2 DEF TypeOK
      <3>3. QED
        BY <3>1, <3>2
    <2>6. QED
      BY <1>2, <2>4, <2>5
  <1>5. QED
    BY <1>3, <1>4

(* Every step keeps the types. *)
LEMMA TypeStep ==
    ASSUME TypeOK, [Next]_vars
    PROVE  TypeOK'
  <1>1. CASE UNCHANGED vars
    BY <1>1 DEF vars, TypeOK
  <1>2. ASSUME NEW a \in Agent, Train(a)
        PROVE  TypeOK'
    <2>1. PICK g \in Gradient :
             /\ step[a] < MaxStep[a]
             /\ step' = [step EXCEPT ![a] = @ + 1]
             /\ current' = [current EXCEPT ![a] = g]
             /\ aggregated' = [aggregated EXCEPT ![a] = {g}]
             /\ \/ /\ applied' = [applied EXCEPT ![a] = {g}]
                   /\ version' = [version EXCEPT ![a] = @ + 1]
                \/ UNCHANGED <<applied, version>>
             /\ UNCHANGED <<life, cache, newest, network>>
      BY <1>2, TrainedType DEF Train
    <2>2. /\ step' \in [Agent -> Nat] /\ version' \in [Agent -> Nat]
          /\ \A b \in Agent : version'[b] <= step'[b] /\ step'[b] <= MaxStep[b]
      <3>1. step' \in [Agent -> Nat] /\ version' \in [Agent -> Nat]
        BY <2>1, SMTT(30) DEF TypeOK
      <3>2. ASSUME NEW b \in Agent
            PROVE  version'[b] <= step'[b] /\ step'[b] <= MaxStep[b]
        <4>1. /\ step[b] \in Nat /\ version[b] \in Nat /\ MaxStep[b] \in Nat
              /\ version[b] <= step[b] /\ step[b] <= MaxStep[b]
          BY ConfigAssumption DEF TypeOK
        <4>2. CASE b = a
          <5>1. step'[b] = step[b] + 1 /\ version'[b] \in {version[b], version[b] + 1}
            BY <2>1, <4>2 DEF TypeOK
          <5>2. QED
            BY <2>1, <4>1, <4>2, <5>1
        <4>3. CASE b # a
          <5>1. step'[b] = step[b] /\ version'[b] = version[b]
            BY <2>1, <4>3 DEF TypeOK
          <5>2. QED
            BY <4>1, <5>1
        <4>4. QED
          BY <4>2, <4>3
      <3>3. QED
        BY <3>1, <3>2
    <2>3. /\ current' \in [Agent -> Gradient \cup {None}]
          /\ aggregated' \in [Agent -> SUBSET Gradient]
          /\ applied' \in [Agent -> SUBSET Gradient]
      BY <2>1, SMTT(30) DEF TypeOK
    <2>4. QED
      BY <2>1, <2>2, <2>3 DEF TypeOK
  <1>3. ASSUME NEW a \in Agent, Restart(a)
        PROVE  TypeOK'
    <2>1. /\ life' \in [Agent -> Nat] /\ step' \in [Agent -> Nat] /\ version' \in [Agent -> Nat]
          /\ \A b \in Agent :
                life'[b] <= MaxLife[b] /\ version'[b] <= step'[b] /\ step'[b] <= MaxStep[b]
      <3>1. /\ life' \in [Agent -> Nat] /\ step' \in [Agent -> Nat]
            /\ version' \in [Agent -> Nat]
        BY <1>3 DEF Restart, TypeOK
      <3>2. ASSUME NEW b \in Agent
            PROVE  life'[b] <= MaxLife[b] /\ version'[b] <= step'[b] /\ step'[b] <= MaxStep[b]
        <4>1. /\ life[b] \in Nat /\ MaxLife[b] \in Nat /\ MaxStep[b] \in Nat
              /\ life[b] <= MaxLife[b] /\ version[b] <= step[b] /\ step[b] <= MaxStep[b]
          BY ConfigAssumption DEF TypeOK
        <4>2. CASE b = a
          <5>1. life'[b] = life[b] + 1 /\ step'[b] = 0 /\ version'[b] = 0 /\ life[b] < MaxLife[b]
            BY <1>3, <4>2 DEF Restart, TypeOK
          <5>2. QED
            BY <4>1, <5>1
        <4>3. CASE b # a
          <5>1. life'[b] = life[b] /\ step'[b] = step[b] /\ version'[b] = version[b]
            BY <1>3, <4>3 DEF Restart, TypeOK
          <5>2. QED
            BY <4>1, <5>1
        <4>4. QED
          BY <4>2, <4>3
      <3>3. QED
        BY <3>1, <3>2
    <2>2. /\ current' \in [Agent -> Gradient \cup {None}]
          /\ aggregated' \in [Agent -> SUBSET Gradient]
          /\ applied' \in [Agent -> SUBSET Gradient]
          /\ network' \in SUBSET Message
      BY <1>3 DEF Restart, TypeOK
    <2>3. [b \in Agent |-> None] \in [Agent -> Gradient \cup {None}]
      OBVIOUS
    <2>4. /\ cache' \in [Agent -> [Agent -> Gradient \cup {None}]]
          /\ newest' \in [Agent -> [Agent -> Gradient \cup {None}]]
      BY <1>3, <2>3 DEF Restart, TypeOK
    <2>5. QED
      BY <2>1, <2>2, <2>4 DEF TypeOK
  <1>4. ASSUME NEW a \in Agent, GossipRound(a)
        PROVE  TypeOK'
    <2>1. PICK S \in Targets(a) : network' = network \cup
              {[type |-> IF PushPull[a] THEN "push_pull" ELSE "push",
                to |-> b, grad |-> current[a]] : b \in S}
      BY <1>4 DEF GossipRound
    <2>2. S \subseteq Agent
      BY ConfigAssumption DEF Targets
    <2>3. current[a] \in Gradient
      BY <1>4 DEF GossipRound, TypeOK
    <2>4. network' \in SUBSET Message
      BY <2>1, <2>2, <2>3 DEF TypeOK, Message
    <2>5. QED
      BY <1>4, <2>4 DEF GossipRound, agentVars, TypeOK
  <1>5. ASSUME NEW a \in Agent, NEW b \in Agent, RequestPull(a, b)
        PROVE  TypeOK'
    <2>1. [type |-> "pull", to |-> b, grad |-> Empty(a)] \in Message
      BY EmptyType DEF Message
    <2>2. QED
      BY <1>5, <2>1 DEF RequestPull, agentVars, TypeOK
  <1>6. ASSUME NEW m \in network, Deliver(m)
        PROVE  TypeOK'
    <2>1. m.to \in Agent /\ m.grad \in Gradient /\ Reply(m.to, m) \in Message
      BY ReplyType DEF TypeOK, Message
    <2>2. CASE HandlePush(m)
      BY <2>1, <2>2, ProcessGradientType DEF HandlePush, TypeOK
    <2>3. CASE HandlePull(m)
      BY <2>1, <2>3 DEF HandlePull, agentVars, TypeOK
    <2>4. CASE HandlePushPull(m)
      BY <2>1, <2>4, ProcessGradientType DEF HandlePushPull, TypeOK
    <2>5. QED
      BY <1>6, <2>2, <2>3, <2>4 DEF Deliver
  <1>7. QED
    BY <1>1, <1>2, <1>3, <1>4, <1>5, <1>6 DEF Next

-----------------------------------------------------------------------------
(* What an agent may send: its gradients, or an empty array. *)
MaySend(a, g) == g = Empty(a) \/ (current[a] # None /\ g = current[a])

(* A step sends only what a sender holds then, its gradients or an empty    *)
(* array, and takes no message back.                                        *)
LEMMA NetworkStep ==
    ASSUME TypeOK, [Next]_vars
    PROVE  /\ network \subseteq network'
           /\ \A m \in network' : m \in network \/ \E a \in Agent : MaySend(a, m.grad)
  <1>1. CASE UNCHANGED network
    BY <1>1
  <1>2. CASE \E a \in Agent : GossipRound(a)
    BY <1>2 DEF GossipRound, MaySend
  <1>3. CASE \E a, b \in Agent : RequestPull(a, b)
    BY <1>3 DEF RequestPull, MaySend
  <1>4. CASE \E n \in network : network' = network \cup {Reply(n.to, n)}
    BY <1>4 DEF Reply, Answer, TypeOK, Message, MaySend
  <1>5. \/ UNCHANGED network
        \/ \E a \in Agent : GossipRound(a)
        \/ \E a, b \in Agent : RequestPull(a, b)
        \/ \E n \in network : network' = network \cup {Reply(n.to, n)}
    BY DEF Next, vars, Train, Restart, Deliver, HandlePush, HandlePull, HandlePushPull
  <1>6. QED
    BY <1>1, <1>2, <1>3, <1>4, <1>5

(* Only Train and Restart change an agent's numbers, and they send nothing. *)
LEMMA CountersStep ==
    ASSUME [Next]_vars
    PROVE  \/ UNCHANGED <<life, step, version, current>>
           \/ UNCHANGED network /\ \E a \in Agent : Train(a) \/ Restart(a)
  BY DEF Next, vars, agentVars, Train, Restart, GossipRound, RequestPull, Deliver,
         HandlePush, HandlePull, HandlePushPull

(* What Train does to the numbers and gradients of its agent. *)
LEMMA TrainNumbers ==
    ASSUME TypeOK, NEW a \in Agent, Train(a)
    PROVE  /\ life'[a] = life[a] /\ step'[a] = step[a] + 1
           /\ version'[a] \in {version[a], version[a] + 1}
           /\ current'[a] = [from |-> a, life |-> life[a], step |-> step[a] + 1,
                             version |-> version[a]]
           /\ current'[a] # None
           /\ \A b \in Agent : b # a =>
                 /\ life'[b] = life[b] /\ step'[b] = step[b]
                 /\ version'[b] = version[b] /\ current'[b] = current[b]
  <1>1. [from |-> a, life |-> life[a], step |-> step[a] + 1, version |-> version[a]]
           \in Gradient
    BY TrainedType DEF Train
  <1>2. QED
    BY <1>1, NoneAssumption DEF Train, TypeOK

(* What Restart does to them. *)
LEMMA RestartNumbers ==
    ASSUME TypeOK, NEW a \in Agent, Restart(a)
    PROVE  /\ life'[a] = life[a] + 1 /\ step'[a] = 0 /\ version'[a] = 0
           /\ current'[a] = None
           /\ \A b \in Agent : b # a =>
                 /\ life'[b] = life[b] /\ step'[b] = step[b]
                 /\ version'[b] = version[b] /\ current'[b] = current[b]
  BY DEF Restart, TypeOK

(* The numbers of an agent are natural numbers. *)
LEMMA NumbersType ==
    ASSUME TypeOK, NEW a \in Agent
    PROVE  /\ life[a] \in Nat /\ step[a] \in Nat /\ version[a] \in Nat
           /\ current[a] # None => current[a] \in Gradient /\ current[a].version \in Nat
  BY GradientFields DEF TypeOK

(* The gradients of an agent stay those of its last training step. *)
LEMMA CurrentStep ==
    ASSUME TypeOK, CurrentIsLast, [Next]_vars
    PROVE  CurrentIsLast'
  <1>1. CASE UNCHANGED <<life, step, version, current>>
    BY <1>1 DEF CurrentIsLast, HoldsLast
  <1>2. ASSUME NEW a \in Agent, Train(a), NEW b \in Agent
        PROVE  HoldsLast(b)'
    <2>1. CASE b = a
      <3>1. /\ life'[a] = life[a] /\ step'[a] = step[a] + 1
            /\ version'[a] \in {version[a], version[a] + 1}
            /\ current'[a] = [from |-> a, life |-> life[a], step |-> step[a] + 1,
                              version |-> version[a]]
        BY <1>2, TrainNumbers
      <3>2. step[a] \in Nat /\ version[a] \in Nat /\ current'[a] # None
        BY <1>2, TrainNumbers, NumbersType
      <3>3. QED
        BY <2>1, <3>1, <3>2 DEF HoldsLast
    <2>2. CASE b # a
      <3>1. /\ life'[b] = life[b] /\ step'[b] = step[b]
            /\ version'[b] = version[b] /\ current'[b] = current[b]
        BY <1>2, <2>2, TrainNumbers
      <3>2. QED
        BY <3>1 DEF CurrentIsLast, HoldsLast
    <2>3. QED
      BY <2>1, <2>2
  <1>3. ASSUME NEW a \in Agent, Restart(a), NEW b \in Agent
        PROVE  HoldsLast(b)'
    BY <1>3, RestartNumbers DEF CurrentIsLast, HoldsLast
  <1>4. QED
    BY <1>1, <1>2, <1>3, CountersStep DEF CurrentIsLast

(* What an agent may send is not ahead of it. *)
LEMMA SendableNotAhead ==
    ASSUME TypeOK, CurrentIsLast, NEW a \in Agent, NEW g, MaySend(a, g)
    PROVE  g.from = a /\ g.life = life[a] /\ NotAhead(g, a)
  <1>1. HoldsLast(a) /\ life[a] \in Nat /\ step[a] \in Nat
    BY NumbersType DEF CurrentIsLast
  <1>2. CASE g = Empty(a)
    <2>1. /\ g.from = a /\ g.life = life[a] /\ g.step = 0 /\ g.version = 0
      BY <1>2 DEF Empty
    <2>2. current[a] # None => current[a].version \in Nat
      BY NumbersType
    <2>3. QED
      BY <1>1, <2>1, <2>2 DEF NotAhead, HoldsLast
  <1>3. CASE current[a] # None /\ g = current[a]
    <2>1. g.version \in Nat
      BY <1>3, NumbersType
    <2>2. QED
      BY <1>1, <1>3, <2>1 DEF NotAhead, HoldsLast
  <1>4. QED
    BY <1>2, <1>3 DEF MaySend

(* What was sent is never ahead of its sender. *)
LEMMA SentStep ==
    ASSUME TypeOK, CurrentIsLast, SentBySender, [Next]_vars
    PROVE  SentBySender'
  <1>1. CASE UNCHANGED <<life, step, version, current>>
    <2>1. ASSUME NEW m \in network'
          PROVE  NotAhead(m.grad, m.grad.from)
      <3>1. CASE m \in network
        BY <3>1 DEF SentBySender
      <3>2. CASE \E a \in Agent : MaySend(a, m.grad)
        BY <3>2, SendableNotAhead
      <3>3. QED
        BY <2>1, <3>1, <3>2, NetworkStep
    <2>2. QED
      BY <1>1, <2>1 DEF SentBySender, NotAhead
  <1>2. ASSUME NEW a \in Agent, UNCHANGED network, Train(a), NEW m \in network
        PROVE  NotAhead(m.grad, m.grad.from)'
    <2> DEFINE g == m.grad
    <2>1. /\ g.from \in Agent /\ g.life \in Nat /\ g.step \in Nat /\ g.version \in Nat
          /\ NotAhead(g, g.from)
      BY GradientFields DEF TypeOK, Message, SentBySender
    <2>2. CASE g.from = a
      <3>1. /\ life'[a] = life[a] /\ step'[a] = step[a] + 1 /\ current'[a] # None
            /\ current'[a] = [from |-> a, life |-> life[a], step |-> step[a] + 1,
                              version |-> version[a]]
        BY <1>2, TrainNumbers
      <3>2. /\ step[a] \in Nat /\ version[a] \in Nat
            /\ current[a] # None => current[a].version \in Nat
        BY NumbersType
      <3>3. HoldsLast(a)
        BY DEF CurrentIsLast
      <3>4. QED
        BY <2>1, <2>2, <3>1, <3>2, <3>3 DEF NotAhead, HoldsLast
    <2>3. CASE g.from # a
      <3>1. /\ life'[g.from] = life[g.from] /\ step'[g.from] = step[g.from]
            /\ current'[g.from] = current[g.from]
        BY <1>2, <2>1, <2>3, TrainNumbers
      <3>2. QED
        BY <2>1, <3>1 DEF NotAhead
    <2>4. QED
      BY <2>2, <2>3
  <1>3. ASSUME NEW a \in Agent, UNCHANGED network, Restart(a), NEW m \in network
        PROVE  NotAhead(m.grad, m.grad.from)'
    <2> DEFINE g == m.grad
    <2>1. g.from \in Agent /\ g.life \in Nat /\ NotAhead(g, g.from)
      BY GradientFields DEF TypeOK, Message, SentBySender
    <2>2. CASE g.from = a
      <3>1. life'[a] = life[a] + 1 /\ life[a] \in Nat
        BY <1>3, RestartNumbers, NumbersType
      <3>2. QED
        BY <2>1, <2>2, <3>1 DEF NotAhead
    <2>3. CASE g.from # a
      <3>1. /\ life'[g.from] = life[g.from] /\ step'[g.from] = step[g.from]
            /\ current'[g.from] = current[g.from]
        BY <1>3, <2>1, <2>3, RestartNumbers
      <3>2. QED
        BY <2>1, <3>1 DEF NotAhead
    <2>4. QED
      BY <2>2, <2>3
  <1>4. QED
    BY <1>1, <1>2, <1>3, CountersStep DEF SentBySender

(* The version order of two messages, as VersionsFollowSteps has it. *)
Follows(m, n) ==
    m.grad.from = n.grad.from /\ m.grad.life = n.grad.life /\ m.grad.step <= n.grad.step
        => m.grad.version <= n.grad.version

(* New messages keep the order of the numbers: compared with what a sender *)
(* may send now, nothing it sent in this life is ahead.                    *)
LEMMA OrderStep ==
    ASSUME TypeOK, TypeOK', CurrentIsLast, SentBySender, SentBySender',
           VersionsFollowSteps, [Next]_vars
    PROVE  VersionsFollowSteps'
  <1>1. CASE UNCHANGED network
    BY <1>1 DEF VersionsFollowSteps
  <1>2. CASE UNCHANGED <<life, step, version, current>>
    <2>1. ASSUME NEW m \in network', NEW n \in network', NEW a \in Agent,
                 MaySend(a, m.grad)
          PROVE  Follows(m, n) /\ Follows(n, m)
      <3> SUFFICES ASSUME m.grad.from = n.grad.from, m.grad.life = n.grad.life
                   PROVE  Follows(m, n) /\ Follows(n, m)
        BY DEF Follows
      <3>1. m.grad.from = a /\ m.grad.life = life[a] /\ NotAhead(m.grad, a)
        BY <2>1, SendableNotAhead
      <3>2. n.grad.life = life[a] /\ NotAhead(n.grad, a)
        BY <1>2, <3>1 DEF SentBySender, NotAhead
      <3>3. /\ m.grad.step \in Nat /\ m.grad.version \in Nat
            /\ n.grad.step \in Nat /\ n.grad.version \in Nat
        BY GradientFields DEF TypeOK, Message
      <3>4. /\ step[a] \in Nat /\ HoldsLast(a)
            /\ current[a] # None => current[a].version \in Nat
        BY NumbersType DEF CurrentIsLast
      <3>5. CASE m.grad = Empty(a)
        <4>1. m.grad.step = 0 /\ m.grad.version = 0
          BY <3>5 DEF Empty
        <4>2. QED
          BY <3>2, <3>3, <4>1 DEF Follows, NotAhead
      <3>6. CASE current[a] # None /\ m.grad = current[a]
        BY <3>2, <3>3, <3>4, <3>6 DEF Follows, NotAhead, HoldsLast
      <3>7. QED
        BY <2>1, <3>5, <3>6 DEF MaySend
    <2>2. ASSUME NEW m \in network', NEW n \in network'
          PROVE  Follows(m, n)
      <3>1. CASE m \in network /\ n \in network
        BY <3>1 DEF VersionsFollowSteps, Follows
      <3>2. CASE m \notin network
        BY <2>1, <3>2, NetworkStep
      <3>3. CASE n \notin network
        BY <2>1, <3>3, NetworkStep
      <3>4. QED
        BY <3>1, <3>2, <3>3
    <2>3. QED
      BY <2>2 DEF VersionsFollowSteps, Follows
  <1>3. QED
    BY <1>1, <1>2, CountersStep

-----------------------------------------------------------------------------
(* The entries for one peer, as KeptWasSent and CacheIsNewest have them. *)
EntrySent(a, b) ==
    /\ cache[a][b] # None =>
          cache[a][b].from = b /\ \E m \in network : m.to = a /\ m.grad = cache[a][b]
    /\ newest[a][b] # None =>
          newest[a][b].from = b /\ \E m \in network : m.to = a /\ m.grad = newest[a][b]

EntryNewest(a, b) ==
    /\ cache[a][b] = None <=> newest[a][b] = None
    /\ OneLife(a, b) => cache[a][b] = newest[a][b]

(* ProcessGradient touches the entries of one peer only. *)
LEMMA ProcessOthers ==
    ASSUME TypeOK, NEW a \in Agent, NEW g \in Gradient, ProcessGradient(a, g),
           NEW x \in Agent, NEW y \in Agent, x # a \/ y # g.from
    PROVE  cache'[x][y] = cache[x][y] /\ newest'[x][y] = newest[x][y]
  <1>1. g.from \in Agent
    BY GradientFields
  <1>2. QED
    BY <1>1 DEF ProcessGradient, TypeOK

(* What it does to that peer's entry in the cache and to the latest seen. *)
LEMMA ProcessEntry ==
    ASSUME TypeOK, NEW a \in Agent, NEW g \in Gradient, ProcessGradient(a, g)
    PROVE  /\ cache'[a][g.from] = IF Stale(a, g) THEN cache[a][g.from] ELSE g
           /\ newest'[a][g.from] = IF newest[a][g.from] = None \/ Later(g, newest[a][g.from])
                                   THEN g ELSE newest[a][g.from]
  <1>1. g.from \in Agent
    BY GradientFields
  <1>2. QED
    BY <1>1 DEF ProcessGradient, TypeOK

(* While messages from one life of the sender are about, ProcessGradient   *)
(* keeps a gradient exactly when it is the latest: the staleness test      *)
(* agrees with the order of the steps because versions follow steps.       *)
LEMMA ProcessKeepsEntry ==
    ASSUME TypeOK, VersionsFollowSteps, NEW m \in network,
           EntrySent(m.to, m.grad.from), EntryNewest(m.to, m.grad.from),
           ProcessGradient(m.to, m.grad), network \subseteq network'
    PROVE  EntrySent(m.to, m.grad.from)' /\ EntryNewest(m.to, m.grad.from)'
  <1> DEFINE a == m.to
             g == m.grad
             b == m.grad.from
             c == cache[a][b]
             n == newest[a][b]
  <1>1. /\ a \in Agent /\ g \in Gradient /\ b \in Agent /\ g # None
        /\ g.life \in Nat /\ g.step \in Nat /\ g.version \in Nat
    BY GradientFields, NoneAssumption DEF TypeOK, Message
  <1>2. /\ cache'[a][b] = IF Stale(a, g) THEN c ELSE g
        /\ newest'[a][b] = IF n = None \/ Later(g, n) THEN g ELSE n
    BY <1>1, ProcessEntry, SMTT(30)
  <1>3. Stale(a, g) => c # None
    BY DEF Stale
  <1>4. EntrySent(a, b)'
    BY <1>2 DEF EntrySent
  <1>5. cache'[a][b] # None /\ newest'[a][b] # None
    BY <1>1, <1>2, <1>3
  <1>6. ASSUME OneLife(a, b)'
        PROVE  cache'[a][b] = newest'[a][b]
    <2>1. OneLife(a, b)
      BY <1>6 DEF OneLife
    <2>2. c = n
      BY <2>1 DEF EntryNewest
    <2>3. CASE n = None
      BY <1>2, <1>3, <2>2, <2>3
    <2>4. CASE n # None
      <3>1. PICK k \in network : k.to = a /\ k.grad = n
        BY <2>4 DEF EntrySent
      <3>2. n.from = b /\ n.life = g.life
        BY <2>1, <2>4, <3>1 DEF EntrySent, OneLife
      <3>3. n.step \in Nat /\ n.version \in Nat
        BY <3>1, GradientFields DEF TypeOK, Message
      <3>4. g.step <= n.step => g.version <= n.version
        BY <3>1, <3>2 DEF VersionsFollowSteps
      <3>5. Later(g, n) <=> g.step > n.step
        BY <1>1, <3>2 DEF Later
      <3>6. Stale(a, g) <=> n.step >= g.step /\ n.version >= g.version
        BY <2>2, <2>4 DEF Stale
      <3> HIDE DEF g, n, c, a, b
      <3>7. CASE g.step > n.step
        BY <1>1, <1>2, <3>3, <3>5, <3>6, <3>7
      <3>8. CASE ~ (g.step > n.step)
        BY <1>1, <1>2, <2>2, <2>4, <3>3, <3>4, <3>5, <3>6, <3>8
      <3>9. QED
        BY <3>7, <3>8
    <2>5. QED
      BY <2>3, <2>4
  <1>7. QED
    BY <1>4, <1>5, <1>6 DEF EntryNewest

(* Entries that a step leaves alone keep their properties: messages are    *)
(* only added.                                                             *)
LEMMA EntryUntouched ==
    ASSUME NEW x \in Agent, NEW y \in Agent, network \subseteq network',
           cache'[x][y] = cache[x][y], newest'[x][y] = newest[x][y],
           EntrySent(x, y), EntryNewest(x, y)
    PROVE  EntrySent(x, y)' /\ EntryNewest(x, y)'
  <1>1. OneLife(x, y)' => OneLife(x, y)
    BY DEF OneLife
  <1>2. EntryNewest(x, y)'
    BY <1>1 DEF EntryNewest
  <1>3. EntrySent(x, y)'
    BY DEF EntrySent
  <1>4. QED
    BY <1>2, <1>3

(* Every step keeps the cache at the latest gradients. *)
LEMMA CacheStep ==
    ASSUME TypeOK, VersionsFollowSteps, KeptWasSent, CacheIsNewest, [Next]_vars
    PROVE  KeptWasSent' /\ CacheIsNewest'
  <1>1. network \subseteq network'
    BY NetworkStep
  <1> SUFFICES ASSUME NEW x \in Agent, NEW y \in Agent
               PROVE  EntrySent(x, y)' /\ EntryNewest(x, y)'
    BY DEF KeptWasSent, CacheIsNewest, EntrySent, EntryNewest
  <1>2. EntrySent(x, y) /\ EntryNewest(x, y)
    BY DEF KeptWasSent, CacheIsNewest, EntrySent, EntryNewest
  <1>3. CASE UNCHANGED <<cache, newest>>
    BY <1>1, <1>2, <1>3, EntryUntouched
  <1>4. CASE \E a \in Agent : Restart(a)
    <2>1. PICK a \in Agent : Restart(a)
      BY <1>4
    <2>2. CASE x = a
      <3>1. cache'[x][y] = None /\ newest'[x][y] = None
        BY <2>1, <2>2 DEF Restart, TypeOK
      <3>2. QED
        BY <3>1 DEF EntrySent, EntryNewest
    <2>3. CASE x # a
      <3>1. cache'[x][y] = cache[x][y] /\ newest'[x][y] = newest[x][y]
        BY <2>1, <2>3 DEF Restart, TypeOK
      <3>2. QED
        BY <1>1, <1>2, <3>1, EntryUntouched
    <2>4. QED
      BY <2>2, <2>3
  <1>5. CASE \E m \in network : ProcessGradient(m.to, m.grad)
    <2>1. PICK m \in network : ProcessGradient(m.to, m.grad)
      BY <1>5
    <2>2. m.to \in Agent /\ m.grad \in Gradient
      BY DEF TypeOK, Message
    <2>3. CASE x = m.to /\ y = m.grad.from
      BY <1>1, <1>2, <2>1, <2>3, ProcessKeepsEntry
    <2>4. CASE ~ (x = m.to /\ y = m.grad.from)
      <3>1. cache'[x][y] = cache[x][y] /\ newest'[x][y] = newest[x][y]
        BY <2>1, <2>2, <2>4, ProcessOthers
      <3>2. QED
        BY <1>1, <1>2, <3>1, EntryUntouched
    <2>5. QED
      BY <2>3, <2>4
  <1>6. \/ UNCHANGED <<cache, newest>>
        \/ \E a \in Agent : Restart(a)
        \/ \E m \in network : ProcessGradient(m.to, m.grad)
    BY DEF Next, vars, agentVars, Train, GossipRound, RequestPull, Deliver,
           HandlePush, HandlePull, HandlePushPull
  <1>7. QED
    BY <1>3, <1>4, <1>5, <1>6

-----------------------------------------------------------------------------
(* The aggregate of one agent, as AggregateConsistent has it. *)
Consistent(a) ==
    IF current[a] = None THEN aggregated[a] = {}
    ELSE aggregated[a] \in {{current[a]}, {current[a]} \cup Usable(cache[a])}

(* ProcessGradient leaves the aggregate consistent.  Where it does not     *)
(* aggregate again the cache has no real gradients and had none before: an *)
(* empty array replaces nothing, its numbers being 0.                      *)
LEMMA ProcessConsistent ==
    ASSUME TypeOK, NEW a \in Agent, NEW g \in Gradient, g.step = 0 => g.version = 0,
           Consistent(a), ProcessGradient(a, g), UNCHANGED current
    PROVE  Consistent(a)'
  <1>1. g.from \in Agent /\ g.step \in Nat /\ g.version \in Nat /\ g # None
    BY GradientFields, NoneAssumption
  <1>2. CASE Stale(a, g)
    BY <1>2 DEF ProcessGradient, Consistent
  <1>3. CASE ~ Stale(a, g)
    <2> DEFINE c == [cache[a] EXCEPT ![g.from] = g]
    <2>1. /\ cache' = [cache EXCEPT ![a] = c]
          /\ aggregated' = IF current[a] # None /\ Usable(c) # {}
                           THEN [aggregated EXCEPT ![a] = {current[a]} \cup Usable(c)]
                           ELSE aggregated
      BY <1>3 DEF ProcessGradient
    <2>2. cache'[a] = c
      BY <2>1 DEF TypeOK
    <2>3. CASE current[a] = None
      BY <2>1, <2>3 DEF Consistent
    <2>4. CASE current[a] # None /\ Usable(c) # {}
      <3>1. aggregated'[a] = {current[a]} \cup Usable(c)
        BY <2>1, <2>4 DEF TypeOK
      <3> HIDE DEF c
      <3>2. QED
        BY <2>2, <2>4, <3>1 DEF Consistent
    <2>5. CASE current[a] # None /\ Usable(c) = {}
      <3>1. /\ c \in [Agent -> Gradient \cup {None}] /\ c[g.from] = g
            /\ \A b \in Agent : b # g.from => c[b] = cache[a][b]
        BY <1>1 DEF TypeOK
      <3>2. g.step = 0
        <4>1. g.step > 0 => g \in Usable(c)
          BY <1>1, <3>1 DEF Usable
        <4>2. QED
          BY <1>1, <2>5, <4>1
      <3>3. cache[a][g.from] = None
        <4>1. CASE cache[a][g.from] # None
          <5>1. cache[a][g.from].step \in Nat /\ cache[a][g.from].version \in Nat
            BY <1>1, <4>1, GradientFields DEF TypeOK
          <5>2. QED
            BY <1>3, <3>2, <4>1, <5>1 DEF Stale
        <4>2. QED
          BY <4>1
      <3>4. Usable(cache[a]) = {}
        <4>1. ASSUME NEW b \in Agent, cache[a][b] # None, cache[a][b].step > 0
              PROVE  FALSE
          <5>1. c[b] = cache[a][b]
            BY <3>1, <3>3, <4>1
          <5>2. c[b] \in Usable(c)
            BY <4>1, <5>1 DEF Usable
          <5>3. QED
            BY <2>5, <5>2
        <4>2. QED
          BY <4>1 DEF Usable
      <3>5. aggregated'[a] = {current[a]}
        BY <2>1, <2>5, <3>4 DEF Consistent
      <3>6. QED
        BY <2>5, <3>5 DEF Consistent
    <2>6. QED
      BY <2>3, <2>4, <2>5
  <1>4. QED
    BY <1>2, <1>3

(* Every step keeps the aggregates consistent. *)
LEMMA AggregateStep ==
    ASSUME TypeOK, SentBySender, AggregateConsistent, [Next]_vars
    PROVE  AggregateConsistent'
  <1> SUFFICES ASSUME NEW x \in Agent
               PROVE  Consistent(x)'
    BY DEF AggregateConsistent, Consistent
  <1>1. Consistent(x)
    BY DEF AggregateConsistent, Consistent
  <1>2. CASE UNCHANGED <<current, cache, aggregated>>
    BY <1>1, <1>2 DEF Consistent, Usable
  <1>3. CASE \E a \in Agent : Train(a)
    <2>1. PICK a \in Agent : Train(a)
      BY <1>3
    <2>2. CASE x = a
      <3>1. aggregated'[x] = {current'[x]} /\ current'[x] # None
        BY <2>1, <2>2, TrainNumbers DEF Train, TypeOK
      <3>2. QED
        BY <3>1 DEF Consistent
    <2>3. CASE x # a
      <3>1. /\ aggregated'[x] = aggregated[x] /\ current'[x] = current[x]
            /\ cache' = cache
        BY <2>1, <2>3 DEF Train, TypeOK
      <3>2. QED
        BY <1>1, <3>1 DEF Consistent, Usable
    <2>4. QED
      BY <2>2, <2>3
  <1>4. CASE \E a \in Agent : Restart(a)
    <2>1. PICK a \in Agent : Restart(a)
      BY <1>4
    <2>2. CASE x = a
      <3>1. aggregated'[x] = {} /\ current'[x] = None
        BY <2>1, <2>2 DEF Restart, TypeOK
      <3>2. QED
        BY <3>1 DEF Consistent
    <2>3. CASE x # a
      <3>1. /\ aggregated'[x] = aggregated[x] /\ current'[x] = current[x]
            /\ cache'[x] = cache[x]
        BY <2>1, <2>3 DEF Restart, TypeOK
      <3>2. QED
        BY <1>1, <3>1 DEF Consistent, Usable
    <2>4. QED
      BY <2>2, <2>3
  <1>5. CASE \E m \in network : ProcessGradient(m.to, m.grad) /\ UNCHANGED current
    <2>1. PICK m \in network : ProcessGradient(m.to, m.grad) /\ UNCHANGED current
      BY <1>5
    <2>2. /\ m.to \in Agent /\ m.grad \in Gradient
          /\ m.grad.step = 0 => m.grad.version = 0
      BY DEF TypeOK, Message, SentBySender, NotAhead
    <2>3. CASE x = m.to
      BY <1>1, <2>1, <2>2, <2>3, ProcessConsistent
    <2>4. CASE x # m.to
      <3>1. aggregated'[x] = aggregated[x] /\ cache'[x] = cache[x]
        BY <2>1, <2>2, <2>4 DEF ProcessGradient, TypeOK
      <3>2. QED
        BY <1>1, <2>1, <3>1 DEF Consistent, Usable
    <2>5. QED
      BY <2>3, <2>4
  <1>6. \/ UNCHANGED <<current, cache, aggregated>>
        \/ \E a \in Agent : Train(a) \/ Restart(a)
        \/ \E m \in network : ProcessGradient(m.to, m.grad) /\ UNCHANGED current
    BY DEF Next, vars, agentVars, GossipRound, RequestPull, Deliver,
           HandlePush, HandlePull, HandlePushPull
  <1>7. QED
    BY <1>2, <1>3, <1>4, <1>5, <1>6

-----------------------------------------------------------------------------
(* The initial state satisfies the inductive invariant. *)
LEMMA InvInit == Init => IInv
  <1> SUFFICES ASSUME Init PROVE IInv
    OBVIOUS
  <1>1. TypeOK
    BY ConfigAssumption DEF Init, TypeOK
  <1>2. CurrentIsLast
    BY DEF Init, CurrentIsLast, HoldsLast
  <1>3. SentBySender /\ VersionsFollowSteps
    BY DEF Init, SentBySender, VersionsFollowSteps
  <1>4. KeptWasSent /\ CacheIsNewest
    BY DEF Init, KeptWasSent, CacheIsNewest
  <1>5. AggregateConsistent
    BY DEF Init, AggregateConsistent
  <1>6. QED
    BY <1>1, <1>2, <1>3, <1>4, <1>5 DEF IInv

(* Every step keeps it. *)
LEMMA InvStep == IInv /\ [Next]_vars => IInv'
  <1> SUFFICES ASSUME IInv, [Next]_vars PROVE IInv'
    OBVIOUS
  <1> USE DEF IInv
  <1>1. TypeOK'
    BY TypeStep
  <1>2. CurrentIsLast'
    BY CurrentStep
  <1>3. SentBySender'
    BY SentStep
  <1>4. VersionsFollowSteps'
    BY <1>1, <1>3, OrderStep
  <1>5. KeptWasSent' /\ CacheIsNewest'
    BY CacheStep
  <1>6. AggregateConsistent'
    BY AggregateStep
  <1>7. QED
    BY <1>1, <1>2, <1>3, <1>4, <1>5, <1>6

(* Every behaviour of the gossip protocol satisfies the inductive invariant. *)
THEOREM Invariance == Spec => []IInv
  BY InvInit, InvStep, PTL DEF Spec

(* The values of trainer, cache, aggregate and network are as declared, and *)
(* a model version never exceeds the training step.                         *)
THEOREM GossipTypes == Spec => []TypeOK
  <1>1. IInv => TypeOK
    BY DEF IInv
  <1>2. QED
    BY <1>1, Invariance, PTL

(* _process_gradient keeps the latest of a peer's gradients, however late,  *)
(* reordered and repeated its messages arrive, for any number of agents.    *)
THEOREM CacheFollowsSenders == Spec => []CacheIsNewest
  <1>1. IInv => CacheIsNewest
    BY DEF IInv
  <1>2. QED
    BY <1>1, Invariance, PTL

(* _aggregate_gradients and set_gradients never leave a mixture of old and  *)
(* new gradients in the aggregate.                                          *)
THEOREM AggregateNeverMixed == Spec => []AggregateConsistent
  <1>1. IInv => AggregateConsistent
    BY DEF IInv
  <1>2. QED
    BY <1>1, Invariance, PTL

(* A sender's step and version numbers never disagree on which of two       *)
(* messages of one life is later, which _process_gradient relies on.        *)
THEOREM NumbersAgree == Spec => []VersionsFollowSteps
  <1>1. IInv => VersionsFollowSteps
    BY DEF IInv
  <1>2. QED
    BY <1>1, Invariance, PTL
=============================================================================
