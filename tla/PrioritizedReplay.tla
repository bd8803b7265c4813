-------------------------- MODULE PrioritizedReplay --------------------------
(***************************************************************************)
(* PrioritizedExperienceBuffer (python/gossip_rl/training/replay.py): a    *)
(* deque that drops its oldest entry when it is full, and an array of      *)
(* priorities by position.  Experiences are numbered in the order they are *)
(* added.  The random draw is a choice; importance weights, which do not   *)
(* influence the buffer, are left out.  A sample with repeated indices     *)
(* cannot occur: np.random.choice draws without replacement.               *)
(***************************************************************************)
EXTENDS Integers, Sequences, FiniteSetsExt

CONSTANTS
    Capacity,
    Priorities,   \* priorities a learner may set: update_priorities() takes any
    MaxAdds       \* bound on experiences

ASSUME PrioritizedAssumption ==
    /\ Capacity \in Nat \ {0} /\ MaxAdds \in Nat
    /\ Priorities \subseteq Int

VARIABLES
    buffer, priorities, maxPriority,
    sampled,    \* position -> experience of the sample whose update is due
    adds,       \* experiences added
    dropped,    \* experiences the deque has dropped since it was last empty
    meant,      \* history: meant[e] is the priority last given to experience e
    givenTo     \* history: the experience the priority at a position was given to

prioritizedVars == <<buffer, priorities, maxPriority, sampled, adds, dropped, meant, givenTo>>

PrioritizedInit ==
    /\ buffer = <<>>
    /\ priorities = [i \in 0..Capacity - 1 |-> 0]
    /\ maxPriority = 1
    /\ sampled = <<>> /\ adds = 0 /\ dropped = 0
    /\ meant = [e \in 1..MaxAdds |-> 0]
    /\ givenTo = [i \in 0..Capacity - 1 |-> 0]

(* deque(maxlen=n).append(e) *)
Appended(s, e, n) == Append(IF Len(s) = n THEN Tail(s) ELSE s, e)

(* Mutant: the position is computed as for the entry after the new one. *)
NewPositionNext(n) == n % Capacity

(* Where add() writes the new priority, for a buffer of n entries. *)
NewPosition(n) == (n - 1) % Capacity

AddPrioritized ==
    /\ adds < MaxAdds
    /\ adds' = adds + 1
    /\ buffer' = Appended(buffer, adds', Capacity)
    /\ priorities' = [priorities EXCEPT ![NewPosition(Len(buffer'))] = maxPriority]
    /\ givenTo' = [givenTo EXCEPT ![NewPosition(Len(buffer'))] = adds']
    /\ meant' = [meant EXCEPT ![adds'] = maxPriority]
    /\ dropped' = dropped + (IF Len(buffer) = Capacity THEN 1 ELSE 0)
    /\ UNCHANGED <<maxPriority, sampled>>

(* sample(): positions without repetition, of positive probability.  A      *)
(* negative priority among those of the buffer makes the probabilities NaN, *)
(* and np.random.choice() raises, as it does when the batch is larger than  *)
(* the positions of positive probability; nothing changes then.             *)
SamplePrioritized(P) ==
    /\ \A i \in 0..Len(buffer) - 1 : priorities[i] >= 0
    /\ P # {} /\ P \subseteq {i \in 0..Len(buffer) - 1 : priorities[i] > 0}
    /\ sampled' = [i \in P |-> buffer[i + 1]]
    /\ UNCHANGED <<buffer, priorities, maxPriority, adds, dropped, meant, givenTo>>

(* The learner reports a priority for each position it was given; it means  *)
(* the experience it was given with that position.                          *)
UpdatePriorities(p) ==
    /\ DOMAIN sampled # {}
    /\ priorities' = [i \in DOMAIN priorities |->
                         IF i \in DOMAIN sampled THEN p[i] ELSE priorities[i]]
    /\ maxPriority' = Max({maxPriority} \cup {p[i] : i \in DOMAIN sampled})
    /\ givenTo' = [i \in DOMAIN givenTo |->
                      IF i \in DOMAIN sampled THEN sampled[i] ELSE givenTo[i]]
    /\ meant' = [e \in DOMAIN meant |->
                    IF \E i \in DOMAIN sampled : sampled[i] = e
                    THEN p[CHOOSE i \in DOMAIN sampled : sampled[i] = e] ELSE meant[e]]
    /\ sampled' = <<>>
    /\ UNCHANGED <<buffer, adds, dropped>>

(* clear(), inherited: priorities and their maximum stay.  The learner does *)
(* not clear between a sample and its update.                               *)
ClearPrioritized ==
    /\ DOMAIN sampled = {} /\ buffer # <<>>
    /\ buffer' = <<>> /\ dropped' = 0
    /\ UNCHANGED <<priorities, maxPriority, sampled, adds, meant, givenTo>>

PrioritizedNext ==
    \/ AddPrioritized \/ ClearPrioritized
    \/ \E P \in SUBSET (0..Capacity - 1) : SamplePrioritized(P)
    \/ \E p \in [DOMAIN sampled -> Priorities] : UpdatePriorities(p)

PrioritizedSpec == PrioritizedInit /\ [][PrioritizedNext]_prioritizedVars

(* What add() ("Add experience with max priority") and update_priorities()  *)
(* ("Update priorities for sampled experiences") say they do: the priority  *)
(* by which an experience is sampled is the one last given to it.  The code *)
(* does not do it: an add() to a full deque moves every experience by one   *)
(* position and leaves the priorities where they are.                       *)
PriorityBelongs ==
    \A i \in DOMAIN buffer : priorities[i - 1] = meant[buffer[i]]

(* How far off the priorities can be, in any state: an experience is        *)
(* sampled by a priority that was given to itself or to an experience added *)
(* before it, never to a later one, and by at most as many before it as the *)
(* deque has dropped; so exactly by its own until the deque is full, also   *)
(* when experiences are added between a sample and its update.  The maximum *)
(* with which experiences are added bounds every priority in use.           *)
PriorityLag ==
    \A i \in DOMAIN buffer :
        /\ givenTo[i - 1] \in (buffer[i] - dropped)..buffer[i]
        /\ priorities[i - 1] <= maxPriority
=============================================================================
