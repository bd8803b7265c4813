---------------------------- MODULE GradientWire ----------------------------
(***************************************************************************)
(* Gradients on their way to a peer: compression                           *)
(* (python/gossip_rl/gossip/compression.py) and the byte format of a       *)
(* gossip message (GossipMessage.pack and unpack), then back again.        *)
(*                                                                         *)
(* Vectors hold small integers, so that sums are exact.  A byte is the     *)
(* value it encodes a part of and which part: a number read at the wrong   *)
(* place or with the wrong width is Garbage.                               *)
(***************************************************************************)
EXTENDS Integers, Sequences, FiniteSets, Functions

CONSTANTS
    None,
    Size,         \* length of a gradient vector
    Values,       \* components of the gradients that are compressed
    Samples,      \* components of the gradients that are quantized
    Ratio,        \* compression ratio 1/Ratio
    Bits,         \* bit widths of the quantizer
    NameLength,   \* agent names, as numbers, and the bytes each one takes
    Control,      \* messages other than sparse gradients, see Message
    MaxRounds     \* bound on compressed gradients

ASSUME WireAssumption ==
    /\ Size \in Nat \ {0} /\ Ratio \in Nat \ {0}
    /\ Values \subseteq Int /\ Values # {} /\ IsFiniteSet(Values)
    /\ Samples \subseteq Int /\ Bits \subseteq 1..8 /\ MaxRounds \in Nat

Name == DOMAIN NameLength
Self == 1

ASSUME NameAssumption ==
    /\ Name \subseteq Nat /\ Self \in Name
    /\ NameLength \in [Name -> Nat \ {0}]

Index == 1..Size
Zero == [i \in Index |-> 0]
Plus(u, v) == [i \in Index |-> u[i] + v[i]]
Minus(u, v) == [i \in Index |-> u[i] - v[i]]
Magnitude(x) == IF x < 0 THEN -x ELSE x

VARIABLES
    stage,      \* idle, message, bytes, received or quantized
    residual,   \* TopKCompressor.error_feedback, Zero when None
    balance,    \* computed minus delivered, minus what was dropped on purpose
    scale,      \* factor that decompress removes, 0: no sparse gradient
    sent,       \* the message given to pack
    data,       \* its bytes
    got,        \* what unpack made of it
    codes,      \* the quantizer's input and output
    rounds

wireVars == <<stage, residual, balance, scale, sent, data, got, codes, rounds>>

WireInit ==
    /\ stage = "idle" /\ rounds = 0
    /\ residual = Zero /\ balance = Zero
    /\ scale = 0 /\ sent = None /\ data = <<>> /\ got = None /\ codes = None

-----------------------------------------------------------------------------
(* Compression *)

(* max(1, int(len(gradients) * ratio)) *)
K == IF Size \div Ratio > 1 THEN Size \div Ratio ELSE 1

(* Mutant: the slice takes the other end of the partition. *)
TopKSmallest(g) ==
    {S \in SUBSET Index : Cardinality(S) = K
        /\ \A i \in S, j \in Index \ S : Magnitude(g[i]) <= Magnitude(g[j])}

(* argpartition: equal magnitudes may come out in any order. *)
TopK(g) ==
    {S \in SUBSET Index : Cardinality(S) = K
        /\ \A i \in S, j \in Index \ S : Magnitude(g[i]) >= Magnitude(g[j])}

Sparse(g, S) == [i \in Index |-> IF i \in S THEN g[i] ELSE 0]

(* np.random.choice gives the indices in any order. *)
Orders(S) == Bijection(1..Cardinality(S), S)

(* argsort by falling magnitude, equal magnitudes in any order. *)
Sorted(g, S) ==
    {s \in Orders(S) : \A m, n \in DOMAIN s : m < n => Magnitude(g[s[m]]) >= Magnitude(g[s[n]])}

(* create_push_gradient; indices count from 0 *)
PushGradient(g, order, f) ==
    [type |-> 10, sender |-> Self, sequence |-> rounds, target |-> None,
     grad |-> [n \in DOMAIN order |-> f * g[order[n]]],
     indices |-> [n \in DOMAIN order |-> order[n] - 1],
     version |-> rounds, step |-> rounds + 1, incarnation |-> 0, payload |-> None]

Send(g, order, f) ==
    /\ stage = "idle" /\ rounds < MaxRounds
    /\ rounds' = rounds + 1
    /\ stage' = "message"
    /\ scale' = f
    /\ sent' = PushGradient(g, order, f)
    /\ UNCHANGED <<data, got, codes>>

(* Mutant: what is sent stays in the residual too. *)
RemainderAll(g, S) == g

(* error_feedback[indices] = 0 *)
Remainder(g, S) == Minus(g, Sparse(g, S))

(* TopKCompressor.compress with error feedback *)
CompressTopK(computed) ==
    LET g == Plus(computed, residual) IN
    \E S \in TopK(g) :
        /\ \E order \in Sorted(g, S) : Send(g, order, 1)
        /\ residual' = Remainder(g, S)
        /\ balance' = Plus(balance, computed)

(* Without it, as when compress_gradients makes a compressor for one call: *)
(* what is not sent is dropped.                                            *)
CompressOnce(computed) ==
    \E S \in TopK(computed) :
        /\ \E order \in Sorted(computed, S) : Send(computed, order, 1)
        /\ balance' = Plus(balance, Sparse(computed, S))
        /\ UNCHANGED residual

(* RandomKCompressor.compress divides by the ratio, decompress undoes it. *)
CompressRandom(computed) ==
    \E S \in {T \in SUBSET Index : Cardinality(T) = K} :
        /\ \E order \in Orders(S) : Send(computed, order, Ratio)
        /\ balance' = Plus(balance, Sparse(computed, S))
        /\ UNCHANGED residual

ResetErrorFeedback ==
    /\ stage = "idle" /\ residual # Zero
    /\ residual' = Zero
    /\ balance' = Minus(balance, residual)
    /\ UNCHANGED <<stage, scale, sent, data, got, codes, rounds>>

(* decompress on the receiving side *)
Decompress ==
    /\ stage = "received" /\ scale > 0
    /\ LET dense == [i \in Index |->
                        IF \E n \in DOMAIN got.indices : got.indices[n] = i - 1
                        THEN got.grad[CHOOSE n \in DOMAIN got.indices :
                                          got.indices[n] = i - 1] \div scale
                        ELSE 0]
       IN balance' = Minus(balance, dense)
    /\ stage' = "idle" /\ scale' = 0 /\ sent' = None /\ data' = <<>> /\ got' = None
    /\ UNCHANGED <<residual, codes, rounds>>

-----------------------------------------------------------------------------
(* Quantization *)

Lowest(g) == CHOOSE x \in {g[i] : i \in Index} : \A i \in Index : x <= g[i]
Highest(g) == CHOOSE x \in {g[i] : i \in Index} : \A i \in Index : x >= g[i]

(* np.round(n / d): to the nearest, halves to the even neighbour. *)
Rounded(n, d) ==
    LET q == n \div d
        r == n % d
    IN IF 2 * r > d \/ (2 * r = d /\ q % 2 = 1) THEN q + 1 ELSE q

(* Mutant: scaled to the number of levels, not to the last one. *)
CodeOverflows(x, low, high, bits) ==
    IF high > low THEN Rounded((x - low) * 2^bits, high - low) % 256 ELSE 0

(* normalize, scale, round and cast to uint8 *)
Code(x, low, high, bits) ==
    IF high > low THEN Rounded((x - low) * (2^bits - 1), high - low) % 256 ELSE 0

(* QuantizationCompressor.compress; it keeps no state, so once is enough. *)
Quantize(g, bits) ==
    /\ stage = "idle" /\ rounds = 0
    /\ stage' = "quantized"
    /\ codes' = [input |-> g, bits |-> bits, low |-> Lowest(g), high |-> Highest(g),
                 code |-> [i \in Index |-> Code(g[i], Lowest(g), Highest(g), bits)]]
    /\ UNCHANGED <<residual, balance, scale, sent, data, got, rounds>>

(* QuantizationCompressor.decompress, times the number of intervals *)
Dequantized(i) ==
    codes.code[i] * (codes.high - codes.low) + codes.low * (2^codes.bits - 1)

QuantizeDone ==
    /\ stage = "quantized"
    /\ stage' = "idle" /\ codes' = None
    /\ UNCHANGED <<residual, balance, scale, sent, data, got, rounds>>

-----------------------------------------------------------------------------
(* Message format *)

(* The fields pack() looks at *)
Message ==
    [type: Nat, sender: Name, sequence: Nat, target: Name \cup {None},
     grad: Seq(Int) \cup {None}, indices: Seq(Int) \cup {None},
     version: Nat, step: Nat, incarnation: Nat, payload: Seq(Nat) \cup {None}]

(* What is sent is a message, and None is none of its values. *)
ASSUME MessageAssumption ==
    /\ Control \subseteq Message
    /\ None \notin Int /\ None \notin Seq(Int)

(* Read at a wrong place: a number that no field of a message holds. *)
Garbage == -1000000

Field(width, v) == [b \in 1..width |-> <<v, b, width>>]

ArrayBytes(width, a) ==
    [b \in 1..width * Len(a) |->
        <<a[((b - 1) \div width) + 1], ((b - 1) % width) + 1, width>>]

(* Mutant: the length prefix counts elements. *)
LengthOfElements(width, a) == Field(8, Len(a))

(* struct.pack('>Q', len(grad_bytes)) *)
LengthOf(width, a) == Field(8, width * Len(a))

Flags(m) ==
    (IF m.target # None THEN 1 ELSE 0)
    + (IF m.grad # None THEN IF m.indices # None THEN 6 ELSE 2 ELSE 0)

(* len() and bytes of an encoded name *)
NameBytes(name) == Field(2, NameLength[name]) \o Field(NameLength[name], name)

(* pack(); Field(8, 0) stands for the timestamp.  What builds messages and  *)
(* what compresses cast gradients to float32 and indices to int64.          *)
Packed(m) ==
    Field(1, m.type) \o NameBytes(m.sender)
    \o Field(8, m.sequence) \o Field(8, 0) \o Field(1, Flags(m))
    \o (IF m.target = None THEN <<>> ELSE NameBytes(m.target))
    \o (IF m.grad = None THEN <<>> ELSE
          Field(8, m.version) \o Field(8, m.step)
          \o LengthOf(4, m.grad) \o ArrayBytes(4, m.grad)
          \o (IF m.indices = None THEN <<>>
              ELSE LengthOf(8, m.indices) \o ArrayBytes(8, m.indices)))
    \o Field(4, m.incarnation)
    \o (IF m.payload = None THEN Field(4, 0)
        ELSE Field(4, Len(m.payload)) \o ArrayBytes(1, m.payload))

(* What is decoded from width bytes after offset o. *)
Read(d, o, width) ==
    IF o < 0 \/ o + width > Len(d) \/ width < 1 THEN Garbage
    ELSE IF \A b \in 1..width : d[o + b] = <<d[o + 1][1], b, width>> THEN d[o + 1][1]
    ELSE Garbage

(* np.frombuffer of the given number of bytes *)
ReadArray(d, o, width, bytes) ==
    [n \in 1..bytes \div width |-> Read(d, o + width * (n - 1), width)]

(* unpack(), and the offset it ends at *)
Unpacked(d) ==
    LET nameLen   == Read(d, 1, 2)
        o1        == 3 + nameLen
        flags     == Read(d, o1 + 16, 1)
        o2        == o1 + 17
        hasTarget == flags % 2 = 1
        targetLen == Read(d, o2, 2)
        o3        == IF hasTarget THEN o2 + 2 + targetLen ELSE o2
        hasGrad   == (flags \div 2) % 2 = 1
        gradLen   == Read(d, o3 + 16, 8)
        o4        == IF hasGrad THEN o3 + 24 + gradLen ELSE o3
        hasIndex  == hasGrad /\ (flags \div 4) % 2 = 1
        indexLen  == Read(d, o4, 8)
        o5        == IF hasIndex THEN o4 + 8 + indexLen ELSE o4
        dataLen   == Read(d, o5 + 4, 4)
    IN [type |-> Read(d, 0, 1), sender |-> Read(d, 3, nameLen),
        sequence |-> Read(d, o1, 8),
        target |-> IF hasTarget THEN Read(d, o2 + 2, targetLen) ELSE None,
        grad |-> IF hasGrad THEN ReadArray(d, o3 + 24, 4, gradLen) ELSE None,
        indices |-> IF hasIndex THEN ReadArray(d, o4 + 8, 8, indexLen) ELSE None,
        version |-> IF hasGrad THEN Read(d, o3, 8) ELSE 0,
        step |-> IF hasGrad THEN Read(d, o3 + 8, 8) ELSE 0,
        incarnation |-> Read(d, o5, 4),
        payload |-> IF dataLen > 0 THEN ReadArray(d, o5 + 8, 1, dataLen) ELSE None,
        end |-> o5 + 8 + dataLen]

(* A message that the membership manager or the application builds. *)
SendControl(m) ==
    /\ stage = "idle" /\ rounds = 0
    /\ stage' = "message" /\ scale' = 0 /\ sent' = m
    /\ UNCHANGED <<residual, balance, data, got, codes, rounds>>

Pack ==
    /\ stage = "message"
    /\ stage' = "bytes" /\ data' = Packed(sent)
    /\ UNCHANGED <<residual, balance, scale, sent, got, codes, rounds>>

Unpack ==
    /\ stage = "bytes"
    /\ stage' = "received" /\ got' = Unpacked(data)
    /\ UNCHANGED <<residual, balance, scale, sent, data, codes, rounds>>

ControlDone ==
    /\ stage = "received" /\ scale = 0
    /\ stage' = "idle" /\ sent' = None /\ data' = <<>> /\ got' = None
    /\ UNCHANGED <<residual, balance, scale, codes, rounds>>

-----------------------------------------------------------------------------
WireNext ==
    \/ \E g \in [Index -> Values] :
          CompressTopK(g) \/ CompressOnce(g) \/ CompressRandom(g)
    \/ \E g \in [Index -> Samples], b \in Bits : Quantize(g, b)
    \/ ResetErrorFeedback \/ Decompress \/ QuantizeDone
    \/ \E m \in Control : SendControl(m)
    \/ Pack \/ Unpack \/ ControlDone

WireSpec == WireInit /\ [][WireNext]_wireVars

-----------------------------------------------------------------------------
(* Error feedback loses nothing: over any sequence of calls, with and      *)
(* without feedback, and through the message format, what was computed and *)
(* neither delivered nor dropped on purpose is the residual.               *)
FeedbackConserves == stage \in {"idle", "quantized"} => balance = residual

(* No component is starved: sending the largest first keeps every residual *)
(* within the rounds it takes to send all the others, however the computed *)
(* gradients and the ties in argpartition fall.                            *)
ResidualBounded ==
    \A i \in Index : \E v \in Values :
        Magnitude(residual[i]) <= ((Size - 1) \div K) * Magnitude(v)

(* unpack(pack(m)) reads the whole data and gives m back, but for an empty *)
(* payload, which becomes None, and for version, step and indices without  *)
(* gradients, which are not written.                                       *)
RoundTrip ==
    stage = "received" =>
        /\ got.end = Len(data)
        /\ \A f \in {"type", "sender", "sequence", "target", "grad", "incarnation"} :
              got[f] = sent[f]
        /\ got.payload = IF sent.payload = <<>> THEN None ELSE sent.payload
        /\ IF sent.grad = None
           THEN got.indices = None /\ got.version = 0 /\ got.step = 0
           ELSE /\ got.indices = sent.indices
                /\ got.version = sent.version /\ got.step = sent.step

(* Quantization is off by at most half an interval, for every width up to  *)
(* eight bits, and a constant vector comes back unchanged.                 *)
WithinHalfStep ==
    stage = "quantized" =>
        \A i \in Index :
            2 * Magnitude(Dequantized(i) - codes.input[i] * (2^codes.bits - 1))
                <= codes.high - codes.low
=============================================================================
