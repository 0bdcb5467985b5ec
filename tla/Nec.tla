-------------------------------- MODULE Nec --------------------------------
(***************************************************************************)
(* decode_nec of scripts/tvbox-panel.py: what a burst of IR edges says if  *)
(* the remote speaks NEC.  A byte is the sequence of its bits in the order *)
(* in which they are sent, the lowest first, as byte_at() puts them        *)
(* together.                                                               *)
(***************************************************************************)
EXTENDS Integers, Sequences

CONSTANT ByteBits  \* bits in a byte: 8

ASSUME ByteBitsAssumption == ByteBits \in Nat \ {0}

FrameBits == 4 * ByteBits

\* An edge: a pulse or a space and its microseconds.
Pulse(us) == [kind |-> "pulse", us |-> us]
Space(us) == [kind |-> "space", us |-> us]

Near(value, target, percent) ==
  /\ 100 * (value - target) <= percent * target
  /\ 100 * (target - value) <= percent * target

\* The two edges of bit k: whether they are those of a bit, and of which.
IsZero(space) == Near(space.us, 560, 40)
IsOne(space) == Near(space.us, 1690, 30)
IsBit(edges, k) ==
  LET pulse == edges[2 * k + 1]
      space == edges[2 * k + 2]
  IN  /\ pulse.kind = "pulse" /\ space.kind = "space"
      /\ Near(pulse.us, 560, 40)
      /\ IsZero(space) \/ IsOne(space)
Bit(edges, k) == IF IsZero(edges[2 * k + 2]) THEN 0 ELSE 1

\* The loop ends at the first pair of edges that is no bit, at the end of the
\* burst or after 32 bits.
BitCount(edges) ==
  CHOOSE n \in 0..FrameBits :
    /\ \A k \in 1..n : 2 * k + 2 <= Len(edges) /\ IsBit(edges, k)
    /\ \/ n = FrameBits
       \/ 2 * (n + 1) + 2 > Len(edges)
       \/ ~IsBit(edges, n + 1)

\* Mutant: the bytes are taken in the order address, command, ...
ByteAtSwapped(edges, n) ==
  [b \in 1..ByteBits |-> Bit(edges, ((2 * n) % 3) * ByteBits + b)]

ByteAt(edges, n) == [b \in 1..ByteBits |-> Bit(edges, n * ByteBits + b)]

Complement(byte) == [b \in 1..ByteBits |-> 1 - byte[b]]

Frame(address, second, command, third) ==
  [kind |-> "frame", address |-> address, command |-> command,
   address_ok |-> second = Complement(address),
   command_ok |-> third = Complement(command)]

NotNec == [kind |-> "none"]
Repeat == [kind |-> "repeat"]

\* A 9 ms pulse, and an edge after it.
IsLeader(edges) ==
  Len(edges) >= 2 /\ edges[1].kind = "pulse" /\ Near(edges[1].us, 9000, 30)

DecodeNec(edges) ==
  CASE IsLeader(edges) /\ Near(edges[2].us, 2250, 30) -> Repeat
    [] IsLeader(edges) /\ Near(edges[2].us, 4500, 30) ->
         IF BitCount(edges) = FrameBits
         THEN Frame(ByteAt(edges, 0), ByteAt(edges, 1), ByteAt(edges, 2), ByteAt(edges, 3))
         ELSE [kind |-> "partial", bits |-> BitCount(edges)]
    [] OTHER -> NotNec

=============================================================================
