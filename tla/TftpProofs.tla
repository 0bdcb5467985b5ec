----------------------------- MODULE TftpProofs -----------------------------
(***************************************************************************)
(* TypeOK, CopyIsPrefix and OneBlockAhead of Tftp, and its refinement of   *)
(* FileTransfer, for files of any length, any clients, any number of       *)
(* requests and retries and any modulus of the block numbers: on a network *)
(* that keeps the order of packets, and on which nobody else sends, the    *)
(* modulus 2 is enough; on another the numbers must not wrap.              *)
(*                                                                         *)
(* The invariant speaks of the packets on their way.  What a client may    *)
(* still receive of its transfer is the last block it has stored or the    *)
(* one that is due (InStep), what the server may receive of it tells no    *)
(* more than the client has (ForServer), and that is why both sides can do *)
(* with the numbers on the wire (Together).  All this is so as long as no  *)
(* stranger has acknowledged a block.  From then on the server runs ahead, *)
(* and what still protects the client's copy is that it stores nothing but *)
(* the block that is due (DueBlock).                                       *)
(***************************************************************************)
EXTENDS Tftp, SequenceTheorems, TLAPS

Packet ==
  [to : Clients, tid : Nat, type : {"DATA", "OACK", "ERROR"}, block : 0..Blocks, wire : Nat]
Answer == [from : Clients, type : {"ACK", "ERROR"}, wire : Nat]

ServerOK ==
  /\ state = "idle" => up = <<>>
  /\ state # "idle" => reader \in Clients /\ xfer >= 1 /\ addr \in {reader, Stranger}
  /\ state = "oack" => block = 0
  /\ state = "data" => block >= 1
  /\ misled => network.strays

ClientsOK ==
  \A c \in Clients :
    /\ tid[c] <= xfer /\ inbox[c] <= asks[c]
    /\ Len(got[c]) <= Blocks
    /\ client[c] = "complete" <=> Len(got[c]) = Blocks
    /\ tid[c] = 0 => got[c] = <<>>
    /\ client[c] \in {"new", "asked"} => tid[c] = 0
    /\ client[c] \in {"open", "complete"} => tid[c] # 0
    /\ tid[c] = xfer /\ state # "idle" => c = reader

\* Packets that are known to be in step with their client: those of a network on
\* which block numbers may wrap, and those of the transfer that is open, as long
\* as no stranger has acknowledged a block of it.
InStep(m) ==
  network.modulus <= Blocks \/ (m.tid = xfer /\ state # "idle" /\ ~misled)

\* A packet of the transfer that is open is for the client served; of the blocks
\* of its transfer a client may still take the last one or the one that is due.
ForClient(m) ==
  /\ m.tid <= xfer
  /\ m.tid = xfer /\ state # "idle" => m.to = reader
  /\ m.type = "DATA" =>
       /\ m.block >= 1 /\ m.wire = Wire(m.block)
       /\ m.tid = xfer /\ state # "idle" => m.block <= block
       /\ InStep(m) /\ tid[m.to] \in {0, m.tid} =>
            /\ m.block <= Len(got[m.to]) + 1
            /\ ~network.reorder => m.block >= Len(got[m.to])

\* An acknowledgement is the reader's, of a block which it has.
ForServer(m) ==
  /\ state # "idle" => m.from = reader
  /\ m.type = "ACK" /\ ~misled =>
       /\ state = "oack" => m.wire = 0
       /\ state = "data" =>
            /\ IF network.reorder THEN m.wire <= Len(got[reader])
                                  ELSE m.wire \in {Wire(block - 1), Wire(block)}
            /\ m.wire = Wire(block) => Len(got[reader]) = block

SameTransfer(m, n) ==
  m.type = "DATA" /\ n.type = "DATA" /\ m.to = n.to /\ m.tid = n.tid

\* A network that keeps the order has the blocks of a transfer in order, and
\* the acknowledgements of the block before in front of those of the block.
BlocksInOrder(net) ==
  \A i, j \in DOMAIN net : i < j /\ SameTransfer(net[i], net[j]) => net[i].block <= net[j].block
AcksInOrder(net, w) ==
  \A i, j \in DOMAIN net :
    i < j /\ net[i].type = "ACK" /\ net[j].type = "ACK" /\ net[i].wire = w => net[j].wire = w

DownOK ==
  /\ down \in Seq(Packet) /\ Len(down) <= Capacity
  /\ \A i \in DOMAIN down : ForClient(down[i])
  /\ ~network.reorder => BlocksInOrder(down)

UpOK ==
  /\ up \in Seq(Answer) /\ Len(up) <= Capacity
  /\ state # "idle" /\ up # <<>> => tid[reader] = xfer
  /\ \A i \in DOMAIN up : ForServer(up[i])
  /\ ~network.reorder /\ state = "data" /\ ~misled => AcksInOrder(up, Wire(block))

Together ==
  /\ state = "oack" /\ tid[reader] = xfer /\ ~misled => got[reader] = <<>>
  /\ state = "data" /\ ~misled =>
       IF tid[reader] = xfer THEN Len(got[reader]) \in {block - 1, block} ELSE block = 1

TftpInv ==
  TypeOK /\ ServerOK /\ ClientsOK /\ DownOK /\ UpOK /\ Together /\ CopyIsPrefix

-----------------------------------------------------------------------------
(* Block numbers on the wire.                                              *)

LEMMA Division ==
  ASSUME NEW m \in Int, m > 0, NEW n \in Int
  PROVE  n \div m \in Int /\ n % m = n - m * (n \div m)
  OBVIOUS

LEMMA NoFactor ==
  ASSUME NEW m \in Int, m >= 2, NEW d \in Int
  PROVE  m * d # 1
  OBVIOUS

LEMMA ModNext ==
  ASSUME NEW m \in Nat \ {0, 1}, NEW n \in Nat
  PROVE  n % m # (n + 1) % m
<1> DEFINE q == n \div m
           p == (n + 1) \div m
<1>1. m \in Int /\ m >= 2 /\ m > 0 /\ n + 1 \in Int /\ n \in Int
  OBVIOUS
<1>2. q \in Int /\ p \in Int /\ n % m = n - m * q /\ (n + 1) % m = n + 1 - m * p
  BY <1>1, Division
<1> HIDE DEF q, p
<1>3. ASSUME n % m = (n + 1) % m PROVE FALSE
  <2>1. n - m * q = n + 1 - m * p
    BY <1>2, <1>3
  <2>2. m * p - m * q = 1
    BY <1>1, <1>2, <2>1
  <2>3. m * (p - q) = 1
    BY <1>1, <1>2, <2>2
  <2>4. p - q \in Int
    BY <1>2
  <2> QED  BY <1>1, <2>3, <2>4, NoFactor
<1> QED  BY <1>3

LEMMA ModSmall ==
  ASSUME NEW m \in Nat \ {0, 1}, NEW n \in Nat, n < m
  PROVE  n % m = n
  OBVIOUS

LEMMA ModType ==
  ASSUME NEW m \in Nat \ {0, 1}, NEW n \in Nat
  PROVE  n % m \in Nat
  OBVIOUS

-----------------------------------------------------------------------------
(* What happens to the packets on a network.                               *)

\* The packets of t are packets of s, in this order, perhaps repeated.
Drawn(t, s) ==
  \E f \in [DOMAIN t -> DOMAIN s] :
    \A j, k \in DOMAIN t : t[k] = s[f[k]] /\ (j < k => f[j] <= f[k])

LEMMA Removed ==
  ASSUME NEW S, NEW s \in Seq(S), NEW i \in DOMAIN s
  PROVE  /\ RemoveAt(s, i) \in Seq(S) /\ Len(RemoveAt(s, i)) = Len(s) - 1
         /\ \A k \in DOMAIN RemoveAt(s, i) : RemoveAt(s, i)[k] = IF k < i THEN s[k] ELSE s[k + 1]
<1> DEFINE a == SubSeq(s, 1, i - 1)
           b == SubSeq(s, i + 1, Len(s))
<1>1. /\ a \in Seq(S) /\ Len(a) = i - 1 /\ \A k \in 1 .. i - 1 : a[k] = s[k]
      /\ b \in Seq(S) /\ Len(b) = Len(s) - i /\ \A k \in 1 .. Len(s) - i : b[k] = s[k + i]
  OBVIOUS
<1>2. RemoveAt(s, i) = a \o b
  BY DEF RemoveAt
<1> HIDE DEF a, b
<1> QED  BY <1>1, <1>2

LEMMA RemovedIsDrawn ==
  ASSUME NEW S, NEW s \in Seq(S), NEW i \in DOMAIN s
  PROVE  Drawn(RemoveAt(s, i), s)
<1> DEFINE t == RemoveAt(s, i)
           f == [k \in DOMAIN t |-> IF k < i THEN k ELSE k + 1]
<1>1. DOMAIN t = 1 .. Len(s) - 1 /\ \A k \in DOMAIN t : t[k] = IF k < i THEN s[k] ELSE s[k + 1]
  BY Removed
<1> HIDE DEF t
<1>2. f \in [DOMAIN t -> DOMAIN s]
  BY <1>1
<1>3. \A j, k \in DOMAIN t : t[k] = s[f[k]] /\ (j < k => f[j] <= f[k])
  BY <1>1
<1> QED  BY <1>2, <1>3 DEF Drawn, t

LEMMA Doubles ==
  ASSUME NEW S, NEW s \in Seq(S), NEW i \in DOMAIN s
  PROVE  /\ InsertAt(s, i, s[i]) \in Seq(S) /\ Len(InsertAt(s, i, s[i])) = Len(s) + 1
         /\ \A k \in DOMAIN InsertAt(s, i, s[i]) :
              InsertAt(s, i, s[i])[k] = IF k <= i THEN s[k] ELSE s[k - 1]
<1> DEFINE a == SubSeq(s, 1, i - 1)
           b == SubSeq(s, i, Len(s))
           ab == a \o <<s[i]>>
<1>1. /\ a \in Seq(S) /\ Len(a) = i - 1 /\ \A k \in 1 .. i - 1 : a[k] = s[k]
      /\ b \in Seq(S) /\ Len(b) = Len(s) - i + 1
      /\ \A k \in 1 .. Len(s) - i + 1 : b[k] = s[k + i - 1]
  OBVIOUS
<1>2. InsertAt(s, i, s[i]) = ab \o b
  BY DEF InsertAt
<1> HIDE DEF a, b
<1>3. ab \in Seq(S) /\ Len(ab) = i /\ \A k \in 1 .. i : ab[k] = s[k]
  BY <1>1
<1> HIDE DEF ab
<1>4. /\ ab \o b \in Seq(S) /\ Len(ab \o b) = Len(s) + 1
      /\ DOMAIN (ab \o b) = 1 .. Len(s) + 1
  BY <1>1, <1>3
<1>5. ASSUME NEW k \in 1 .. Len(s) + 1 PROVE (ab \o b)[k] = IF k <= i THEN s[k] ELSE s[k - 1]
  <2>0. /\ k \in Int /\ i \in Int /\ Len(ab) + Len(b) = Len(s) + 1
        /\ (ab \o b)[k] = IF k <= Len(ab) THEN ab[k] ELSE b[k - Len(ab)]
    BY <1>1, <1>3, ConcatProperties
  <2>1. CASE k <= i
    BY <1>1, <1>3, <2>0, <2>1
  <2>2. CASE k > i
    <3>1. (ab \o b)[k] = b[k - i]
      BY <1>3, <2>0, <2>2
    <3>2. k - i \in 1 .. Len(s) - i + 1 /\ b[k - i] = s[k - i + i - 1]
      BY <1>1, <2>2
    <3> QED  BY <2>2, <3>1, <3>2
  <2> QED  BY <2>0, <2>1, <2>2
<1> QED  BY <1>2, <1>4, <1>5

LEMMA DoubleIsDrawn ==
  ASSUME NEW S, NEW s \in Seq(S), NEW i \in DOMAIN s
  PROVE  Drawn(InsertAt(s, i, s[i]), s)
<1> DEFINE t == InsertAt(s, i, s[i])
           f == [k \in DOMAIN t |-> IF k <= i THEN k ELSE k - 1]
<1>1. DOMAIN t = 1 .. Len(s) + 1 /\ \A k \in DOMAIN t : t[k] = IF k <= i THEN s[k] ELSE s[k - 1]
  BY Doubles
<1> HIDE DEF t
<1>2. f \in [DOMAIN t -> DOMAIN s]
  BY <1>1
<1>3. \A j, k \in DOMAIN t : t[k] = s[f[k]] /\ (j < k => f[j] <= f[k])
  BY <1>1
<1> QED  BY <1>2, <1>3 DEF Drawn, t

\* What a send does to a network that has room, or has none.
LEMMA PutFacts ==
  ASSUME NEW S, NEW s \in Seq(S), Len(s) <= Capacity, NEW m \in S
  PROVE  /\ Put(s, m) \in Seq(S) /\ Len(Put(s, m)) <= Capacity
         /\ \/ Put(s, m) = s
            \/ /\ DOMAIN Put(s, m) = 1 .. Len(s) + 1 /\ DOMAIN s = 1 .. Len(s)
               /\ \A k \in DOMAIN s : Put(s, m)[k] = s[k]
               /\ Put(s, m)[Len(s) + 1] = m
  BY BoundsAssumption DEF Put

LEMMA DrawnKeepsOrder ==
  ASSUME NEW s, NEW t, Drawn(t, s)
  PROVE  /\ s \in Seq(Packet) /\ t \in Seq(Packet) /\ BlocksInOrder(s) => BlocksInOrder(t)
         /\ \A w : s \in Seq(Answer) /\ t \in Seq(Answer) /\ AcksInOrder(s, w) => AcksInOrder(t, w)
<1>1. PICK f \in [DOMAIN t -> DOMAIN s] :
        \A j, k \in DOMAIN t : t[k] = s[f[k]] /\ (j < k => f[j] <= f[k])
  BY DEF Drawn
<1>2. ASSUME s \in Seq(Packet), t \in Seq(Packet), BlocksInOrder(s) PROVE BlocksInOrder(t)
  <2> SUFFICES ASSUME NEW j \in DOMAIN t, NEW k \in DOMAIN t, j < k, SameTransfer(t[j], t[k])
               PROVE  t[j].block <= t[k].block
    BY DEF BlocksInOrder
  <2>1. /\ f[j] \in DOMAIN s /\ f[k] \in DOMAIN s /\ f[j] <= f[k]
        /\ t[j] = s[f[j]] /\ t[k] = s[f[k]]
    BY <1>1
  <2>2. f[j] \in Int /\ f[k] \in Int /\ t[j] \in Packet /\ t[k] \in Packet
    BY <1>2, <2>1
  <2>5. t[j].block \in Int /\ t[k].block \in Int
    BY <2>2 DEF Packet
  <2>3. CASE f[j] = f[k]
    BY <2>1, <2>3, <2>5
  <2>4. CASE f[j] < f[k]
    BY <1>2, <2>1, <2>4 DEF BlocksInOrder
  <2> QED  BY <2>1, <2>2, <2>3, <2>4
<1>3. ASSUME NEW w, s \in Seq(Answer), t \in Seq(Answer), AcksInOrder(s, w) PROVE AcksInOrder(t, w)
  <2> SUFFICES ASSUME NEW j \in DOMAIN t, NEW k \in DOMAIN t, j < k,
                      t[j].type = "ACK", t[k].type = "ACK", t[j].wire = w
               PROVE  t[k].wire = w
    BY DEF AcksInOrder
  <2>1. /\ f[j] \in DOMAIN s /\ f[k] \in DOMAIN s /\ f[j] <= f[k]
        /\ t[j] = s[f[j]] /\ t[k] = s[f[k]]
    BY <1>1
  <2>2. CASE f[j] = f[k]
    BY <2>1, <2>2
  <2>3. CASE f[j] < f[k]
    BY <1>3, <2>1, <2>3 DEF AcksInOrder
  <2>4. f[j] \in Int /\ f[k] \in Int
    BY <1>3, <2>1
  <2> QED  BY <2>1, <2>2, <2>3, <2>4
<1> QED  BY <1>2, <1>3

LEMMA DrawnSame ==
  ASSUME NEW S, NEW s \in Seq(S)
  PROVE  Drawn(s, s)
<1> DEFINE f == [k \in DOMAIN s |-> k]
<1>1. f \in [DOMAIN s -> DOMAIN s]
  OBVIOUS
<1>2. \A j, k \in DOMAIN s : s[k] = s[f[k]] /\ (j < k => f[j] <= f[k])
  OBVIOUS
<1> QED  BY <1>1, <1>2 DEF Drawn

LEMMA NetworkFacts ==
  ASSUME network \in Networks
  PROVE  /\ network.reorder \in BOOLEAN /\ network.strays \in BOOLEAN
         /\ network.modulus \in Nat \ {0, 1} /\ Blocks \in Nat
         /\ network.reorder \/ network.strays => network.modulus > Blocks
  BY BoundsAssumption, NetworksAssumption DEF NetworkType

LEMMA WireFacts ==
  ASSUME network \in Networks
  PROVE  /\ Wire(0) = 0
         /\ \A n \in Nat : Wire(n) \in Nat /\ Wire(n) # Wire(n + 1)
         /\ network.modulus > Blocks => \A n \in 0..Blocks : Wire(n) = n
<1>1. network.modulus \in Nat \ {0, 1} /\ Blocks \in Nat
  BY NetworkFacts
<1>2. Wire(0) = 0
  BY <1>1, ModSmall DEF Wire
<1>3. \A n \in Nat : Wire(n) \in Nat /\ Wire(n) # Wire(n + 1)
  BY <1>1, ModType, ModNext DEF Wire
<1>4. ASSUME network.modulus > Blocks, NEW n \in 0..Blocks PROVE Wire(n) = n
  BY <1>1, <1>4, ModSmall DEF Wire
<1> QED  BY <1>2, <1>3, <1>4

\* What TypeOK says of the functions on clients.
LEMMA Types ==
  ASSUME TypeOK
  PROVE  /\ inbox \in [Clients -> 0..MaxAsks] /\ asks \in [Clients -> 0..MaxAsks] /\ MaxAsks \in Nat
         /\ tid \in [Clients -> 0..MaxTransfers] /\ tid \in [Clients -> Nat]
         /\ MaxTransfers \in Nat /\ xfer \in Nat /\ block \in Nat /\ Blocks \in Nat
         /\ got \in [Clients -> Seq(1..Blocks)] /\ \A c \in Clients : Len(got[c]) \in Nat
<1>1. /\ inbox \in [Clients -> 0..MaxAsks] /\ asks \in [Clients -> 0..MaxAsks]
      /\ tid \in [Clients -> 0..MaxTransfers] /\ xfer \in 0..MaxTransfers /\ block \in 0..Blocks
      /\ got \in [Clients -> Seq(1..Blocks)]
  BY DEF TypeOK
<1> QED  BY <1>1, BoundsAssumption

\* The packets to the clients, when some are lost, repeated or received.
LEMMA DownKept ==
  ASSUME DownOK, UNCHANGED network, Drawn(down', down),
         down' \in Seq(Packet), Len(down') <= Capacity,
         \A m \in Packet : ForClient(m) => ForClient(m)'
  PROVE  DownOK'
<1>1. ASSUME NEW k \in DOMAIN down' PROVE ForClient(down[k])'
  <2>1. PICK j \in DOMAIN down : down'[k] = down[j]
    BY <1>1 DEF Drawn
  <2>2. PICK m \in Packet : m = down[j]
    BY DEF DownOK
  <2>3. ForClient(m)'
    BY <2>2 DEF DownOK
  <2> QED  BY <2>1, <2>2, <2>3 DEF ForClient
<1>2. ~network.reorder => BlocksInOrder(down')
  BY DrawnKeepsOrder DEF DownOK
<1> QED  BY <1>1, <1>2 DEF DownOK, BlocksInOrder, SameTransfer

\* A packet is sent to a client.
LEMMA DownPut ==
  ASSUME DownOK, UNCHANGED network, NEW p \in Packet, down' = Put(down, p),
         \A m \in Packet : ForClient(m) => ForClient(m)',
         ForClient(p)',
         \A m \in Packet : ForClient(m) /\ SameTransfer(m, p) => m.block <= p.block
  PROVE  DownOK'
<1>0. down \in Seq(Packet) /\ Len(down) <= Capacity
  BY DEF DownOK
<1>1. /\ down' \in Seq(Packet) /\ Len(down') <= Capacity
      /\ \/ down' = down
         \/ /\ DOMAIN down' = 1 .. Len(down) + 1 /\ DOMAIN down = 1 .. Len(down)
            /\ \A k \in DOMAIN down : down'[k] = down[k]
            /\ down'[Len(down) + 1] = p
  <2> DEFINE t == Put(down, p)
  <2>1. /\ t \in Seq(Packet) /\ Len(t) <= Capacity
        /\ \/ t = down
           \/ /\ DOMAIN t = 1 .. Len(down) + 1 /\ DOMAIN down = 1 .. Len(down)
              /\ \A k \in DOMAIN down : t[k] = down[k]
              /\ t[Len(down) + 1] = p
    BY <1>0, PutFacts
  <2>2. down' = t
    OBVIOUS
  <2> HIDE DEF t
  <2> QED  BY <2>1, <2>2
<1> USE <1>0
<1>2. CASE down' = down
  BY <1>1, <1>2, DrawnSame, DownKept
<1>3. CASE /\ DOMAIN down' = 1 .. Len(down) + 1 /\ DOMAIN down = 1 .. Len(down)
           /\ \A k \in DOMAIN down : down'[k] = down[k]
           /\ down'[Len(down) + 1] = p
  <2>1. ASSUME NEW k \in DOMAIN down' PROVE ForClient(down[k])'
    <3>1. PICK m \in Packet : m = down'[k]
      BY <1>1, <2>1
    <3>2. CASE k = Len(down) + 1
      BY <1>3, <3>2 DEF ForClient
    <3>3. CASE k \in DOMAIN down
      <4>1. m = down[k]
        BY <1>3, <3>1, <3>3
      <4>2. ForClient(m)'
        BY <3>3, <4>1 DEF DownOK
      <4> QED  BY <3>1, <4>2 DEF ForClient
    <3>4. k = Len(down) + 1 \/ k \in DOMAIN down
      BY <1>1, <1>3
    <3> QED  BY <3>2, <3>3, <3>4
  <2>2. ASSUME ~network.reorder, NEW j \in DOMAIN down', NEW k \in DOMAIN down', j < k,
               SameTransfer(down'[j], down'[k])
        PROVE  down'[j].block <= down'[k].block
    <3>1. j \in DOMAIN down /\ down'[j] = down[j]
      BY <1>1, <1>3, <2>2
    <3>2. CASE k = Len(down) + 1
      <4>1. PICK m \in Packet : m = down[j]
        BY <1>1, <3>1
      <4>2. ForClient(m)
        BY <3>1, <4>1 DEF DownOK
      <4> QED  BY <1>3, <2>2, <3>1, <3>2, <4>1, <4>2
    <3>3. CASE k \in DOMAIN down
      BY <1>3, <2>2, <3>1, <3>3 DEF DownOK, BlocksInOrder
    <3>4. k = Len(down) + 1 \/ k \in DOMAIN down
      BY <1>1, <1>3
    <3> QED  BY <3>2, <3>3, <3>4
  <2> QED  BY <1>1, <2>1, <2>2 DEF DownOK, BlocksInOrder, SameTransfer
<1> QED  BY <1>1, <1>2, <1>3

\* The answers to the server, when some are lost, repeated or received.
LEMMA UpKept ==
  ASSUME UpOK, UNCHANGED <<network, block>>, Drawn(up', up),
         up' \in Seq(Answer), Len(up') <= Capacity,
         state' = "data" => state = "data", misled => misled',
         state' # "idle" /\ up' # <<>> => tid'[reader'] = xfer',
         \A m \in Answer : ForServer(m) => ForServer(m)'
  PROVE  UpOK'
<1>1. ASSUME NEW k \in DOMAIN up' PROVE ForServer(up[k])'
  <2>1. PICK j \in DOMAIN up : up'[k] = up[j]
    BY <1>1 DEF Drawn
  <2>2. PICK m \in Answer : m = up[j]
    BY DEF UpOK
  <2>3. ForServer(m)'
    BY <2>2 DEF UpOK
  <2> QED  BY <2>1, <2>2, <2>3 DEF ForServer
<1>2. ~network.reorder /\ state' = "data" /\ ~misled' => AcksInOrder(up', Wire(block))
  BY DrawnKeepsOrder DEF UpOK
<1> QED  BY <1>1, <1>2 DEF UpOK, AcksInOrder, Wire

-----------------------------------------------------------------------------
(* The server.                                                             *)

LEMMA TftpInit ==
  ASSUME Init
  PROVE  TftpInv
<1> USE BoundsAssumption, NetworksAssumption
<1>1. TypeOK
  <2>1. /\ network \in Networks /\ state \in States
        /\ reader \in Clients \cup {NoClient} /\ addr \in Clients \cup {Stranger, NoClient}
        /\ Len(down) <= Capacity /\ Len(up) <= Capacity /\ kind \in [Clients -> Kinds]
    BY DEF Init, States
  <2>3. running \in BOOLEAN /\ misled \in BOOLEAN
    BY Zenon DEF Init
  <2>2. /\ xfer \in 0..MaxTransfers /\ block \in 0..Blocks /\ sends \in 0..MaxSends
        /\ client \in [Clients -> {"new", "asked", "open", "complete", "failed"}]
        /\ inbox \in [Clients -> 0..MaxAsks] /\ asks \in [Clients -> 0..MaxAsks]
        /\ tid \in [Clients -> 0..MaxTransfers] /\ got \in [Clients -> Seq(1..Blocks)]
        /\ done \subseteq Clients
    BY DEF Init
  <2> QED  BY <2>1, <2>2, <2>3 DEF TypeOK
<1>2. ServerOK /\ ClientsOK /\ Together
  BY DEF Init, ServerOK, ClientsOK, Together
<1>3. DownOK /\ UpOK
  BY DEF Init, DownOK, UpOK, BlocksInOrder, AcksInOrder
<1>4. CopyIsPrefix
  BY DEF Init, CopyIsPrefix
<1> QED  BY <1>1, <1>2, <1>3, <1>4 DEF TftpInv

\* What recvfrom() returns is a stranger's, or one of the reader's answers.
LEMMA ReceivedFacts ==
  ASSUME TftpInv, state # "idle", NEW r \in Received
  PROVE  /\ r.rest \in Seq(Answer) /\ Len(r.rest) <= Capacity /\ Drawn(r.rest, up)
         /\ \/ r.packet.from = Stranger /\ network.strays
            \/ /\ r.packet.from = reader /\ Stranger # reader
               /\ \E i \in Arriving(up) : r = [packet |-> up[i], rest |-> RemoveAt(up, i)]
<1>0. /\ up \in Seq(Answer) /\ Len(up) <= Capacity /\ Stranger # reader
      /\ \A i \in DOMAIN up : ForServer(up[i])
  BY StrangerAssumption DEF TftpInv, UpOK, ServerOK
<1>1. ASSUME NEW i \in Arriving(up), r = [packet |-> up[i], rest |-> RemoveAt(up, i)]
      PROVE  /\ r.rest \in Seq(Answer) /\ Len(r.rest) <= Capacity /\ Drawn(r.rest, up)
             /\ r.packet.from = reader
  <2>1. i \in DOMAIN up
    BY DEF Arriving
  <2>2. /\ RemoveAt(up, i) \in Seq(Answer) /\ Len(RemoveAt(up, i)) = Len(up) - 1
        /\ Drawn(RemoveAt(up, i), up)
    BY <1>0, <2>1, Removed, RemovedIsDrawn
  <2>3. Len(up) - 1 <= Capacity
    BY <1>0, BoundsAssumption
  <2>4. ForServer(up[i])
    BY <1>0, <2>1
  <2>5. up[i].from = reader
    BY <2>4 DEF ForServer
  <2> QED  BY <1>1, <2>2, <2>3, <2>5
<1>2. ASSUME NEW p \in Strays, r = [packet |-> p, rest |-> up]
      PROVE  /\ r.rest \in Seq(Answer) /\ Len(r.rest) <= Capacity /\ Drawn(r.rest, up)
             /\ r.packet.from = Stranger /\ network.strays
  <2>1. p.from = Stranger /\ network.strays
    BY DEF Strays, Stray
  <2> QED  BY <1>0, <1>2, <2>1, DrawnSame
<1>3. \/ \E i \in Arriving(up) : r = [packet |-> up[i], rest |-> RemoveAt(up, i)]
      \/ \E p \in Strays : r = [packet |-> p, rest |-> up]
  BY DEF Received
<1> QED  BY <1>0, <1>1, <1>2, <1>3

\* What an acknowledgement of the block by its reader tells the server.
LEMMA Acked ==
  ASSUME TftpInv, state = "data", ~misled, NEW i \in DOMAIN up,
         up[i].type = "ACK", up[i].wire = Wire(block)
  PROVE  tid[reader] = xfer /\ Len(got[reader]) = block /\ reader \in Clients /\ block >= 1
<1>1. up # <<>> /\ ForServer(up[i])
  BY DEF TftpInv, UpOK
<1> QED  BY <1>1 DEF TftpInv, UpOK, ServerOK, ForServer

\* The end of a transfer, or of the server.
LEMMA LeaveKeeps ==
  ASSUME TftpInv, Leave, running' \in BOOLEAN, UNCHANGED <<network, clientVars>>,
         inbox' \in [Clients -> 0..MaxAsks], \A d \in Clients : inbox'[d] <= asks[d],
         done' \subseteq Clients
  PROVE  TftpInv'
<1> USE DEF Leave, clientVars
<1>1. TypeOK' /\ CopyIsPrefix'
  <2>1. /\ state' \in States /\ block' \in 0..Blocks /\ sends' \in 0..MaxSends
        /\ reader' \in Clients \cup {NoClient} /\ addr' \in Clients \cup {Stranger, NoClient}
        /\ Len(up') <= Capacity
    BY BoundsAssumption DEF States
  <2>2. misled' \in BOOLEAN
    BY Zenon
  <2> QED  BY <2>1, <2>2 DEF TftpInv, TypeOK, CopyIsPrefix
<1>2. ServerOK' /\ ClientsOK' /\ Together'
  BY DEF TftpInv, ServerOK, ClientsOK, Together
<1>3. \A m \in Packet : ForClient(m) => ForClient(m)'
  BY DEF ForClient, InStep, Wire
<1>4. DownOK'
  BY <1>3, DrawnSame, DownKept DEF TftpInv, DownOK
<1>5. UpOK'
  BY <1>1 DEF UpOK, AcksInOrder, TypeOK
<1> QED  BY <1>1, <1>2, <1>4, <1>5 DEF TftpInv

LEMMA CloseKeeps ==
  ASSUME TftpInv, Close \/ Raise, UNCHANGED <<network, inbox, clientVars>>, done' \subseteq Clients
  PROVE  TftpInv'
<1>1. Leave /\ running' \in BOOLEAN
  BY DEF Close, Raise, TftpInv, TypeOK
<1>2. inbox' \in [Clients -> 0..MaxAsks] /\ \A d \in Clients : inbox'[d] <= asks[d]
  BY DEF TftpInv, TypeOK, ClientsOK
<1> QED  BY <1>1, <1>2, LeaveKeeps

\* Block n is sent, for the first time or again, to a stranger, or to a client that
\* lacks it or has it as its last one, unless a stranger has acknowledged a block.
LEMMA SendKeeps ==
  ASSUME TftpInv, state # "idle", NEW n \in 1..Blocks, NEW k \in 1..MaxSends,
         NEW a \in {reader, Stranger}, SendBlock(a, xfer, n, k),
         UNCHANGED <<network, reader, inbox, clientVars, done>>,
         block <= n,
         misled' \in BOOLEAN, misled => misled', misled' => network.strays,
         ~misled' => IF tid[reader] = xfer THEN Len(got[reader]) \in {n - 1, n} ELSE n = 1,
         UpOK'
  PROVE  TftpInv'
<1> USE DEF SendBlock, clientVars
<1>0. /\ reader \in Clients /\ xfer >= 1 /\ xfer \in Nat /\ block \in Nat
      /\ n \in Nat /\ n >= 1 /\ network \in Networks /\ Len(got[reader]) \in Nat
      /\ tid[reader] = 0 => got[reader] = <<>>
  BY BoundsAssumption DEF TftpInv, TypeOK, ServerOK, ClientsOK
<1>1. state' = "data" /\ block' = n /\ xfer' = xfer /\ reader' = reader /\ addr' = a
  OBVIOUS
<1>2. ASSUME NEW m \in Packet, ForClient(m) PROVE ForClient(m)'
  <2>1. m.block \in Nat
    BY BoundsAssumption DEF Packet
  <2> QED  BY <1>0, <1>1, <1>2, <2>1 DEF ForClient, InStep, Wire
<1>3. DownOK'
  <2>1. CASE a = Stranger
    <3>1. down' = down
      BY <2>1, StrangerAssumption
    <3> QED  BY <1>2, <3>1, DrawnSame, DownKept DEF TftpInv, DownOK
  <2>2. CASE a = reader
    <3>1. PICK p \in Packet : p = Data(reader, xfer, n)
      <4>1. Wire(n) \in Nat /\ n \in 0..Blocks
        <5>1. Wire(n) \in Nat
          BY <1>0, WireFacts
        <5> QED  BY <5>1, BoundsAssumption
      <4> QED  BY <1>0, <4>1 DEF Packet, Data
    <3>2. /\ p.to = reader /\ p.tid = xfer /\ p.type = "DATA" /\ p.block = n /\ p.wire = Wire(n)
          /\ down' = Put(down, p)
      BY <1>0, <2>2, <3>1 DEF Data
    <3>3. ForClient(p)'
      <4>1. p.wire = Wire(p.block)'
        BY <3>2 DEF Wire
      <4>2. ASSUME InStep(p)' PROVE ~misled'
        BY <1>0, <4>2, NetworkFacts DEF InStep
      <4>3. ~misled' /\ tid[reader] \in {0, xfer} => n <= Len(got[reader]) + 1 /\ n >= Len(got[reader])
        BY <1>0
      <4> QED  BY <1>0, <1>1, <3>2, <4>1, <4>2, <4>3 DEF ForClient
    <3>4. \A m \in Packet : ForClient(m) /\ SameTransfer(m, p) => m.block <= p.block
      <4>1. \A m \in Packet : m.block \in Nat
        BY BoundsAssumption DEF Packet
      <4> QED  BY <1>0, <3>2, <4>1 DEF ForClient, SameTransfer
    <3> QED  BY <1>2, <3>2, <3>3, <3>4, DownPut DEF TftpInv
  <2> QED  BY <2>1, <2>2
<1>4. TypeOK' /\ CopyIsPrefix'
  <2>1. Len(down') <= Capacity /\ Len(up') <= Capacity
    BY <1>3 DEF DownOK, UpOK
  <2>2. block' \in 0..Blocks /\ sends' \in 0..MaxSends /\ addr' \in Clients \cup {Stranger, NoClient}
    BY <1>0, <1>1, BoundsAssumption
  <2> QED  BY <1>0, <1>1, <2>1, <2>2 DEF TftpInv, TypeOK, States, CopyIsPrefix
<1>5. ServerOK' /\ ClientsOK' /\ Together'
  BY <1>0, <1>1 DEF TftpInv, ServerOK, ClientsOK, Together
<1> QED  BY <1>3, <1>4, <1>5 DEF TftpInv

LEMMA OackAnsweredKeeps ==
  ASSUME TftpInv, OackAnswered, UNCHANGED network
  PROVE  TftpInv'
<1>0. PICK r \in Received :
        \/ /\ SendBlock(r.packet.from, xfer, 1, 1) /\ up' = r.rest /\ UNCHANGED <<reader, misled>>
        \/ Close
  BY DEF OackAnswered
<1>1. /\ state = "oack" /\ UNCHANGED <<inbox, clientVars, done>>
      /\ r.rest \in Seq(Answer) /\ Len(r.rest) <= Capacity /\ Drawn(r.rest, up)
      /\ r.packet.from \in {reader, Stranger}
  BY ReceivedFacts DEF OackAnswered
<1>2. CASE Close
  BY <1>1, <1>2, CloseKeeps DEF TftpInv, TypeOK
<1>3. CASE /\ SendBlock(r.packet.from, xfer, 1, 1) /\ up' = r.rest /\ UNCHANGED <<reader, misled>>
  <2>1. /\ block = 0 /\ network \in Networks /\ reader \in Clients /\ misled \in BOOLEAN
        /\ misled => network.strays
        /\ tid[reader] = xfer /\ ~misled => got[reader] = <<>>
    BY <1>1 DEF TftpInv, TypeOK, Together, ServerOK
  <2>2. state' = "data" /\ block' = 1 /\ xfer' = xfer
    BY <1>3 DEF SendBlock
  <2>3. Wire(0) = 0 /\ Wire(0) # Wire(1)
    BY <2>1, WireFacts
  <2>4. ASSUME NEW k \in DOMAIN up'
        PROVE  up # <<>> /\ up'[k].from = reader /\ (up'[k].type = "ACK" /\ ~misled => up'[k].wire = 0)
    <3>1. PICK j \in DOMAIN up : up'[k] = up[j]
      BY <1>1, <1>3, <2>4 DEF Drawn
    <3>2. ForServer(up[j])
      BY DEF TftpInv, UpOK
    <3> QED  BY <1>1, <3>1, <3>2 DEF ForServer
  <2>5. ASSUME NEW k \in DOMAIN up' PROVE ForServer(up[k])'
    <3>1. 1 - 1 = 0 /\ Len(got[reader]) \in Nat
      BY <2>1 DEF TftpInv, TypeOK
    <3> QED  BY <1>1, <1>3, <2>1, <2>2, <2>3, <2>4, <3>1 DEF ForServer, Wire, clientVars
  <2>6. ~misled => AcksInOrder(up', Wire(1))
    BY <2>3, <2>4 DEF AcksInOrder
  <2>7. up' # <<>> => tid[reader] = xfer
    <3>1. up' # <<>> => up # <<>>
      BY <1>1, <1>3 DEF Drawn
    <3> QED  BY <1>1, <3>1 DEF TftpInv, UpOK
  <2>8. UpOK'
    BY <1>1, <1>3, <2>1, <2>2, <2>5, <2>6, <2>7 DEF UpOK, AcksInOrder, Wire, clientVars
  <2>9. 1 \in 1..Blocks /\ 1 \in 1..MaxSends
    BY BoundsAssumption
  <2>10. ~misled' => IF tid[reader] = xfer THEN Len(got[reader]) \in {1 - 1, 1} ELSE 1 = 1
    BY <1>3, <2>1
  <2> QED  BY <1>1, <1>3, <2>1, <2>8, <2>9, <2>10, SendKeeps
<1> QED  BY <1>0, <1>2, <1>3

\* What is behind the acknowledgement of a block tells of no later one.
LEMMA BehindAck ==
  ASSUME TftpInv, state = "data", ~misled, NEW i \in Arriving(up),
         up[i].type = "ACK", up[i].wire = Wire(block), block < Blocks,
         NEW k \in DOMAIN RemoveAt(up, i), RemoveAt(up, i)[k].type = "ACK"
  PROVE  LET w == RemoveAt(up, i)[k].wire
         IN  /\ w # Wire(block + 1)
             /\ IF network.reorder THEN w <= Len(got[reader]) ELSE w = Wire(block)
<1> DEFINE m == RemoveAt(up, i)[k]
<1>1. /\ up \in Seq(Answer) /\ i \in DOMAIN up /\ network \in Networks /\ block \in Nat
      /\ Len(got[reader]) = block
  BY Acked, BoundsAssumption DEF TftpInv, TypeOK, UpOK, Arriving
<1>2. PICK j \in DOMAIN up : m = up[j] /\ (i = 1 => j > i)
  <2>1. /\ DOMAIN RemoveAt(up, i) = 1 .. Len(up) - 1 /\ DOMAIN up = 1 .. Len(up) /\ Len(up) \in Nat
        /\ m = IF k < i THEN up[k] ELSE up[k + 1]
    BY <1>1, Removed
  <2>2. CASE k < i
    BY <2>1, <2>2
  <2>3. CASE ~(k < i)
    <3>1. k + 1 \in DOMAIN up /\ k + 1 > 1
      BY <2>1
    <3> QED  BY <2>1, <2>3, <3>1
  <2> QED  BY <2>2, <2>3
<1> HIDE DEF m
<1>3. ForServer(m) /\ m.type = "ACK"
  BY <1>2 DEF TftpInv, UpOK, m
<1>4. CASE network.reorder
  <2>1. Wire(block + 1) = block + 1 /\ m.wire <= block
    <3>1. block + 1 \in 0..Blocks
      BY <1>1, BoundsAssumption
    <3>2. Wire(block + 1) = block + 1
      BY <1>1, <1>4, <3>1, NetworkFacts, WireFacts
    <3>3. m.wire <= block
      BY <1>1, <1>3, <1>4 DEF ForServer
    <3> QED  BY <3>2, <3>3
  <2>2. m.wire \in Nat
    <3>1. m \in Answer
      BY <1>1, <1>2
    <3> QED  BY <3>1 DEF Answer
  <2> QED  BY <1>1, <1>4, <2>1, <2>2 DEF m
<1>5. CASE ~network.reorder
  <2>1. i = 1
    BY <1>5 DEF Arriving
  <2>2. m.wire = Wire(block)
    BY <1>1, <1>2, <1>3, <1>5, <2>1 DEF TftpInv, UpOK, AcksInOrder
  <2> QED  BY <1>1, <1>5, <2>2, WireFacts DEF m
<1> QED  BY <1>4, <1>5

LEMMA BlockAckedKeeps ==
  ASSUME TftpInv, BlockAcked, UNCHANGED network
  PROVE  TftpInv'
<1>0. PICK r \in Received :
        /\ r.packet.type = "ACK" /\ r.packet.wire = Wire(block)
        /\ PassBlock(r.packet, r.rest)
  BY DEF BlockAcked
<1>1. /\ state = "data" /\ UNCHANGED <<inbox, clientVars>> /\ up \in Seq(Answer)
      /\ block \in Nat /\ network \in Networks /\ misled \in BOOLEAN
      /\ misled => network.strays
  BY BoundsAssumption DEF BlockAcked, TftpInv, UpOK, TypeOK, ServerOK
<1>2. /\ r.rest \in Seq(Answer) /\ Len(r.rest) <= Capacity /\ Drawn(r.rest, up)
      /\ r.packet.from \in {reader, Stranger} /\ (r.packet.from = Stranger => network.strays)
      /\ reader \in Clients
  BY <1>1, ReceivedFacts DEF TftpInv, ServerOK
<1>3. CASE block < Blocks
  <2>1. /\ SendBlock(r.packet.from, xfer, block + 1, 1) /\ up' = r.rest
        /\ misled' = (misled \/ r.packet.from = Stranger) /\ UNCHANGED <<reader, done>>
    BY <1>0, <1>3 DEF PassBlock
  <2>2. state' = "data" /\ block' = block + 1 /\ xfer' = xfer
    BY <2>1 DEF SendBlock
  <2>3. block + 1 \in 1..Blocks /\ block <= block + 1 /\ 1 \in 1..MaxSends /\ (block + 1) - 1 = block
    BY <1>1, <1>3, BoundsAssumption
  <2>4. ASSUME NEW k \in DOMAIN up' PROVE up'[k].from = reader
    <3>1. PICK j \in DOMAIN up : up'[k] = up[j]
      BY <1>2, <2>1, <2>4 DEF Drawn
    <3>2. ForServer(up[j])
      BY DEF TftpInv, UpOK
    <3> QED  BY <1>1, <3>1, <3>2 DEF ForServer
  <2>5. up' # <<>> => tid[reader] = xfer
    <3>1. up' # <<>> => up # <<>>
      BY <1>2, <2>1 DEF Drawn
    <3> QED  BY <1>1, <3>1 DEF TftpInv, UpOK
  <2>6. CASE misled'
    <3>1. ASSUME NEW k \in DOMAIN up' PROVE ForServer(up[k])'
      BY <2>1, <2>4, <2>6 DEF ForServer
    <3>2. UpOK'
      BY <1>1, <1>2, <2>1, <2>2, <2>5, <2>6, <3>1 DEF UpOK, AcksInOrder, Wire, clientVars
    <3>3. misled' \in BOOLEAN /\ (misled => misled') /\ network.strays
      BY <1>1, <1>2, <2>1, <2>6
    <3> QED  BY <1>1, <1>2, <2>1, <2>3, <2>6, <3>2, <3>3, SendKeeps
  <2>7. CASE ~misled'
    <3>1. ~misled /\ r.packet.from # Stranger
      BY <2>1, <2>7
    <3>2. PICK i \in Arriving(up) : r = [packet |-> up[i], rest |-> RemoveAt(up, i)]
      BY <1>1, <3>1, ReceivedFacts
    <3>3. /\ i \in DOMAIN up /\ up[i].type = "ACK" /\ up[i].wire = Wire(block)
          /\ up' = RemoveAt(up, i)
      BY <1>0, <2>1, <3>2 DEF Arriving
    <3>4. tid[reader] = xfer /\ Len(got[reader]) = block
      BY <1>1, <3>1, <3>3, Acked
    <3>5. ASSUME NEW k \in DOMAIN up', up'[k].type = "ACK"
          PROVE  /\ up'[k].wire # Wire(block + 1)
                 /\ IF network.reorder THEN up'[k].wire <= Len(got[reader])
                                       ELSE up'[k].wire = Wire(block)
      BY <1>1, <1>3, <3>1, <3>3, <3>5, BehindAck
    <3>6. ASSUME NEW k \in DOMAIN up' PROVE ForServer(up[k])'
      <4>1. network.reorder \in BOOLEAN
        BY <1>1, NetworkFacts
      <4> QED  BY <1>1, <2>1, <2>2, <2>3, <2>4, <3>5, <4>1 DEF ForServer, Wire, clientVars
    <3>7. AcksInOrder(up', Wire(block + 1))
      BY <3>5 DEF AcksInOrder
    <3>8. UpOK'
      BY <1>1, <1>2, <2>1, <2>2, <2>5, <3>6, <3>7 DEF UpOK, AcksInOrder, Wire, clientVars
    <3>9. misled' \in BOOLEAN /\ (misled => misled') /\ (misled' => network.strays)
      BY <2>1, <2>7, <3>1
    <3> QED  BY <1>1, <1>2, <2>1, <2>3, <3>4, <3>8, <3>9, SendKeeps
  <2> QED  BY <2>6, <2>7
<1>4. CASE ~(block < Blocks)
  <2>1. Close /\ done' \in {done, done \cup {reader}}
    BY <1>0, <1>4 DEF PassBlock
  <2>2. done' \subseteq Clients
    BY <1>2, <2>1 DEF TftpInv, TypeOK
  <2> QED  BY <1>1, <2>1, <2>2, CloseKeeps
<1> QED  BY <1>3, <1>4

LEMMA SendAgainKeeps ==
  ASSUME TftpInv, state = "data", NEW a \in {reader, Stranger},
         NEW rest \in Seq(Answer), Len(rest) <= Capacity, Drawn(rest, up),
         SendAgainOrGiveUp(a, rest), UNCHANGED <<network, inbox, clientVars, done>>
  PROVE  TftpInv'
<1>1. CASE sends < MaxSends
  <2>1. SendBlock(a, xfer, block, sends + 1) /\ up' = rest /\ UNCHANGED <<reader, misled>>
    BY <1>1 DEF SendAgainOrGiveUp
  <2>2. state' = "data" /\ block' = block /\ xfer' = xfer
    BY <2>1 DEF SendBlock
  <2>3. \A m \in Answer : ForServer(m) => ForServer(m)'
    BY <2>1, <2>2 DEF ForServer, Wire, clientVars
  <2>4. up' # <<>> => tid[reader] = xfer
    <3>1. up' # <<>> => up # <<>>
      BY <2>1 DEF Drawn
    <3> QED  BY <3>1 DEF TftpInv, UpOK
  <2>5. UpOK'
    BY <2>1, <2>2, <2>3, <2>4, UpKept DEF TftpInv, clientVars
  <2>6. block \in 1..Blocks /\ sends + 1 \in 1..MaxSends /\ block <= block
    BY <1>1, BoundsAssumption DEF TftpInv, TypeOK, ServerOK
  <2>7. /\ misled' \in BOOLEAN /\ (misled => misled') /\ (misled' => network.strays)
        /\ ~misled' => IF tid[reader] = xfer THEN Len(got[reader]) \in {block - 1, block} ELSE block = 1
    BY <2>1 DEF TftpInv, TypeOK, ServerOK, Together
  <2> QED  BY <2>1, <2>5, <2>6, <2>7, SendKeeps
<1>2. CASE ~(sends < MaxSends)
  BY <1>2, CloseKeeps DEF SendAgainOrGiveUp, TftpInv, TypeOK
<1> QED  BY <1>1, <1>2

LEMMA HandleKeeps ==
  ASSUME TftpInv, HandleStep, UNCHANGED network
  PROVE  TftpInv'
<1>1. CASE OackTimeout
  BY <1>1, CloseKeeps DEF OackTimeout, TftpInv, TypeOK
<1>2. CASE ClientError
  BY <1>2, CloseKeeps DEF ClientError, TftpInv, TypeOK
<1>3. CASE ShortPacket
  BY <1>3, CloseKeeps DEF ShortPacket, TftpInv, TypeOK
<1>4. CASE OtherAnswer
  <2>1. PICK r \in Received : SendAgainOrGiveUp(r.packet.from, r.rest)
    BY <1>4 DEF OtherAnswer
  <2>2. /\ r.rest \in Seq(Answer) /\ Len(r.rest) <= Capacity /\ Drawn(r.rest, up)
        /\ r.packet.from \in {reader, Stranger}
    BY <1>4, ReceivedFacts DEF OtherAnswer
  <2> QED  BY <1>4, <2>1, <2>2, SendAgainKeeps DEF OtherAnswer
<1>5. CASE DataTimeout
  <2>1. addr \in {reader, Stranger} /\ up \in Seq(Answer) /\ Len(up) <= Capacity /\ Drawn(up, up)
    BY <1>5, DrawnSame DEF DataTimeout, TftpInv, ServerOK, UpOK
  <2> QED  BY <1>5, <2>1, SendAgainKeeps DEF DataTimeout
<1> QED
  BY <1>1, <1>2, <1>3, <1>4, <1>5, OackAnsweredKeeps, BlockAckedKeeps DEF HandleStep

\* The server ends before it has opened a transfer.
LEMMA RequestEndsServer ==
  ASSUME TftpInv, ShortRequest \/ \E c \in Clients : BadSize(c), UNCHANGED network
  PROVE  TftpInv'
<1>1. CASE ShortRequest
  BY <1>1, CloseKeeps DEF ShortRequest, TftpInv, TypeOK
<1>2. ASSUME NEW c \in Clients, BadSize(c) PROVE TftpInv'
  <2>1. /\ inbox[c] > 0 /\ inbox' = [inbox EXCEPT ![c] = @ - 1] /\ Leave /\ running' \in BOOLEAN
        /\ UNCHANGED <<clientVars, done>>
    BY <1>2 DEF BadSize, Raise
  <2>2. inbox' \in [Clients -> 0..MaxAsks] /\ \A d \in Clients : inbox'[d] <= asks[d]
    BY <2>1, Types DEF TftpInv, ClientsOK
  <2> QED  BY <2>1, <2>2, LeaveKeeps DEF TftpInv, TypeOK
<1> QED  BY <1>1, <1>2

\* A new transfer has a number that no packet and no client has.
LEMMA ServeKeeps ==
  ASSUME TftpInv, NEW c \in Clients, Serve(c), UNCHANGED network
  PROVE  TftpInv'
<1> USE DEF clientVars
<1>0. /\ state = "idle" /\ up = <<>> /\ inbox[c] > 0 /\ xfer < network.transfers
      /\ kind[c] \in {"options", "plain"} /\ inbox' = [inbox EXCEPT ![c] = @ - 1]
      /\ reader' = c /\ addr' = c /\ misled' = FALSE /\ xfer' = xfer + 1
      /\ UNCHANGED <<running, up, clientVars, done>>
      /\ xfer \in Nat /\ network \in Networks /\ Len(got[c]) \in Nat /\ tid[c] <= xfer
      /\ tid \in [Clients -> Nat]
      /\ tid[c] = 0 => got[c] = <<>>
  <2>1. /\ state = "idle" /\ inbox[c] > 0 /\ xfer < network.transfers
        /\ kind[c] \in {"options", "plain"} /\ inbox' = [inbox EXCEPT ![c] = @ - 1]
        /\ reader' = c /\ misled' = FALSE /\ UNCHANGED <<up, clientVars, done>>
    BY DEF Serve
  <2>2. addr' = c /\ xfer' = xfer + 1 /\ UNCHANGED running
    BY DEF Serve, SendBlock
  <2>3. /\ xfer \in Nat /\ network \in Networks /\ Len(got[c]) \in Nat /\ tid \in [Clients -> Nat]
    BY Types DEF TftpInv, TypeOK
  <2> QED  BY <2>1, <2>2, <2>3 DEF TftpInv, ServerOK, ClientsOK
<1>1. PICK p \in Packet :
        /\ p.to = c /\ p.tid = xfer + 1 /\ down' = Put(down, p)
        /\ \/ p.type = "OACK" /\ state' = "oack" /\ block' = 0 /\ sends' = 0
           \/ /\ p.type = "DATA" /\ p.block = 1 /\ p.wire = Wire(1)
              /\ state' = "data" /\ block' = 1 /\ sends' = 1
  <2>1. Wire(1) \in Nat /\ 1 \in 0..Blocks /\ xfer + 1 \in Nat /\ 0 \in 0..Blocks
    BY <1>0, WireFacts, BoundsAssumption
  <2>2. CASE kind[c] = "options"
    <3> DEFINE p == [Oack(c) EXCEPT !.tid = xfer + 1]
    <3>1. p \in Packet /\ p.to = c /\ p.tid = xfer + 1 /\ p.type = "OACK"
      BY <2>1 DEF Packet, Oack
    <3>2. state' = "oack" /\ block' = 0 /\ sends' = 0 /\ down' = Put(down, p)
      BY <2>2 DEF Serve
    <3> QED  BY <3>1, <3>2
  <2>3. CASE kind[c] # "options"
    <3> DEFINE p == Data(c, xfer + 1, 1)
    <3>1. /\ p \in Packet /\ p.to = c /\ p.tid = xfer + 1 /\ p.type = "DATA" /\ p.block = 1
          /\ p.wire = Wire(1)
      BY <2>1 DEF Packet, Data
    <3>2. state' = "data" /\ block' = 1 /\ sends' = 1 /\ down' = Put(down, p)
      BY <2>3 DEF Serve, SendBlock
    <3> QED  BY <3>1, <3>2
  <2> QED  BY <2>2, <2>3
<1>2. ASSUME NEW m \in Packet, ForClient(m) PROVE ForClient(m)'
  <2>1. m.tid \in Nat
    BY DEF Packet
  <2> QED  BY <1>0, <1>2, <2>1 DEF ForClient, InStep, Wire
<1>3. ForClient(p)'
  <2>1. p.type = "DATA" => p.wire = Wire(p.block)'
    BY <1>1 DEF Wire
  <2> QED  BY <1>0, <1>1, <2>1 DEF ForClient
<1>4. \A m \in Packet : ForClient(m) /\ SameTransfer(m, p) => m.block <= p.block
  <2>1. \A m \in Packet : m.tid \in Nat
    BY DEF Packet
  <2> QED  BY <1>0, <1>1, <2>1 DEF ForClient, SameTransfer
<1>5. DownOK'
  BY <1>1, <1>2, <1>3, <1>4, DownPut DEF TftpInv
<1>6. TypeOK' /\ CopyIsPrefix'
  <2>1. Len(down') <= Capacity
    BY <1>5 DEF DownOK
  <2>2. xfer' \in 0..MaxTransfers
    <3>1. network.transfers \in 0..MaxTransfers
      BY <1>0, NetworksAssumption DEF NetworkType
    <3> QED  BY <1>0, <3>1, BoundsAssumption
  <2>3. block' \in 0..Blocks /\ sends' \in 0..MaxSends /\ state' \in States
    BY <1>1, BoundsAssumption DEF States
  <2>4. inbox' \in [Clients -> 0..MaxAsks]
    BY <1>0, BoundsAssumption DEF TftpInv, TypeOK
  <2> QED  BY <1>0, <2>1, <2>2, <2>3, <2>4 DEF TftpInv, TypeOK, CopyIsPrefix
<1>7. ServerOK' /\ Together'
  BY <1>0, <1>1 DEF TftpInv, ServerOK, Together
<1>8. ClientsOK'
  <2>1. \A d \in Clients : inbox[d] \in Int /\ asks[d] \in Int /\ inbox'[d] <= inbox[d]
    BY <1>0 DEF TftpInv, TypeOK
  <2> QED  BY <1>0, <2>1 DEF TftpInv, TypeOK, ClientsOK
<1>9. UpOK'
  BY <1>0 DEF TftpInv, UpOK, AcksInOrder
<1> QED  BY <1>5, <1>6, <1>7, <1>8, <1>9 DEF TftpInv

\* The steps that change nothing but the requests, and who has asked.
LEMMA RequestsKeep ==
  ASSUME TftpInv, TypeOK', ClientsOK', DownOK', UNCHANGED <<network, serverVars, up, tid, got, done>>
  PROVE  TftpInv'
<1>1. UpOK'
  BY DEF TftpInv, UpOK, ForServer, AcksInOrder, Wire, serverVars
<1> QED
  BY <1>1 DEF TftpInv, ServerOK, Together, CopyIsPrefix, serverVars

LEMMA RefuseKeeps ==
  ASSUME TftpInv, NEW c \in Clients, RefuseRequest(c), UNCHANGED network
  PROVE  TftpInv'
<1> USE DEF clientVars, serverVars
<1>0. /\ state = "idle" /\ inbox[c] > 0 /\ inbox' = [inbox EXCEPT ![c] = @ - 1]
      /\ down' = Put(down, Error(c)) /\ UNCHANGED <<serverVars, up, clientVars, done>>
      /\ xfer \in Nat
  BY DEF RefuseRequest, TftpInv, TypeOK
<1>1. PICK p \in Packet : p = Error(c)
  <2>1. 0 \in 0..Blocks /\ 0 \in Nat
    BY BoundsAssumption
  <2>2. Error(c) \in Packet
    BY <2>1 DEF Error, Packet
  <2> QED  BY <2>2
<1>2. p.tid = 0 /\ p.type = "ERROR" /\ down' = Put(down, p)
  BY <1>0, <1>1 DEF Error
<1>3. \A m \in Packet : ForClient(m) => ForClient(m)'
  BY <1>0 DEF ForClient, InStep, Wire
<1>4. ForClient(p)' /\ \A m \in Packet : ~SameTransfer(m, p)
  BY <1>0, <1>2 DEF ForClient, SameTransfer
<1>5. DownOK'
  BY <1>2, <1>3, <1>4, DownPut DEF TftpInv
<1>6. TypeOK' /\ ClientsOK'
  <2>1. Len(down') <= Capacity
    BY <1>5 DEF DownOK
  <2>2. inbox' \in [Clients -> 0..MaxAsks] /\ \A d \in Clients : inbox'[d] <= asks[d]
    BY <1>0, Types DEF TftpInv, ClientsOK
  <2> QED  BY <1>0, <2>1, <2>2 DEF TftpInv, TypeOK, ClientsOK
<1> QED  BY <1>0, <1>5, <1>6, RequestsKeep

-----------------------------------------------------------------------------
(* The clients.                                                            *)

LEMMA AskKeeps ==
  ASSUME TftpInv, NEW c \in Clients, Ask(c), UNCHANGED network
  PROVE  TftpInv'
<1>1. DownOK'
  BY DEF Ask, serverVars, TftpInv, DownOK, ForClient, InStep, BlocksInOrder, SameTransfer, Wire
<1>2. \A d \in Clients : inbox[d] \in Nat /\ asks[d] \in Nat /\ inbox[d] <= asks[d] /\ asks[d] <= MaxAsks
  BY BoundsAssumption DEF TftpInv, TypeOK, ClientsOK
<1>3. /\ inbox' = [inbox EXCEPT ![c] = @ + 1] /\ asks' = [asks EXCEPT ![c] = @ + 1]
      /\ asks[c] < MaxAsks /\ UNCHANGED <<serverVars, down, up, kind, tid, got, done>>
      /\ client[c] \in {"new", "asked"} /\ client' = [client EXCEPT ![c] = "asked"]
  BY DEF Ask
<1>4. /\ inbox' \in [Clients -> 0..MaxAsks] /\ asks' \in [Clients -> 0..MaxAsks]
      /\ \A d \in Clients : inbox'[d] <= asks'[d]
  BY <1>2, <1>3, Types DEF TftpInv
<1>5. TypeOK'
  BY <1>3, <1>4 DEF serverVars, TftpInv, TypeOK
<1>6. ClientsOK'
  BY <1>3, <1>4 DEF serverVars, TftpInv, TypeOK, ClientsOK
<1> QED  BY <1>1, <1>3, <1>5, <1>6, RequestsKeep

\* A packet is taken from the network, and the rest may still come.
LEMMA DownRemoved ==
  ASSUME DownOK, UNCHANGED network, NEW i \in DOMAIN down, down' = RemoveAt(down, i),
         \A j \in DOMAIN down : \A m \in Packet :
           j # i /\ m = down[j] /\ (i = 1 => i < j) /\ ForClient(m) => ForClient(m)'
  PROVE  DownOK'
<1>1. /\ down \in Seq(Packet) /\ Len(down) <= Capacity /\ Len(down) \in Nat
      /\ DOMAIN down = 1 .. Len(down) /\ i \in Int
  BY DEF DownOK
<1>2. /\ down' \in Seq(Packet) /\ Len(down') = Len(down) - 1 /\ DOMAIN down' = 1 .. Len(down) - 1
      /\ \A k \in DOMAIN down' : down'[k] = IF k < i THEN down[k] ELSE down[k + 1]
  <2> DEFINE t == RemoveAt(down, i)
  <2>1. /\ t \in Seq(Packet) /\ Len(t) = Len(down) - 1
        /\ \A k \in DOMAIN t : t[k] = IF k < i THEN down[k] ELSE down[k + 1]
    BY <1>1, Removed
  <2>2. down' = t
    OBVIOUS
  <2> HIDE DEF t
  <2> QED  BY <2>1, <2>2
<1>3. Len(down') <= Capacity
  BY <1>1, <1>2, BoundsAssumption
<1>4. ASSUME NEW k \in DOMAIN down' PROVE ForClient(down[k])'
  <2>1. PICK j \in DOMAIN down : down'[k] = down[j] /\ j # i /\ (i = 1 => i < j)
    <3>1. CASE k < i
      BY <1>1, <1>2, <3>1
    <3>2. CASE ~(k < i)
      <4>1. k + 1 \in DOMAIN down /\ k + 1 # i /\ (i = 1 => i < k + 1)
        BY <1>1, <1>2, <3>2
      <4> QED  BY <1>2, <3>2, <4>1
    <3> QED  BY <3>1, <3>2
  <2>2. PICK m \in Packet : m = down[j]
    BY <1>1
  <2>3. ForClient(m)'
    BY <2>1, <2>2 DEF DownOK
  <2> QED  BY <2>1, <2>2, <2>3 DEF ForClient
<1>5. ~network.reorder => BlocksInOrder(down')
  BY <1>1, <1>2, RemovedIsDrawn, DrawnKeepsOrder DEF DownOK
<1> QED  BY <1>2, <1>3, <1>4, <1>5 DEF DownOK, BlocksInOrder, SameTransfer

\* Client c of transfer x acknowledges block n.  If the transfer is open and no
\* stranger has acknowledged a block, it has that block, as its last one if the
\* network keeps the order.
LEMMA AckPut ==
  ASSUME TftpInv, NEW c \in Clients, NEW x \in Nat, x >= 1, NEW n \in Nat,
         UNCHANGED <<network, serverVars>>,
         up' = IF x = xfer /\ state # "idle" THEN Put(up, Ack(c, Wire(n))) ELSE up,
         tid[c] \in {0, x}, tid' = [tid EXCEPT ![c] = x],
         \A d \in Clients : d # c => got'[d] = got[d],
         got'[c] \in Seq(1..Blocks), Len(got'[c]) <= Blocks, Len(got[c]) <= Len(got'[c]),
         x = xfer /\ state # "idle" /\ ~misled =>
           n <= Len(got'[c]) /\ (~network.reorder => n = Len(got'[c])),
         ClientsOK', Together'
  PROVE  UpOK'
<1> USE DEF serverVars
<1>0. /\ up \in Seq(Answer) /\ Len(up) <= Capacity /\ network \in Networks
      /\ got \in [Clients -> Seq(1..Blocks)] /\ block \in Nat /\ Len(got'[c]) \in Nat
      /\ Len(got[c]) \in Nat /\ tid \in [Clients -> Nat] /\ block <= Blocks
      /\ \A i \in DOMAIN up : ForServer(up[i])
      /\ state # "idle" => reader \in Clients /\ xfer >= 1
      /\ state # "idle" /\ up # <<>> => tid[reader] = xfer
      /\ tid'[c] = x /\ Blocks \in Nat /\ Wire(0) = 0 /\ misled \in BOOLEAN
  <2>1. block \in Nat /\ block <= Blocks /\ Blocks \in Nat
    BY BoundsAssumption DEF TftpInv, TypeOK
  <2>2. tid \in [Clients -> Nat] /\ tid'[c] = x
    BY BoundsAssumption DEF TftpInv, TypeOK
  <2>3. network \in Networks /\ Wire(0) = 0 /\ misled \in BOOLEAN
    BY WireFacts DEF TftpInv, TypeOK
  <2>4. got \in [Clients -> Seq(1..Blocks)] /\ Len(got[c]) \in Nat
    BY Types DEF TftpInv
  <2>5. Len(got'[c]) \in Nat
    <3> HIDE DEF serverVars
    <3> QED  BY LenProperties
  <2> QED  BY <2>1, <2>2, <2>3, <2>4, <2>5 DEF TftpInv, UpOK, ServerOK
<1>1. CASE up = <<>> /\ ~(x = xfer /\ state # "idle")
  BY <1>0, <1>1 DEF UpOK, AcksInOrder
<1>2. CASE state = "idle"
  BY <1>1, <1>2 DEF TftpInv, ServerOK
<1>3. CASE state # "idle" /\ up # <<>> /\ c # reader
  <2>1. got'[reader] = got[reader] /\ tid'[reader] = tid[reader]
    BY <1>0, <1>3
  <2>2. ~(x = xfer)
    BY <1>0, <1>3 DEF ClientsOK
  <2> QED  BY <1>3, <2>1, <2>2 DEF TftpInv, UpOK, ForServer, AcksInOrder, Wire
<1>4. CASE x = xfer /\ state # "idle"
  <2> DEFINE l == Len(got'[c])
  <2>1. c = reader /\ tid'[reader] = xfer
    BY <1>0, <1>4 DEF ClientsOK
  <2>2. /\ state = "oack" /\ ~misled => l = 0
        /\ state = "data" /\ ~misled => l \in {block - 1, block} /\ block >= 1
    BY <1>0, <2>1 DEF Together, TftpInv, ServerOK
  <2>3. network.reorder \in BOOLEAN /\ Wire(n) \in Nat
    BY <1>0, NetworkFacts, WireFacts
  <2>4. PICK p \in Answer : p = Ack(c, Wire(n))
    BY <2>3 DEF Ack, Answer
  <2>5. p.type = "ACK" /\ p.wire = Wire(n) /\ p.from = c /\ up' = Put(up, p)
    BY <1>4, <2>4 DEF Ack
  <2>6. ForServer(p)'
    <3>1. ASSUME state = "oack", ~misled PROVE p.wire = 0
      <4>1. n = 0
        BY <1>0, <1>4, <2>2, <3>1
      <4> QED  BY <1>0, <2>5, <4>1
    <3>2. ASSUME state = "data", ~misled, network.reorder
          PROVE  p.wire <= l /\ (p.wire = Wire(block) => l = block)
      <4>1. n \in 0..Blocks /\ block \in 0..Blocks /\ n <= l
        <5>1. l <= Blocks /\ n <= l
          BY <1>4, <3>2
        <5> QED  BY <1>0, <2>2, <3>2, <5>1
      <4>2. Wire(n) = n /\ Wire(block) = block
        BY <1>0, <3>2, <4>1, NetworkFacts, WireFacts
      <4> QED  BY <1>0, <2>2, <2>5, <3>2, <4>1, <4>2
    <3>3. ASSUME state = "data", ~misled, ~network.reorder
          PROVE  p.wire \in {Wire(block - 1), Wire(block)} /\ (p.wire = Wire(block) => l = block)
      <4>1. block - 1 \in Nat /\ block = (block - 1) + 1 /\ n = l
        BY <1>0, <1>4, <2>2, <3>3
      <4>2. Wire(block - 1) # Wire(block)
        BY <1>0, <4>1, WireFacts
      <4> QED  BY <2>2, <2>5, <3>3, <4>1, <4>2
    <3> QED  BY <2>1, <2>3, <2>5, <3>1, <3>2, <3>3 DEF ForServer, Wire
  <2>7. ASSUME NEW m \in Answer, ForServer(m) PROVE ForServer(m)'
    <3>1. m.wire \in Nat
      BY DEF Answer
    <3>2. Len(got[reader]) <= l /\ Len(got[reader]) \in Nat
      BY <1>0, <2>1
    <3> QED  BY <1>0, <2>1, <2>2, <2>3, <2>7, <3>1, <3>2 DEF ForServer, Wire
  <2>8. /\ up' \in Seq(Answer) /\ Len(up') <= Capacity
        /\ \/ up' = up
           \/ /\ DOMAIN up' = 1 .. Len(up) + 1 /\ DOMAIN up = 1 .. Len(up)
              /\ \A k \in DOMAIN up : up'[k] = up[k]
              /\ up'[Len(up) + 1] = p
    <3> DEFINE t == Put(up, p)
    <3>1. /\ t \in Seq(Answer) /\ Len(t) <= Capacity
          /\ \/ t = up
             \/ /\ DOMAIN t = 1 .. Len(up) + 1 /\ DOMAIN up = 1 .. Len(up)
                /\ \A k \in DOMAIN up : t[k] = up[k]
                /\ t[Len(up) + 1] = p
      BY <1>0, PutFacts
    <3>2. up' = t
      BY <2>5
    <3> HIDE DEF t
    <3> QED  BY <3>1, <3>2
  <2>9. ASSUME NEW k \in DOMAIN up' PROVE ForServer(up[k])' /\ (k \in DOMAIN up => up'[k] = up[k])
    <3>1. CASE k \in DOMAIN up
      <4>1. PICK m \in Answer : m = up[k]
        BY <1>0, <3>1
      <4>2. ForServer(m)' /\ up'[k] = m
        BY <1>0, <2>7, <2>8, <3>1, <4>1
      <4> QED  BY <4>1, <4>2 DEF ForServer
    <3>2. CASE k \notin DOMAIN up
      <4>1. up'[k] = p
        BY <1>0, <2>8, <2>9, <3>2
      <4> QED  BY <2>6, <3>2, <4>1 DEF ForServer
    <3> QED  BY <3>1, <3>2
  <2>10. ASSUME ~network.reorder, state = "data", ~misled PROVE AcksInOrder(up', Wire(block))
    <3> SUFFICES ASSUME NEW j \in DOMAIN up', NEW k \in DOMAIN up', j < k, up'[j].type = "ACK",
                        up'[k].type = "ACK", up'[j].wire = Wire(block)
                 PROVE  up'[k].wire = Wire(block)
      BY DEF AcksInOrder
    <3>1. j \in DOMAIN up /\ up'[j] = up[j]
      BY <1>0, <2>8
    <3>2. CASE k \in DOMAIN up
      BY <2>9, <2>10, <3>1, <3>2 DEF TftpInv, UpOK, AcksInOrder
    <3>3. CASE k \notin DOMAIN up
      <4>1. up'[k] = p
        BY <1>0, <2>8, <3>3
      <4>2. Len(got[reader]) = block
        BY <1>0, <2>10, <3>1 DEF ForServer
      <4>3. n = block
        BY <1>0, <1>4, <2>1, <2>2, <2>10, <4>2
      <4> QED  BY <2>5, <4>1, <4>3
    <3> QED  BY <3>2, <3>3
  <2> QED  BY <1>4, <2>1, <2>8, <2>9, <2>10 DEF UpOK, AcksInOrder, Wire
<1>5. CASE state # "idle" /\ up # <<>> /\ c = reader
  BY <1>0, <1>4, <1>5
<1> QED  BY <1>1, <1>2, <1>3, <1>4, <1>5

\* A packet that a client takes is of the transfer it has locked on to, or it
\* locks on to that one now.
LEMMA MineFacts ==
  ASSUME TftpInv, NEW c \in Clients, NEW i \in Arriving(down), NEW m, m = down[i], Mine(c, m)
  PROVE  /\ m \in Packet /\ ForClient(m) /\ i \in DOMAIN down /\ (~network.reorder => i = 1)
         /\ m.to = c /\ m.tid \in Nat /\ m.tid >= 1 /\ m.tid <= xfer
         /\ tid[c] \in {0, m.tid} /\ (tid[c] = 0 => got[c] = <<>>)
         /\ m.tid = xfer /\ state # "idle" => c = reader
<1>1. i \in DOMAIN down /\ (~network.reorder => i = 1)
  BY DEF Arriving
<1>2. m \in Packet /\ ForClient(m)
  BY <1>1 DEF TftpInv, DownOK
<1>3. /\ tid[c] = 0 => got[c] = <<>>
      /\ client[c] \in {"new", "asked"} => tid[c] = 0
      /\ client[c] \in {"open", "complete"} => tid[c] # 0
  BY DEF TftpInv, ClientsOK
<1>4. m.to = c /\ m.tid \in Nat /\ tid[c] \in {0, m.tid} /\ m.tid # 0
  BY <1>2, <1>3 DEF Mine, Packet
<1> QED  BY <1>1, <1>2, <1>3, <1>4 DEF ForClient

ClientStates == {"new", "asked", "open", "complete", "failed"}

\* What a client does when it takes a packet, apart from what it stores.
TakesFrom(c, m, rest) ==
  /\ tid' = [tid EXCEPT ![c] = m.tid]
  /\ down' = rest /\ UNCHANGED <<network, serverVars, inbox, kind, asks, done>>

LEMMA ReceiveOackKeeps ==
  ASSUME TftpInv, NEW c \in Clients, NEW i \in Arriving(down), NEW m, m = down[i],
         ReceiveOack(c, m), TakesFrom(c, m, RemoveAt(down, i))
  PROVE  TftpInv'
<1> USE DEF TakesFrom, serverVars
<1>0. /\ m \in Packet /\ ForClient(m) /\ i \in DOMAIN down
      /\ m.to = c /\ m.tid \in Nat /\ m.tid >= 1 /\ m.tid <= xfer
      /\ tid[c] \in {0, m.tid}
      /\ m.tid = xfer /\ state # "idle" => c = reader
  BY MineFacts DEF ReceiveOack
<1>1. /\ got[c] = <<>> /\ UNCHANGED got /\ client' = [client EXCEPT ![c] = "open"]
      /\ Acknowledge(c, m.tid, 0) /\ client \in [Clients -> ClientStates] /\ tid \in [Clients -> Nat]
      /\ xfer \in 0..MaxTransfers /\ MaxTransfers \in Nat /\ Blocks \in Nat \ {0}
      /\ network \in Networks
  <2>1. client \in [Clients -> ClientStates]
    BY DEF TftpInv, TypeOK, ClientStates
  <2>2. tid \in [Clients -> Nat] /\ MaxTransfers \in Nat /\ Blocks \in Nat \ {0}
    BY BoundsAssumption DEF TftpInv, TypeOK
  <2> QED  BY <2>1, <2>2 DEF ReceiveOack, TftpInv, TypeOK
<1>2. DownOK'
  <2>1. ASSUME NEW q \in Packet, ForClient(q) PROVE ForClient(q)'
    <3>1. q.to \in Clients
      BY DEF Packet
    <3> QED  BY <1>0, <1>1, <2>1, <3>1 DEF ForClient, InStep, Wire
  <2> QED  BY <1>0, <2>1, DownRemoved DEF TftpInv
<1>3. ClientsOK'
  BY <1>0, <1>1 DEF TftpInv, ClientsOK
<1>4. Together'
  BY <1>0, <1>1 DEF TftpInv, Together, ServerOK
<1>5. UpOK'
  <2>1. up' = IF m.tid = xfer /\ state # "idle" THEN Put(up, Ack(c, Wire(0))) ELSE up
    BY <1>1, WireFacts DEF Acknowledge
  <2>2. got' = got /\ got[c] = <<>> /\ 0 \in Nat
    BY <1>1
  <2>3. /\ got'[c] \in Seq(1..Blocks) /\ Len(got[c]) = 0 /\ Len(got'[c]) = 0
        /\ \A d \in Clients : d # c => got'[d] = got[d]
    BY <2>2
  <2>4. Len(got'[c]) <= Blocks /\ Len(got[c]) <= Len(got'[c]) /\ 0 <= Len(got'[c])
    BY <1>1, <2>3
  <2> QED  BY <1>0, <1>3, <1>4, <2>1, <2>2, <2>3, <2>4, AckPut
<1>6. TypeOK'
  <2>1. tid' \in [Clients -> 0..MaxTransfers]
    BY <1>0, <1>1 DEF TftpInv, TypeOK
  <2>2. client' \in [Clients -> ClientStates]
    BY <1>1 DEF ClientStates
  <2> QED  BY <1>1, <1>2, <1>5, <2>1, <2>2 DEF TftpInv, TypeOK, DownOK, UpOK, ClientStates
<1>7. ServerOK'
  BY <1>1 DEF TftpInv, ServerOK, Acknowledge
<1>8. CopyIsPrefix'
  BY <1>1 DEF TftpInv, CopyIsPrefix
<1> QED  BY <1>2, <1>3, <1>4, <1>5, <1>6, <1>7, <1>8 DEF TftpInv

\* The number on the wire is enough: it is that of the block that is due, and if
\* numbers wrap no other block of the transfer with this number can arrive.
LEMMA DueBlock ==
  ASSUME TftpInv, NEW c \in Clients, NEW i \in Arriving(down), NEW m, m = down[i],
         ReceiveNext(c, m)
  PROVE  m.block = Len(got[c]) + 1 /\ m.block \in 1..Blocks
<1> DEFINE l == Len(got[c])
<1>0. /\ m \in Packet /\ ForClient(m) /\ m.to = c /\ m.type = "DATA"
      /\ tid[c] \in {0, m.tid} /\ m.wire = Wire(l + 1)
  BY MineFacts DEF ReceiveNext
<1>1. /\ l \in Nat /\ l < Blocks /\ network \in Networks /\ Blocks \in Nat
      /\ network.reorder \in BOOLEAN
  <2>1. network \in Networks /\ network.reorder \in BOOLEAN /\ Blocks \in Nat
    BY BoundsAssumption, NetworkFacts DEF TftpInv, TypeOK
  <2>2. l \in Nat
    BY DEF TftpInv, TypeOK
  <2>3. l <= Blocks /\ l # Blocks
    BY DEF TftpInv, ClientsOK, ReceiveNext
  <2> QED  BY <2>1, <2>2, <2>3
<1>2. m.block \in Nat /\ m.block >= 1 /\ m.block <= Blocks /\ m.wire = Wire(m.block)
  <2>1. m.block \in 0..Blocks
    BY <1>0 DEF Packet
  <2> QED  BY <1>0, <1>1, <2>1 DEF ForClient
<1>3. CASE network.modulus > Blocks
  <2>1. l + 1 \in 0..Blocks /\ m.block \in 0..Blocks
    BY <1>1, <1>2
  <2>2. Wire(l + 1) = l + 1 /\ Wire(m.block) = m.block
    BY <1>1, <1>3, <2>1, WireFacts
  <2> QED  BY <1>0, <1>1, <1>2, <2>2
<1>4. CASE network.modulus <= Blocks
  <2>1. Wire(l) # Wire(l + 1) /\ ~network.reorder
    <3>1. Wire(l) # Wire(l + 1)
      BY <1>1, WireFacts
    <3>2. ~network.reorder
      BY <1>1, <1>4, NetworkFacts
    <3> QED  BY <3>1, <3>2
  <2>2. m.block <= l + 1 /\ m.block >= l
    BY <1>0, <1>4, <2>1 DEF ForClient, InStep
  <2>3. m.block # l
    BY <1>0, <1>2, <2>1
  <2> QED  BY <1>1, <1>2, <2>2, <2>3
<1> QED  BY <1>1, <1>3, <1>4, NetworkFacts

LEMMA ReceiveNextKeeps ==
  ASSUME TftpInv, NEW c \in Clients, NEW i \in Arriving(down), NEW m, m = down[i],
         ReceiveNext(c, m), TakesFrom(c, m, RemoveAt(down, i))
  PROVE  TftpInv'
<1> USE DEF TakesFrom, serverVars
<1> DEFINE l == Len(got[c])
<1>0. /\ m \in Packet /\ ForClient(m) /\ i \in DOMAIN down /\ (~network.reorder => i = 1)
      /\ m.to = c /\ m.tid \in Nat /\ m.tid >= 1 /\ m.tid <= xfer
      /\ tid[c] \in {0, m.tid} /\ m.type = "DATA"
      /\ m.tid = xfer /\ state # "idle" => c = reader
  BY MineFacts DEF ReceiveNext
<1>1. /\ tid \in [Clients -> Nat] /\ network \in Networks /\ Blocks \in Nat
      /\ client \in [Clients -> ClientStates] /\ xfer \in 0..MaxTransfers /\ block \in Nat
      /\ got \in [Clients -> Seq(1..Blocks)] /\ l \in Nat /\ network.reorder \in BOOLEAN
  <2>1. tid \in [Clients -> Nat] /\ block \in Nat /\ Blocks \in Nat
    BY BoundsAssumption DEF TftpInv, TypeOK
  <2>2. client \in [Clients -> ClientStates]
    BY DEF TftpInv, TypeOK, ClientStates
  <2>3. network \in Networks /\ network.reorder \in BOOLEAN
    BY NetworkFacts DEF TftpInv, TypeOK
  <2>4. got \in [Clients -> Seq(1..Blocks)] /\ l \in Nat
    BY DEF TftpInv, TypeOK
  <2> QED  BY <2>1, <2>2, <2>3, <2>4 DEF TftpInv, TypeOK
<1>2. m.block = l + 1 /\ m.block \in 1..Blocks
  BY DueBlock
<1>3. /\ got' = [got EXCEPT ![c] = Append(@, m.block)]
      /\ client' = [client EXCEPT ![c] = IF m.block = Blocks THEN "complete" ELSE "open"]
      /\ Acknowledge(c, m.tid, m.wire) /\ m.wire = Wire(l + 1)
  BY DEF ReceiveNext
<1>4. /\ got'[c] = Append(got[c], m.block) /\ Len(got'[c]) = l + 1
      /\ got' \in [Clients -> Seq(1..Blocks)]
      /\ \A d \in Clients : d # c => got'[d] = got[d]
  BY <1>1, <1>2, <1>3
<1>5. tid' \in [Clients -> Nat] /\ tid'[c] = m.tid /\ \A d \in Clients : d # c => tid'[d] = tid[d]
  BY <1>0, <1>1
<1>6. DownOK'
  <2>1. ASSUME NEW j \in DOMAIN down, NEW q \in Packet, j # i, q = down[j], i = 1 => i < j,
               ForClient(q)
        PROVE  ForClient(q)'
    <3>1. q.to \in Clients /\ q.block \in Nat /\ q.tid \in Nat
      BY BoundsAssumption DEF Packet
    <3>2. CASE q.to # c
      BY <1>1, <1>4, <1>5, <2>1, <3>1, <3>2 DEF ForClient, InStep, Wire
    <3>3. CASE q.to = c /\ q.type = "DATA" /\ q.tid = m.tid
      <4>1. ASSUME InStep(q) PROVE q.block <= l + 1 /\ q.block <= l + 1 + 1
        BY <1>0, <1>1, <2>1, <3>1, <3>3, <4>1 DEF ForClient
      <4>2. ~network.reorder => q.block >= l + 1
        BY <1>0, <1>2, <2>1, <3>3 DEF TftpInv, DownOK, BlocksInOrder, SameTransfer
      <4> QED  BY <1>0, <1>1, <1>4, <2>1, <3>1, <3>3, <4>1, <4>2 DEF ForClient, InStep, Wire
    <3>4. CASE q.to = c /\ (q.type # "DATA" \/ q.tid # m.tid)
      BY <1>0, <1>5, <2>1, <3>1, <3>4 DEF ForClient, InStep, Wire
    <3> QED  BY <3>2, <3>3, <3>4
  <2> QED  BY <1>0, <2>1, DownRemoved DEF TftpInv
<1>7. ClientsOK'
  <2>1. l + 1 <= Blocks /\ (l + 1 = Blocks <=> client'[c] = "complete") /\ client'[c] \in {"open", "complete"}
    BY <1>1, <1>2, <1>3
  <2>2. /\ inbox' = inbox /\ asks' = asks /\ xfer' = xfer /\ state' = state /\ reader' = reader
    OBVIOUS
  <2>3. ASSUME NEW d \in Clients, d # c
        PROVE  got'[d] = got[d] /\ tid'[d] = tid[d] /\ client'[d] = client[d]
    BY <1>3, <1>4, <1>5, <2>3
  <2>4. inbox[c] <= asks[c]
    BY DEF TftpInv, ClientsOK
  <2> SUFFICES ASSUME NEW d \in Clients
               PROVE  /\ tid'[d] <= xfer /\ inbox[d] <= asks[d] /\ Len(got'[d]) <= Blocks
                      /\ client'[d] = "complete" <=> Len(got'[d]) = Blocks
                      /\ tid'[d] = 0 => got'[d] = <<>>
                      /\ client'[d] \in {"new", "asked"} => tid'[d] = 0
                      /\ client'[d] \in {"open", "complete"} => tid'[d] # 0
                      /\ tid'[d] = xfer /\ state # "idle" => d = reader
    BY <2>2 DEF ClientsOK
  <2>5. CASE d = c
    <3>1. m.tid # 0
      BY <1>0
    <3>2. tid'[d] = xfer /\ state # "idle" => d = reader
      BY <1>0, <1>5, <2>5
    <3> QED  BY <1>0, <1>4, <1>5, <2>1, <2>4, <2>5, <3>1, <3>2
  <2>6. CASE d # c
    BY <2>3, <2>6 DEF TftpInv, ClientsOK
  <2> QED  BY <2>5, <2>6
<1>8. Together'
  <2>1. CASE state = "idle" \/ misled \/ c # reader
    BY <1>4, <1>5, <2>1 DEF TftpInv, Together, ServerOK
  <2>2. CASE state # "idle" /\ ~misled /\ c = reader /\ m.tid = xfer
    <3>1. m.block <= block /\ m.block >= 1
      BY <1>0, <2>2 DEF ForClient
    <3>2. state = "data" /\ block >= 1
      BY <1>2, <2>2, <3>1 DEF TftpInv, ServerOK, TypeOK, States
    <3>3. l + 1 >= block
      <4>1. CASE tid[c] = xfer
        BY <1>1, <2>2, <3>2, <4>1 DEF TftpInv, Together
      <4>2. CASE tid[c] # xfer
        BY <1>1, <2>2, <3>2, <4>2 DEF TftpInv, Together
      <4> QED  BY <4>1, <4>2
    <3>4. l + 1 = block
      BY <1>1, <1>2, <3>1, <3>3
    <3> QED  BY <1>4, <1>5, <2>2, <3>2, <3>4 DEF Together
  <2>3. CASE state # "idle" /\ ~misled /\ c = reader /\ m.tid # xfer
    <3>1. tid[reader] # xfer /\ tid'[reader] # xfer
      BY <1>0, <1>5, <2>3 DEF TftpInv, ServerOK
    <3> QED  BY <2>3, <3>1 DEF TftpInv, Together
  <2> QED  BY <2>1, <2>2, <2>3
<1>9. UpOK'
  <2>1. up' = IF m.tid = xfer /\ state # "idle" THEN Put(up, Ack(c, Wire(l + 1))) ELSE up
    BY <1>3 DEF Acknowledge
  <2>2. /\ l + 1 \in Nat /\ got'[c] \in Seq(1..Blocks) /\ Len(got'[c]) <= Blocks
        /\ l <= Len(got'[c]) /\ l + 1 <= Len(got'[c]) /\ l + 1 = Len(got'[c])
    BY <1>1, <1>2, <1>4
  <2> QED  BY <1>0, <1>4, <1>7, <1>8, <2>1, <2>2, AckPut
<1>10. TypeOK'
  <2>1. tid' \in [Clients -> 0..MaxTransfers]
    BY <1>0, <1>1, Types DEF TftpInv
  <2>2. client' \in [Clients -> ClientStates]
    BY <1>1, <1>3 DEF ClientStates
  <2> QED  BY <1>4, <1>6, <1>9, <2>1, <2>2 DEF TftpInv, TypeOK, DownOK, UpOK, ClientStates
<1>11. ServerOK'
  BY <1>3 DEF TftpInv, ServerOK, Acknowledge
<1>12. CopyIsPrefix'
  <2>1. got[c] = [k \in 1..l |-> k]
    BY DEF TftpInv, CopyIsPrefix
  <2>2. got'[c] = [k \in 1..l + 1 |-> k]
    BY <1>1, <1>2, <1>4, <2>1
  <2> QED  BY <1>4, <2>2 DEF TftpInv, CopyIsPrefix
<1> QED  BY <1>6, <1>7, <1>8, <1>9, <1>10, <1>11, <1>12 DEF TftpInv

LEMMA ReceiveOtherKeeps ==
  ASSUME TftpInv, NEW c \in Clients, NEW i \in Arriving(down), NEW m, m = down[i],
         ReceiveOther(c, m), TakesFrom(c, m, RemoveAt(down, i)), UNCHANGED tid
  PROVE  TftpInv'
<1> USE DEF TakesFrom, serverVars
<1> DEFINE l == Len(got[c])
<1>0. /\ m \in Packet /\ ForClient(m) /\ i \in DOMAIN down /\ m.tid \in Nat /\ m.tid >= 1
      /\ m.to = c /\ tid[c] = m.tid /\ m.type = "DATA" /\ UNCHANGED <<client, tid, got>>
      /\ m.tid \in {0, m.tid}
  <2>1. tid[c] = m.tid
    BY DEF ReceiveOther, Mine
  <2> QED  BY <2>1, MineFacts DEF ReceiveOther
<1>1. /\ l \in Nat /\ l <= Blocks /\ (client[c] = "complete" => l = Blocks) /\ Blocks \in Nat
      /\ network \in Networks /\ tid \in [Clients -> Nat] /\ got[c] \in Seq(1..Blocks)
  <2>1. tid \in [Clients -> Nat] /\ Blocks \in Nat /\ l \in Nat
    BY Types DEF TftpInv
  <2> QED  BY <2>1 DEF TftpInv, TypeOK, ClientsOK
<1>2. /\ m.block \in Nat /\ m.wire = Wire(m.block)
      /\ m.tid = xfer /\ state # "idle" /\ ~misled =>
           m.block <= l /\ (~network.reorder => m.block = l)
  <2>1. m.block \in Nat /\ m.block <= Blocks
    BY <1>1, <1>0 DEF Packet
  <2>2. /\ m.wire = Wire(m.block)
        /\ m.tid = xfer /\ state # "idle" /\ ~misled =>
             m.block <= l + 1 /\ (~network.reorder => m.block >= l)
    BY <1>0 DEF ForClient, InStep
  <2>3. m.block # l + 1
    <3>1. CASE client[c] = "complete"
      BY <1>1, <2>1, <3>1
    <3>2. CASE m.wire # Wire(l + 1)
      BY <2>2, <3>2
    <3> QED  BY <3>1, <3>2 DEF ReceiveOther
  <2> QED  BY <1>1, <2>1, <2>2, <2>3
<1>3. DownOK'
  <2>1. \A q \in Packet : ForClient(q) => ForClient(q)'
    BY <1>0 DEF ForClient, InStep, Wire
  <2> QED  BY <1>0, <2>1, DownRemoved DEF TftpInv
<1>4. ServerOK' \/ up' # up
  BY <1>0 DEF TftpInv, ServerOK
<1>5. ClientsOK' /\ Together' /\ CopyIsPrefix'
  BY <1>0 DEF TftpInv, ClientsOK, Together, CopyIsPrefix
<1>6. CASE UNCHANGED up
  <2>1. UpOK'
    BY <1>0, <1>6 DEF TftpInv, UpOK, ForServer, AcksInOrder, Wire
  <2>2. TypeOK'
    BY <1>0, <1>3, <2>1 DEF TftpInv, TypeOK, DownOK, UpOK
  <2> QED  BY <1>3, <1>4, <1>5, <1>6, <2>1, <2>2 DEF TftpInv
<1>7. CASE Acknowledge(c, m.tid, m.wire)
  <2>1. up' = IF m.tid = xfer /\ state # "idle" THEN Put(up, Ack(c, Wire(m.block))) ELSE up
    BY <1>2, <1>7 DEF Acknowledge
  <2>2. tid' = [tid EXCEPT ![c] = m.tid]
    BY <1>0, <1>1
  <2>3. UpOK'
    <3>1. /\ tid[c] \in {0, m.tid} /\ got'[c] \in Seq(1..Blocks) /\ Len(got'[c]) <= Blocks
          /\ Len(got[c]) <= Len(got'[c])
          /\ m.tid = xfer /\ state # "idle" /\ ~misled =>
               m.block <= Len(got'[c]) /\ (~network.reorder => m.block = Len(got'[c]))
      BY <1>0, <1>1, <1>2
    <3>2. \A d \in Clients : d # c => got'[d] = got[d]
      BY <1>0
    <3>3. PICK x \in Nat : x = m.tid
      BY <1>0
    <3>4. PICK n \in Nat : n = m.block
      BY <1>2
    <3>5. UNCHANGED <<network, serverVars>> /\ x >= 1
      BY <1>0, <3>3
    <3> QED  BY <1>5, <2>1, <2>2, <3>1, <3>2, <3>3, <3>4, <3>5, AckPut
  <2>4. TypeOK'
    BY <1>0, <1>3, <2>3 DEF TftpInv, TypeOK, DownOK, UpOK
  <2>5. ServerOK'
    BY <2>1 DEF TftpInv, ServerOK
  <2> QED  BY <1>3, <1>5, <2>3, <2>4, <2>5 DEF TftpInv
<1> QED  BY <1>6, <1>7 DEF ReceiveOther

\* A packet that changes nothing for the transfer of any client.
LEMMA DroppedKeeps ==
  ASSUME TftpInv, NEW i \in DOMAIN down, down' = RemoveAt(down, i),
         UNCHANGED <<network, serverVars, inbox, up, kind, asks, tid, got, done>>,
         TypeOK' \/ ~(Len(down') <= Capacity), ClientsOK'
  PROVE  TftpInv'
<1>1. \A q \in Packet : ForClient(q) => ForClient(q)'
  BY DEF ForClient, InStep, Wire, serverVars
<1>2. DownOK'
  BY <1>1, DownRemoved DEF TftpInv
<1> QED  BY <1>2, RequestsKeep DEF DownOK

LEMMA ReceiveErrorKeeps ==
  ASSUME TftpInv, NEW c \in Clients, NEW i \in DOMAIN down, ReceiveError(c, down[i]),
         down' = RemoveAt(down, i), UNCHANGED <<network, serverVars, inbox, kind, asks, done>>
  PROVE  TftpInv'
<1>1. /\ client[c] = "asked" /\ client' = [client EXCEPT ![c] = "failed"] /\ UNCHANGED <<up, tid, got>>
      /\ Blocks >= 1 /\ Len(got[c]) = 0
  <2>1. got[c] = <<>>
    BY DEF TftpInv, ClientsOK, ReceiveError
  <2> QED  BY <2>1, BoundsAssumption DEF ReceiveError
<1>2. ClientsOK'
  BY <1>1 DEF TftpInv, TypeOK, ClientsOK, serverVars
<1>3. TypeOK' \/ ~(Len(down') <= Capacity)
  BY <1>1 DEF TftpInv, TypeOK, serverVars
<1> QED  BY <1>1, <1>2, <1>3, DroppedKeeps

LEMMA IgnoreKeeps ==
  ASSUME TftpInv, NEW c \in Clients, NEW i \in DOMAIN down, Ignore(c, down[i]),
         down' = RemoveAt(down, i), UNCHANGED <<network, serverVars, inbox, kind, asks, done>>
  PROVE  TftpInv'
<1>1. UNCHANGED <<up, client, tid, got>>
  BY DEF Ignore
<1>2. ClientsOK'
  BY <1>1 DEF TftpInv, ClientsOK, serverVars
<1>3. TypeOK' \/ ~(Len(down') <= Capacity)
  BY <1>1 DEF TftpInv, TypeOK, serverVars
<1> QED  BY <1>1, <1>2, <1>3, DroppedKeeps

LEMMA ReceiveKeeps ==
  ASSUME TftpInv, NEW c \in Clients, Receive(c), UNCHANGED network
  PROVE  TftpInv'
<1>1. PICK i \in Arriving(down) :
        /\ \/ ReceiveOack(c, down[i]) \/ ReceiveNext(c, down[i])
           \/ ReceiveOther(c, down[i]) \/ ReceiveError(c, down[i]) \/ Ignore(c, down[i])
        /\ down' = RemoveAt(down, i)
  BY DEF Receive
<1>2. PICK m : m = down[i]
  OBVIOUS
<1>3. i \in DOMAIN down /\ UNCHANGED <<network, serverVars, inbox, kind, asks, done>>
  BY DEF Arriving, Receive
<1>4. CASE ReceiveOack(c, m)
  <2>1. TakesFrom(c, m, RemoveAt(down, i))
    BY <1>1, <1>3, <1>4 DEF TakesFrom, ReceiveOack
  <2> QED  BY <1>2, <1>4, <2>1, ReceiveOackKeeps
<1>5. CASE ReceiveNext(c, m)
  <2>1. TakesFrom(c, m, RemoveAt(down, i))
    BY <1>1, <1>3, <1>5 DEF TakesFrom, ReceiveNext
  <2> QED  BY <1>2, <1>5, <2>1, ReceiveNextKeeps
<1>6. CASE ReceiveOther(c, m)
  <2>1. tid' = tid /\ tid[c] = m.tid /\ tid \in [Clients -> 0..MaxTransfers]
    BY <1>6 DEF ReceiveOther, Mine, TftpInv, TypeOK
  <2>2. TakesFrom(c, m, RemoveAt(down, i))
    BY <1>1, <1>3, <2>1 DEF TakesFrom
  <2> QED  BY <1>2, <1>6, <2>1, <2>2, ReceiveOtherKeeps
<1>7. CASE ReceiveError(c, m)
  BY <1>1, <1>2, <1>3, <1>7, ReceiveErrorKeeps
<1>8. CASE Ignore(c, m)
  BY <1>1, <1>2, <1>3, <1>8, IgnoreKeeps
<1> QED  BY <1>1, <1>2, <1>4, <1>5, <1>6, <1>7, <1>8

LEMMA AckAgainKeeps ==
  ASSUME TftpInv, NEW c \in Clients, AckAgain(c), UNCHANGED network
  PROVE  TftpInv'
<1> USE DEF clientVars, serverVars
<1> DEFINE l == Len(got[c])
<1>1. /\ UNCHANGED <<network, serverVars, inbox, down, clientVars, done>>
      /\ client[c] = "open" /\ tid[c] = xfer /\ state # "idle"
      /\ Acknowledge(c, tid[c], Wire(l))
  BY DEF AckAgain
<1>2. /\ l \in Nat /\ l <= Blocks /\ Blocks \in Nat /\ tid \in [Clients -> Nat]
      /\ got[c] \in Seq(1..Blocks) /\ tid[c] # 0
  <2>1. tid \in [Clients -> Nat] /\ Blocks \in Nat /\ l \in Nat /\ got[c] \in Seq(1..Blocks)
    BY BoundsAssumption DEF TftpInv, TypeOK
  <2> QED  BY <1>1, <2>1 DEF TftpInv, ClientsOK
<1>3. DownOK'
  <2>1. \A q \in Packet : ForClient(q) => ForClient(q)'
    BY <1>1 DEF ForClient, InStep, Wire
  <2> QED  BY <1>1, <2>1, DownKept, DrawnSame DEF TftpInv, DownOK
<1>4. ClientsOK' /\ Together' /\ CopyIsPrefix'
  BY <1>1 DEF TftpInv, ClientsOK, Together, CopyIsPrefix
<1>5. UpOK'
  <2>1. up' = IF tid[c] = xfer /\ state # "idle" THEN Put(up, Ack(c, Wire(l))) ELSE up
    BY <1>1 DEF Acknowledge
  <2>2. tid' = [tid EXCEPT ![c] = tid[c]]
    BY <1>1, <1>2
  <2>3. /\ got'[c] \in Seq(1..Blocks) /\ Len(got'[c]) <= Blocks /\ Len(got[c]) <= Len(got'[c])
        /\ l <= Len(got'[c]) /\ l = Len(got'[c])
    BY <1>1, <1>2
  <2>4. \A d \in Clients : d # c => got'[d] = got[d]
    BY <1>1
  <2>5. tid[c] \in Nat /\ tid[c] >= 1 /\ tid[c] \in {0, tid[c]}
    BY <1>2
  <2> QED  BY <1>1, <1>2, <1>4, <2>1, <2>2, <2>3, <2>4, <2>5, AckPut
<1>6. TypeOK' /\ ServerOK'
  BY <1>1, <1>3, <1>5 DEF TftpInv, TypeOK, ServerOK, DownOK, UpOK
<1> QED  BY <1>3, <1>4, <1>5, <1>6 DEF TftpInv

LEMMA GiveUpKeeps ==
  ASSUME TftpInv, NEW c \in Clients, GiveUp(c), UNCHANGED network
  PROVE  TftpInv'
<1> USE DEF serverVars
<1>1. /\ UNCHANGED <<network, serverVars, inbox, down, kind, asks, tid, got, done>>
      /\ client[c] = "open" /\ client' = [client EXCEPT ![c] = "failed"]
      /\ up' = IF tid[c] = xfer /\ state # "idle" THEN Put(up, Abort(c)) ELSE up
  BY DEF GiveUp
<1>2. DownOK'
  <2>1. \A q \in Packet : ForClient(q) => ForClient(q)'
    BY <1>1 DEF ForClient, InStep, Wire
  <2> QED  BY <1>1, <2>1, DownKept, DrawnSame DEF TftpInv, DownOK
<1>3. ClientsOK' /\ Together' /\ CopyIsPrefix' /\ ServerOK'
  BY <1>1 DEF TftpInv, TypeOK, ClientsOK, Together, CopyIsPrefix, ServerOK
<1>4. UpOK'
  <2>1. \A q \in Answer : ForServer(q) => ForServer(q)'
    BY <1>1 DEF ForServer, Wire
  <2>2. CASE up' = up
    BY <1>1, <2>1, <2>2, UpKept, DrawnSame DEF TftpInv, UpOK
  <2>3. CASE tid[c] = xfer /\ state # "idle"
    <3>1. c = reader
      BY <2>3 DEF TftpInv, ClientsOK
    <3>2. PICK p \in Answer : p = Abort(c)
      BY DEF Abort, Answer
    <3>3. p.type = "ERROR" /\ p.from = c /\ up' = Put(up, p)
      BY <1>1, <2>3, <3>2 DEF Abort
    <3>4. up \in Seq(Answer) /\ Len(up) <= Capacity
      BY DEF TftpInv, UpOK
    <3>5. /\ up' \in Seq(Answer) /\ Len(up') <= Capacity
          /\ \/ up' = up
             \/ /\ DOMAIN up' = 1 .. Len(up) + 1 /\ DOMAIN up = 1 .. Len(up)
                /\ \A k \in DOMAIN up : up'[k] = up[k]
                /\ up'[Len(up) + 1] = p
      <4> DEFINE t == Put(up, p)
      <4>1. /\ t \in Seq(Answer) /\ Len(t) <= Capacity
            /\ \/ t = up
               \/ /\ DOMAIN t = 1 .. Len(up) + 1 /\ DOMAIN up = 1 .. Len(up)
                  /\ \A k \in DOMAIN up : t[k] = up[k]
                  /\ t[Len(up) + 1] = p
        BY <3>4, PutFacts
      <4>2. up' = t
        BY <3>3
      <4> HIDE DEF t
      <4> QED  BY <4>1, <4>2
    <3>6. ASSUME NEW k \in DOMAIN up'
          PROVE  ForServer(up[k])' /\ (up'[k].type = "ACK" => k \in DOMAIN up /\ up'[k] = up[k])
      <4>1. CASE k \in DOMAIN up
        <5>1. PICK m \in Answer : m = up[k]
          BY <3>4, <4>1
        <5>2. ForServer(m)' /\ up'[k] = m
          BY <2>1, <3>4, <3>5, <4>1, <5>1 DEF TftpInv, UpOK
        <5> QED  BY <4>1, <5>1, <5>2 DEF ForServer
      <4>2. CASE k \notin DOMAIN up
        <5>1. up'[k] = p
          BY <3>4, <3>5, <3>6, <4>2
        <5> QED  BY <1>1, <3>1, <3>3, <5>1 DEF ForServer
      <4> QED  BY <4>1, <4>2
    <3>7. ~network.reorder /\ state = "data" /\ ~misled => AcksInOrder(up', Wire(block))
      BY <3>6 DEF TftpInv, UpOK, AcksInOrder
    <3> QED  BY <1>1, <2>3, <3>1, <3>5, <3>6, <3>7 DEF UpOK, AcksInOrder, Wire
  <2> QED  BY <1>1, <2>2, <2>3
<1>5. TypeOK'
  BY <1>1, <1>2, <1>4 DEF TftpInv, TypeOK, DownOK, UpOK
<1> QED  BY <1>2, <1>3, <1>4, <1>5 DEF TftpInv

-----------------------------------------------------------------------------
(* The network.                                                            *)

\* A packet is lost, or comes twice.
LEMMA DisturbedNet ==
  ASSUME NEW S, NEW s \in Seq(S), Len(s) <= Capacity, NEW t \in Lost(s) \cup Doubled(s)
  PROVE  t \in Seq(S) /\ Len(t) <= Capacity /\ Drawn(t, s)
<1>1. CASE t \in Lost(s)
  <2>1. PICK i \in DOMAIN s : t = RemoveAt(s, i)
    BY <1>1 DEF Lost
  <2>2. t \in Seq(S) /\ Len(t) = Len(s) - 1 /\ Drawn(t, s)
    BY <2>1, Removed, RemovedIsDrawn
  <2>3. Len(s) \in Nat
    OBVIOUS
  <2> QED  BY <2>2, <2>3, BoundsAssumption
<1>2. CASE t \in Doubled(s)
  <2>1. PICK i \in DOMAIN s : t = InsertAt(s, i, s[i]) /\ Len(s) < Capacity
    BY <1>2 DEF Doubled
  <2>2. t \in Seq(S) /\ Len(t) = Len(s) + 1 /\ Drawn(t, s)
    BY <2>1, Doubles, DoubleIsDrawn
  <2>3. Len(s) \in Nat
    OBVIOUS
  <2> QED  BY <2>1, <2>2, <2>3, BoundsAssumption
<1> QED  BY <1>1, <1>2

LEMMA DisturbKeeps ==
  ASSUME TftpInv, Disturb, UNCHANGED network
  PROVE  TftpInv'
<1> USE DEF serverVars, clientVars
<1>0. UNCHANGED <<network, serverVars, clientVars, done>>
  BY DEF Disturb
<1>1. \A q \in Packet : ForClient(q) => ForClient(q)'
  BY <1>0 DEF ForClient, InStep, Wire
<1>2. CASE down' \in Lost(down) \cup Doubled(down) /\ UNCHANGED <<up, inbox>>
  <2>1. down' \in Seq(Packet) /\ Len(down') <= Capacity /\ Drawn(down', down)
    <3> DEFINE t == down'
    <3>1. t \in Lost(down) \cup Doubled(down) /\ down \in Seq(Packet) /\ Len(down) <= Capacity
      BY <1>2 DEF TftpInv, DownOK
    <3> HIDE DEF t
    <3>2. t \in Seq(Packet) /\ Len(t) <= Capacity /\ Drawn(t, down)
      BY <3>1, DisturbedNet
    <3> QED  BY <3>2 DEF t
  <2>2. DownOK'
    BY <1>0, <1>1, <2>1, DownKept DEF TftpInv
  <2>3. TypeOK' /\ ClientsOK'
    BY <1>0, <1>2, <2>1 DEF TftpInv, TypeOK, ClientsOK
  <2> QED  BY <1>0, <1>2, <2>2, <2>3, RequestsKeep
<1>3. CASE up' \in Lost(up) \cup Doubled(up) /\ UNCHANGED <<down, inbox>>
  <2>1. up' \in Seq(Answer) /\ Len(up') <= Capacity /\ Drawn(up', up)
    <3> DEFINE t == up'
    <3>1. t \in Lost(up) \cup Doubled(up) /\ up \in Seq(Answer) /\ Len(up) <= Capacity
      BY <1>3 DEF TftpInv, UpOK
    <3> HIDE DEF t
    <3>2. t \in Seq(Answer) /\ Len(t) <= Capacity /\ Drawn(t, up)
      BY <3>1, DisturbedNet
    <3> QED  BY <3>2 DEF t
  <2>2. up = <<>> => up' = <<>>
    <3>1. ASSUME up = <<>>, NEW k \in DOMAIN up' PROVE FALSE
      BY <2>1, <3>1 DEF Drawn
    <3>2. up = <<>> => Len(up') = 0
      BY <2>1, <3>1
    <3> QED  BY <2>1, <3>2
  <2>3. UpOK'
    <3>1. \A q \in Answer : ForServer(q) => ForServer(q)'
      BY <1>0 DEF ForServer, Wire
    <3>2. state' # "idle" /\ up' # <<>> => tid'[reader'] = xfer'
      BY <1>0, <2>2 DEF TftpInv, UpOK
    <3> QED  BY <1>0, <2>1, <3>1, <3>2, UpKept DEF TftpInv
  <2>4. DownOK'
    BY <1>0, <1>1, <1>3, DownKept, DrawnSame DEF TftpInv, DownOK
  <2>5. TypeOK' /\ ClientsOK' /\ ServerOK' /\ Together' /\ CopyIsPrefix'
    BY <1>0, <1>3, <2>1, <2>2 DEF TftpInv, TypeOK, ClientsOK, ServerOK, Together, CopyIsPrefix
  <2> QED  BY <2>3, <2>4, <2>5 DEF TftpInv
<1>4. ASSUME NEW c \in Clients, inbox[c] > 0, inbox' = [inbox EXCEPT ![c] = @ - 1],
             UNCHANGED <<down, up>>
      PROVE  TftpInv'
  <2>1. DownOK'
    BY <1>0, <1>1, <1>4, DownKept, DrawnSame DEF TftpInv, DownOK
  <2>2. /\ inbox' \in [Clients -> 0..MaxAsks]
        /\ \A d \in Clients : inbox[d] <= asks[d] => inbox'[d] <= asks[d]
    BY <1>4, Types DEF TftpInv
  <2>3. TypeOK' /\ ClientsOK'
    BY <1>0, <1>4, <2>2 DEF TftpInv, TypeOK, ClientsOK
  <2> QED  BY <1>0, <1>4, <2>1, <2>3, RequestsKeep
<1> QED  BY <1>2, <1>3, <1>4 DEF Disturb

-----------------------------------------------------------------------------
(* The theorems.                                                           *)

LEMMA TftpStep ==
  ASSUME TftpInv, [Next]_vars
  PROVE  TftpInv'
<1>1. CASE UNCHANGED vars
  <2>1. UNCHANGED <<network, serverVars, inbox, down, up, clientVars, done>>
    BY <1>1 DEF vars
  <2>2. DownOK'
    BY <2>1 DEF TftpInv, DownOK, ForClient, InStep, BlocksInOrder, SameTransfer, Wire, serverVars, clientVars
  <2>3. TypeOK' /\ ClientsOK'
    BY <2>1 DEF TftpInv, TypeOK, ClientsOK, serverVars, clientVars
  <2> QED  BY <2>1, <2>2, <2>3, RequestsKeep DEF clientVars
<1>2. CASE Next
  BY <1>2, HandleKeeps, RequestEndsServer, ServeKeeps, RefuseKeeps, AskKeeps, ReceiveKeeps, AckAgainKeeps,
     GiveUpKeeps, DisturbKeeps DEF Next, ServerStep
<1> QED  BY <1>1, <1>2

LEMMA Invariance == Spec => []TftpInv
<1>1. Init => TftpInv
  BY TftpInit
<1>2. TftpInv /\ [Next]_vars => TftpInv'
  BY TftpStep
<1> QED  BY <1>1, <1>2, PTL DEF Spec

\* The variables of tftpd.py's handle() and of its clients keep their types: block
\* never passes the file's last one, attempt never its range, whoever sends.
THEOREM TypeCorrect == Spec => []TypeOK
<1>1. TftpInv => TypeOK
  BY DEF TftpInv
<1> QED  BY <1>1, Invariance, PTL

\* A client's copy is always a beginning of the file, also if strangers answer in
\* its place and handle() sends it blocks that are not due.
THEOREM CopiesArePrefixes == Spec => []CopyIsPrefix
<1>1. TftpInv => CopyIsPrefix
  BY DEF TftpInv
<1> QED  BY <1>1, Invariance, PTL

\* handle() goes on to a block only after the client that asked has stored the one
\* before, unless a stranger's ACK has carried the number of a block of this
\* transfer: no other packet of a stranger, duplicate or late one makes it do so.
THEOREM ServerIsOneBlockAhead == Spec => []OneBlockAhead
<1>1. TftpInv => OneBlockAhead
  BY DEF TftpInv, Together, OneBlockAhead
<1> QED  BY <1>1, Invariance, PTL

\* A step of the protocol stores the block that is due, or reports a transfer that
\* is complete, or is no step of FileTransfer.
LEMMA TransferStep ==
  ASSUME TftpInv, [Next]_vars
  PROVE  [Transfer!Next]_<<[c \in Clients |-> Len(got[c])], done>>
<1> DEFINE stored == [c \in Clients |-> Len(got[c])]
<1> SUFFICES ASSUME ~UNCHANGED <<stored, done>> PROVE Transfer!Next
  OBVIOUS
<1>0. Next /\ ~UNCHANGED <<got, done>>
  <2>1. UNCHANGED vars => UNCHANGED <<got, done>>
    BY DEF vars, clientVars
  <2>2. UNCHANGED <<got, done>> => UNCHANGED <<stored, done>>
    OBVIOUS
  <2> QED  BY <2>1, <2>2
<1>1. ASSUME NEW c \in Clients, Receive(c) PROVE Transfer!Next
  <2>1. PICK i \in Arriving(down) :
          /\ \/ ReceiveOack(c, down[i]) \/ ReceiveNext(c, down[i])
             \/ ReceiveOther(c, down[i]) \/ ReceiveError(c, down[i]) \/ Ignore(c, down[i])
    BY <1>1 DEF Receive
  <2>2. PICK m : m = down[i]
    OBVIOUS
  <2>3. ReceiveNext(c, m) /\ UNCHANGED done
    BY <1>0, <1>1, <2>1, <2>2 DEF Receive, ReceiveOack, ReceiveOther, ReceiveError, Ignore
  <2>4. m.block = Len(got[c]) + 1 /\ m.block \in 1..Blocks
    BY <2>2, <2>3, DueBlock
  <2>5. got \in [Clients -> Seq(1..Blocks)] /\ got' = [got EXCEPT ![c] = Append(@, m.block)]
    BY <2>3 DEF TftpInv, TypeOK, ReceiveNext
  <2>6. Len(got'[c]) = Len(got[c]) + 1 /\ \A d \in Clients : d # c => got'[d] = got[d]
    BY <2>4, <2>5
  <2>7. stored[c] < Blocks /\ stored' = [stored EXCEPT ![c] = @ + 1]
    <3>1. Len(got[c]) \in Nat /\ Blocks \in Nat
      BY <2>5, BoundsAssumption
    <3>2. stored' = [d \in Clients |-> Len(got'[d])]
      OBVIOUS
    <3>3. \A d \in Clients : Len(got'[d]) = IF d = c THEN Len(got[c]) + 1 ELSE Len(got[d])
      BY <2>6
    <3>4. stored' = [stored EXCEPT ![c] = @ + 1]
      BY <3>2, <3>3
    <3>5. stored[c] = Len(got[c]) /\ Len(got[c]) < Blocks
      BY <2>4, <3>1
    <3> QED  BY <3>4, <3>5
  <2>8. Transfer!Store(c)
    BY <2>3, <2>7 DEF Transfer!Store
  <2> QED  BY <2>8 DEF Transfer!Next
<1>2. CASE BlockAcked
  <2>1. PICK r \in Received :
          /\ r.packet.type = "ACK" /\ r.packet.wire = Wire(block)
          /\ PassBlock(r.packet, r.rest)
    BY <1>2 DEF BlockAcked
  <2>2. state = "data" /\ UNCHANGED got
    BY <1>2 DEF BlockAcked, clientVars
  <2>3. ~(block < Blocks) /\ ~misled /\ r.packet.from # Stranger /\ done' = done \cup {reader}
    BY <1>0, <2>1, <2>2 DEF PassBlock
  <2>4. PICK i \in Arriving(up) : r = [packet |-> up[i], rest |-> RemoveAt(up, i)]
    BY <2>2, <2>3, ReceivedFacts
  <2>5. i \in DOMAIN up /\ up[i].type = "ACK" /\ up[i].wire = Wire(block)
    BY <2>1, <2>4 DEF Arriving
  <2>6. Len(got[reader]) = block /\ reader \in Clients
    BY <2>2, <2>3, <2>5, Acked
  <2>7. block = Blocks
    BY <2>3, BoundsAssumption DEF TftpInv, TypeOK
  <2>8. Transfer!Report(reader)
    BY <2>2, <2>3, <2>6, <2>7 DEF Transfer!Report
  <2> QED  BY <2>6, <2>8 DEF Transfer!Next
<1>3. ASSUME ~BlockAcked, \A c \in Clients : ~Receive(c) PROVE FALSE
  BY <1>0, <1>3
     DEF Next, ServerStep, HandleStep, OackAnswered, OackTimeout, OtherAnswer, DataTimeout,
         ClientError, ShortPacket, Serve, RefuseRequest, BadSize, ShortRequest, Ask, AckAgain, GiveUp, Disturb, clientVars
<1> QED  BY <1>1, <1>2, <1>3

\* The protocol of handle() and its clients implements FileTransfer: clients store
\* blocks in order and once, and "done" is printed of a transfer in which every
\* acknowledgement of a block came from a client only when that client has them all.
THEOREM ImplementsTransfer == Spec => ImplementsFileTransfer
<1>1. Init => Transfer!Init
  BY DEF Init, Transfer!Init
<1>2. TftpInv /\ [Next]_vars => [Transfer!Next]_<<[c \in Clients |-> Len(got[c])], done>>
  BY TransferStep
<1> QED  BY <1>1, <1>2, Invariance, PTL DEF Spec, ImplementsFileTransfer, Transfer!Spec

=============================================================================
