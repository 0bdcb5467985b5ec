-------------------------------- MODULE Tftp --------------------------------
(***************************************************************************)
(* scripts/tftpd.py: a TFTP server that serves one read request at a time, *)
(* on a socket of its own, over UDP.                                       *)
(*                                                                         *)
(* The clients (the boot loader's tftp command) and the network are not    *)
(* part of the repository: the clients are modelled from what handle()     *)
(* waits for and sends, as clients of RFC 1350 that may or may not         *)
(* acknowledge a duplicate; the network may lose and duplicate packets,    *)
(* perhaps reorder them, and perhaps bring the packets of strangers: of    *)
(* hosts that have asked for nothing, or whose old port has been taken     *)
(* anew.  The server listens to whoever sends, and answers him.            *)
(* A file is the sequence of its blocks 1 .. Blocks, the last of which is  *)
(* shorter than blksize, perhaps empty.                                    *)
(***************************************************************************)
EXTENDS Integers, Sequences, SequencesExt

CONSTANTS
  Clients,
  Blocks,       \* chunks in the file: size \div blksize + 1
  MaxSends,     \* sends of one block: range(5)
  Networks,     \* the conditions to consider, see NetworkType
  Capacity,     \* bound of the model: packets on their way in one direction
  MaxTransfers, \* bound of the model: requests that the server reads (a network may set less)
  MaxAsks,      \* bound of the model: requests that one client sends
  Stranger,     \* whoever sends to a socket and is no client
  NoClient

\* reorder: the network may reorder packets; reliable: it neither loses nor
\* duplicates any, nor is one too late for a timeout; strays: strangers may send
\* to the sockets of the server; modulus: that of the block number on the wire,
\* 2^16 in the code.  clients and transfers bound the model: who takes part, and
\* how many requests the server reads.
NetworkType ==
  [reorder : BOOLEAN, reliable : BOOLEAN, strays : BOOLEAN, modulus : Nat \ {0, 1},
   clients : SUBSET Clients, transfers : 0..MaxTransfers]

ASSUME BoundsAssumption ==
  /\ Blocks \in Nat \ {0}
  /\ MaxSends \in Nat \ {0} /\ Capacity \in Nat \ {0}
  /\ MaxTransfers \in Nat /\ MaxAsks \in Nat
\* No packet is overtaken by those of 65536 later blocks, and no stranger
\* acknowledges as many in a row.
ASSUME NetworksAssumption ==
  /\ Networks \subseteq NetworkType
  /\ \A n \in Networks :
       /\ n.reorder \/ n.strays => n.modulus > Blocks
       /\ n.reliable => ~n.strays
ASSUME NoClientAssumption == NoClient \notin Clients
ASSUME StrangerAssumption == Stranger \notin Clients \cup {NoClient}

VARIABLES
  network,   \* the conditions of this behaviour
  running,   \* the server's process has not ended with an exception
  state,     \* "idle": no transfer; "oack", "data": what handle() waits in
  reader,    \* main()'s addr: the client whose request is served
  addr,      \* handle()'s addr: who sent the last packet, and gets the next one
  xfer,      \* the number of its transfer socket
  block,     \* handle()'s block, not wrapped
  sends,     \* attempt: how often the block has been sent
  inbox,     \* inbox[c]: c's requests on their way to or in the main socket
  down,      \* packets on their way from transfer sockets to the clients
  up,        \* packets on their way to the transfer socket
  client,    \* client[c]: "new", "asked", "open", "complete", "failed"
  kind,      \* kind[c]: what c asks for
  asks,      \* asks[c]: how often it has asked
  tid,       \* tid[c]: the transfer socket it has locked on to
  got,       \* got[c]: the blocks it has stored, in this order
  misled,    \* history: a stranger has acknowledged a block of this transfer
  done       \* history: the clients that "done" was printed for, in transfers
             \* in which no stranger acknowledged a block

serverVars == <<running, state, reader, addr, xfer, block, sends, misled>>
clientVars == <<client, kind, asks, tid, got>>
vars == <<network, serverVars, inbox, down, up, clientVars, done>>

\* Read requests with and without options, the requests that are refused, and
\* a request for a file whose blksize is no number.
Kinds == {"options", "plain", "missing", "write", "badsize"}

Wire(n) == n % network.modulus

Oack(c) == [to |-> c, tid |-> xfer, type |-> "OACK", block |-> 0, wire |-> 0]
Data(c, x, n) == [to |-> c, tid |-> x, type |-> "DATA", block |-> n, wire |-> Wire(n)]
Error(c) == [to |-> c, tid |-> 0, type |-> "ERROR", block |-> 0, wire |-> 0]
Ack(c, w) == [from |-> c, type |-> "ACK", wire |-> w]
Abort(c) == [from |-> c, type |-> "ERROR", wire |-> 0]
Stray(t, w) == [from |-> Stranger, type |-> t, wire |-> w]

\* What strangers may send: acknowledgements of any block, errors, packets of
\* other types, and packets that are too short for struct.unpack.
Strays ==
  IF network.strays
  THEN {Stray("ACK", w) : w \in 0 .. network.modulus - 1}
         \cup {Stray(t, 0) : t \in {"ERROR", "OTHER", "SHORT"}}
  ELSE {}

\* sendto: what does not fit on the network is lost.
Put(net, m) == IF Len(net) < Capacity THEN Append(net, m) ELSE net

\* The packets that may arrive next.
Arriving(net) == IF network.reorder THEN DOMAIN net ELSE DOMAIN net \cap {1}

\* What recvfrom() of the transfer socket may return, whoever has sent it, and
\* what is still on its way then.
Received ==
  {[packet |-> up[i], rest |-> RemoveAt(up, i)] : i \in Arriving(up)}
    \cup {[packet |-> p, rest |-> up] : p \in Strays}

Init ==
  /\ network \in Networks
  /\ running = TRUE /\ misled = FALSE
  /\ state = "idle" /\ reader = NoClient /\ addr = NoClient
  /\ xfer = 0 /\ block = 0 /\ sends = 0
  /\ inbox = [c \in Clients |-> 0]
  /\ down = <<>> /\ up = <<>>
  /\ client = [c \in Clients |-> "new"]
  /\ kind \in [Clients -> Kinds]
  /\ \A c \in Clients \ network.clients : kind[c] = "missing"
  /\ asks = [c \in Clients |-> 0]
  /\ tid = [c \in Clients |-> 0]
  /\ got = [c \in Clients |-> <<>>]
  /\ done = {}

-----------------------------------------------------------------------------
(* The server.                                                             *)

\* The transfer socket is closed: what is still on its way to it is dropped.
Leave ==
  /\ state' = "idle" /\ reader' = NoClient /\ addr' = NoClient
  /\ block' = 0 /\ sends' = 0 /\ misled' = FALSE
  /\ up' = <<>>
  /\ UNCHANGED <<xfer, down>>

Close == Leave /\ UNCHANGED running

\* struct.error, or int()'s ValueError: neither handle nor main catches it.
Raise == Leave /\ running' = FALSE

\* xfer.sendto of block n to a, for the k-th time.  A stranger drops it.
SendBlock(a, x, n, k) ==
  /\ state' = "data"
  /\ addr' = a
  /\ xfer' = x
  /\ block' = n
  /\ sends' = k
  /\ down' = IF a \in Clients THEN Put(down, Data(a, x, n)) ELSE down
  /\ UNCHANGED running

\* main reads a request and handle opens a transfer: OACK if there are options,
\* otherwise the first block.
Serve(c) ==
  /\ running /\ state = "idle"
  /\ inbox[c] > 0 /\ xfer < network.transfers
  /\ kind[c] \in {"options", "plain"}
  /\ inbox' = [inbox EXCEPT ![c] = @ - 1]
  /\ reader' = c /\ misled' = FALSE
  /\ IF kind[c] = "options"
     THEN /\ state' = "oack" /\ addr' = c /\ xfer' = xfer + 1
          /\ block' = 0 /\ sends' = 0
          /\ down' = Put(down, [Oack(c) EXCEPT !.tid = xfer + 1])
          /\ UNCHANGED running
     ELSE SendBlock(c, xfer + 1, 1, 1)
  /\ UNCHANGED <<up, clientVars, done>>

\* A file that does not exist, or a write request: an ERROR from the main socket.
RefuseRequest(c) ==
  /\ running /\ state = "idle"
  /\ inbox[c] > 0
  /\ kind[c] \in {"missing", "write"}
  /\ inbox' = [inbox EXCEPT ![c] = @ - 1]
  /\ down' = Put(down, Error(c))
  /\ UNCHANGED <<serverVars, up, clientVars, done>>

\* int(opts["blksize"]) of something else than a number.
BadSize(c) ==
  /\ running /\ state = "idle"
  /\ inbox[c] > 0 /\ kind[c] = "badsize"
  /\ inbox' = [inbox EXCEPT ![c] = @ - 1]
  /\ Raise
  /\ UNCHANGED <<clientVars, done>>

\* A datagram of less than two bytes at the main socket.
ShortRequest ==
  /\ network.strays
  /\ running /\ state = "idle"
  /\ Raise
  /\ UNCHANGED <<inbox, clientVars, done>>

\* A packet at the transfer socket that struct.unpack refuses.
ShortPacket ==
  /\ state # "idle"
  /\ \E r \in Received : r.packet.type = "SHORT"
  /\ Raise
  /\ UNCHANGED <<inbox, clientVars, done>>

\* Mutant: the OACK has to be acknowledged with block 1.
OackAnsweredByOne ==
  /\ state = "oack"
  /\ \E r \in Received :
       \/ /\ r.packet.type = "ACK" /\ r.packet.wire = 1
          /\ SendBlock(r.packet.from, xfer, 1, 1)
          /\ up' = r.rest
          /\ UNCHANGED <<reader, misled>>
       \/ /\ r.packet.type # "ACK" \/ r.packet.wire # 1
          /\ Close
  /\ UNCHANGED <<inbox, clientVars, done>>

\* The wait for the OACK's acknowledgement ends: any ACK of anybody will do, and
\* the first block goes to him; whatever else comes closes the transfer.
OackAnswered ==
  /\ state = "oack"
  /\ \E r \in Received :
       \/ /\ r.packet.type = "ACK"
          /\ SendBlock(r.packet.from, xfer, 1, 1)
          /\ up' = r.rest
          /\ UNCHANGED <<reader, misled>>
       \/ r.packet.type \in {"ERROR", "OTHER"} /\ Close
  /\ UNCHANGED <<inbox, clientVars, done>>

\* socket.timeout after 5 s.
Late ==
  ~network.reliable \/ (up = <<>> /\ \A i \in DOMAIN down : down[i].to # addr \/ down[i].tid # xfer)

\* The OACK is not repeated.
OackTimeout ==
  /\ state = "oack"
  /\ Late
  /\ Close
  /\ UNCHANGED <<inbox, clientVars, done>>

\* What follows the acknowledgement p of a block: the next one, for who sent it,
\* or the end after the short one.
PassBlock(p, rest) ==
  IF block < Blocks
  THEN /\ SendBlock(p.from, xfer, block + 1, 1)
       /\ up' = rest
       /\ misled' = (misled \/ p.from = Stranger)
       /\ UNCHANGED <<reader, done>>
  ELSE /\ Close
       /\ done' = IF misled \/ p.from = Stranger THEN done ELSE done \cup {reader}

\* Mutant: any ACK passes for that of the block.
AnyAckPasses ==
  /\ state = "data"
  /\ \E r \in Received : r.packet.type = "ACK" /\ PassBlock(r.packet, r.rest)
  /\ UNCHANGED <<inbox, clientVars>>

\* The block's number is acknowledged, by whomever.
BlockAcked ==
  /\ state = "data"
  /\ \E r \in Received :
       /\ r.packet.type = "ACK" /\ r.packet.wire = Wire(block)
       /\ PassBlock(r.packet, r.rest)
  /\ UNCHANGED <<inbox, clientVars>>

\* Mutant: one send too many.
SendOnceMore(a, rest) ==
  IF sends <= MaxSends
  THEN SendBlock(a, xfer, block, sends + 1) /\ up' = rest /\ UNCHANGED <<reader, misled>>
  ELSE Close

\* Mutant: the file is read again for each attempt.
SendNextChunk(a, rest) ==
  IF sends < MaxSends
  THEN /\ state' = "data" /\ block' = block /\ sends' = sends + 1 /\ addr' = a
       /\ down' = IF a \in Clients
                  THEN Put(down, [Data(a, xfer, block) EXCEPT
                                    !.block = IF block < Blocks THEN block + 1 ELSE block])
                  ELSE down
       /\ up' = rest
       /\ UNCHANGED <<running, xfer, reader, misled>>
  ELSE Close

\* Mutant: "while True".
SendForEver(a, rest) ==
  SendBlock(a, xfer, block, 1) /\ up' = rest /\ UNCHANGED <<reader, misled>>

\* The next turn of "for attempt in range(5)", or its else.
SendAgainOrGiveUp(a, rest) ==
  IF sends < MaxSends
  THEN SendBlock(a, xfer, block, sends + 1) /\ up' = rest /\ UNCHANGED <<reader, misled>>
  ELSE Close

\* Anything but that acknowledgement and an ERROR uses up an attempt, and has the
\* block sent again at once, to who sent it.
OtherAnswer ==
  /\ state = "data"
  /\ \E r \in Received :
       /\ \/ r.packet.type = "ACK" /\ r.packet.wire # Wire(block)
          \/ r.packet.type = "OTHER"
       /\ SendAgainOrGiveUp(r.packet.from, r.rest)
  /\ UNCHANGED <<inbox, clientVars, done>>

DataTimeout ==
  /\ state = "data"
  /\ Late
  /\ SendAgainOrGiveUp(addr, up)
  /\ UNCHANGED <<inbox, clientVars, done>>

\* An ERROR ends the transfer, from whomever it comes.
ClientError ==
  /\ state = "data"
  /\ \E r \in Received : r.packet.type = "ERROR"
  /\ Close
  /\ UNCHANGED <<inbox, clientVars, done>>

-----------------------------------------------------------------------------
(* The clients.                                                            *)

\* A request, or the same again if nothing has come.
Ask(c) ==
  /\ c \in network.clients /\ client[c] \in {"new", "asked"}
  /\ asks[c] < MaxAsks
  /\ client' = [client EXCEPT ![c] = "asked"]
  /\ asks' = [asks EXCEPT ![c] = @ + 1]
  /\ inbox' = [inbox EXCEPT ![c] = @ + 1]
  /\ UNCHANGED <<serverVars, down, up, kind, tid, got, done>>

\* An acknowledgement reaches the network if its transfer socket is open.
Acknowledge(c, x, w) == up' = IF x = xfer /\ state # "idle" THEN Put(up, Ack(c, w)) ELSE up

\* The first answer tells the transfer socket; packets of others are ignored.
Mine(c, m) ==
  /\ m.to = c
  /\ \/ client[c] = "asked" /\ m.tid # 0
     \/ client[c] \in {"open", "complete"} /\ m.tid = tid[c]

ReceiveOack(c, m) ==
  /\ m.type = "OACK" /\ Mine(c, m) /\ got[c] = <<>>
  /\ client' = [client EXCEPT ![c] = "open"]
  /\ tid' = [tid EXCEPT ![c] = m.tid]
  /\ Acknowledge(c, m.tid, 0)
  /\ UNCHANGED got

\* The block that is due is stored and acknowledged.
ReceiveNext(c, m) ==
  /\ m.type = "DATA" /\ Mine(c, m) /\ client[c] # "complete"
  /\ m.wire = Wire(Len(got[c]) + 1)
  /\ got' = [got EXCEPT ![c] = Append(@, m.block)]
  /\ client' = [client EXCEPT ![c] = IF m.block = Blocks THEN "complete" ELSE "open"]
  /\ tid' = [tid EXCEPT ![c] = m.tid]
  /\ Acknowledge(c, m.tid, m.wire)

\* Another block is taken for a duplicate: acknowledged again, or ignored.
ReceiveOther(c, m) ==
  /\ m.type = "DATA" /\ Mine(c, m) /\ client[c] \in {"open", "complete"}
  /\ client[c] = "complete" \/ m.wire # Wire(Len(got[c]) + 1)
  /\ Acknowledge(c, m.tid, m.wire) \/ UNCHANGED up
  /\ UNCHANGED <<client, tid, got>>

ReceiveError(c, m) ==
  /\ m.type = "ERROR" /\ m.to = c /\ client[c] = "asked"
  /\ client' = [client EXCEPT ![c] = "failed"]
  /\ UNCHANGED <<up, tid, got>>

\* What is not for the client any more is dropped.
Ignore(c, m) ==
  /\ m.to = c
  /\ \/ m.type = "ERROR" /\ client[c] # "asked"
     \/ m.type # "ERROR" /\ ~Mine(c, m)
     \/ m.type = "OACK" /\ got[c] # <<>>
  /\ UNCHANGED <<up, client, tid, got>>

Receive(c) ==
  /\ \E i \in Arriving(down) :
       /\ \/ ReceiveOack(c, down[i]) \/ ReceiveNext(c, down[i])
          \/ ReceiveOther(c, down[i]) \/ ReceiveError(c, down[i]) \/ Ignore(c, down[i])
       /\ down' = RemoveAt(down, i)
  /\ UNCHANGED <<serverVars, inbox, kind, asks, done>>

\* The client's own timeout: it acknowledges once more what it has.
AckAgain(c) ==
  /\ ~network.reliable
  /\ client[c] = "open"
  /\ tid[c] = xfer /\ state # "idle" /\ Len(up) < Capacity
  /\ Acknowledge(c, tid[c], Wire(Len(got[c])))
  /\ UNCHANGED <<serverVars, inbox, down, clientVars, done>>

\* It gives up, with an ERROR.
GiveUp(c) ==
  /\ ~network.reliable
  /\ client[c] = "open"
  /\ client' = [client EXCEPT ![c] = "failed"]
  /\ up' = IF tid[c] = xfer /\ state # "idle" THEN Put(up, Abort(c)) ELSE up
  /\ UNCHANGED <<serverVars, inbox, down, kind, asks, tid, got, done>>

-----------------------------------------------------------------------------
(* The network.                                                            *)

Lost(net) == {RemoveAt(net, i) : i \in DOMAIN net}
Doubled(net) ==
  IF Len(net) < Capacity THEN {InsertAt(net, i, net[i]) : i \in DOMAIN net} ELSE {}

Disturb ==
  /\ ~network.reliable
  /\ \/ down' \in Lost(down) \cup Doubled(down) /\ UNCHANGED <<up, inbox>>
     \/ up' \in Lost(up) \cup Doubled(up) /\ UNCHANGED <<down, inbox>>
     \/ /\ \E c \in Clients : inbox[c] > 0 /\ inbox' = [inbox EXCEPT ![c] = @ - 1]
        /\ UNCHANGED <<down, up>>
  /\ UNCHANGED <<serverVars, clientVars, done>>

-----------------------------------------------------------------------------

\* The steps of the server once it has read a request.
HandleStep ==
  \/ OackAnswered \/ OackTimeout
  \/ BlockAcked \/ OtherAnswer \/ DataTimeout \/ ClientError \/ ShortPacket

ServerStep ==
  \/ HandleStep
  \/ \E c \in Clients : Serve(c) \/ RefuseRequest(c) \/ BadSize(c)
  \/ ShortRequest

Next ==
  /\ \/ ServerStep
     \/ \E c \in Clients : Ask(c) \/ Receive(c) \/ AckAgain(c) \/ GiveUp(c)
     \/ Disturb
  /\ UNCHANGED network

Spec == Init /\ [][Next]_vars

\* recvfrom returns with a packet or with socket.timeout.  On a network that
\* is reliable, and on no other, the clients ask, packets arrive, and no request
\* waits for ever in the main socket, which is a queue.
FairSpec ==
  /\ Spec /\ WF_vars(HandleStep /\ UNCHANGED network)
  /\ \A c \in Clients :
       /\ WF_vars(network.reliable /\ client[c] = "new" /\ Ask(c) /\ UNCHANGED network)
       /\ WF_vars(network.reliable /\ Receive(c) /\ UNCHANGED network)
       /\ SF_vars(network.reliable /\ (Serve(c) \/ RefuseRequest(c) \/ BadSize(c)) /\ UNCHANGED network)

-----------------------------------------------------------------------------
(* Properties.                                                             *)

States == {"idle", "oack", "data"}

TypeOK ==
  /\ network \in Networks
  /\ running \in BOOLEAN /\ misled \in BOOLEAN
  /\ state \in States /\ reader \in Clients \cup {NoClient}
  /\ addr \in Clients \cup {Stranger, NoClient}
  /\ xfer \in 0..MaxTransfers /\ block \in 0..Blocks /\ sends \in 0..MaxSends
  /\ inbox \in [Clients -> 0..MaxAsks]
  /\ Len(down) <= Capacity /\ Len(up) <= Capacity
  /\ client \in [Clients -> {"new", "asked", "open", "complete", "failed"}]
  /\ kind \in [Clients -> Kinds]
  /\ asks \in [Clients -> 0..MaxAsks]
  /\ tid \in [Clients -> 0..MaxTransfers]
  /\ got \in [Clients -> Seq(1..Blocks)]
  /\ done \subseteq Clients

\* c is on a network that loses nothing, among clients that send no request which
\* ends the server, and asks for the file.
MayExpectTheFile(c) ==
  /\ network.reliable /\ c \in network.clients
  /\ kind[c] \in {"options", "plain"}
  /\ \A d \in network.clients : kind[d] # "badsize"

\* A client's copy is always a beginning of the file, block by block, although
\* it knows the blocks by numbers that wrap and packets come twice, late or not
\* at all, and even if strangers make the server run ahead of it.
CopyIsPrefix ==
  \A c \in Clients : got[c] = [i \in 1 .. Len(got[c]) |-> i]

\* "done" is printed only of a transfer whose client has every block, in order,
\* unless a stranger has acknowledged one: the protocol implements FileTransfer.
Transfer == INSTANCE FileTransfer
              WITH stored <- [c \in Clients |-> Len(got[c])], reported <- done
ImplementsFileTransfer == Transfer!Spec

\* A block is not passed before the client that has asked for it has stored it,
\* unless a stranger has acknowledged one: the strangers' other packets, for which
\* blocks go astray, and repeated acknowledgements do not let the server run ahead.
OneBlockAhead ==
  \A c \in Clients :
    state = "data" /\ reader = c /\ tid[c] = xfer /\ ~misled
      => Len(got[c]) \in {block - 1, block}

\* handle() always comes to an end: back to the main loop, or with the whole
\* server when a packet was too short.  A client that has gone, or a stranger that
\* goes on sending, does not keep the others waiting for ever.
ServerReturns ==
  state # "idle" ~> state = "idle" /\ (running \/ network.strays)

\* On a network that loses and delays nothing, every client that asks for the
\* file gets it although there is one server for all and requests are repeated,
\* as long as nobody sends the request that ends it.
EveryReadCompletes ==
  \A c \in Clients : MayExpectTheFile(c) ~> client[c] = "complete"

=============================================================================
