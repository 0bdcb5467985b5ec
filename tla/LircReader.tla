----------------------------- MODULE LircReader -----------------------------
(***************************************************************************)
(* LircReader of scripts/tvbox-panel.py: the thread that groups the words  *)
(* of /dev/lirc0 into bursts, each of which _flush decodes and publishes.  *)
(* The remote, the air and the kernel's driver are not part of the         *)
(* repository; they are modelled as what run() is written for: a remote    *)
(* sends NEC frames and repeats, as fast or slow as the decoder tolerates, *)
(* some pulses of a transmission may not be seen, the driver may drop words *)
(* and say so, and silence shows as a long space or as a timeout.          *)
(***************************************************************************)
EXTENDS Nec, SequencesExt

CONSTANTS
  BurstGapUs,     \* BURST_GAP_US
  MaxBurstEdges,  \* MAX_BURST_EDGES
  Messages,       \* what the remote may send
  Scales,         \* its speeds, in percent of the nominal durations
  ShortGapUs,     \* a space between transmissions that ends no burst
  MaxDropped      \* bound of the model: words the driver drops at an overflow

\* A frame has four bytes, of which a standard remote sends the second and the
\* fourth as complements, and extended NEC only the fourth.
Bytes == [1..ByteBits -> {0, 1}]
MessageType ==
  {Repeat} \cup [kind : {"frame"}, address : Bytes, second : Bytes, command : Bytes]

ASSUME MessagesAssumption == Messages # {} /\ Messages \subseteq MessageType
ASSUME ScalesAssumption == Scales \subseteq 70..130
\* No space that decode_nec accepts (at most 4500 + 30 %) ends a burst, and
\* transmissions are further apart than the space of a bit or of a repeat (at most
\* 2250 + 30 %): NEC's are tens of milliseconds apart.
ASSUME GapsAssumption ==
  /\ ShortGapUs \in Nat /\ BurstGapUs \in Nat /\ ShortGapUs < BurstGapUs
  /\ 2925 < ShortGapUs /\ 5850 < BurstGapUs
ASSUME DroppedAssumption == MaxDropped \in Nat
\* A frame, the space after it and a repeat fit in a burst.
ASSUME EdgesAssumption == MaxBurstEdges \in Nat /\ MaxBurstEdges > 2 * FrameBits + 3

VARIABLES
  air,      \* the words of the present transmission that run() has not read
  edges,    \* run()'s edges
  burst,    \* the edges that _flush has just published, <<>> if none
  message,  \* history: the message of the present transmission
  opened,   \* history: the message that the first of edges is part of
  source,   \* history: the message that the first edge of burst is part of
  clean     \* history: the transmission followed silence and has lost nothing

vars == <<air, edges, burst, message, opened, source, clean>>

Timeout == [kind |-> "timeout", us |-> 0]
Overflow == [kind |-> "overflow", us |-> 0]
Frequency == [kind |-> "frequency", us |-> 38000]

Init ==
  /\ air = <<>> /\ edges = <<>> /\ burst = <<>>
  /\ message = Repeat /\ opened = Repeat /\ source = Repeat
  /\ clean = FALSE

\* burst and source are those of one step only.
NothingPublished == burst' = <<>> /\ source' = Repeat

-----------------------------------------------------------------------------
(* The remote and the driver.                                              *)

Bits(m) == m.address \o m.second \o m.command \o Complement(m.command)

\* What decode_nec should say of a message.
Meaning(m) ==
  IF m = Repeat THEN Repeat ELSE Frame(m.address, m.second, m.command, Complement(m.command))

\* The edges of a message, at a speed.
Sent(m, scale) ==
  LET us(nominal) == (nominal * scale) \div 100
      bits == Bits(m)
      body == [i \in 1 .. 2 * FrameBits |->
                 IF i % 2 = 1 THEN Pulse(us(560))
                 ELSE Space(us(IF bits[i \div 2] = 0 THEN 560 ELSE 1690))]
  IN  IF m = Repeat
      THEN <<Pulse(us(9000)), Space(us(2250)), Pulse(us(560))>>
      ELSE <<Pulse(us(9000)), Space(us(4500))>> \o body \o <<Pulse(us(560))>>

Duration(words) ==
  LET upTo[n \in 0..Len(words)] == IF n = 0 THEN 0 ELSE upTo[n - 1] + words[n].us
  IN  upTo[Len(words)]

\* The pulses from i to j are not seen: one long space takes their place, or
\* nothing at an end of the transmission.
Faded(words, i, j) ==
  LET before == SubSeq(words, 1, i - 2)
      after  == SubSeq(words, j + 2, Len(words))
  IN  IF before = <<>> \/ after = <<>> THEN before \o after
      ELSE before \o <<Space(Duration(SubSeq(words, i - 1, j + 1)))>> \o after

PulsesOf(words) == {i \in DOMAIN words : words[i].kind = "pulse"}

\* The driver drops the words from i to j and reports an overflow.
Overflowed(words, i, j) ==
  SubSeq(words, 1, i - 1) \o <<Overflow>> \o SubSeq(words, j + 1, Len(words))

\* What is left of a transmission that is not received whole, if anything.
Disturbed(words) ==
  (UNION {{Faded(words, i, j) : j \in {k \in PulsesOf(words) : k >= i}} \ {<<>>} :
            i \in PulsesOf(words)})
    \cup
  (UNION {{Overflowed(words, i, j) : j \in i .. i + MaxDropped - 1} : i \in DOMAIN words})

Silences == {Space(BurstGapUs), Timeout}

\* What follows a transmission; at most two run together (bound of the model).
Gaps == Silences \cup (IF edges = <<>> THEN {Space(ShortGapUs)} ELSE {})

Transmit(m) ==
  /\ air = <<>>
  /\ \E scale \in Scales, gap \in Gaps :
       LET words == Sent(m, scale)
       IN  \/ air' \in {Append(words, gap), words \o <<Frequency, gap>>} /\ clean' = (edges = <<>>)
           \/ air' \in {Append(rest, gap) : rest \in Disturbed(words)} /\ clean' = FALSE
  /\ message' = m
  /\ NothingPublished
  /\ UNCHANGED <<edges, opened>>

-----------------------------------------------------------------------------
(* The reader.                                                             *)

\* run() reads the next word.
Word == Head(air)
Read ==
  /\ air # <<>>
  /\ air' = Tail(air)
  /\ UNCHANGED <<message, clean>>

\* A space that is part of no burst, and the end of a burst.
IsGap(w) == w.kind = "space" /\ w.us >= BurstGapUs
EndsBurst(w) == IsGap(w) \/ w.kind \in {"timeout", "overflow"}

\* Mutant: the trailing spaces are published.
FlushUntrimmed(es) ==
  /\ edges' = <<>>
  /\ burst' = es
  /\ source' = opened

\* _flush: the trailing spaces are taken off, and what is left is published.
Flush(es) ==
  /\ edges' = <<>>
  /\ burst' = SubSeq(es, 1, SelectLastInSeq(es, LAMBDA e : e.kind = "pulse"))
  /\ source' = opened

\* Mutant: a burst may be one edge too long.
KeepOneMore(es) ==
  IF Len(es) > MaxBurstEdges
  THEN Flush(es)
  ELSE edges' = es /\ NothingPublished

\* The end of the loop's body: edges that grow to the limit are flushed.
Keep(es) ==
  IF Len(es) >= MaxBurstEdges
  THEN Flush(es)
  ELSE edges' = es /\ NothingPublished

ReadPulse ==
  /\ Read
  /\ Word.kind = "pulse"
  /\ opened' = IF edges = <<>> THEN message ELSE opened
  /\ Keep(Append(edges, Word))

ReadSpace ==
  /\ Read
  /\ Word.kind = "space" /\ ~IsGap(Word) /\ edges # <<>>
  /\ Keep(Append(edges, Word))
  /\ UNCHANGED opened

\* Mutant: the edges before an overflow are thrown away.
OverflowForgets ==
  /\ Read
  /\ EndsBurst(Word) /\ edges # <<>>
  /\ IF Word.kind = "overflow"
     THEN edges' = <<>> /\ NothingPublished
     ELSE Flush(edges)
  /\ UNCHANGED opened

\* Mutant: only a long space ends a burst.
TimeoutIgnored ==
  /\ Read
  /\ EndsBurst(Word) /\ edges # <<>>
  /\ IF IsGap(Word)
     THEN Flush(edges)
     ELSE NothingPublished /\ UNCHANGED edges
  /\ UNCHANGED opened

\* A long space, a timeout or an overflow after some edges.
ReadEnd ==
  /\ Read
  /\ EndsBurst(Word) /\ edges # <<>>
  /\ Flush(edges)
  /\ opened' = Repeat

\* The same or a space with no edges before it, and words without timing.
ReadNothing ==
  /\ Read
  /\ \/ Word.kind = "space" /\ edges = <<>>
     \/ EndsBurst(Word) /\ edges = <<>>
     \/ Word.kind = "frequency"
  /\ NothingPublished
  /\ UNCHANGED <<edges, opened>>

Run == ReadPulse \/ ReadSpace \/ ReadEnd \/ ReadNothing

Next == Run \/ \E m \in Messages : Transmit(m)

Spec == Init /\ [][Next]_vars

-----------------------------------------------------------------------------
(* Properties.                                                             *)

Edges == [kind : {"pulse", "space"}, us : Nat]
Words == Edges \cup {Timeout, Overflow, Frequency}

\* edges never reaches the limit between two words.
TypeOK ==
  /\ air \in Seq(Words)
  /\ edges \in Seq(Edges) /\ Len(edges) < MaxBurstEdges
  /\ burst \in Seq(Edges) /\ Len(burst) <= MaxBurstEdges
  /\ {message, opened, source} \subseteq MessageType
  /\ clean \in BOOLEAN

\* Whatever the driver drops, a burst is published as a remote can send it: it
\* begins and ends with a pulse, pulses and spaces take turns, and no space in
\* it is as long as a gap.
BurstsAlternate ==
  /\ burst # <<>> => Len(burst) % 2 = 1
  /\ \A i \in DOMAIN burst :
       /\ burst[i].kind = IF i % 2 = 1 THEN "pulse" ELSE "space"
       /\ burst[i].kind = "space" => burst[i].us < BurstGapUs

\* decode_nec invents nothing: what a burst is shown to say is what the message
\* that it begins with says, or the last one if that followed too soon, although
\* pulses were not seen and words were dropped.
ShownWasSent ==
  DecodeNec(burst).kind \in {"frame", "repeat"}
    => DecodeNec(burst) \in {Meaning(source), Meaning(message)}

\* A message that follows silence and arrives whole is shown with its meaning
\* when the next silence comes, at any speed the decoder tolerates, whatever was
\* received before.
WholeMessageIsShown ==
  [][air # <<>> /\ air' = <<>> /\ clean /\ EndsBurst(Word)
       => DecodeNec(burst') = Meaning(message)]_vars

Pulses(es) ==
  LET upTo[n \in 0..Len(es)] ==
        IF n = 0 THEN <<>>
        ELSE IF es[n].kind = "pulse" THEN Append(upTo[n - 1], es[n]) ELSE upTo[n - 1]
  IN  upTo[Len(es)]

\* Every pulse that was read is published, once, in order: a step takes pulses
\* out of edges only to publish them.
NoPulseIsLost ==
  [][LET new == IF air # <<>> /\ air' = Tail(air) THEN Pulses(<<Word>>) ELSE <<>>
     IN  Pulses(edges) \o new = Pulses(burst') \o Pulses(edges')]_vars

=============================================================================
