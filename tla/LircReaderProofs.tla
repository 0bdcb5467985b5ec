-------------------------- MODULE LircReaderProofs --------------------------
(***************************************************************************)
(* TypeOK, BurstsAlternate, NoPulseIsLost, WholeMessageIsShown and         *)
(* ShownWasSent of LircReader, for any width of a byte, any messages and   *)
(* speeds, any limit of a burst that a frame and a repeat fit in, and any  *)
(* number of words dropped at an overflow.                                 *)
(*                                                                         *)
(* A burst alternates because the words do: whatever of a transmission is  *)
(* not seen or dropped, a pulse never follows a pulse, nor a space a space *)
(* unless an overflow is between them (Fits), and a pulse at the end of    *)
(* edges still has its space, timeout or overflow ahead of it (Control).   *)
(*                                                                         *)
(* A transmission that is received whole is shown as it was sent, because  *)
(* what of its edges is collected and what is still to be read are         *)
(* together always all of them (CleanInv), and DecodeNec reads in them the *)
(* message at any speed it tolerates (SentIsShown).                        *)
(*                                                                         *)
(* What is shown was sent, because what is collected is the start of words *)
(* that say, wherever a burst of them ends, nothing but the message that   *)
(* they began with or the one that runs into it (Honest, Ahead, Tale).     *)
(***************************************************************************)
EXTENDS LircReader, SequenceTheorems, WellFoundedInduction, TLAPS

\* The edges of a transmission, or of a burst: pulses and spaces take turns.
Alternates(es) ==
  \A i \in DOMAIN es : es[i].kind = IF i % 2 = 1 THEN "pulse" ELSE "space"

\* What run() may find after a word.
MayFollow(v, w) ==
  /\ v.kind \in {"pulse", "frequency"} => w.kind # "pulse"
  /\ v.kind = "space" => w.kind \in {"pulse", "overflow"}

Fits(words) == \A i \in 1 .. Len(words) - 1 : MayFollow(words[i], words[i + 1])

ShortSpaces(es) == \A i \in DOMAIN es : es[i].kind = "space" => es[i].us < BurstGapUs

Control ==
  /\ Fits(air)
  /\ air # <<>> => air[Len(air)].kind \in {"space", "timeout"}
  /\ Alternates(edges) /\ ShortSpaces(edges)
  /\ edges # <<>> /\ edges[Len(edges)].kind = "pulse" => air # <<>>
  /\ edges # <<>> /\ air # <<>> => MayFollow(edges[Len(edges)], Head(air))

LInv == TypeOK /\ Control /\ BurstsAlternate

-----------------------------------------------------------------------------
(* Induction over the natural numbers, for sets.                           *)

LEMMA LeastNat ==
  ASSUME NEW S \in SUBSET Nat, S # {}
  PROVE  \E n \in S : \A m \in S : n <= m
<1> DEFINE R == OpToRel(<, Nat)
<1>1. \E n \in S : \A m \in S : <<m, n>> \notin R
  <2>1. IsWellFoundedOn(R, Nat)
    BY NatLessThanWellFounded
  <2> HIDE DEF R
  <2> QED  BY <2>1, WFMin
<1>2. \A n, m \in S : <<m, n>> \notin R => n <= m
  BY DEF OpToRel
<1> QED  BY <1>1, <1>2

\* A set that has 0 and, with each number below n, the next one.
LEMMA Climb ==
  ASSUME NEW n \in Nat, NEW S, 0 \in S, \A k \in 0 .. n - 1 : k \in S => k + 1 \in S
  PROVE  \A k \in 0 .. n : k \in S
<1> SUFFICES ASSUME NEW j \in 0 .. n, j \notin S PROVE FALSE
  OBVIOUS
<1> DEFINE T == {k \in 0 .. n : k \notin S}
<1>1. PICK m \in T : \A k \in T : m <= k
  <2>1. T \in SUBSET Nat /\ T # {}
    OBVIOUS
  <2> HIDE DEF T
  <2> QED  BY <2>1, LeastNat
<1>2. m # 0 /\ m - 1 \in 0 .. n - 1 /\ m - 1 \notin T
  BY <1>1
<1>3. m - 1 \in S
  BY <1>2
<1>4. (m - 1) + 1 \in S
  BY <1>2, <1>3
<1> QED  BY <1>1, <1>4

\* f is defined by recursion on 0 .. n.
Recurs(f, n, first, step) ==
  f[0] = first /\ \A i \in 1..n : f[i] = step[i][f[i - 1]]

\* What is defined so exists, and has values of its type.
LEMMA RecursionIsDefined ==
  ASSUME NEW n \in Nat, NEW T, NEW first \in T, NEW step \in [1..n -> [T -> T]]
  PROVE  \E f \in [0..n -> T] : Recurs(f, n, first, step)
<1> DEFINE UpTo(f, k) == f[0] = first /\ \A i \in 1..k : f[i] = step[i][f[i - 1]]
           S == {k \in 0..n : \E f \in [0..k -> T] : UpTo(f, k)}
<1>1. 0 \in S
  <2> DEFINE f == [i \in 0..0 |-> first]
  <2>1. f \in [0..0 -> T] /\ UpTo(f, 0)
    OBVIOUS
  <2> HIDE DEF f, UpTo
  <2> QED  BY <2>1
<1>2. ASSUME NEW k \in 0 .. n - 1, k \in S PROVE k + 1 \in S
  <2>1. PICK f \in [0..k -> T] : UpTo(f, k)
    BY <1>2
  <2> DEFINE g == [i \in 0 .. k + 1 |-> IF i = k + 1 THEN step[i][f[k]] ELSE f[i]]
  <2>2. k \in 0..k /\ k + 1 \in 1..n /\ f[k] \in T
    BY <2>1
  <2>3. g \in [0 .. k + 1 -> T]
    BY <2>1, <2>2
  <2>4. ASSUME NEW i \in 1 .. k + 1 PROVE g[i] = step[i][g[i - 1]]
    <3>1. g[i - 1] = f[i - 1]
      BY <2>4
    <3>2. CASE i = k + 1
      BY <3>1, <3>2
    <3>3. CASE i # k + 1
      BY <2>1, <3>1, <3>3
    <3> QED  BY <3>2, <3>3
  <2>5. g[0] = first
    BY <2>1
  <2> HIDE DEF g
  <2>6. UpTo(g, k + 1)
    BY <2>4, <2>5
  <2> HIDE DEF UpTo
  <2> QED  BY <2>2, <2>3, <2>6
<1>3. \A k \in 0..n : k \in S
  <2> HIDE DEF S
  <2>1. \A k \in 0 .. n - 1 : k \in S => k + 1 \in S
    BY <1>2
  <2> QED  BY <1>1, <2>1, Climb
<1> QED  BY <1>3 DEF Recurs

LEMMA RecursionHasType ==
  ASSUME NEW n \in Nat, NEW T, NEW step \in [1..n -> [T -> T]],
         NEW f, f[0] \in T, \A i \in 1..n : f[i - 1] \in T => f[i] = step[i][f[i - 1]]
  PROVE  \A i \in 0..n : f[i] \in T
<1> DEFINE S == {k \in 0..n : f[k] \in T}
<1>1. 0 \in S
  OBVIOUS
<1>2. \A k \in 0 .. n - 1 : k \in S => k + 1 \in S
  <2> SUFFICES ASSUME NEW k \in 0 .. n - 1, k \in S PROVE k + 1 \in S
    OBVIOUS
  <2>1. k + 1 \in 1..n /\ (k + 1) - 1 = k /\ f[k] \in T
    OBVIOUS
  <2>2. f[k + 1] = step[k + 1][f[k]]
    BY <2>1
  <2> QED  BY <2>1, <2>2
<1> HIDE DEF S
<1>3. \A k \in 0..n : k \in S
  BY <1>1, <1>2, Climb
<1> QED  BY <1>3 DEF S

\* The last element of a set of positions.
LEMMA MaxIsLast ==
  ASSUME NEW n \in Nat, NEW I \in SUBSET (1 .. n), I # {}
  PROVE  Max(I) \in I /\ \A i \in I : i <= Max(I)
<1> DEFINE T == {m \in 0 .. n : n - m \in I}
<1>1. PICK m \in T : \A k \in T : m <= k
  <2>1. PICK i \in I : TRUE
    OBVIOUS
  <2>2. T \in SUBSET Nat /\ n - i \in T
    BY <2>1
  <2> HIDE DEF T
  <2> QED  BY <2>2, LeastNat
<1>2. n - m \in I
  BY <1>1
<1>3. ASSUME NEW k \in I PROVE k <= n - m
  <2>1. n - k \in T
    BY <1>3
  <2>2. m \in Nat /\ k \in Nat /\ m <= n - k
    BY <1>1, <2>1
  <2> QED  BY <2>2
<1> QED  BY <1>2, <1>3 DEF Max

-----------------------------------------------------------------------------
(* The words.                                                              *)

LEMMA EdgeTypes ==
  /\ \A us \in Nat : Pulse(us) \in Edges /\ Space(us) \in Edges
  /\ \A e \in Edges : e.us \in Nat /\ e.kind \in {"pulse", "space"}
  /\ Edges \subseteq Words
  /\ Timeout \in Words /\ Overflow \in Words /\ Frequency \in Words
  /\ \A w \in Words : w.kind \in {"pulse", "space"} => w \in Edges
  /\ \A w \in Words : w.kind \in {"pulse", "space", "timeout", "overflow", "frequency"}
  BY DEF Edges, Words, Pulse, Space, Timeout, Overflow, Frequency

LEMMA DurationSums ==
  ASSUME NEW words \in Seq(Edges)
  PROVE  \E f \in [0 .. Len(words) -> Nat] :
           /\ f[0] = 0 /\ \A i \in 1 .. Len(words) : f[i] = f[i - 1] + words[i].us
           /\ Duration(words) = f[Len(words)]
<1> DEFINE N == Len(words)
           T == Nat
           Sums(f) == f = [n \in 0..N |-> IF n = 0 THEN 0 ELSE f[n - 1] + words[n].us]
           upTo == CHOOSE f : Sums(f)
           step == [i \in 1..N |-> [t \in T |-> t + words[i].us]]
<1>1. N \in Nat /\ \A i \in 1..N : words[i].us \in Nat
  BY EdgeTypes
<1>2. /\ 0 \in T /\ step \in [1..N -> [T -> T]]
      /\ \A t \in T, i \in 1..N : step[i][t] = t + words[i].us
  BY <1>1
<1> HIDE DEF N, T, step
<1>3. PICK f \in [0..N -> T] : Recurs(f, N, 0, step)
  <2> HIDE DEF Sums, upTo
  <2>1. N \in Nat /\ 0 \in T /\ step \in [1..N -> [T -> T]]
    BY <1>1, <1>2
  <2> QED  BY <2>1, RecursionIsDefined, Zenon
<1>4. Sums(f)
  <2>1. \A i \in 1..N : f[i] = f[i - 1] + words[i].us
    BY <1>1, <1>2, <1>3 DEF Recurs
  <2> QED  BY <1>1, <1>3, <2>1 DEF Recurs
<1>5. Sums(upTo)
  <2> HIDE DEF Sums
  <2> QED  BY <1>4
<1>6. Duration(words) = upTo[N]
  BY DEF Duration, N
<1> HIDE DEF upTo
<1>7. upTo[0] = 0 /\ \A i \in 1..N : upTo[i - 1] \in T => upTo[i] = step[i][upTo[i - 1]]
  BY <1>1, <1>2, <1>5
<1> HIDE DEF Sums
<1>8. \A i \in 0..N : upTo[i] \in T
  <2>1. N \in Nat /\ upTo[0] \in T /\ step \in [1..N -> [T -> T]]
    BY <1>1, <1>2, <1>7
  <2> QED  BY <2>1, <1>7, RecursionHasType, Zenon
<1>9. \A i \in 1..N : upTo[i] = upTo[i - 1] + words[i].us
  <2>1. \A i \in 1..N : i - 1 \in 0..N
    BY <1>1
  <2> QED  BY <1>2, <1>7, <1>8, <2>1
<1>10. upTo = [n \in 0..N |-> upTo[n]]
  BY <1>5 DEF Sums
<1>11. upTo \in [0..N -> Nat]
  BY <1>8, <1>10 DEF T
<1> QED  BY <1>6, <1>7, <1>9, <1>11 DEF N

LEMMA DurationType ==
  ASSUME NEW words \in Seq(Edges)
  PROVE  Duration(words) \in Nat
<1>1. Len(words) \in 0 .. Len(words)
  OBVIOUS
<1> QED  BY <1>1, DurationSums

\* Some words last at least as long as the first of them.
LEMMA DurationBound ==
  ASSUME NEW words \in Seq(Edges), words # <<>>
  PROVE  Duration(words) >= words[1].us
<1> DEFINE N == Len(words)
           S(f) == {k \in 0 .. N - 1 : f[k + 1] >= words[1].us}
<1>1. PICK f \in [0..N -> Nat] :
        /\ f[0] = 0 /\ \A i \in 1..N : f[i] = f[i - 1] + words[i].us
        /\ Duration(words) = f[N]
  BY DurationSums
<1>2. N \in Nat /\ N >= 1 /\ \A i \in 1..N : words[i].us \in Nat
  BY EdgeTypes
<1> HIDE DEF N
<1>3. 0 \in S(f)
  <2>1. 1 \in 1..N /\ 1 - 1 = 0 /\ 0 + 1 = 1
    BY <1>2
  <2>2. f[1] = 0 + words[1].us
    BY <1>1, <2>1
  <2> QED  BY <1>2, <2>1, <2>2
<1>4. ASSUME NEW k \in 0 .. (N - 1) - 1, k \in S(f) PROVE k + 1 \in S(f)
  <2>1. k + 2 \in 1..N /\ (k + 2) - 1 = k + 1 /\ (k + 1) + 1 = k + 2 /\ k + 1 \in 0..N /\ 1 \in 1..N
    BY <1>2
  <2>2. f[k + 2] = f[k + 1] + words[k + 2].us
    BY <1>1, <2>1
  <2>3. f[k + 1] \in Nat /\ words[k + 2].us \in Nat /\ words[1].us \in Nat
    BY <1>1, <1>2, <2>1
  <2>4. f[k + 1] >= words[1].us
    BY <1>4
  <2>5. f[k + 2] >= words[1].us
    BY <2>2, <2>3, <2>4
  <2>6. k + 1 \in 0 .. N - 1 /\ f[(k + 1) + 1] >= words[1].us
    BY <1>2, <2>1, <2>5
  <2> QED  BY <2>6
<1>5. \A k \in 0 .. N - 1 : k \in S(f)
  <2> HIDE DEF S
  <2>1. N - 1 \in Nat
    BY <1>2
  <2> QED  BY <1>3, <1>4, <2>1, Climb
<1>6. N - 1 \in 0 .. N - 1 /\ (N - 1) + 1 = N
  BY <1>2
<1>7. f[(N - 1) + 1] >= words[1].us
  BY <1>5, <1>6
<1> QED  BY <1>1, <1>6, <1>7

-----------------------------------------------------------------------------
(* What a transmission is made of.                                         *)

LEMMA ThreePieces ==
  ASSUME NEW S, NEW a \in Seq(S), NEW b \in Seq(S), NEW c \in Seq(S)
  PROVE  /\ a \o b \o c \in Seq(S)
         /\ Len(a \o b \o c) = Len(a) + Len(b) + Len(c)
         /\ \A k \in 1 .. Len(a) + Len(b) + Len(c) :
              (a \o b \o c)[k] = IF k <= Len(a) THEN a[k]
                                  ELSE IF k <= Len(a) + Len(b) THEN b[k - Len(a)]
                                  ELSE c[k - (Len(a) + Len(b))]
<1> DEFINE ab == a \o b
<1>1. /\ ab \in Seq(S) /\ Len(ab) = Len(a) + Len(b)
      /\ \A k \in 1 .. Len(a) + Len(b) : ab[k] = IF k <= Len(a) THEN a[k] ELSE b[k - Len(a)]
  BY ConcatProperties
<1>2. Len(a) \in Nat /\ Len(b) \in Nat /\ Len(c) \in Nat
  OBVIOUS
<1> HIDE DEF ab
<1>3. /\ ab \o c \in Seq(S) /\ Len(ab \o c) = Len(ab) + Len(c)
      /\ \A k \in 1 .. Len(ab) + Len(c) : (ab \o c)[k] = IF k <= Len(ab) THEN ab[k] ELSE c[k - Len(ab)]
  <2>1. ab \in Seq(S)
    BY <1>1
  <2> QED  BY <2>1, ConcatProperties
<1>4. /\ ab \o c \in Seq(S) /\ Len(ab \o c) = Len(a) + Len(b) + Len(c)
      /\ \A k \in 1 .. Len(a) + Len(b) + Len(c) :
           (ab \o c)[k] = IF k <= Len(a) THEN a[k]
                          ELSE IF k <= Len(a) + Len(b) THEN b[k - Len(a)]
                          ELSE c[k - (Len(a) + Len(b))]
  BY <1>1, <1>2, <1>3
<1> QED  BY <1>4 DEF ab

\* The words of a transmission that has lost pulses, or nothing.
Whole(es) == es \in Seq(Edges) /\ Alternates(es) /\ Len(es) % 2 = 1

LEMMA SentIsWhole ==
  ASSUME NEW m \in MessageType, NEW scale \in Scales
  PROVE  Whole(Sent(m, scale))
<1> DEFINE us(nominal) == (nominal * scale) \div 100
           N == 2 * FrameBits
           bits == Bits(m)
           body == [i \in 1 .. N |->
                      IF i % 2 = 1 THEN Pulse(us(560))
                      ELSE Space(us(IF bits[i \div 2] = 0 THEN 560 ELSE 1690))]
           short == <<Pulse(us(9000)), Space(us(2250)), Pulse(us(560))>>
           frame == <<Pulse(us(9000)), Space(us(4500))>> \o body \o <<Pulse(us(560))>>
<1>0. Sent(m, scale) = IF m = Repeat THEN short ELSE frame
  BY DEF Sent
<1> HIDE DEF short, frame
<1>1. scale \in Nat /\ FrameBits \in Nat
  BY ScalesAssumption, ByteBitsAssumption DEF FrameBits
<1>2. \A n \in Nat : us(n) \in Nat
  BY <1>1
<1> HIDE DEF us
<1>3. \A n \in {560, 1690, 2250, 4500, 9000} : Pulse(us(n)) \in Edges /\ Space(us(n)) \in Edges
  BY <1>2, EdgeTypes
<1>4. CASE m = Repeat
  <2>1. Sent(m, scale) = <<Pulse(us(9000)), Space(us(2250)), Pulse(us(560))>>
    BY <1>0, <1>4 DEF short
  <2> QED  BY <1>3, <2>1 DEF Whole, Alternates, Pulse, Space
<1>5. CASE m # Repeat
  <2>1. body \in [1..N -> Edges]
    BY <1>3
  <2>2. \A i \in 1..N : body[i].kind = IF i % 2 = 1 THEN "pulse" ELSE "space"
    BY DEF Pulse, Space
  <2>3. Sent(m, scale) = frame
    BY <1>0, <1>5
  <2> HIDE DEF body, N
  <2>4. N \in Nat /\ N % 2 = 0
    BY <1>1 DEF N
  <2>5. body \in Seq(Edges) /\ Len(body) = N
    BY <2>1, <2>4, SeqDef
  <2> DEFINE head == <<Pulse(us(9000)), Space(us(4500))>>
             last == <<Pulse(us(560))>>
             es == head \o body \o last
  <2>6. head \in Seq(Edges) /\ Len(head) = 2 /\ last \in Seq(Edges) /\ Len(last) = 1
    BY <1>3
  <2>7. head[1].kind = "pulse" /\ head[2].kind = "space" /\ last[1].kind = "pulse"
    BY DEF Pulse, Space
  <2> HIDE DEF head, last
  <2>8. /\ es \in Seq(Edges) /\ Len(es) = N + 3
        /\ \A i \in 1 .. N + 3 : es[i] = IF i <= 2 THEN head[i]
                                          ELSE IF i <= N + 2 THEN body[i - 2] ELSE last[i - (N + 2)]
    <3>1. /\ es \in Seq(Edges) /\ Len(es) = Len(head) + Len(body) + Len(last)
          /\ \A i \in 1 .. Len(head) + Len(body) + Len(last) :
               es[i] = IF i <= Len(head) THEN head[i]
                       ELSE IF i <= Len(head) + Len(body) THEN body[i - Len(head)]
                       ELSE last[i - (Len(head) + Len(body))]
      <4>1. head \in Seq(Edges) /\ body \in Seq(Edges) /\ last \in Seq(Edges)
        BY <2>5, <2>6
      <4> QED  BY <4>1, ThreePieces
    <3> HIDE DEF es
    <3>2. Len(head) = 2 /\ Len(body) = N /\ Len(last) = 1 /\ 2 + N + 1 = N + 3 /\ 2 + N = N + 2
      BY <2>4, <2>5, <2>6
    <3> QED  BY <3>1, <3>2
  <2> HIDE DEF es
  <2>9. ASSUME NEW i \in 1 .. N + 3
        PROVE  es[i].kind = IF i % 2 = 1 THEN "pulse" ELSE "space"
    <3>1. CASE i <= 2
      BY <2>7, <2>8, <3>1
    <3>2. CASE i > 2 /\ i <= N + 2
      <4>1. i - 2 \in 1..N /\ (i - 2) % 2 = i % 2
        BY <2>4, <3>2
      <4> QED  BY <2>2, <2>8, <3>2, <4>1
    <3>3. CASE i > N + 2
      <4>1. i = N + 3 /\ i % 2 = 1
        BY <2>4, <3>3
      <4> QED  BY <2>4, <2>7, <2>8, <4>1
    <3> QED  BY <2>4, <3>1, <3>2, <3>3
  <2>10. (N + 3) % 2 = 1
    BY <2>4
  <2> QED  BY <2>3, <2>8, <2>9, <2>10 DEF Whole, Alternates, frame, es, head, last
<1> QED  BY <1>4, <1>5

\* A piece that begins and ends at odd places.
LEMMA PieceIsWhole ==
  ASSUME NEW es, Whole(es), NEW i \in 1 .. Len(es), NEW j \in i .. Len(es),
         i % 2 = 1, j % 2 = 1
  PROVE  Whole(SubSeq(es, i, j)) /\ Len(SubSeq(es, i, j)) = j - i + 1
<1> DEFINE t == SubSeq(es, i, j)
<1>1. es \in Seq(Edges) /\ Len(es) \in Nat
  BY DEF Whole
<1>2. /\ t \in Seq(Edges) /\ Len(t) = j - i + 1
      /\ \A k \in 1 .. j - i + 1 : t[k] = es[i + k - 1]
  BY <1>1, SubSeqProperties
<1> HIDE DEF t
<1>3. ASSUME NEW k \in 1 .. j - i + 1
      PROVE  t[k].kind = IF k % 2 = 1 THEN "pulse" ELSE "space"
  <2>1. i + k - 1 \in 1 .. Len(es) /\ (i + k - 1) % 2 = k % 2
    BY <1>1
  <2>2. es[i + k - 1].kind = IF k % 2 = 1 THEN "pulse" ELSE "space"
    BY <1>1, <2>1 DEF Whole, Alternates
  <2> QED  BY <1>2, <2>2
<1>4. (j - i + 1) % 2 = 1
  BY <1>1
<1>5. DOMAIN t = 1 .. j - i + 1
  BY <1>1, <1>2
<1> QED  BY <1>2, <1>3, <1>4, <1>5 DEF Whole, Alternates, t

LEMMA FadedIsWhole ==
  ASSUME NEW es, Whole(es), NEW i \in PulsesOf(es), NEW j \in PulsesOf(es), i <= j,
         Faded(es, i, j) # <<>>
  PROVE  Whole(Faded(es, i, j))
<1> DEFINE before == SubSeq(es, 1, i - 2)
           after == SubSeq(es, j + 2, Len(es))
           gone == SubSeq(es, i - 1, j + 1)
           long == <<Space(Duration(gone))>>
<1>1. es \in Seq(Edges) /\ Len(es) \in Nat /\ Len(es) % 2 = 1
  BY DEF Whole
<1>2. i \in 1 .. Len(es) /\ j \in 1 .. Len(es) /\ i % 2 = 1 /\ j % 2 = 1
  BY <1>1 DEF Whole, Alternates, PulsesOf
<1>3. before = <<>> \/ (Whole(before) /\ Len(before) = i - 2)
  <2>1. CASE i >= 3
    <3>1. i - 2 \in 1 .. Len(es) /\ (i - 2) % 2 = 1 /\ 1 \in 1 .. Len(es) /\ 1 % 2 = 1
      BY <1>1, <1>2, <2>1
    <3> QED  BY <3>1, PieceIsWhole
  <2>2. CASE i < 3
    <3>1. i - 2 < 1 /\ i - 2 \in Int
      BY <1>2, <2>2
    <3> QED  BY <3>1, SubSeqEmpty
  <2> QED  BY <1>2, <2>1, <2>2
<1>4. after = <<>> \/ (Whole(after) /\ j + 2 <= Len(es))
  <2>1. CASE j + 2 <= Len(es)
    <3>1. j + 2 \in 1 .. Len(es) /\ (j + 2) % 2 = 1 /\ Len(es) \in (j + 2) .. Len(es)
      BY <1>1, <1>2, <2>1
    <3> QED  BY <1>1, <2>1, <3>1, PieceIsWhole
  <2>2. CASE j + 2 > Len(es)
    BY <1>1, <1>2, <2>2, SubSeqEmpty
  <2> QED  BY <1>1, <1>2, <2>1, <2>2
<1> HIDE DEF before, after
<1>5. CASE before = <<>> \/ after = <<>>
  <2>1. Faded(es, i, j) = before \o after
    BY <1>5 DEF Faded, before, after
  <2>2. <<>> \in Seq(Edges)
    OBVIOUS
  <2>3. Faded(es, i, j) = before \/ Faded(es, i, j) = after
    BY <1>3, <1>4, <1>5, <2>1, <2>2, ConcatEmptySeq DEF Whole
  <2> QED  BY <1>3, <1>4, <2>3
<1>6. CASE before # <<>> /\ after # <<>>
  <2>1. Faded(es, i, j) = before \o long \o after
    BY <1>6 DEF Faded, before, after
  <2>2. gone \in Seq(Edges)
    <3>1. i - 1 \in 1 .. Len(es) /\ j + 1 \in 1 .. Len(es)
      BY <1>1, <1>2, <1>3, <1>4, <1>6 DEF Whole
    <3>2. \A k \in i - 1 .. j + 1 : es[k] \in Edges
      BY <1>1, <3>1
    <3> QED  BY <3>1, <3>2, SubSeqProperties
  <2>3. Space(Duration(gone)) \in Edges /\ Space(Duration(gone)).kind = "space"
    BY <2>2, DurationType, EdgeTypes DEF Space
  <2> HIDE DEF gone
  <2>4. long \in Seq(Edges) /\ Len(long) = 1 /\ long[1].kind = "space"
    BY <2>3
  <2> HIDE DEF long
  <2> DEFINE P == Len(before)
             Q == Len(after)
             r == before \o long \o after
  <2>5. /\ before \in Seq(Edges) /\ after \in Seq(Edges)
        /\ P \in Nat /\ Q \in Nat /\ P % 2 = 1 /\ Q % 2 = 1
    BY <1>3, <1>4, <1>6 DEF Whole
  <2>6. /\ r \in Seq(Edges) /\ Len(r) = P + 1 + Q
        /\ \A k \in 1 .. P + 1 + Q :
             r[k] = IF k <= P THEN before[k] ELSE IF k <= P + 1 THEN long[k - P]
                    ELSE after[k - (P + 1)]
    <3>1. /\ r \in Seq(Edges) /\ Len(r) = Len(before) + Len(long) + Len(after)
          /\ \A k \in 1 .. Len(before) + Len(long) + Len(after) :
               r[k] = IF k <= Len(before) THEN before[k]
                      ELSE IF k <= Len(before) + Len(long) THEN long[k - Len(before)]
                      ELSE after[k - (Len(before) + Len(long))]
      <4>1. before \in Seq(Edges) /\ long \in Seq(Edges) /\ after \in Seq(Edges)
        BY <2>4, <2>5
      <4> QED  BY <4>1, ThreePieces
    <3> HIDE DEF r
    <3> QED  BY <2>4, <3>1
  <2> HIDE DEF r
  <2>7. ASSUME NEW k \in 1 .. P + 1 + Q
        PROVE  r[k].kind = IF k % 2 = 1 THEN "pulse" ELSE "space"
    <3>1. CASE k <= P
      <4>1. before[k].kind = IF k % 2 = 1 THEN "pulse" ELSE "space"
        BY <1>3, <1>6, <2>5, <3>1 DEF Whole, Alternates
      <4> QED  BY <2>6, <3>1, <4>1
    <3>2. CASE k = P + 1
      <4>1. k \in 1 .. P + 1 + Q /\ ~(k <= P) /\ k <= P + 1 /\ k - P = 1 /\ k % 2 = 0
        BY <2>5, <3>2
      <4>2. r[k] = long[1]
        BY <2>6, <4>1
      <4> QED  BY <2>4, <4>1, <4>2
    <3>3. CASE k > P + 1
      <4>1. k - (P + 1) \in 1..Q /\ (k - (P + 1)) % 2 = k % 2
        BY <2>5, <3>3
      <4>2. \A l \in 1..Q : after[l].kind = IF l % 2 = 1 THEN "pulse" ELSE "space"
        BY <1>4, <1>6, <2>5 DEF Whole, Alternates
      <4>3. after[k - (P + 1)].kind = IF k % 2 = 1 THEN "pulse" ELSE "space"
        BY <4>1, <4>2
      <4>4. r[k] = after[k - (P + 1)]
        BY <2>5, <2>6, <3>3
      <4> QED  BY <4>3, <4>4
    <3> QED  BY <2>5, <3>1, <3>2, <3>3
  <2>8. (P + 1 + Q) % 2 = 1
    BY <2>5
  <2> QED  BY <2>1, <2>6, <2>7, <2>8 DEF Whole, Alternates, r
<1> QED  BY <1>5, <1>6

\* What is left of a transmission, before the gap that follows it.
Received(ws) ==
  /\ ws \in Seq(Words) /\ ws # <<>> /\ Fits(ws)
  /\ ws[1].kind \in {"pulse", "overflow"} /\ ws[Len(ws)].kind \in {"pulse", "overflow"}

\* The words of a transmission with its gap.
Transmission(ws) ==
  /\ ws \in Seq(Words) /\ ws # <<>> /\ Fits(ws)
  /\ Head(ws).kind \in {"pulse", "overflow"} /\ ws[Len(ws)].kind \in {"space", "timeout"}

LEMMA WholeIsReceived ==
  ASSUME NEW es, Whole(es)
  PROVE  Received(es) /\ es[Len(es)].kind = "pulse"
<1>1. es \in Seq(Edges) /\ Len(es) \in Nat /\ Len(es) % 2 = 1 /\ DOMAIN es = 1 .. Len(es)
  BY DEF Whole
<1>2. \A i \in 1 .. Len(es) : es[i].kind = IF i % 2 = 1 THEN "pulse" ELSE "space"
  BY <1>1 DEF Whole, Alternates
<1>3. es \in Seq(Words)
  BY <1>1, EdgeTypes, SeqMonotonic
<1>4. Len(es) >= 1
  BY <1>1
<1>5. ASSUME NEW i \in 1 .. Len(es) - 1 PROVE MayFollow(es[i], es[i + 1])
  <2>1. i \in 1 .. Len(es) /\ i + 1 \in 1 .. Len(es) /\ (i % 2 = 1 <=> (i + 1) % 2 # 1)
    BY <1>1
  <2>2. /\ es[i].kind = IF i % 2 = 1 THEN "pulse" ELSE "space"
        /\ es[i + 1].kind = IF (i + 1) % 2 = 1 THEN "pulse" ELSE "space"
    BY <1>2, <2>1
  <2> QED  BY <2>1, <2>2 DEF MayFollow
<1>6. es[1].kind = "pulse" /\ es[Len(es)].kind = "pulse" /\ es # <<>>
  BY <1>1, <1>2, <1>4
<1> QED  BY <1>3, <1>5, <1>6 DEF Received, Fits

\* The words that an overflow leaves, with the overflow in their midst.
LEMMA OverflowedPieces ==
  ASSUME NEW es, Whole(es), NEW i \in 1 .. Len(es), NEW j \in i .. i + MaxDropped - 1
  PROVE  LET r == Overflowed(es, i, j)
             Q == IF j < Len(es) THEN Len(es) - j ELSE 0
         IN  /\ r \in Seq(Words) /\ Len(r) = i + Q
             /\ \A k \in 1 .. i - 1 : r[k] = es[k]
             /\ r[i] = Overflow
             /\ \A k \in i + 1 .. i + Q : r[k] = es[j + k - i]
<1> DEFINE before == SubSeq(es, 1, i - 1)
           after == SubSeq(es, j + 1, Len(es))
           lost == <<Overflow>>
           N == Len(es)
           Q == IF j < N THEN N - j ELSE 0
           r == before \o lost \o after
<1>1. es \in Seq(Edges) /\ N \in Nat /\ i \in Nat /\ j \in Nat /\ i >= 1 /\ i <= N /\ i <= j
  BY DroppedAssumption DEF Whole
<1>2. \A k \in 1..N : es[k] \in Words
  BY WholeIsReceived DEF Received
<1>3. /\ before \in Seq(Words) /\ Len(before) = i - 1
      /\ \A k \in 1 .. i - 1 : before[k] = es[k]
  <2>1. \A k \in 1 .. i - 1 : es[k] \in Words
    BY <1>1, <1>2
  <2> HIDE DEF N
  <2> QED  BY <1>1, <2>1, SubSeqProperties
<1>4. /\ after \in Seq(Words) /\ Len(after) = Q
      /\ \A k \in 1..Q : after[k] = es[j + k]
  <2>1. \A k \in j + 1 .. N : es[k] \in Words
    BY <1>1, <1>2
  <2>2. /\ after \in Seq(Words)
        /\ Len(after) = IF j + 1 <= N THEN N - (j + 1) + 1 ELSE 0
        /\ \A k \in 1 .. N - (j + 1) + 1 : after[k] = es[j + 1 + k - 1]
    BY <1>1, <2>1, SubSeqProperties
  <2> HIDE DEF after, N
  <2>3. Q \in Nat /\ (j < N => Q = N - (j + 1) + 1)
    BY <1>1
  <2>4. \A k \in 1..Q : j < N /\ j + 1 + k - 1 = j + k
    BY <1>1
  <2> QED  BY <1>1, <2>2, <2>3, <2>4
<1>5. lost \in Seq(Words) /\ Len(lost) = 1 /\ lost[1] = Overflow
  BY EdgeTypes
<1>6. Q \in Nat
  BY <1>1
<1> HIDE DEF before, after, lost, Q, N
<1>7. /\ r \in Seq(Words) /\ Len(r) = i + Q
      /\ \A k \in 1 .. i - 1 : r[k] = es[k]
      /\ r[i] = Overflow
      /\ \A k \in i + 1 .. i + Q : r[k] = es[j + k - i]
  <2>1. /\ r \in Seq(Words) /\ Len(r) = Len(before) + Len(lost) + Len(after)
        /\ \A k \in 1 .. Len(before) + Len(lost) + Len(after) :
             r[k] = IF k <= Len(before) THEN before[k]
                    ELSE IF k <= Len(before) + Len(lost) THEN lost[k - Len(before)]
                    ELSE after[k - (Len(before) + Len(lost))]
    <3>1. before \in Seq(Words) /\ lost \in Seq(Words) /\ after \in Seq(Words)
      BY <1>3, <1>4, <1>5
    <3> QED  BY <3>1, ThreePieces
  <2> HIDE DEF r
  <2>2. Len(before) = i - 1 /\ Len(lost) = 1 /\ Len(after) = Q
    BY <1>3, <1>4, <1>5
  <2>3. Len(r) = i + Q /\ \A k \in 1 .. i + Q :
             r[k] = IF k <= i - 1 THEN before[k] ELSE IF k <= i THEN lost[k - (i - 1)] ELSE after[k - i]
    BY <1>1, <1>6, <2>1, <2>2
  <2>4. \A k \in 1 .. i - 1 : r[k] = es[k]
    <3>1. \A k \in 1 .. i - 1 : k \in 1 .. i + Q /\ k <= i - 1
      BY <1>1, <1>6
    <3> QED  BY <1>3, <2>3, <3>1
  <2>5. r[i] = lost[1]
    BY <1>1, <1>6, <2>3
  <2>6. ASSUME NEW k \in i + 1 .. i + Q PROVE r[k] = es[j + k - i]
    <3>1. k - i \in 1..Q /\ k \in 1 .. i + Q /\ ~(k <= i - 1) /\ ~(k <= i) /\ j + (k - i) = j + k - i
      BY <1>1, <1>6
    <3>2. r[k] = after[k - i]
      BY <2>3, <3>1
    <3> QED  BY <1>4, <3>1, <3>2
  <2> QED  BY <1>5, <2>1, <2>3, <2>4, <2>5, <2>6
<1> QED  BY <1>7 DEF Overflowed, r, before, after, lost, N, Q

LEMMA OverflowedIsReceived ==
  ASSUME NEW es, Whole(es), NEW i \in 1 .. Len(es), NEW j \in i .. i + MaxDropped - 1
  PROVE  Received(Overflowed(es, i, j))
<1> DEFINE N == Len(es)
           Q == IF j < N THEN N - j ELSE 0
           r == Overflowed(es, i, j)
<1>1. es \in Seq(Edges) /\ N \in Nat /\ i \in Nat /\ j \in Nat /\ i >= 1 /\ i <= N /\ i <= j
  BY DroppedAssumption DEF Whole
<1>2. /\ \A k \in 1..N : es[k] \in Words
      /\ \A k \in 1 .. N - 1 : MayFollow(es[k], es[k + 1])
      /\ es[1].kind = "pulse" /\ es[N].kind = "pulse"
  <2>1. Received(es) /\ es[N].kind = "pulse"
    BY WholeIsReceived
  <2>2. es[1].kind = IF 1 % 2 = 1 THEN "pulse" ELSE "space"
    BY <1>1 DEF Whole, Alternates
  <2> QED  BY <1>1, <2>1, <2>2 DEF Received, Fits
<1>6. Q \in Nat
  BY <1>1
<1>7. /\ r \in Seq(Words) /\ Len(r) = i + Q
      /\ \A k \in 1 .. i - 1 : r[k] = es[k]
      /\ r[i].kind = "overflow"
      /\ \A k \in i + 1 .. i + Q : r[k] = es[j + k - i]
  BY OverflowedPieces DEF Overflow
<1> HIDE DEF Q, N, r
<1>8. ASSUME NEW k \in 1 .. Len(r) - 1 PROVE MayFollow(r[k], r[k + 1])
  <2>1. k \in 1 .. i + Q - 1
    BY <1>1, <1>6, <1>7
  <2>2. CASE k + 1 < i
    <3>1. k \in 1 .. i - 1 /\ k + 1 \in 1 .. i - 1 /\ k \in 1 .. N - 1
      BY <1>1, <2>1, <2>2
    <3> QED  BY <1>2, <1>7, <3>1
  <2>3. CASE k + 1 = i
    <3>1. r[k] \in Words /\ r[k].kind \in {"pulse", "space"}
      <4>1. k \in 1 .. i - 1 /\ k \in 1..N /\ N \in Nat
        BY <1>1, <2>1, <2>3
      <4>2. es[k].kind \in {"pulse", "space"}
        BY <4>1 DEF N, Whole, Alternates
      <4> QED  BY <1>2, <1>7, <4>1, <4>2
    <3> QED  BY <1>7, <2>3, <3>1 DEF MayFollow
  <2>4. CASE k = i
    BY <1>7, <2>4 DEF MayFollow
  <2>5. CASE k > i
    <3>1. /\ k \in i + 1 .. i + Q /\ k + 1 \in i + 1 .. i + Q
          /\ j + k - i \in 1 .. N - 1 /\ j + (k + 1) - i = (j + k - i) + 1
      BY <1>1, <1>6, <2>1, <2>5 DEF Q
    <3>2. r[k] = es[j + k - i] /\ r[k + 1] = es[(j + k - i) + 1]
      BY <1>7, <3>1
    <3> QED  BY <1>2, <3>1, <3>2
  <2> QED  BY <1>1, <2>1, <2>2, <2>3, <2>4, <2>5
<1>9. r # <<>>
  BY <1>1, <1>6, <1>7
<1>10. r[1].kind \in {"pulse", "overflow"}
  <2>1. CASE i = 1
    BY <1>7, <2>1
  <2>2. CASE i # 1
    <3>1. 1 \in 1 .. i - 1
      BY <1>1, <2>2
    <3> QED  BY <1>2, <1>7, <3>1
  <2> QED  BY <2>1, <2>2
<1>11. r[Len(r)].kind \in {"pulse", "overflow"}
  <2>1. CASE Q = 0
    BY <1>1, <1>7, <2>1
  <2>2. CASE Q # 0
    <3>1. i + Q \in i + 1 .. i + Q /\ j + (i + Q) - i = N
      BY <1>1, <1>6, <2>2 DEF Q
    <3>2. r[Len(r)] = es[N]
      BY <1>7, <3>1
    <3> QED  BY <1>2, <3>2
  <2> QED  BY <2>1, <2>2
<1>12. Received(r)
  BY <1>7, <1>8, <1>9, <1>10, <1>11 DEF Received, Fits
<1> QED  BY <1>12 DEF r

LEMMA WithGap ==
  ASSUME NEW ws, Received(ws), NEW gap \in Words, gap.kind \in {"space", "timeout"}
  PROVE  /\ Transmission(Append(ws, gap))
         /\ ws[Len(ws)].kind = "pulse" => Transmission(ws \o <<Frequency, gap>>)
<1> DEFINE N == Len(ws)
<1>1. ws \in Seq(Words) /\ N \in Nat /\ N >= 1
  BY DEF Received
<1>2. /\ \A k \in 1 .. N - 1 : MayFollow(ws[k], ws[k + 1])
      /\ ws[1].kind \in {"pulse", "overflow"} /\ ws[N].kind \in {"pulse", "overflow"}
  BY DEF Received, Fits
<1>3. Transmission(Append(ws, gap))
  <2> DEFINE r == Append(ws, gap)
  <2>1. /\ r \in Seq(Words) /\ Len(r) = N + 1 /\ r # <<>> /\ r[N + 1] = gap
        /\ \A k \in 1..N : r[k] = ws[k]
    BY <1>1, AppendProperties
  <2> HIDE DEF r
  <2>2. ASSUME NEW k \in 1 .. N PROVE MayFollow(r[k], r[k + 1])
    <3>1. CASE k < N
      <4>1. k \in 1 .. N - 1 /\ k + 1 \in 1..N
        BY <1>1, <3>1
      <4> QED  BY <1>2, <2>1, <4>1
    <3>2. CASE k = N
      BY <1>1, <1>2, <2>1, <3>2 DEF MayFollow
    <3> QED  BY <1>1, <3>1, <3>2
  <2>3. Head(r) = r[1] /\ r[1] = ws[1] /\ Len(r) - 1 = N
    BY <1>1, <2>1
  <2>4. Fits(r)
    BY <2>2, <2>3 DEF Fits
  <2> QED  BY <1>2, <2>1, <2>3, <2>4 DEF Transmission, r
<1>4. ASSUME ws[N].kind = "pulse" PROVE Transmission(ws \o <<Frequency, gap>>)
  <2> DEFINE end == <<Frequency, gap>>
             r == ws \o end
  <2>1. /\ end \in Seq(Words) /\ Len(end) = 2
        /\ end[1] = Frequency /\ end[2] = gap
    BY EdgeTypes
  <2>2. Frequency.kind = "frequency"
    BY DEF Frequency
  <2> HIDE DEF end
  <2>3. /\ r \in Seq(Words) /\ Len(r) = N + 2
        /\ \A k \in 1 .. N + 2 : r[k] = IF k <= N THEN ws[k] ELSE end[k - N]
    <3>1. /\ r \in Seq(Words) /\ Len(r) = Len(ws) + Len(end)
          /\ \A k \in 1 .. Len(ws) + Len(end) : r[k] = IF k <= Len(ws) THEN ws[k] ELSE end[k - Len(ws)]
      BY <1>1, <2>1, ConcatProperties
    <3> HIDE DEF r
    <3> QED  BY <2>1, <3>1
  <2> HIDE DEF r
  <2>4. r[N + 1] = Frequency /\ r[N + 2] = gap /\ \A k \in 1..N : r[k] = ws[k]
    BY <1>1, <2>1, <2>3
  <2>5. ASSUME NEW k \in 1 .. N + 1 PROVE MayFollow(r[k], r[k + 1])
    <3>1. CASE k < N
      <4>1. k \in 1 .. N - 1 /\ k + 1 \in 1..N /\ k \in 1..N
        BY <1>1, <3>1
      <4> QED  BY <1>2, <2>4, <4>1
    <3>2. CASE k = N
      BY <1>1, <1>4, <2>2, <2>4, <3>2 DEF MayFollow
    <3>3. CASE k = N + 1
      <4>1. r[k] = Frequency /\ r[k + 1] = gap
        BY <1>1, <2>4, <3>3
      <4> QED  BY <2>2, <4>1 DEF MayFollow
    <3> QED  BY <1>1, <3>1, <3>2, <3>3
  <2>6. Head(r) = r[1] /\ r[1] = ws[1] /\ Len(r) - 1 = N + 1 /\ r # <<>>
    BY <1>1, <2>3, <2>4
  <2>7. Fits(r)
    BY <2>5, <2>6 DEF Fits
  <2> QED  BY <1>2, <2>3, <2>4, <2>6, <2>7 DEF Transmission, r, end
<1> QED  BY <1>3, <1>4

-----------------------------------------------------------------------------
(* The steps.                                                              *)

LEMMA RepeatIsAMessage == Repeat \in MessageType
  BY DEF MessageType

LEMMA TransmitStep ==
  ASSUME LInv, NEW m \in Messages, Transmit(m)
  PROVE  LInv'
<1> USE DEF LInv
<1>1. m \in MessageType
  BY MessagesAssumption
<1>2. PICK scale \in Scales, gap \in Gaps :
        LET words == Sent(m, scale)
        IN  \/ air' \in {Append(words, gap), words \o <<Frequency, gap>>}
            \/ air' \in {Append(rest, gap) : rest \in Disturbed(words)}
  BY DEF Transmit
<1> DEFINE words == Sent(m, scale)
<1>3. gap \in Words /\ gap.kind \in {"space", "timeout"}
  BY GapsAssumption, EdgeTypes DEF Gaps, Silences, Space, Timeout
<1>4. Whole(words)
  BY <1>1, SentIsWhole
<1> HIDE DEF words
<1>5. words \in Seq(Edges) /\ DOMAIN words = 1 .. Len(words)
  BY <1>4 DEF Whole
<1>6. ASSUME NEW rest \in Disturbed(words) PROVE Received(rest)
  <2>1. CASE \E i \in PulsesOf(words) :
               rest \in {Faded(words, i, j) : j \in {k \in PulsesOf(words) : k >= i}} \ {<<>>}
    <3>1. PICK i \in PulsesOf(words), j \in PulsesOf(words) :
            j >= i /\ rest = Faded(words, i, j) /\ rest # <<>>
      BY <2>1
    <3>2. i <= j
      BY <1>5, <3>1 DEF PulsesOf
    <3> QED  BY <1>4, <3>1, <3>2, FadedIsWhole, WholeIsReceived
  <2>2. CASE \E i \in DOMAIN words :
               rest \in {Overflowed(words, i, j) : j \in i .. i + MaxDropped - 1}
    BY <1>4, <1>5, <2>2, OverflowedIsReceived
  <2>3. \/ \E i \in PulsesOf(words) :
             rest \in {Faded(words, i, j) : j \in {k \in PulsesOf(words) : k >= i}} \ {<<>>}
        \/ \E i \in DOMAIN words :
             rest \in {Overflowed(words, i, j) : j \in i .. i + MaxDropped - 1}
    BY <1>6 DEF Disturbed
  <2> QED  BY <2>1, <2>2, <2>3
<1>7. Transmission(air')
  <2>1. Received(words) /\ words[Len(words)].kind = "pulse"
    BY <1>4, WholeIsReceived
  <2>2. \/ air' = Append(words, gap) \/ air' = words \o <<Frequency, gap>>
        \/ \E rest \in Disturbed(words) : air' = Append(rest, gap)
    BY <1>2 DEF words
  <2> QED  BY <1>3, <1>6, <2>1, <2>2, WithGap
<1>8. /\ air = <<>> /\ edges' = edges /\ burst' = <<>> /\ message' = m
      /\ opened' = opened /\ source' = Repeat /\ clean' \in BOOLEAN
  BY DEF Transmit, NothingPublished
<1>9. TypeOK'
  <2>1. <<>> \in Seq(Edges) /\ Len(<<>>) <= MaxBurstEdges
    BY EdgesAssumption DEF TypeOK
  <2>2. air' \in Seq(Words)
    BY <1>7 DEF Transmission
  <2> QED  BY <1>1, <1>8, <2>1, <2>2, RepeatIsAMessage DEF TypeOK
<1>10. Control'
  <2>1. edges # <<>> => edges[Len(edges)].kind = "space"
    <3>1. edges # <<>> => edges[Len(edges)] \in Edges
      BY DEF TypeOK
    <3> QED  BY <1>8, <3>1, EdgeTypes DEF Control
  <2> QED  BY <1>7, <1>8, <2>1 DEF Control, Transmission, MayFollow
<1>11. BurstsAlternate'
  BY <1>8 DEF BurstsAlternate
<1> QED  BY <1>9, <1>10, <1>11

\* What is left when a word has been read.
LEMMA ReadLeaves ==
  ASSUME LInv, Read
  PROVE  /\ Word \in Words
         /\ air' \in Seq(Words) /\ Fits(air')
         /\ air' # <<>> => /\ air'[Len(air')].kind \in {"space", "timeout"}
                           /\ MayFollow(Word, Head(air'))
         /\ air' = <<>> => Word.kind \in {"space", "timeout"}
         /\ edges # <<>> => MayFollow(edges[Len(edges)], Word)
         /\ message' = message /\ clean' = clean
<1> USE DEF LInv
<1> DEFINE N == Len(air)
           t == air'
<1>1. air \in Seq(Words) /\ air # <<>> /\ air' = Tail(air)
  BY DEF TypeOK, Read
<1>2. /\ N \in Nat /\ N >= 1 /\ Word = air[1] /\ Word \in Words
      /\ t \in Seq(Words) /\ Len(t) = N - 1
      /\ \A i \in 1 .. N - 1 : t[i] = air[i + 1]
  BY <1>1, HeadTailProperties DEF Word
<1>3. Fits(air) /\ air[N].kind \in {"space", "timeout"}
  BY <1>1 DEF Control
<1> HIDE DEF t
<1>4. Fits(t)
  <2> SUFFICES ASSUME NEW i \in 1 .. Len(t) - 1 PROVE MayFollow(t[i], t[i + 1])
    BY DEF Fits
  <2>1. i \in 1 .. N - 1 /\ i + 1 \in 1 .. N - 1
    BY <1>2
  <2>2. MayFollow(air[i + 1], air[(i + 1) + 1])
    BY <1>3, <2>1 DEF Fits
  <2> QED  BY <1>2, <2>1, <2>2
<1>5. ASSUME t # <<>>
      PROVE  t[Len(t)].kind \in {"space", "timeout"} /\ MayFollow(Word, Head(t))
  <2>1. N - 1 >= 1 /\ Head(t) = t[1]
    BY <1>2, <1>5
  <2>2. 1 \in 1 .. N - 1 /\ N - 1 \in 1 .. N - 1 /\ (N - 1) + 1 = N
    BY <1>2, <2>1
  <2>3. t[Len(t)] = air[N] /\ Head(t) = air[1 + 1]
    BY <1>2, <2>1, <2>2
  <2> QED  BY <1>2, <1>3, <2>2, <2>3 DEF Fits
<1>6. ASSUME t = <<>> PROVE Word.kind \in {"space", "timeout"}
  <2>1. N = 1
    BY <1>2, <1>6
  <2> QED  BY <1>2, <1>3, <2>1
<1>7. edges # <<>> => MayFollow(edges[Len(edges)], Word)
  BY <1>1 DEF Control, Word
<1> QED  BY <1>2, <1>4, <1>5, <1>6, <1>7 DEF t, Read

\* _flush publishes what comes up to the last pulse.
LEMMA FlushTrims ==
  ASSUME NEW es \in Seq(Edges), Flush(es)
  PROVE  /\ edges' = <<>> /\ source' = opened
         /\ burst' \in Seq(Edges) /\ Len(burst') <= Len(es)
         /\ \A i \in 1 .. Len(burst') : burst'[i] = es[i]
         /\ Len(burst') # 0 => es[Len(burst')].kind = "pulse"
         /\ \A i \in Len(burst') + 1 .. Len(es) : es[i].kind # "pulse"
<1> DEFINE I == {i \in 1 .. Len(es) : es[i].kind = "pulse"}
           last == SelectLastInSeq(es, LAMBDA e : e.kind = "pulse")
<1>1. last = IF I # {} THEN Max(I) ELSE 0
  BY DEF SelectLastInSeq
<1>2. edges' = <<>> /\ source' = opened /\ burst' = SubSeq(es, 1, last)
  BY DEF Flush
<1> HIDE DEF last
<1>3. Len(es) \in Nat /\ DOMAIN es = 1 .. Len(es)
  OBVIOUS
<1>4. /\ last \in 0 .. Len(es)
      /\ last # 0 => es[last].kind = "pulse"
      /\ \A i \in last + 1 .. Len(es) : es[i].kind # "pulse"
  <2>1. CASE I = {}
    BY <1>1, <1>3, <2>1
  <2>2. CASE I # {}
    <3>1. I \in SUBSET (1 .. Len(es))
      OBVIOUS
    <3>2. last \in I /\ \A i \in I : i <= last
      <4> HIDE DEF I
      <4> QED  BY <1>1, <1>3, <2>2, <3>1, MaxIsLast
    <3> QED  BY <1>3, <3>2
  <2> QED  BY <2>1, <2>2
<1>5. /\ burst' \in Seq(Edges) /\ Len(burst') = last
      /\ \A i \in 1 .. last : burst'[i] = es[i]
  <2>1. \A i \in 1 .. last : es[i] \in Edges
    BY <1>3, <1>4
  <2>2. /\ burst' \in Seq(Edges)
        /\ Len(burst') = IF 1 <= last THEN last - 1 + 1 ELSE 0
        /\ \A i \in 1 .. last - 1 + 1 : burst'[i] = es[1 + i - 1]
    BY <1>2, <1>4, <2>1, SubSeqProperties
  <2> QED  BY <1>4, <2>2
<1> QED  BY <1>2, <1>4, <1>5

\* Of edges that alternate it is a burst as a remote can send it.
LEMMA FlushPublishes ==
  ASSUME NEW es \in Seq(Edges), Alternates(es), ShortSpaces(es), Flush(es)
  PROVE  /\ edges' = <<>> /\ source' = opened
         /\ burst' \in Seq(Edges) /\ Len(burst') <= Len(es)
         /\ BurstsAlternate'
<1> DEFINE n == Len(burst')
<1>1. /\ edges' = <<>> /\ source' = opened
      /\ burst' \in Seq(Edges) /\ n <= Len(es)
      /\ \A i \in 1..n : burst'[i] = es[i]
      /\ n # 0 => es[n].kind = "pulse"
  BY FlushTrims
<1>2. n \in Nat /\ DOMAIN es = 1 .. Len(es) /\ DOMAIN burst' = 1..n
  BY <1>1
<1> HIDE DEF n
<1>3. \A i \in 1..n :
        /\ es[i].kind = IF i % 2 = 1 THEN "pulse" ELSE "space"
        /\ es[i].kind = "space" => es[i].us < BurstGapUs
  <2>1. \A i \in 1..n : i \in DOMAIN es
    BY <1>1, <1>2
  <2> QED  BY <2>1 DEF Alternates, ShortSpaces
<1>4. n # 0 => n % 2 = 1
  BY <1>1, <1>2, <1>3
<1>5. burst' # <<>> => n # 0
  BY <1>1 DEF n
<1>6. BurstsAlternate'
  BY <1>1, <1>2, <1>3, <1>4, <1>5 DEF BurstsAlternate, n
<1> QED  BY <1>1, <1>6 DEF n

\* A pulse after a space, or a space shorter than a gap after a pulse.
LEMMA KeepStep ==
  ASSUME LInv, Read, Word.kind \in {"pulse", "space"},
         Word.kind = "space" => edges # <<>> /\ ~IsGap(Word),
         Keep(Append(edges, Word)), opened' \in MessageType
  PROVE  LInv'
<1> USE DEF LInv
<1> DEFINE es == Append(edges, Word)
           N == Len(edges)
<1>1. /\ Word \in Words /\ air' \in Seq(Words) /\ Fits(air')
      /\ air' # <<>> => /\ air'[Len(air')].kind \in {"space", "timeout"}
                        /\ MayFollow(Word, Head(air'))
      /\ air' = <<>> => Word.kind \in {"space", "timeout"}
      /\ edges # <<>> => MayFollow(edges[N], Word)
      /\ message' = message /\ clean' = clean
  BY ReadLeaves
<1>2. Word \in Edges
  BY <1>1, EdgeTypes
<1>3. /\ edges \in Seq(Edges) /\ N \in Nat /\ N < MaxBurstEdges
      /\ DOMAIN edges = 1..N /\ MaxBurstEdges \in Nat
  BY EdgesAssumption DEF TypeOK
<1>4. /\ es \in Seq(Edges) /\ Len(es) = N + 1 /\ DOMAIN es = 1 .. N + 1
      /\ \A i \in 1..N : es[i] = edges[i]
      /\ es[N + 1] = Word /\ es # <<>>
  BY <1>2, <1>3, AppendProperties
<1> HIDE DEF es
<1>5. \A i \in 1..N : /\ edges[i].kind = IF i % 2 = 1 THEN "pulse" ELSE "space"
                      /\ edges[i].kind = "space" => edges[i].us < BurstGapUs
  BY <1>3 DEF Control, Alternates, ShortSpaces
<1>6. Word.kind = IF (N + 1) % 2 = 1 THEN "pulse" ELSE "space"
  <2>1. CASE N = 0
    BY <1>3, <2>1
  <2>2. CASE N # 0
    <3>1. N \in 1..N /\ edges # <<>>
      BY <1>3, <2>2
    <3>2. edges[N].kind = IF N % 2 = 1 THEN "pulse" ELSE "space"
      BY <1>5, <3>1
    <3>3. MayFollow(edges[N], Word)
      BY <1>1, <3>1
    <3>4. N % 2 = 1 <=> (N + 1) % 2 # 1
      BY <1>3
    <3> QED  BY <3>2, <3>3, <3>4 DEF MayFollow
  <2> QED  BY <2>1, <2>2
<1>7. Word.kind = "space" => Word.us < BurstGapUs
  BY <1>2, GapsAssumption, EdgeTypes DEF IsGap
<1>8. Alternates(es) /\ ShortSpaces(es)
  <2>1. \A i \in 1 .. N + 1 : i \in 1..N \/ i = N + 1
    BY <1>3
  <2> QED  BY <1>4, <1>5, <1>6, <1>7, <2>1 DEF Alternates, ShortSpaces
<1>9. {message, opened, source} \subseteq MessageType /\ clean \in BOOLEAN
  BY DEF TypeOK
<1>10. CASE Len(es) >= MaxBurstEdges
  <2>1. Flush(es) /\ Len(es) <= MaxBurstEdges
    BY <1>3, <1>4, <1>10 DEF Keep, es
  <2>2. /\ edges' = <<>> /\ source' = opened
        /\ burst' \in Seq(Edges) /\ Len(burst') <= Len(es) /\ BurstsAlternate'
    BY <1>4, <1>8, <2>1, FlushPublishes
  <2>3. TypeOK'
    <3>1. <<>> \in Seq(Edges) /\ Len(<<>>) < MaxBurstEdges
      BY <1>3
    <3>2. Len(burst') <= MaxBurstEdges
      BY <1>3, <1>4, <2>1, <2>2
    <3> QED  BY <1>1, <1>9, <2>2, <3>1, <3>2 DEF TypeOK
  <2>4. Control'
    BY <1>1, <2>2 DEF Control, Alternates, ShortSpaces
  <2> QED  BY <2>2, <2>3, <2>4
<1>11. CASE ~(Len(es) >= MaxBurstEdges)
  <2>1. edges' = es /\ burst' = <<>> /\ source' = Repeat
    BY <1>11 DEF Keep, NothingPublished, es
  <2>2. TypeOK'
    <3>1. <<>> \in Seq(Edges) /\ Len(<<>>) <= MaxBurstEdges /\ Len(es) < MaxBurstEdges
      BY <1>3, <1>4, <1>11
    <3> QED  BY <1>1, <1>4, <1>9, <2>1, <3>1, RepeatIsAMessage DEF TypeOK
  <2>3. edges'[Len(edges')] = Word
    BY <1>4, <2>1
  <2>4. Control'
    BY <1>1, <1>8, <2>1, <2>3 DEF Control
  <2>5. BurstsAlternate'
    BY <2>1 DEF BurstsAlternate
  <2> QED  BY <2>2, <2>4, <2>5
<1> QED  BY <1>10, <1>11

LEMMA ReadEndStep ==
  ASSUME LInv, ReadEnd
  PROVE  LInv'
<1> USE DEF LInv
<1>1. Read /\ Flush(edges) /\ opened' = Repeat
  BY DEF ReadEnd
<1>2. /\ air' \in Seq(Words) /\ Fits(air')
      /\ air' # <<>> => air'[Len(air')].kind \in {"space", "timeout"}
      /\ message' = message /\ clean' = clean
  BY <1>1, ReadLeaves
<1>3. /\ edges \in Seq(Edges) /\ Len(edges) \in Nat /\ MaxBurstEdges \in Nat
      /\ Len(edges) <= MaxBurstEdges /\ Alternates(edges) /\ ShortSpaces(edges)
  BY EdgesAssumption DEF TypeOK, Control
<1>4. /\ edges' = <<>> /\ source' = opened
      /\ burst' \in Seq(Edges) /\ Len(burst') <= Len(edges) /\ BurstsAlternate'
  BY <1>1, <1>3, FlushPublishes
<1>5. TypeOK'
  <2>1. <<>> \in Seq(Edges) /\ Len(<<>>) < MaxBurstEdges
    BY EdgesAssumption DEF TypeOK
  <2>2. Len(burst') <= MaxBurstEdges
    BY <1>3, <1>4
  <2>3. {message, opened, source} \subseteq MessageType /\ clean \in BOOLEAN
    BY DEF TypeOK
  <2> QED  BY <1>1, <1>2, <1>4, <2>1, <2>2, <2>3, RepeatIsAMessage DEF TypeOK
<1>6. Control'
  BY <1>2, <1>4 DEF Control, Alternates, ShortSpaces
<1> QED  BY <1>4, <1>5, <1>6

LEMMA ReadNothingStep ==
  ASSUME LInv, ReadNothing
  PROVE  LInv'
<1> USE DEF LInv
<1>1. /\ Read /\ edges' = edges /\ opened' = opened /\ burst' = <<>> /\ source' = Repeat
      /\ edges = <<>> \/ Word.kind = "frequency"
  BY DEF ReadNothing, NothingPublished
<1>2. /\ air' \in Seq(Words) /\ Fits(air')
      /\ air' # <<>> => /\ air'[Len(air')].kind \in {"space", "timeout"}
                        /\ MayFollow(Word, Head(air'))
      /\ air' = <<>> => Word.kind \in {"space", "timeout"}
      /\ edges # <<>> => MayFollow(edges[Len(edges)], Word)
      /\ message' = message /\ clean' = clean
  BY <1>1, ReadLeaves
<1>3. TypeOK'
  <2>1. <<>> \in Seq(Edges) /\ Len(<<>>) <= MaxBurstEdges
    BY EdgesAssumption DEF TypeOK
  <2> QED  BY <1>1, <1>2, <2>1, RepeatIsAMessage DEF TypeOK
<1>4. edges # <<>> => edges[Len(edges)].kind \in {"pulse", "space"}
  <2>1. edges # <<>> => edges[Len(edges)] \in Edges
    BY DEF TypeOK
  <2> QED  BY <2>1, EdgeTypes
<1>5. Control'
  BY <1>1, <1>2, <1>4 DEF Control, MayFollow
<1>6. BurstsAlternate'
  BY <1>1 DEF BurstsAlternate
<1> QED  BY <1>3, <1>5, <1>6

LEMMA InitLInv == Init => LInv
<1> SUFFICES ASSUME Init PROVE LInv
  OBVIOUS
<1>1. TypeOK
  <2>1. <<>> \in Seq(Edges) /\ <<>> \in Seq(Words) /\ Len(<<>>) = 0
    OBVIOUS
  <2>2. 0 < MaxBurstEdges /\ MaxBurstEdges \in Nat
    BY EdgesAssumption, ByteBitsAssumption DEF FrameBits
  <2>3. clean \in BOOLEAN /\ air = <<>> /\ edges = <<>> /\ burst = <<>>
        /\ message = Repeat /\ opened = Repeat /\ source = Repeat
    BY DEF Init
  <2>4. /\ edges \in Seq(Edges) /\ Len(edges) < MaxBurstEdges
        /\ burst \in Seq(Edges) /\ Len(burst) <= MaxBurstEdges
        /\ air \in Seq(Words)
    BY <2>1, <2>2, <2>3
  <2>5. {message, opened, source} \subseteq MessageType
    BY <2>3, RepeatIsAMessage
  <2> QED  BY <2>3, <2>4, <2>5 DEF TypeOK
<1>2. Control /\ BurstsAlternate
  BY DEF Init, Control, Fits, Alternates, ShortSpaces, BurstsAlternate
<1> QED  BY <1>1, <1>2 DEF LInv

LEMMA LInvStep == LInv /\ [Next]_vars => LInv'
<1> SUFFICES ASSUME LInv, [Next]_vars PROVE LInv'
  OBVIOUS
<1>1. CASE UNCHANGED vars
  BY <1>1 DEF vars, LInv, TypeOK, Control, BurstsAlternate
<1>2. ASSUME NEW m \in Messages, Transmit(m) PROVE LInv'
  BY <1>2, TransmitStep
<1>3. CASE ReadPulse
  <2>1. opened' \in MessageType
    BY <1>3 DEF ReadPulse, LInv, TypeOK
  <2> QED  BY <1>3, <2>1, KeepStep DEF ReadPulse
<1>4. CASE ReadSpace
  <2>1. opened' \in MessageType
    BY <1>4 DEF ReadSpace, LInv, TypeOK
  <2> QED  BY <1>4, <2>1, KeepStep DEF ReadSpace
<1>5. CASE ReadEnd
  BY <1>5, ReadEndStep
<1>6. CASE ReadNothing
  BY <1>6, ReadNothingStep
<1> QED  BY <1>1, <1>2, <1>3, <1>4, <1>5, <1>6 DEF Next, Run

\* The reader's variables have their types: edges never reaches the limit of a
\* burst between two words.
THEOREM ReaderTypeCorrect == Spec => []TypeOK
<1>1. LInv => TypeOK
  BY DEF LInv
<1> QED  BY <1>1, InitLInv, LInvStep, PTL DEF Spec

\* Whatever pulses are not seen and words dropped, a burst is published as a
\* remote can send it.
THEOREM BurstsAreWellFormed == Spec => []BurstsAlternate
<1>1. LInv => BurstsAlternate
  BY DEF LInv
<1> QED  BY <1>1, InitLInv, LInvStep, PTL DEF Spec

-----------------------------------------------------------------------------
(* The pulses of a sequence of words.                                      *)

\* f has the pulses of the first words of es, for every number of them.
Counts(f, es) ==
  /\ f[0] = <<>>
  /\ \A i \in 1 .. Len(es) :
       f[i] = IF es[i].kind = "pulse" THEN Append(f[i - 1], es[i]) ELSE f[i - 1]

LEMMA PulsesAreCounted ==
  ASSUME NEW es \in Seq(Words)
  PROVE  \E f \in [0 .. Len(es) -> Seq(Words)] : Counts(f, es) /\ Pulses(es) = f[Len(es)]
<1> DEFINE N == Len(es)
           T == Seq(Words)
           Def(f) == f = [n \in 0..N |->
                            IF n = 0 THEN <<>>
                            ELSE IF es[n].kind = "pulse" THEN Append(f[n - 1], es[n]) ELSE f[n - 1]]
           upTo == CHOOSE f : Def(f)
           step == [i \in 1..N |-> [t \in T |-> IF es[i].kind = "pulse" THEN Append(t, es[i]) ELSE t]]
<1>1. N \in Nat /\ \A i \in 1..N : es[i] \in Words
  OBVIOUS
<1>2. /\ <<>> \in T /\ step \in [1..N -> [T -> T]]
      /\ \A t \in T, i \in 1..N : step[i][t] = IF es[i].kind = "pulse" THEN Append(t, es[i]) ELSE t
  BY <1>1
<1> HIDE DEF N, T, step
<1>3. PICK f \in [0..N -> T] : Recurs(f, N, <<>>, step)
  <2> HIDE DEF Def, upTo
  <2>1. N \in Nat /\ <<>> \in T /\ step \in [1..N -> [T -> T]]
    BY <1>1, <1>2
  <2> QED  BY <2>1, RecursionIsDefined, Zenon
<1>4. f[0] = <<>> /\ \A i \in 1..N : f[i] = IF es[i].kind = "pulse" THEN Append(f[i - 1], es[i]) ELSE f[i - 1]
  <2>1. \A i \in 1..N : f[i - 1] \in T
    BY <1>1, <1>3
  <2> QED  BY <1>2, <1>3, <2>1 DEF Recurs
<1>5. Def(f)
  <2>1. \A n \in 0..N : n # 0 => n \in 1..N
    BY <1>1
  <2>2. \A n \in 0..N : f[n] = IF n = 0 THEN <<>>
                             ELSE IF es[n].kind = "pulse" THEN Append(f[n - 1], es[n]) ELSE f[n - 1]
    BY <1>4, <2>1
  <2>3. f = [n \in 0..N |-> f[n]]
    BY <1>3
  <2> QED  BY <2>2, <2>3, Zenon
<1>6. Def(upTo)
  <2> HIDE DEF Def
  <2> QED  BY <1>5
<1>7. Pulses(es) = upTo[N]
  BY DEF Pulses, N
<1> HIDE DEF upTo
<1>8. /\ upTo[0] = <<>>
      /\ \A i \in 1..N : upTo[i] = IF es[i].kind = "pulse" THEN Append(upTo[i - 1], es[i]) ELSE upTo[i - 1]
      /\ upTo = [n \in 0..N |-> upTo[n]]
  <2> DEFINE val(n) == IF n = 0 THEN <<>>
                       ELSE IF es[n].kind = "pulse" THEN Append(upTo[n - 1], es[n]) ELSE upTo[n - 1]
  <2>1. upTo = [n \in 0..N |-> val(n)]
    BY <1>6, Zenon
  <2> HIDE DEF val
  <2>2. \A n \in 0..N : upTo[n] = val(n)
    BY <2>1
  <2>3. val(0) = <<>>
    BY DEF val
  <2>4. \A i \in 1..N : i \in 0..N /\ val(i) = IF es[i].kind = "pulse" THEN Append(upTo[i - 1], es[i])
                                              ELSE upTo[i - 1]
    BY <1>1 DEF val
  <2>5. 0 \in 0..N
    BY <1>1
  <2>6. upTo = [n \in 0..N |-> upTo[n]]
    BY <2>1
  <2>7. \A i \in 1..N : upTo[i] = IF es[i].kind = "pulse" THEN Append(upTo[i - 1], es[i])
                                ELSE upTo[i - 1]
    BY <2>2, <2>4
  <2> QED  BY <2>2, <2>3, <2>5, <2>6, <2>7
<1> HIDE DEF Def
<1>9. \A i \in 1..N : upTo[i - 1] \in T => upTo[i] = step[i][upTo[i - 1]]
  BY <1>2, <1>8
<1>10. \A i \in 0..N : upTo[i] \in T
  <2>1. N \in Nat /\ upTo[0] \in T /\ step \in [1..N -> [T -> T]]
    BY <1>1, <1>2, <1>8
  <2> QED  BY <2>1, <1>9, RecursionHasType, Zenon
<1>11. upTo \in [0..N -> T]
  BY <1>8, <1>10
<1> QED  BY <1>7, <1>8, <1>11 DEF N, T, Counts

\* Sequences that begin alike have the same pulses so far.
LEMMA CountsAgree ==
  ASSUME NEW a \in Seq(Words), NEW b \in Seq(Words), NEW n \in Nat,
         n <= Len(a), n <= Len(b), \A i \in 1..n : a[i] = b[i],
         NEW f, Counts(f, a), NEW g, Counts(g, b)
  PROVE  f[n] = g[n]
<1> DEFINE S == {k \in 0..n : f[k] = g[k]}
<1>1. 0 \in S
  BY DEF Counts
<1>2. ASSUME NEW k \in 0 .. n - 1, k \in S PROVE k + 1 \in S
  <2>1. k + 1 \in 1..n /\ k + 1 \in 1 .. Len(a) /\ k + 1 \in 1 .. Len(b) /\ (k + 1) - 1 = k
    OBVIOUS
  <2>2. a[k + 1] = b[k + 1] /\ f[k] = g[k]
    BY <1>2, <2>1
  <2>3. f[k + 1] = g[k + 1]
    BY <2>1, <2>2 DEF Counts
  <2> QED  BY <2>1, <2>3
<1> HIDE DEF S
<1>3. \A k \in 0..n : k \in S
  BY <1>1, <1>2, Climb
<1> QED  BY <1>3 DEF S

\* What follows the last pulse adds none.
LEMMA NoMorePulses ==
  ASSUME NEW a \in Seq(Words), NEW n \in 0 .. Len(a), NEW f, Counts(f, a),
         \A i \in n + 1 .. Len(a) : a[i].kind # "pulse"
  PROVE  f[Len(a)] = f[n]
<1> DEFINE d == Len(a) - n
           S == {k \in 0..d : f[n + k] = f[n]}
<1>1. d \in Nat /\ 0 \in S
  OBVIOUS
<1>2. ASSUME NEW k \in 0 .. d - 1, k \in S PROVE k + 1 \in S
  <2>1. n + (k + 1) \in n + 1 .. Len(a) /\ n + (k + 1) \in 1 .. Len(a) /\ (n + (k + 1)) - 1 = n + k
    OBVIOUS
  <2>2. a[n + (k + 1)].kind # "pulse" /\ f[n + k] = f[n]
    BY <1>2, <2>1
  <2>3. f[n + (k + 1)] = f[n]
    BY <2>1, <2>2 DEF Counts
  <2> QED  BY <2>3
<1>3. d \in 0..d /\ n + d = Len(a)
  BY <1>1
<1>4. \A k \in 0..d : k \in S
  <2> HIDE DEF S, d
  <2> QED  BY <1>1, <1>2, Climb
<1> QED  BY <1>3, <1>4

LEMMA PulsesOfPrefix ==
  ASSUME NEW a \in Seq(Words), NEW b \in Seq(Words), Len(b) <= Len(a),
         \A i \in 1 .. Len(b) : b[i] = a[i],
         \A i \in Len(b) + 1 .. Len(a) : a[i].kind # "pulse"
  PROVE  Pulses(b) = Pulses(a)
<1>1. PICK f \in [0 .. Len(a) -> Seq(Words)] : Counts(f, a) /\ Pulses(a) = f[Len(a)]
  BY PulsesAreCounted
<1>2. PICK g \in [0 .. Len(b) -> Seq(Words)] : Counts(g, b) /\ Pulses(b) = g[Len(b)]
  BY PulsesAreCounted
<1>3. Len(b) \in Nat /\ Len(b) \in 0 .. Len(a) /\ \A i \in 1 .. Len(b) : a[i] = b[i]
  OBVIOUS
<1>4. f[Len(b)] = g[Len(b)]
  BY <1>1, <1>2, <1>3, CountsAgree
<1>5. f[Len(a)] = f[Len(b)]
  BY <1>1, <1>3, NoMorePulses
<1> QED  BY <1>1, <1>2, <1>4, <1>5

LEMMA PulsesOfAppend ==
  ASSUME NEW a \in Seq(Words), NEW w \in Words
  PROVE  /\ Pulses(a) \in Seq(Words)
         /\ Pulses(Append(a, w)) = IF w.kind = "pulse" THEN Append(Pulses(a), w) ELSE Pulses(a)
<1> DEFINE b == Append(a, w)
<1>1. PICK f \in [0 .. Len(a) -> Seq(Words)] : Counts(f, a) /\ Pulses(a) = f[Len(a)]
  BY PulsesAreCounted
<1>2. /\ b \in Seq(Words) /\ Len(b) = Len(a) + 1 /\ b[Len(a) + 1] = w
      /\ \A i \in 1 .. Len(a) : b[i] = a[i]
  BY AppendProperties
<1> HIDE DEF b
<1>3. PICK g \in [0 .. Len(b) -> Seq(Words)] : Counts(g, b) /\ Pulses(b) = g[Len(b)]
  BY <1>2, PulsesAreCounted
<1>4. Len(a) \in Nat /\ Len(a) <= Len(b) /\ Len(a) + 1 \in 1 .. Len(b) /\ (Len(a) + 1) - 1 = Len(a)
  BY <1>2
<1>5. f[Len(a)] = g[Len(a)]
  <2>1. \A i \in 1 .. Len(a) : a[i] = b[i]
    BY <1>2
  <2>2. Counts(f, a) /\ Counts(g, b) /\ a \in Seq(Words) /\ b \in Seq(Words)
    BY <1>1, <1>2, <1>3
  <2> DEFINE n == Len(a)
  <2>3. n \in Nat /\ n <= Len(a) /\ n <= Len(b) /\ \A i \in 1..n : a[i] = b[i]
    BY <1>4, <2>1
  <2> HIDE DEF n
  <2>4. f[n] = g[n]
    BY <2>2, <2>3, CountsAgree
  <2> QED  BY <2>4 DEF n
<1>6. g[Len(a) + 1] = IF w.kind = "pulse" THEN Append(g[Len(a)], w) ELSE g[Len(a)]
  BY <1>2, <1>3, <1>4 DEF Counts
<1>7. Pulses(a) \in Seq(Words)
  BY <1>1
<1> QED  BY <1>1, <1>2, <1>3, <1>5, <1>6, <1>7 DEF b

LEMMA PulsesOfFew ==
  /\ Pulses(<<>>) = <<>>
  /\ \A w \in Words : Pulses(<<w>>) = IF w.kind = "pulse" THEN <<w>> ELSE <<>>
<1>1. Pulses(<<>>) = <<>>
  <2>1. <<>> \in Seq(Words) /\ Len(<<>>) = 0
    OBVIOUS
  <2>2. PICK f \in [0 .. Len(<<>>) -> Seq(Words)] : Counts(f, <<>>) /\ Pulses(<<>>) = f[Len(<<>>)]
    BY <2>1, PulsesAreCounted
  <2> QED  BY <2>1, <2>2 DEF Counts
<1>2. ASSUME NEW w \in Words PROVE Pulses(<<w>>) = IF w.kind = "pulse" THEN <<w>> ELSE <<>>
  <2>1. <<>> \in Seq(Words) /\ Append(<<>>, w) = <<w>>
    OBVIOUS
  <2>2. Pulses(Append(<<>>, w)) = IF w.kind = "pulse" THEN Append(Pulses(<<>>), w) ELSE Pulses(<<>>)
    BY <2>1, PulsesOfAppend
  <2> QED  BY <1>1, <2>1, <2>2
<1> QED  BY <1>1, <1>2

\* What NoPulseIsLost says of a step.
Conserved ==
  LET new == IF air # <<>> /\ air' = Tail(air) THEN Pulses(<<Word>>) ELSE <<>>
  IN  Pulses(edges) \o new = Pulses(burst') \o Pulses(edges')

LEMMA ConservedByRead ==
  ASSUME Read, Pulses(edges) \o Pulses(<<Word>>) = Pulses(burst') \o Pulses(edges')
  PROVE  Conserved
  BY DEF Conserved, Read

LEMMA FlushConserves ==
  ASSUME NEW es \in Seq(Edges), Flush(es)
  PROVE  Pulses(es) \in Seq(Words) /\ Pulses(burst') = Pulses(es) /\ edges' = <<>>
<1>1. /\ edges' = <<>> /\ burst' \in Seq(Edges) /\ Len(burst') <= Len(es)
      /\ \A i \in 1 .. Len(burst') : burst'[i] = es[i]
      /\ \A i \in Len(burst') + 1 .. Len(es) : es[i].kind # "pulse"
  BY FlushTrims
<1>2. es \in Seq(Words) /\ burst' \in Seq(Words)
  <2>1. Edges \subseteq Words
    BY EdgeTypes
  <2> QED  BY <1>1, <2>1
<1>3. Pulses(es) \in Seq(Words)
  BY <1>2, PulsesAreCounted
<1>4. Pulses(burst') = Pulses(es)
  BY <1>1, <1>2, PulsesOfPrefix
<1> QED  BY <1>1, <1>3, <1>4

\* An edge joins edges, and what is flushed then is all of them.
LEMMA KeepConserves ==
  ASSUME LInv, Read, Word.kind \in {"pulse", "space"}, Keep(Append(edges, Word))
  PROVE  Conserved
<1> DEFINE es == Append(edges, Word)
<1>1. Word \in Edges /\ Word \in Words /\ edges \in Seq(Edges) /\ edges \in Seq(Words)
  <2>1. Word \in Words
    BY ReadLeaves
  <2>2. edges \in Seq(Edges) /\ Word \in Edges /\ Edges \subseteq Words
    BY <2>1, EdgeTypes DEF LInv, TypeOK
  <2> QED  BY <2>1, <2>2
<1>2. es \in Seq(Edges)
  BY <1>1
<1>3. Pulses(es) \in Seq(Words) /\ Pulses(edges) \o Pulses(<<Word>>) = Pulses(es)
  <2>1. /\ Pulses(edges) \in Seq(Words)
        /\ Pulses(es) = IF Word.kind = "pulse" THEN Append(Pulses(edges), Word) ELSE Pulses(edges)
    BY <1>1, PulsesOfAppend
  <2>2. Pulses(<<Word>>) = IF Word.kind = "pulse" THEN <<Word>> ELSE <<>>
    BY <1>1, PulsesOfFew
  <2> HIDE DEF es
  <2>3. \A t \in Seq(Words) : /\ t \o <<Word>> = Append(t, Word) /\ t \o <<>> = t
                              /\ Append(t, Word) \in Seq(Words)
    BY <1>1
  <2> QED  BY <2>1, <2>2, <2>3
<1>4. Flush(es) \/ (edges' = es /\ burst' = <<>>)
  BY DEF Keep, NothingPublished
<1> HIDE DEF es
<1>5. CASE Flush(es)
  <2>1. Pulses(burst') = Pulses(es) /\ Pulses(edges') = <<>>
    BY <1>2, <1>5, FlushConserves, PulsesOfFew
  <2>2. Pulses(burst') \o Pulses(edges') = Pulses(es)
    BY <1>3, <2>1
  <2> QED  BY <1>3, <2>2, ConservedByRead
<1>6. CASE edges' = es /\ burst' = <<>>
  <2>1. Pulses(burst') = <<>> /\ Pulses(edges') = Pulses(es)
    BY <1>6, PulsesOfFew
  <2>2. <<>> \o Pulses(es) = Pulses(es)
    BY <1>3
  <2>3. Pulses(burst') \o Pulses(edges') = Pulses(es)
    BY <2>1, <2>2
  <2> QED  BY <1>3, <2>3, ConservedByRead
<1> QED  BY <1>4, <1>5, <1>6

\* Whatever the driver drops and whenever the edges grow to the limit, every
\* pulse that run() reads is in edges or in a published burst, once and in order.
THEOREM EveryPulseIsPublished == Spec => NoPulseIsLost
<1>1. ASSUME LInv, [Next]_vars PROVE [Conserved]_vars
  <2>1. edges \in Seq(Edges) /\ edges \in Seq(Words) /\ Pulses(edges) \in Seq(Words)
    <3>1. edges \in Seq(Edges) /\ Edges \subseteq Words
      BY <1>1, EdgeTypes DEF LInv, TypeOK
    <3>2. edges \in Seq(Words)
      BY <3>1
    <3> QED  BY <3>1, <3>2, PulsesOfAppend, EdgeTypes
  <2>2. ASSUME NEW m \in Messages, Transmit(m) PROVE Conserved
    <3>1. air = <<>> /\ edges' = edges /\ burst' = <<>>
      BY <2>2 DEF Transmit, NothingPublished
    <3>2. Pulses(edges) \o <<>> = Pulses(burst') \o Pulses(edges')
      BY <2>1, <3>1, PulsesOfFew
    <3> QED  BY <3>1, <3>2 DEF Conserved
  <2>3. CASE ReadPulse
    BY <1>1, <2>3, KeepConserves DEF ReadPulse
  <2>4. CASE ReadSpace
    BY <1>1, <2>4, KeepConserves DEF ReadSpace
  <2>5. ASSUME Read, Word.kind # "pulse" PROVE Pulses(edges) \o Pulses(<<Word>>) = Pulses(edges)
    <3>1. Word \in Words
      BY <1>1, <2>5, ReadLeaves
    <3> QED  BY <2>1, <2>5, <3>1, PulsesOfFew
  <2>6. CASE ReadEnd
    <3>1. Read /\ Word.kind # "pulse" /\ Flush(edges)
      BY <2>6 DEF ReadEnd, EndsBurst, IsGap
    <3>2. Pulses(burst') = Pulses(edges) /\ Pulses(edges') = <<>>
      BY <2>1, <3>1, FlushConserves, PulsesOfFew
    <3>3. Pulses(burst') \o Pulses(edges') = Pulses(edges)
      BY <2>1, <3>2
    <3> QED  BY <2>5, <3>1, <3>3, ConservedByRead
  <2>7. CASE ReadNothing
    <3>1. Read /\ Word.kind # "pulse" /\ edges' = edges /\ burst' = <<>>
      BY <2>7 DEF ReadNothing, EndsBurst, IsGap, NothingPublished
    <3>2. Pulses(burst') \o Pulses(edges') = Pulses(edges)
      BY <2>1, <3>1, PulsesOfFew
    <3> QED  BY <2>5, <3>1, <3>2, ConservedByRead
  <2> QED  BY <1>1, <2>2, <2>3, <2>4, <2>6, <2>7 DEF Next, Run
<1>2. LInv /\ [Next]_vars => [Conserved]_vars
  BY <1>1
<1> QED  BY <1>2, InitLInv, LInvStep, PTL DEF Spec, NoPulseIsLost, Conserved

-----------------------------------------------------------------------------
(* What decode_nec makes of the edges of a message.                        *)

\* The length of an edge at a speed.
Us(nominal, scale) == (nominal * scale) \div 100

LEMMA UsRange ==
  ASSUME NEW s \in 70..130
  PROVE  /\ Us(560, s) \in Nat /\ 392 <= Us(560, s) /\ Us(560, s) <= 728
         /\ Us(1690, s) \in Nat /\ 1183 <= Us(1690, s) /\ Us(1690, s) <= 2197
         /\ Us(2250, s) \in Nat /\ 1575 <= Us(2250, s) /\ Us(2250, s) <= 2925
         /\ Us(4500, s) \in Nat /\ 3150 <= Us(4500, s) /\ Us(4500, s) <= 5850
         /\ Us(9000, s) \in Nat /\ 6300 <= Us(9000, s) /\ Us(9000, s) <= 11700
  BY DEF Us

LEMMA TwoPieces ==
  ASSUME NEW S, NEW a \in Seq(S), NEW b \in Seq(S)
  PROVE  /\ a \o b \in Seq(S) /\ Len(a \o b) = Len(a) + Len(b)
         /\ \A k \in 1 .. Len(a) + Len(b) :
              (a \o b)[k] = IF k <= Len(a) THEN a[k] ELSE b[k - Len(a)]
  OBVIOUS

\* Bit k of a message that has been sent.
BitSpace(m, k, s) == Space(Us(IF Bits(m)[k] = 0 THEN 560 ELSE 1690, s))

LEMMA NearApart ==
  ASSUME NEW u \in Nat, Near(u, 4500, 30)
  PROVE  ~Near(u, 2250, 30)
  BY DEF Near

LEMMA BitsOfMessage ==
  ASSUME NEW m \in MessageType, m # Repeat
  PROVE  /\ Bits(m) \in Seq({0, 1}) /\ Len(Bits(m)) = FrameBits
         /\ {m.address, m.second, m.command, Complement(m.command)} \subseteq Bytes
         /\ \A b \in 1..ByteBits :
              /\ Bits(m)[b] = m.address[b]
              /\ Bits(m)[ByteBits + b] = m.second[b]
              /\ Bits(m)[2 * ByteBits + b] = m.command[b]
              /\ Bits(m)[3 * ByteBits + b] = Complement(m.command)[b]
<1> DEFINE B == ByteBits
           Z == {0, 1}
           T == Complement(m.command)
<1>1. B \in Nat
  BY ByteBitsAssumption
<1>2. m \in [kind : {"frame"}, address : Bytes, second : Bytes, command : Bytes]
  BY DEF MessageType
<1>3. m.address \in Bytes /\ m.second \in Bytes /\ m.command \in Bytes
  BY <1>2
<1>4. T \in Bytes
  <2>1. \A b \in 1..B : m.command[b] \in {0, 1}
    BY <1>3 DEF Bytes
  <2>2. \A b \in 1..B : 1 - m.command[b] \in {0, 1}
    BY <2>1
  <2> QED  BY <2>2 DEF Complement, Bytes
<1> HIDE DEF T
<1>5. \A x \in Bytes : x \in Seq(Z) /\ Len(x) = B
  BY <1>1 DEF Bytes
<1> HIDE DEF Z
<1> HIDE DEF B
<1>6. Bits(m) = m.address \o m.second \o m.command \o T
  BY DEF Bits, T
<1>7. /\ m.address \in Seq(Z) /\ Len(m.address) = B
      /\ m.second \in Seq(Z) /\ Len(m.second) = B
      /\ m.command \in Seq(Z) /\ Len(m.command) = B
      /\ T \in Seq(Z) /\ Len(T) = B
  BY <1>3, <1>4, <1>5
<1> DEFINE x == m.address
           y == m.second
           z == m.command
           first == x \o y \o z
<1>8. /\ first \in Seq(Z) /\ Len(first) = 3 * B
      /\ \A b \in 1..B : /\ first[b] = m.address[b] /\ first[B + b] = m.second[b]
                         /\ first[2 * B + b] = m.command[b]
  <2>0. /\ first \in Seq(Z) /\ Len(first) = Len(x) + Len(y) + Len(z)
        /\ \A k \in 1 .. Len(x) + Len(y) + Len(z) :
             first[k] = IF k <= Len(x) THEN x[k]
                        ELSE IF k <= Len(x) + Len(y) THEN y[k - Len(x)]
                        ELSE z[k - (Len(x) + Len(y))]
    <3>1. x \in Seq(Z) /\ y \in Seq(Z) /\ z \in Seq(Z)
      BY <1>7
    <3> HIDE DEF x, y, z
    <3> QED  BY <3>1, ThreePieces
  <2> HIDE DEF first
  <2>1. /\ first \in Seq(Z) /\ Len(first) = B + B + B
        /\ \A k \in 1 .. B + B + B :
             first[k] = IF k <= B THEN m.address[k]
                        ELSE IF k <= B + B THEN m.second[k - B]
                        ELSE m.command[k - (B + B)]
    BY <1>7, <2>0
  <2>2. ASSUME NEW b \in 1..B
        PROVE  /\ first[b] = m.address[b] /\ first[B + b] = m.second[b]
               /\ first[2 * B + b] = m.command[b]
    <3>1. b <= B /\ b \in 1 .. B + B + B
      BY <1>1
    <3>2. ~(B + b <= B) /\ B + b <= B + B /\ B + b \in 1 .. B + B + B /\ (B + b) - B = b
      BY <1>1
    <3>3. /\ ~(2 * B + b <= B) /\ ~(2 * B + b <= B + B) /\ 2 * B + b \in 1 .. B + B + B
          /\ (2 * B + b) - (B + B) = b
      BY <1>1
    <3> QED  BY <2>1, <3>1, <3>2, <3>3
  <2> QED  BY <1>1, <2>1, <2>2
<1> HIDE DEF first
<1>9. /\ first \o T \in Seq(Z) /\ Len(first \o T) = 3 * B + B
      /\ \A k \in 1 .. 3 * B + B : (first \o T)[k] = IF k <= 3 * B THEN first[k] ELSE T[k - 3 * B]
  <2>1. first \in Seq(Z) /\ T \in Seq(Z)
    BY <1>7, <1>8
  <2>2. /\ first \o T \in Seq(Z) /\ Len(first \o T) = Len(first) + Len(T)
        /\ \A k \in 1 .. Len(first) + Len(T) :
             (first \o T)[k] = IF k <= Len(first) THEN first[k] ELSE T[k - Len(first)]
    BY <2>1, TwoPieces
  <2> QED  BY <1>7, <1>8, <2>2
<1>10. Bits(m) = first \o T
  BY <1>6 DEF first
<1>11. ASSUME NEW b \in 1..B
       PROVE  /\ Bits(m)[b] = m.address[b] /\ Bits(m)[B + b] = m.second[b]
              /\ Bits(m)[2 * B + b] = m.command[b] /\ Bits(m)[3 * B + b] = T[b]
  <2>1. /\ b \in 1 .. 3 * B + B /\ b <= 3 * B
        /\ B + b \in 1 .. 3 * B + B /\ B + b <= 3 * B
        /\ 2 * B + b \in 1 .. 3 * B + B /\ 2 * B + b <= 3 * B
        /\ 3 * B + b \in 1 .. 3 * B + B /\ ~(3 * B + b <= 3 * B) /\ (3 * B + b) - 3 * B = b
    BY <1>1
  <2> QED  BY <1>8, <1>9, <1>10, <2>1
<1>12. FrameBits = 3 * B + B
  BY <1>1 DEF FrameBits, B
<1> QED  BY <1>3, <1>4, <1>9, <1>10, <1>11, <1>12 DEF B, T, Z

LEMMA SentFrame ==
  ASSUME NEW m \in MessageType, m # Repeat, NEW s \in Scales
  PROVE  LET es == Sent(m, s)
         IN  /\ es \in Seq(Edges) /\ Len(es) = 2 * FrameBits + 3
             /\ es[1] = Pulse(Us(9000, s)) /\ es[2] = Space(Us(4500, s))
             /\ \A k \in 1..FrameBits :
                  es[2 * k + 1] = Pulse(Us(560, s)) /\ es[2 * k + 2] = BitSpace(m, k, s)
             /\ es[2 * FrameBits + 3] = Pulse(Us(560, s))
<1> DEFINE N == 2 * FrameBits
           body == [i \in 1 .. N |->
                      IF i % 2 = 1 THEN Pulse(Us(560, s))
                      ELSE BitSpace(m, i \div 2, s)]
           head == <<Pulse(Us(9000, s)), Space(Us(4500, s))>>
           last == <<Pulse(Us(560, s))>>
           es == head \o body \o last
<1>1. Sent(m, s) = es
  <2> DEFINE short == <<Pulse(Us(9000, s)), Space(Us(2250, s)), Pulse(Us(560, s))>>
  <2>1. Sent(m, s) = IF m = Repeat THEN short ELSE es
    BY DEF Sent, Us, BitSpace
  <2> HIDE DEF es, short
  <2> QED  BY <2>1
<1>2. s \in 70..130 /\ FrameBits \in Nat
  BY ScalesAssumption, ByteBitsAssumption DEF FrameBits
<1>3. \A n \in {560, 1690, 4500, 9000} : Pulse(Us(n, s)) \in Edges /\ Space(Us(n, s)) \in Edges
  <2>1. \A n \in {560, 1690, 4500, 9000} : Us(n, s) \in Nat
    BY <1>2, UsRange
  <2> QED  BY <2>1, EdgeTypes
<1>4. N \in Nat /\ body \in [1..N -> Edges]
  BY <1>2, <1>3 DEF BitSpace
<1>5. \A k \in 1..FrameBits : body[2 * k - 1] = Pulse(Us(560, s)) /\ body[2 * k] = BitSpace(m, k, s)
  <2> TAKE k \in 1..FrameBits
  <2>1. /\ 2 * k - 1 \in 1..N /\ (2 * k - 1) % 2 = 1
        /\ 2 * k \in 1..N /\ (2 * k) % 2 = 0 /\ (2 * k) \div 2 = k
    BY <1>2
  <2> QED  BY <2>1
<1>6. head \in Seq(Edges) /\ Len(head) = 2 /\ last \in Seq(Edges) /\ Len(last) = 1
  BY <1>3
<1>7. head[1] = Pulse(Us(9000, s)) /\ head[2] = Space(Us(4500, s)) /\ last[1] = Pulse(Us(560, s))
  OBVIOUS
<1> HIDE DEF body, head, last
<1>8. body \in Seq(Edges) /\ Len(body) = N
  BY <1>4, SeqDef
<1>9. /\ es \in Seq(Edges) /\ Len(es) = Len(head) + Len(body) + Len(last)
      /\ \A i \in 1 .. Len(head) + Len(body) + Len(last) :
           es[i] = IF i <= Len(head) THEN head[i]
                   ELSE IF i <= Len(head) + Len(body) THEN body[i - Len(head)]
                   ELSE last[i - (Len(head) + Len(body))]
  <2>1. head \in Seq(Edges) /\ body \in Seq(Edges) /\ last \in Seq(Edges)
    BY <1>6, <1>8
  <2> QED  BY <2>1, ThreePieces
<1> HIDE DEF es
<1>10. /\ es \in Seq(Edges) /\ Len(es) = N + 3
       /\ \A i \in 1 .. N + 3 : es[i] = IF i <= 2 THEN head[i]
                                         ELSE IF i <= N + 2 THEN body[i - 2] ELSE last[i - (N + 2)]
  BY <1>4, <1>6, <1>8, <1>9
<1>11. ASSUME NEW k \in 1..FrameBits
       PROVE  es[2 * k + 1] = Pulse(Us(560, s)) /\ es[2 * k + 2] = BitSpace(m, k, s)
  <2>1. /\ 2 * k + 1 \in 1 .. N + 3 /\ ~(2 * k + 1 <= 2) /\ 2 * k + 1 <= N + 2
        /\ (2 * k + 1) - 2 = 2 * k - 1
        /\ 2 * k + 2 \in 1 .. N + 3 /\ ~(2 * k + 2 <= 2) /\ 2 * k + 2 <= N + 2
        /\ (2 * k + 2) - 2 = 2 * k
    BY <1>2
  <2> QED  BY <1>5, <1>10, <2>1
<1>12. es[1] = Pulse(Us(9000, s)) /\ es[2] = Space(Us(4500, s)) /\ es[N + 3] = Pulse(Us(560, s))
  <2>1. 1 \in 1 .. N + 3 /\ 2 \in 1 .. N + 3 /\ N + 3 \in 1 .. N + 3 /\ (N + 3) - (N + 2) = 1
    BY <1>4
  <2>2. ~(N + 3 <= 2) /\ ~(N + 3 <= N + 2)
    BY <1>4
  <2> QED  BY <1>7, <1>10, <2>1, <2>2
<1> QED  BY <1>1, <1>10, <1>11, <1>12

LEMMA SentRepeat ==
  ASSUME NEW s \in Scales
  PROVE  LET es == Sent(Repeat, s)
         IN  /\ es \in Seq(Edges) /\ Len(es) = 3
             /\ es[1] = Pulse(Us(9000, s)) /\ es[2] = Space(Us(2250, s)) /\ es[3] = Pulse(Us(560, s))
<1>1. Sent(Repeat, s) = <<Pulse(Us(9000, s)), Space(Us(2250, s)), Pulse(Us(560, s))>>
  BY DEF Sent, Us
<1>2. s \in 70..130
  BY ScalesAssumption
<1>3. Pulse(Us(9000, s)) \in Edges /\ Space(Us(2250, s)) \in Edges /\ Pulse(Us(560, s)) \in Edges
  <2>1. Us(560, s) \in Nat /\ Us(2250, s) \in Nat /\ Us(9000, s) \in Nat
    BY <1>2, UsRange
  <2> QED  BY <2>1, EdgeTypes
<1> QED  BY <1>1, <1>3

\* The burst has an edge pair for each of 32 bits.
AllBits(es) ==
  \A k \in 1..FrameBits : 2 * k + 2 <= Len(es) /\ IsBit(es, k)

LEMMA FullCount ==
  ASSUME NEW es \in Seq(Edges)
  PROVE  BitCount(es) = FrameBits <=> AllBits(es)
<1> DEFINE Ends(n) == n = FrameBits \/ 2 * (n + 1) + 2 > Len(es) \/ ~IsBit(es, n + 1)
           Counted(n) == (\A k \in 1..n : 2 * k + 2 <= Len(es) /\ IsBit(es, k)) /\ Ends(n)
           S == {n \in 0..FrameBits : Ends(n)}
<1>1. FrameBits \in Nat /\ Len(es) \in Nat
  BY ByteBitsAssumption DEF FrameBits
<1>2. BitCount(es) = CHOOSE n \in 0..FrameBits : Counted(n)
  BY DEF BitCount
<1>3. PICK n \in S : \A m \in S : n <= m
  <2>1. S \in SUBSET Nat /\ FrameBits \in S
    BY <1>1
  <2> HIDE DEF S
  <2> QED  BY <2>1, LeastNat
<1>4. n \in 0..FrameBits /\ Counted(n)
  <2>1. ASSUME NEW k \in 1..n PROVE 2 * k + 2 <= Len(es) /\ IsBit(es, k)
    <3>1. n \in 0..FrameBits
      OBVIOUS
    <3>2. k - 1 \in 0..FrameBits /\ ~(n <= k - 1) /\ (k - 1) + 1 = k /\ k \in Nat
      BY <1>1, <3>1
    <3>3. k - 1 \notin S
      <4> HIDE DEF S
      <4> QED  BY <1>3, <3>2
    <3>4. ~Ends(k - 1)
      <4> HIDE DEF Ends
      <4> QED  BY <3>2, <3>3
    <3>5. ~(2 * ((k - 1) + 1) + 2 > Len(es)) /\ IsBit(es, (k - 1) + 1)
      BY <3>4
    <3>6. ~(2 * k + 2 > Len(es)) /\ IsBit(es, k)
      BY <3>2, <3>5
    <3> QED  BY <1>1, <3>2, <3>6
  <2> QED  BY <2>1, <1>3
<1>5. BitCount(es) \in 0..FrameBits /\ Counted(BitCount(es))
  <2> HIDE DEF Counted
  <2> QED  BY <1>2, <1>4
<1>6. BitCount(es) = FrameBits => AllBits(es)
  BY <1>5 DEF AllBits
<1>7. ASSUME AllBits(es) PROVE BitCount(es) = FrameBits
  <2> DEFINE c == BitCount(es)
  <2>1. c \in 0..FrameBits /\ Ends(c)
    BY <1>5
  <2> HIDE DEF c
  <2> SUFFICES ASSUME c # FrameBits PROVE FALSE
    BY DEF c
  <2>2. c + 1 \in 1..FrameBits
    BY <1>1, <2>1
  <2> QED  BY <1>7, <2>1, <2>2 DEF AllBits
<1> QED  BY <1>6, <1>7

\* The branches of decode_nec exclude each other.
FrameOf(es) == Frame(ByteAt(es, 0), ByteAt(es, 1), ByteAt(es, 2), ByteAt(es, 3))
PartOf(es) == [kind |-> "partial", bits |-> BitCount(es)]

LEMMA DecodeCases ==
  ASSUME NEW es \in Seq(Edges)
  PROVE  /\ IsLeader(es) /\ Near(es[2].us, 2250, 30) => DecodeNec(es) = Repeat
         /\ IsLeader(es) /\ Near(es[2].us, 4500, 30)
              => DecodeNec(es) = IF BitCount(es) = FrameBits THEN FrameOf(es) ELSE PartOf(es)
         /\ ~(IsLeader(es) /\ Near(es[2].us, 2250, 30)) /\ ~(IsLeader(es) /\ Near(es[2].us, 4500, 30))
              => DecodeNec(es) = NotNec
<1> DEFINE A == IsLeader(es) /\ Near(es[2].us, 2250, 30)
           B == IsLeader(es) /\ Near(es[2].us, 4500, 30)
           frame == IF BitCount(es) = FrameBits THEN FrameOf(es) ELSE PartOf(es)
<1>1. ~A \/ ~B
  <2> SUFFICES ASSUME IsLeader(es), Near(es[2].us, 4500, 30) PROVE ~Near(es[2].us, 2250, 30)
    OBVIOUS
  <2>1. es[2] \in Edges
    BY DEF IsLeader
  <2>2. es[2].us \in Nat
    BY <2>1, EdgeTypes
  <2> QED  BY <2>2, NearApart
<1>2. DecodeNec(es) = CASE A -> Repeat [] B -> frame [] OTHER -> NotNec
  BY DEF DecodeNec, FrameOf, PartOf
<1> HIDE DEF A, B, frame
<1>3. /\ A => DecodeNec(es) = Repeat
      /\ B => DecodeNec(es) = frame
      /\ ~A /\ ~B => DecodeNec(es) = NotNec
  BY <1>1, <1>2
<1> QED  BY <1>3 DEF A, B, frame

\* What decode_nec calls a frame or a repeat.
LEMMA DecodedKinds ==
  ASSUME NEW es \in Seq(Edges)
  PROVE  /\ DecodeNec(es).kind \in {"frame", "repeat"} => IsLeader(es)
         /\ DecodeNec(es).kind = "repeat" => DecodeNec(es) = Repeat /\ Near(es[2].us, 2250, 30)
         /\ DecodeNec(es).kind = "frame" => Near(es[2].us, 4500, 30) /\ AllBits(es)
<1>1. FrameOf(es).kind = "frame" /\ PartOf(es).kind = "partial"
  BY DEF Frame, FrameOf, PartOf
<1> QED  BY <1>1, DecodeCases, FullCount DEF Repeat, NotNec

\* A bit's edges are read as the bit.
LEMMA BitIsRead ==
  ASSUME NEW es, NEW k, NEW v \in {0, 1}, NEW s \in 70..130,
         es[2 * k + 1] = Pulse(Us(560, s)),
         es[2 * k + 2] = Space(Us(IF v = 0 THEN 560 ELSE 1690, s))
  PROVE  IsBit(es, k) /\ Bit(es, k) = v
<1> DEFINE short == Us(560, s)
           long == Us(1690, s)
           pulse == es[2 * k + 1]
           space == es[2 * k + 2]
<1>1. short \in Nat /\ 392 <= short /\ short <= 728 /\ long \in Nat /\ 1183 <= long /\ long <= 2197
  BY UsRange
<1>2. pulse = Pulse(short) /\ space = Space(IF v = 0 THEN short ELSE long)
  OBVIOUS
<1> HIDE DEF short, long, pulse, space
<1>3. Near(short, 560, 40) /\ Near(long, 1690, 30) /\ ~Near(long, 560, 40)
  BY <1>1 DEF Near
<1>4. /\ pulse.kind = "pulse" /\ pulse.us = short /\ space.kind = "space"
      /\ space.us = IF v = 0 THEN short ELSE long
  BY <1>2 DEF Pulse, Space
<1>5. IsZero(space) <=> v = 0
  BY <1>3, <1>4 DEF IsZero
<1>6. IsZero(space) \/ IsOne(space)
  BY <1>3, <1>4 DEF IsZero, IsOne
<1> QED  BY <1>3, <1>4, <1>5, <1>6 DEF IsBit, Bit, pulse, space

\* The bits of a frame, and the bytes that they make.
CarriesBits(es, m) ==
  \A k \in 1..FrameBits : IsBit(es, k) /\ Bit(es, k) = Bits(m)[k]

LEMMA BytesAreRead ==
  ASSUME NEW m \in MessageType, m # Repeat, NEW es, CarriesBits(es, m)
  PROVE  /\ ByteAt(es, 0) = m.address /\ ByteAt(es, 1) = m.second
         /\ ByteAt(es, 2) = m.command /\ ByteAt(es, 3) = Complement(m.command)
<1> DEFINE B == ByteBits
           T == Complement(m.command)
<1>1. B \in Nat /\ FrameBits = 4 * B
  BY ByteBitsAssumption DEF FrameBits
<1>2. /\ {m.address, m.second, m.command, T} \subseteq Bytes
      /\ \A b \in 1..B : /\ Bits(m)[b] = m.address[b]
                         /\ Bits(m)[B + b] = m.second[b]
                         /\ Bits(m)[2 * B + b] = m.command[b]
                         /\ Bits(m)[3 * B + b] = T[b]
  BY BitsOfMessage
<1> HIDE DEF T
<1>3. \A k \in 1 .. 4 * B : Bit(es, k) = Bits(m)[k]
  BY <1>1 DEF CarriesBits
<1>4. ASSUME NEW b \in 1..B
      PROVE  /\ Bit(es, 0 * B + b) = m.address[b] /\ Bit(es, 1 * B + b) = m.second[b]
             /\ Bit(es, 2 * B + b) = m.command[b] /\ Bit(es, 3 * B + b) = T[b]
  <2>1. 0 * B + b = b /\ 1 * B + b = B + b
    BY <1>1
  <2>2. /\ b \in 1 .. 4 * B /\ B + b \in 1 .. 4 * B
        /\ 2 * B + b \in 1 .. 4 * B /\ 3 * B + b \in 1 .. 4 * B
    BY <1>1
  <2>3. /\ Bit(es, b) = Bits(m)[b] /\ Bit(es, B + b) = Bits(m)[B + b]
        /\ Bit(es, 2 * B + b) = Bits(m)[2 * B + b] /\ Bit(es, 3 * B + b) = Bits(m)[3 * B + b]
    BY <1>3, <2>2
  <2> QED  BY <1>2, <2>1, <2>3
<1>5. \A x \in Bytes : x = [b \in 1..B |-> x[b]]
  BY DEF Bytes
<1> QED  BY <1>2, <1>4, <1>5 DEF ByteAt, T

\* A leader and the bits of a frame are shown as the frame.
LEMMA FrameIsShown ==
  ASSUME NEW m \in MessageType, m # Repeat, NEW es \in Seq(Edges),
         IsLeader(es), Near(es[2].us, 4500, 30), 2 * FrameBits + 2 <= Len(es),
         CarriesBits(es, m)
  PROVE  DecodeNec(es) = Meaning(m)
<1>1. AllBits(es)
  <2>1. FrameBits \in Nat /\ Len(es) \in Nat
    BY ByteBitsAssumption DEF FrameBits
  <2>2. ASSUME NEW k \in 1..FrameBits PROVE 2 * k + 2 <= Len(es) /\ IsBit(es, k)
    BY <2>1 DEF CarriesBits
  <2> QED  BY <2>2 DEF AllBits
<1>2. DecodeNec(es) = FrameOf(es)
  BY <1>1, DecodeCases, FullCount
<1>3. FrameOf(es) = Frame(m.address, m.second, m.command, Complement(m.command))
  BY BytesAreRead DEF FrameOf
<1> QED  BY <1>2, <1>3 DEF Meaning

\* The edges of a message carry its bits.
LEMMA SentCarries ==
  ASSUME NEW m \in MessageType, m # Repeat, NEW s \in Scales, NEW es,
         \A k \in 1..FrameBits :
           es[2 * k + 1] = Pulse(Us(560, s)) /\ es[2 * k + 2] = BitSpace(m, k, s)
  PROVE  CarriesBits(es, m)
<1>1. s \in 70..130
  BY ScalesAssumption
<1>2. \A k \in 1..FrameBits : Bits(m)[k] \in {0, 1}
  <2>1. Bits(m) \in Seq({0, 1}) /\ Len(Bits(m)) = FrameBits
    BY BitsOfMessage
  <2> QED  BY <2>1
<1>3. ASSUME NEW k \in 1..FrameBits PROVE IsBit(es, k) /\ Bit(es, k) = Bits(m)[k]
  <2>1. /\ es[2 * k + 1] = Pulse(Us(560, s))
        /\ es[2 * k + 2] = Space(Us(IF Bits(m)[k] = 0 THEN 560 ELSE 1690, s))
    BY DEF BitSpace
  <2> QED  BY <1>1, <1>2, <2>1, BitIsRead
<1> QED  BY <1>3 DEF CarriesBits

\* What is sent is shown with its meaning, at any speed.
LEMMA SentIsShown ==
  ASSUME NEW m \in MessageType, NEW s \in Scales
  PROVE  DecodeNec(Sent(m, s)) = Meaning(m)
<1> DEFINE es == Sent(m, s)
<1>1. s \in 70..130 /\ FrameBits \in Nat /\ FrameBits > 0
  BY ScalesAssumption, ByteBitsAssumption DEF FrameBits
<1>2. Near(Us(9000, s), 9000, 30) /\ Near(Us(4500, s), 4500, 30) /\ Near(Us(2250, s), 2250, 30)
  BY <1>1, UsRange DEF Near
<1>3. CASE m = Repeat
  <2>1. /\ es \in Seq(Edges) /\ Len(es) = 3
        /\ es[1] = Pulse(Us(9000, s)) /\ es[2] = Space(Us(2250, s))
    BY <1>3, SentRepeat
  <2> HIDE DEF es
  <2>2. IsLeader(es) /\ Near(es[2].us, 2250, 30)
    BY <1>2, <2>1 DEF IsLeader, Pulse, Space
  <2>3. DecodeNec(es) = Repeat
    BY <2>1, <2>2, DecodeCases
  <2> QED  BY <1>3, <2>3 DEF Meaning, es
<1>4. CASE m # Repeat
  <2>1. /\ es \in Seq(Edges) /\ Len(es) = 2 * FrameBits + 3
        /\ es[1] = Pulse(Us(9000, s)) /\ es[2] = Space(Us(4500, s))
        /\ \A k \in 1..FrameBits :
             es[2 * k + 1] = Pulse(Us(560, s)) /\ es[2 * k + 2] = BitSpace(m, k, s)
    BY <1>4, SentFrame
  <2> HIDE DEF es
  <2>2. IsLeader(es) /\ Near(es[2].us, 4500, 30) /\ 2 * FrameBits + 2 <= Len(es)
    BY <1>1, <1>2, <2>1 DEF IsLeader, Pulse, Space
  <2>3. CarriesBits(es, m)
    BY <1>4, <2>1, SentCarries
  <2>4. DecodeNec(es) = Meaning(m)
    BY <1>4, <2>1, <2>2, <2>3, FrameIsShown
  <2> QED  BY <2>4 DEF es
<1> QED  BY <1>3, <1>4

-----------------------------------------------------------------------------
(* A message that arrives whole.                                           *)

\* No space of a message ends a burst, and a burst has room for one.
LEMMA SentFits ==
  ASSUME NEW m \in MessageType, NEW s \in Scales
  PROVE  LET es == Sent(m, s)
         IN  /\ es \in Seq(Edges) /\ Len(es) \in Nat /\ 1 <= Len(es) /\ Len(es) < MaxBurstEdges
             /\ es[1].kind = "pulse" /\ es[Len(es)].kind = "pulse"
             /\ \A i \in 1 .. Len(es) : es[i] \in Edges /\ ~EndsBurst(es[i])
<1> DEFINE es == Sent(m, s)
           N == Len(es)
<1>1. /\ es \in Seq(Edges) /\ N \in Nat /\ N % 2 = 1
      /\ \A i \in 1..N : es[i].kind = IF i % 2 = 1 THEN "pulse" ELSE "space"
  BY SentIsWhole DEF Whole, Alternates
<1>2. s \in 70..130 /\ FrameBits \in Nat /\ FrameBits > 0
  BY ScalesAssumption, ByteBitsAssumption DEF FrameBits
<1>3. N < MaxBurstEdges /\ \A i \in 1..N : i % 2 = 0 => es[i].us <= 5850
  <2>1. /\ Us(560, s) <= 5850 /\ Us(1690, s) <= 5850 /\ Us(2250, s) <= 5850 /\ Us(4500, s) <= 5850
    BY <1>2, UsRange
  <2>2. CASE m = Repeat
    <3>1. N = 3 /\ es[2] = Space(Us(2250, s))
      BY <2>2, SentRepeat
    <3> HIDE DEF es
    <3>2. es[2].us = Us(2250, s)
      BY <3>1 DEF Space
    <3>3. \A i \in 1..N : i % 2 = 0 => i = 2
      BY <3>1
    <3> QED  BY <1>2, <2>1, <3>1, <3>2, <3>3, EdgesAssumption
  <2>3. CASE m # Repeat
    <3>1. /\ N = 2 * FrameBits + 3 /\ es[2] = Space(Us(4500, s))
          /\ \A k \in 1..FrameBits : es[2 * k + 2] = BitSpace(m, k, s)
      BY <2>3, SentFrame
    <3> HIDE DEF es
    <3>2. es[2].us <= 5850
      BY <2>1, <3>1 DEF Space
    <3>3. ASSUME NEW k \in 1..FrameBits PROVE es[2 * k + 2].us <= 5850
      <4>1. es[2 * k + 2] = Space(Us(560, s)) \/ es[2 * k + 2] = Space(Us(1690, s))
        BY <3>1 DEF BitSpace
      <4> QED  BY <2>1, <4>1 DEF Space
    <3>4. ASSUME NEW i \in 1..N, i % 2 = 0, i # 2 PROVE es[i].us <= 5850
      <4>1. i \div 2 - 1 \in 1..FrameBits /\ 2 * (i \div 2 - 1) + 2 = i
        BY <1>2, <3>1, <3>4
      <4>2. es[2 * (i \div 2 - 1) + 2].us <= 5850
        BY <3>3, <4>1
      <4> QED  BY <4>1, <4>2
    <3>5. N < MaxBurstEdges
      BY <1>2, <3>1, EdgesAssumption
    <3> QED  BY <3>2, <3>4, <3>5
  <2> QED  BY <2>2, <2>3
<1> HIDE DEF es
<1>4. ASSUME NEW i \in 1..N PROVE es[i] \in Edges /\ ~EndsBurst(es[i])
  <2>1. es[i] \in Edges
    BY <1>1
  <2>0. es[i].us \in Nat
    BY <2>1, EdgeTypes
  <2>2. es[i].kind = IF i % 2 = 1 THEN "pulse" ELSE "space"
    BY <1>1
  <2>3. i % 2 # 1 => i % 2 = 0
    OBVIOUS
  <2> QED  BY <1>3, <2>1, <2>0, <2>2, <2>3, GapsAssumption DEF EndsBurst, IsGap
<1>5. 1 <= N /\ 1 \in 1..N /\ N \in 1..N
  BY <1>1
<1> QED  BY <1>1, <1>3, <1>4, <1>5 DEF es

\* The first of es are in edges, the others on the way, with nothing after them
\* but the gap and perhaps a word without timing.
Arriving(es) ==
  LET left == Len(es) - Len(edges)
  IN  /\ left >= 0
      /\ \A i \in 1 .. Len(edges) : edges[i] = es[i]
      /\ Len(air) \in {left + 1, left + 2}
      /\ \A i \in 1..left : air[i] = es[Len(edges) + i]
      /\ Len(air) = left + 2 => air[left + 1] = Frequency

CleanInv == clean /\ air # <<>> => \E s \in Scales : Arriving(Sent(message, s))

LEMMA TransmitArrives ==
  ASSUME LInv, NEW m \in Messages, Transmit(m)
  PROVE  CleanInv'
<1> SUFFICES ASSUME clean' PROVE \E s \in Scales : Arriving(Sent(message, s))'
  BY DEF CleanInv
<1>1. PICK s \in Scales, gap \in Gaps :
        air' \in {Append(Sent(m, s), gap), Sent(m, s) \o <<Frequency, gap>>} /\ edges = <<>>
  BY DEF Transmit
<1> DEFINE es == Sent(m, s)
           N == Len(es)
<1>2. m \in MessageType /\ edges' = <<>> /\ message' = m
  BY <1>1, MessagesAssumption DEF Transmit
<1>3. es \in Seq(Edges) /\ N \in Nat
  BY <1>2, SentFits
<1>4. gap \in Words /\ Frequency \in Words
  BY GapsAssumption, EdgeTypes DEF Gaps, Silences
<1>5. air' = Append(es, gap) \/ air' = es \o <<Frequency, gap>>
  BY <1>1
<1> HIDE DEF es
<1>6. es \in Seq(Words)
  BY <1>3, EdgeTypes, SeqMonotonic
<1>7. /\ Len(air') \in {N + 1, N + 2}
      /\ \A i \in 1..N : air'[i] = es[i]
      /\ Len(air') = N + 2 => air'[N + 1] = Frequency
  <2>1. CASE air' = Append(es, gap)
    BY <1>3, <1>4, <1>6, <2>1, AppendProperties
  <2>2. CASE air' = es \o <<Frequency, gap>>
    <3> DEFINE end == <<Frequency, gap>>
    <3>1. end \in Seq(Words) /\ Len(end) = 2 /\ end[1] = Frequency
      BY <1>4
    <3> HIDE DEF end
    <3>2. /\ Len(es \o end) = N + 2
          /\ \A i \in 1 .. N + 2 : (es \o end)[i] = IF i <= N THEN es[i] ELSE end[i - N]
      <4>1. /\ Len(es \o end) = Len(es) + Len(end)
            /\ \A i \in 1 .. Len(es) + Len(end) :
                 (es \o end)[i] = IF i <= Len(es) THEN es[i] ELSE end[i - Len(es)]
        BY <1>6, <3>1, TwoPieces
      <4> QED  BY <3>1, <4>1
    <3>3. air' = es \o end
      BY <2>2 DEF end
    <3> QED  BY <1>3, <3>1, <3>2, <3>3
  <2> QED  BY <1>5, <2>1, <2>2
<1>8. Len(edges') = 0 /\ N - 0 = N /\ N >= 0 /\ \A i \in 1..N : 0 + i = i
  BY <1>2, <1>3
<1>9. Arriving(es)'
  <2>1. es' = es
    BY <1>2 DEF es
  <2> QED  BY <1>7, <1>8 DEF Arriving
<1> QED  BY <1>2, <1>9 DEF es

\* The next word, when es arrives.
LEMMA ArrivingWord ==
  ASSUME LInv, air # <<>>, NEW m \in MessageType, NEW s \in Scales, Arriving(Sent(m, s))
  PROVE  LET es == Sent(m, s)
             L == Len(edges)
         IN  /\ L \in Nat /\ L <= Len(es) /\ Len(es) \in Nat
             /\ \/ L < Len(es) /\ Word = es[L + 1]
                \/ L = Len(es) /\ Len(air) = 2 /\ Word = Frequency
                \/ L = Len(es) /\ Len(air) = 1
<1> DEFINE es == Sent(m, s)
           L == Len(edges)
<1>1. es \in Seq(Edges) /\ Len(es) \in Nat
  BY SentFits
<1> HIDE DEF es
<1>2. L \in Nat /\ Len(air) \in Nat /\ Word = air[1]
  BY DEF LInv, TypeOK, Word
<1> HIDE DEF L
<1>3. /\ Len(es) - L >= 0
      /\ Len(air) \in {Len(es) - L + 1, Len(es) - L + 2}
      /\ \A i \in 1 .. Len(es) - L : air[i] = es[L + i]
      /\ Len(air) = Len(es) - L + 2 => air[Len(es) - L + 1] = Frequency
  BY DEF Arriving, es, L
<1>4. CASE L < Len(es)
  <2>1. 1 \in 1 .. Len(es) - L
    BY <1>1, <1>2, <1>4
  <2> QED  BY <1>1, <1>2, <1>3, <1>4, <2>1 DEF es, L
<1>5. CASE L = Len(es)
  <2>1. Len(es) - L = 0 /\ Len(es) - L + 1 = 1 /\ Len(es) - L + 2 = 2
    BY <1>1, <1>2, <1>5
  <2> QED  BY <1>1, <1>2, <1>3, <1>5, <2>1 DEF es, L
<1> QED  BY <1>1, <1>2, <1>3, <1>4, <1>5

LEMMA ReadArrives ==
  ASSUME LInv, CleanInv, Read, Run
  PROVE  CleanInv'
<1> SUFFICES ASSUME clean', air' # <<>> PROVE \E s \in Scales : Arriving(Sent(message, s))'
  BY DEF CleanInv
<1>1. air # <<>> /\ air' = Tail(air) /\ message' = message /\ clean' = clean
  BY DEF Read
<1>2. PICK s \in Scales : Arriving(Sent(message, s))
  BY <1>1 DEF CleanInv
<1> DEFINE es == Sent(message, s)
           N == Len(es)
           L == Len(edges)
<1>3. message \in MessageType /\ edges \in Seq(Edges) /\ air \in Seq(Words)
  BY DEF LInv, TypeOK
<1>4. /\ es \in Seq(Edges) /\ N \in Nat /\ 1 <= N /\ N < MaxBurstEdges
      /\ es[1].kind = "pulse"
      /\ \A i \in 1..N : es[i] \in Edges /\ ~EndsBurst(es[i])
  BY <1>3, SentFits
<1>5. /\ L \in Nat /\ L <= N
      /\ \/ L < N /\ Word = es[L + 1]
         \/ L = N /\ Len(air) = 2 /\ Word = Frequency
         \/ L = N /\ Len(air) = 1
  BY <1>1, <1>2, <1>3, ArrivingWord
<1>6. /\ Len(air) \in {N - L + 1, N - L + 2}
      /\ \A i \in 1 .. L : edges[i] = es[i]
      /\ \A i \in 1 .. N - L : air[i] = es[L + i]
      /\ Len(air) = N - L + 2 => air[N - L + 1] = Frequency
  BY <1>2 DEF Arriving
<1>7. es' = es
  BY <1>1
<1> HIDE DEF es
<1> HIDE DEF N
<1>8. /\ air' \in Seq(Words) /\ Len(air') = Len(air) - 1 /\ Len(air') # 0
      /\ \A i \in 1 .. Len(air) - 1 : air'[i] = air[i + 1]
  BY <1>1, <1>3, HeadTailProperties
<1>9. CASE L < N /\ Word = es[L + 1]
  <2>1. L + 1 \in 1..N
    BY <1>4, <1>5, <1>9
  <2>2. Word \in Edges /\ Word.kind \in {"pulse", "space"} /\ ~EndsBurst(Word)
    BY <1>4, <1>9, <2>1, EdgeTypes
  <2>3. ReadPulse \/ ReadSpace
    <3>1. Word.kind = "space" => edges # <<>>
      <4>1. L = 0 => Word.kind = "pulse"
        BY <1>4, <1>9
      <4> QED  BY <4>1
    <3>2. ~ReadEnd
      BY <2>2 DEF ReadEnd
    <3>3. ~ReadNothing
      BY <2>2, <3>1 DEF ReadNothing
    <3> QED  BY <3>2, <3>3 DEF Run
  <2>4. /\ Append(edges, Word) \in Seq(Edges) /\ Len(Append(edges, Word)) = L + 1
        /\ Append(edges, Word)[L + 1] = Word
        /\ \A i \in 1..L : Append(edges, Word)[i] = edges[i]
    BY <1>3, <2>2, AppendProperties
  <2>5. edges' = Append(edges, Word)
    <3>1. Keep(Append(edges, Word))
      BY <2>3 DEF ReadPulse, ReadSpace
    <3>2. ~(Len(Append(edges, Word)) >= MaxBurstEdges)
      BY <1>4, <1>5, <1>9, <2>4, EdgesAssumption
    <3> QED  BY <3>1, <3>2 DEF Keep
  <2>6. Len(edges') = L + 1 /\ \A i \in 1 .. L + 1 : edges'[i] = es[i]
    <3>1. \A i \in 1 .. L + 1 : i \in 1..L \/ i = L + 1
      BY <1>5
    <3> QED  BY <1>6, <1>9, <2>4, <2>5, <3>1
  <2>7. /\ N - (L + 1) >= 0
        /\ Len(air') \in {N - (L + 1) + 1, N - (L + 1) + 2}
    BY <1>4, <1>5, <1>6, <1>8, <1>9
  <2>8. ASSUME NEW i \in 1 .. N - (L + 1) PROVE air'[i] = es[L + 1 + i]
    <3>1. i + 1 \in 1 .. N - L /\ i \in 1 .. Len(air) - 1 /\ L + (i + 1) = L + 1 + i
      BY <1>4, <1>5, <1>6
    <3> QED  BY <1>6, <1>8, <3>1
  <2>9. ASSUME Len(air') = N - (L + 1) + 2 PROVE air'[N - (L + 1) + 1] = Frequency
    <3>1. /\ Len(air) = N - L + 2 /\ N - (L + 1) + 1 \in 1 .. Len(air) - 1
          /\ (N - (L + 1) + 1) + 1 = N - L + 1
      BY <1>3, <1>4, <1>5, <1>8, <1>9, <2>9
    <3> QED  BY <1>6, <1>8, <3>1
  <2>10. Arriving(es)'
    BY <1>7, <2>6, <2>7, <2>8, <2>9 DEF Arriving, N
  <2> QED  BY <2>10 DEF es
<1>10. CASE L = N /\ Len(air) = 2 /\ Word = Frequency
  <2>1. edges' = edges
    <3>1. Word.kind = "frequency"
      BY <1>10 DEF Frequency
    <3> QED  BY <3>1 DEF Run, ReadPulse, ReadSpace, ReadEnd, ReadNothing, EndsBurst, IsGap
  <2>2. Len(edges') = L /\ N - L = 0 /\ Len(air') = N - L + 1 /\ Len(air') # N - L + 2
    BY <1>5, <1>8, <1>10, <2>1
  <2>3. Arriving(es)'
    BY <1>6, <1>7, <2>1, <2>2 DEF Arriving, N
  <2> QED  BY <2>3 DEF es
<1>11. CASE L = N /\ Len(air) = 1
  BY <1>8, <1>11
<1> QED  BY <1>5, <1>9, <1>10, <1>11

\* What WholeMessageIsShown says of a step.
ShownAtTheEnd ==
  air # <<>> /\ air' = <<>> /\ clean /\ EndsBurst(Word) => DecodeNec(burst') = Meaning(message)

LEMMA LastWordShows ==
  ASSUME LInv, CleanInv, Run, air # <<>>, air' = <<>>, clean, EndsBurst(Word)
  PROVE  DecodeNec(burst') = Meaning(message)
<1>1. PICK s \in Scales : Arriving(Sent(message, s))
  BY DEF CleanInv
<1> DEFINE es == Sent(message, s)
           N == Len(es)
<1>2. message \in MessageType /\ edges \in Seq(Edges) /\ air \in Seq(Words)
  BY DEF LInv, TypeOK
<1>3. /\ es \in Seq(Edges) /\ N \in Nat /\ 1 <= N /\ es[N].kind = "pulse"
      /\ \A i \in 1..N : ~EndsBurst(es[i])
  BY <1>2, SentFits
<1>4. /\ Len(edges) <= N
      /\ \/ Len(edges) < N /\ Word = es[Len(edges) + 1]
         \/ Len(edges) = N /\ Len(air) = 2 /\ Word = Frequency
         \/ Len(edges) = N /\ Len(air) = 1
  BY <1>1, <1>2, ArrivingWord
<1>5. \A i \in 1 .. Len(edges) : edges[i] = es[i]
  BY <1>1 DEF Arriving
<1> HIDE DEF es
<1>6. Len(edges) = N
  <2>1. Len(edges) < N => Len(edges) + 1 \in 1..N
    BY <1>2, <1>3
  <2>2. ~(Len(edges) < N /\ Word = es[Len(edges) + 1])
    BY <1>3, <2>1
  <2> QED  BY <1>4, <2>2
<1>7. edges = es
  BY <1>2, <1>3, <1>5, <1>6, SeqEqual
<1>8. Flush(edges)
  <2>1. edges # <<>>
    BY <1>3, <1>6
  <2> QED  BY <2>1 DEF Run, ReadPulse, ReadSpace, ReadEnd, ReadNothing, EndsBurst, IsGap
<1>9. burst' = edges
  <2>1. /\ burst' \in Seq(Edges) /\ Len(burst') <= N
        /\ \A i \in 1 .. Len(burst') : burst'[i] = edges[i]
        /\ \A i \in Len(burst') + 1 .. N : edges[i].kind # "pulse"
    BY <1>2, <1>6, <1>8, FlushTrims
  <2>2. Len(burst') = N
    <3> SUFFICES ASSUME Len(burst') < N PROVE FALSE
      BY <1>3, <2>1
    <3>1. N \in Len(burst') + 1 .. N
      BY <1>3, <2>1
    <3> QED  BY <1>3, <1>7, <2>1, <3>1
  <2> QED  BY <1>2, <1>6, <2>1, <2>2, SeqEqual
<1> QED  BY <1>2, <1>7, <1>9, SentIsShown DEF es

\* A message that follows silence and arrives whole is shown with its meaning,
\* for any speed of the remote within the decoder's tolerances.
THEOREM WholeMessagesAreShown == Spec => WholeMessageIsShown
<1>1. Init => CleanInv
  BY DEF Init, CleanInv
<1>2. LInv /\ CleanInv /\ [Next]_vars => CleanInv'
  <2> SUFFICES ASSUME LInv, CleanInv, [Next]_vars PROVE CleanInv'
    OBVIOUS
  <2>1. CASE UNCHANGED vars
    BY <2>1 DEF vars, CleanInv, Arriving
  <2>2. CASE Run
    <3>1. Read
      BY <2>2 DEF Run, ReadPulse, ReadSpace, ReadEnd, ReadNothing
    <3> QED  BY <2>2, <3>1, ReadArrives
  <2>3. ASSUME NEW m \in Messages, Transmit(m) PROVE CleanInv'
    BY <2>3, TransmitArrives
  <2> QED  BY <2>1, <2>2, <2>3 DEF Next
<1>3. LInv /\ CleanInv /\ [Next]_vars => [ShownAtTheEnd]_vars
  <2> SUFFICES ASSUME LInv, CleanInv, Next PROVE ShownAtTheEnd
    OBVIOUS
  <2>1. CASE Run
    BY <2>1, LastWordShows DEF ShownAtTheEnd
  <2>2. ASSUME NEW m \in Messages, Transmit(m) PROVE ShownAtTheEnd
    BY <2>2 DEF Transmit, ShownAtTheEnd
  <2> QED  BY <2>1, <2>2 DEF Next
<1> QED  BY <1>1, <1>2, <1>3, InitLInv, LInvStep, PTL DEF Spec, WholeMessageIsShown, ShownAtTheEnd

-----------------------------------------------------------------------------
(* What can be shown of words that are not a whole message.                *)

\* A leader's pulse.
Big(w) == w.kind = "pulse" /\ Near(w.us, 9000, 30)

\* The words say nothing that is none of the messages, wherever a burst of them
\* is cut off.
Honest(w, ms) ==
  IsLeader(w) =>
    /\ Near(w[2].us, 2250, 30) => Repeat \in ms
    /\ Near(w[2].us, 4500, 30) /\ AllBits(w) => \E m \in ms \ {Repeat} : CarriesBits(w, m)

LEMMA HonestPrefix ==
  ASSUME NEW w \in Seq(Words), NEW ms \in SUBSET MessageType, Honest(w, ms),
         NEW v \in Seq(Edges), Len(v) <= Len(w), \A i \in 1 .. Len(v) : v[i] = w[i]
  PROVE  DecodeNec(v).kind \in {"frame", "repeat"} => \E m \in ms : DecodeNec(v) = Meaning(m)
<1> SUFFICES ASSUME DecodeNec(v).kind \in {"frame", "repeat"}
             PROVE  \E m \in ms : DecodeNec(v) = Meaning(m)
  OBVIOUS
<1>1. IsLeader(v) /\ Len(v) >= 2 /\ Len(v) \in Nat /\ Len(w) \in Nat
  BY DecodedKinds DEF IsLeader
<1>2. v[1] = w[1] /\ v[2] = w[2]
  BY <1>1
<1>3. IsLeader(w)
  BY <1>1, <1>2 DEF IsLeader
<1>4. CASE DecodeNec(v).kind = "repeat"
  <2>1. DecodeNec(v) = Repeat /\ Near(w[2].us, 2250, 30)
    BY <1>2, <1>4, DecodedKinds
  <2>2. Repeat \in ms
    BY <1>3, <2>1 DEF Honest
  <2> QED  BY <2>1, <2>2 DEF Meaning
<1>5. CASE DecodeNec(v).kind = "frame"
  <2>1. Near(v[2].us, 4500, 30) /\ AllBits(v)
    BY <1>5, DecodedKinds
  <2>2. FrameBits \in Nat /\ FrameBits > 0
    BY ByteBitsAssumption DEF FrameBits
  <2>3. ASSUME NEW k \in 1..FrameBits
        PROVE  /\ v[2 * k + 1] = w[2 * k + 1] /\ v[2 * k + 2] = w[2 * k + 2]
               /\ 2 * k + 2 <= Len(v)
    <3>1. 2 * k + 2 <= Len(v)
      BY <2>1 DEF AllBits
    <3>2. 2 * k + 1 \in 1 .. Len(v) /\ 2 * k + 2 \in 1 .. Len(v)
      BY <1>1, <2>2, <3>1
    <3> QED  BY <3>1, <3>2
  <2>4. \A k \in 1..FrameBits : (IsBit(v, k) <=> IsBit(w, k)) /\ Bit(v, k) = Bit(w, k)
    BY <2>3 DEF IsBit, Bit
  <2>5. AllBits(w)
    <3> SUFFICES ASSUME NEW k \in 1..FrameBits PROVE 2 * k + 2 <= Len(w) /\ IsBit(w, k)
      BY DEF AllBits
    <3>1. 2 * k + 2 <= Len(v) /\ IsBit(v, k)
      BY <2>1 DEF AllBits
    <3> QED  BY <1>1, <2>2, <2>4, <3>1
  <2>6. PICK m \in ms \ {Repeat} : CarriesBits(w, m)
    BY <1>2, <1>3, <2>1, <2>5 DEF Honest
  <2>7. CarriesBits(v, m)
    BY <2>4, <2>6 DEF CarriesBits
  <2>8. 2 * FrameBits + 2 <= Len(v)
    BY <2>2, <2>3
  <2>9. DecodeNec(v) = Meaning(m)
    BY <1>1, <2>1, <2>6, <2>7, <2>8, FrameIsShown
  <2> QED  BY <2>6, <2>9
<1> QED  BY <1>4, <1>5

\* The word that follows a transmission.
IsEnd(g) == g \in Silences \cup {Space(ShortGapUs)}

LEMMA EndsAreLong ==
  ASSUME NEW g, IsEnd(g)
  PROVE  /\ g \in Words /\ g.kind \in {"space", "timeout"}
         /\ g.kind = "space" => g.us \in Nat /\ g.us > 2925
         /\ ~Near(g.us, 2250, 30)
<1>1. CASE g = Timeout
  BY <1>1, EdgeTypes DEF Timeout, Near
<1>2. ASSUME g # Timeout
      PROVE g.kind = "space" /\ g.us \in Nat /\ g.us > 2925 /\ g \in Words
  BY <1>2, GapsAssumption, EdgeTypes DEF IsEnd, Silences, Space
<1>3. CASE g # Timeout
  <2>1. ~Near(g.us, 2250, 30)
    BY <1>2, <1>3 DEF Near
  <2> QED  BY <1>2, <1>3, <2>1
<1> QED  BY <1>1, <1>3

LEMMA NoBit ==
  ASSUME NEW w \in Seq(Words), NEW k \in 1..FrameBits,
         2 * k + 2 <= Len(w) =>
           \/ w[2 * k + 1].kind # "pulse" \/ Big(w[2 * k + 1])
           \/ w[2 * k + 2].kind # "space" \/ IsEnd(w[2 * k + 2])
  PROVE  ~AllBits(w)
<1> SUFFICES ASSUME 2 * k + 2 <= Len(w), IsBit(w, k) PROVE FALSE
  BY DEF AllBits
<1> DEFINE x == w[2 * k + 1]
           y == w[2 * k + 2]
<1>1. x.kind = "pulse" /\ y.kind = "space" /\ Near(x.us, 560, 40) /\ (IsZero(y) \/ IsOne(y))
  BY DEF IsBit
<1>2. Big(x) \/ IsEnd(y)
  BY <1>1
<1>3. x \in Words
  <2>1. FrameBits \in Nat /\ Len(w) \in Nat
    BY ByteBitsAssumption DEF FrameBits
  <2>2. 2 * k + 1 \in 1 .. Len(w)
    BY <2>1
  <2> HIDE DEF x
  <2> QED  BY <2>2 DEF x
<1> HIDE DEF x, y
<1>4. x.us \in Nat
  BY <1>1, <1>3, EdgeTypes
<1>5. ~Big(x)
  <2>1. \A u \in Nat : Near(u, 560, 40) => ~Near(u, 9000, 30)
    BY DEF Near
  <2> QED  BY <1>1, <1>4, <2>1 DEF Big
<1>6. y.us \in Nat /\ y.us > 2925
  BY <1>1, <1>2, <1>5, EndsAreLong
<1> QED  BY <1>1, <1>6 DEF IsZero, IsOne, Near

\* The words of a message.
LEMMA SentPoints ==
  ASSUME NEW m \in MessageType, NEW s \in Scales
  PROVE  LET es == Sent(m, s)
             N == Len(es)
         IN  /\ es \in Seq(Edges) /\ N \in Nat /\ N >= 3 /\ N % 2 = 1
             /\ \A i \in 1..N : es[i].kind = IF i % 2 = 1 THEN "pulse" ELSE "space"
             /\ Big(es[1]) /\ \A i \in 2..N : ~Big(es[i])
             /\ m = Repeat => N = 3 /\ Near(es[2].us, 2250, 30) /\ ~Near(es[2].us, 4500, 30)
             /\ m # Repeat => /\ N = 2 * FrameBits + 3 /\ CarriesBits(es, m)
                              /\ es[2].us \in Nat /\ es[2].us > 2925
<1> DEFINE es == Sent(m, s)
           N == Len(es)
<1>1. s \in 70..130 /\ FrameBits \in Nat /\ FrameBits > 0
  BY ScalesAssumption, ByteBitsAssumption DEF FrameBits
<1>2. /\ es \in Seq(Edges) /\ N \in Nat /\ N % 2 = 1
      /\ \A i \in 1..N : es[i].kind = IF i % 2 = 1 THEN "pulse" ELSE "space"
  BY SentIsWhole DEF Whole, Alternates
<1>3. Big(Pulse(Us(9000, s))) /\ ~Big(Pulse(Us(560, s)))
  <2>1. /\ Us(9000, s) \in Nat /\ 6300 <= Us(9000, s) /\ Us(9000, s) <= 11700
        /\ Us(560, s) \in Nat /\ Us(560, s) <= 728
    BY <1>1, UsRange
  <2> QED  BY <2>1 DEF Big, Pulse, Near
<1>4. CASE m = Repeat
  <2>1. N = 3 /\ es[1] = Pulse(Us(9000, s)) /\ es[2] = Space(Us(2250, s)) /\ es[3] = Pulse(Us(560, s))
    BY <1>4, SentRepeat
  <2> HIDE DEF es
  <2>2. ~Big(es[2])
    BY <2>1 DEF Big, Space
  <2>3. \A i \in 2..N : ~Big(es[i])
    BY <1>3, <2>1, <2>2
  <2>4. Near(es[2].us, 2250, 30) /\ ~Near(es[2].us, 4500, 30)
    <3>1. Us(2250, s) \in Nat /\ 1575 <= Us(2250, s) /\ Us(2250, s) <= 2925
      BY <1>1, UsRange
    <3>2. es[2].us = Us(2250, s)
      BY <2>1 DEF Space
    <3> QED  BY <3>1, <3>2 DEF Near
  <2> QED  BY <1>2, <1>3, <1>4, <2>1, <2>3, <2>4 DEF es
<1>5. CASE m # Repeat
  <2>1. /\ N = 2 * FrameBits + 3
        /\ es[1] = Pulse(Us(9000, s)) /\ es[2] = Space(Us(4500, s))
        /\ \A k \in 1..FrameBits :
             es[2 * k + 1] = Pulse(Us(560, s)) /\ es[2 * k + 2] = BitSpace(m, k, s)
        /\ es[2 * FrameBits + 3] = Pulse(Us(560, s))
    BY <1>5, SentFrame
  <2> HIDE DEF es
  <2>2. CarriesBits(es, m)
    BY <1>5, <2>1, SentCarries
  <2>3. ASSUME NEW i \in 2..N PROVE ~Big(es[i])
    <3>1. CASE i % 2 = 0
      <4>1. es[i].kind = "space"
        BY <1>2, <3>1
      <4> QED  BY <4>1 DEF Big
    <3>2. CASE i = N
      BY <1>3, <2>1, <3>2
    <3>3. CASE i % 2 # 0 /\ i # N
      <4>1. i \div 2 \in 1..FrameBits /\ 2 * (i \div 2) + 1 = i
        BY <1>1, <2>1, <3>3
      <4>2. es[2 * (i \div 2) + 1] = Pulse(Us(560, s))
        BY <2>1, <4>1
      <4> QED  BY <1>3, <4>1, <4>2
    <3> QED  BY <3>1, <3>2, <3>3
  <2>4. es[2].us \in Nat /\ es[2].us > 2925
    <3>1. Us(4500, s) \in Nat /\ 3150 <= Us(4500, s)
      BY <1>1, UsRange
    <3>2. es[2].us = Us(4500, s)
      BY <2>1 DEF Space
    <3> QED  BY <3>1, <3>2
  <2>5. N >= 3
    BY <1>1, <2>1
  <2> QED  BY <1>2, <1>3, <1>5, <2>1, <2>2, <2>3, <2>4, <2>5 DEF es
<1> QED  BY <1>4, <1>5

\* The words that a fade leaves.
LEMMA FadedPieces ==
  ASSUME NEW es, Whole(es), NEW i \in PulsesOf(es), NEW j \in PulsesOf(es), i <= j
  PROVE  LET r == Faded(es, i, j)
             N == Len(es)
         IN  /\ i \in 1..N /\ j \in 1..N /\ i % 2 = 1 /\ j % 2 = 1
             /\ \/ /\ i = 1 /\ Len(r) = IF j < N THEN N - j - 1 ELSE 0
                   /\ \A k \in 1 .. Len(r) : r[k] = es[j + 1 + k]
                \/ /\ i >= 3 /\ j = N /\ Len(r) = i - 2
                   /\ \A k \in 1 .. i - 2 : r[k] = es[k]
                \/ /\ i >= 3 /\ j < N /\ Len(r) = N - (j - i) - 2
                   /\ \A k \in 1 .. i - 2 : r[k] = es[k]
                   /\ r[i - 1].kind = "space" /\ r[i - 1].us \in Nat /\ r[i - 1].us >= es[i - 1].us
                   /\ \A k \in i .. Len(r) : r[k] = es[k + (j - i) + 2]
<1> DEFINE r == Faded(es, i, j)
           N == Len(es)
           before == SubSeq(es, 1, i - 2)
           after == SubSeq(es, j + 2, Len(es))
           gone == SubSeq(es, i - 1, j + 1)
           d == Duration(gone)
           long == <<Space(d)>>
<1>1. es \in Seq(Edges) /\ N \in Nat /\ N % 2 = 1
  BY DEF Whole
<1>2. i \in 1..N /\ j \in 1..N /\ i % 2 = 1 /\ j % 2 = 1
  BY <1>1 DEF Whole, Alternates, PulsesOf
<1>3. r = IF before = <<>> \/ after = <<>> THEN before \o after ELSE before \o long \o after
  BY DEF Faded
<1> HIDE DEF r
<1>4. \A k \in 1..N : es[k] \in Edges
  BY <1>1
<1>5. /\ before \in Seq(Edges) /\ Len(before) = IF i >= 3 THEN i - 2 ELSE 0
      /\ \A k \in 1 .. i - 2 : before[k] = es[k]
  <2>1. \A k \in 1 .. i - 2 : es[k] \in Edges
    BY <1>1, <1>2, <1>4
  <2>2. /\ before \in Seq(Edges)
        /\ Len(before) = IF 1 <= i - 2 THEN (i - 2) - 1 + 1 ELSE 0
        /\ \A k \in 1 .. (i - 2) - 1 + 1 : before[k] = es[1 + k - 1]
    BY <1>1, <1>2, <2>1, SubSeqProperties
  <2> HIDE DEF before
  <2>3. i >= 3 <=> 1 <= i - 2
    BY <1>1, <1>2
  <2> QED  BY <1>1, <1>2, <2>2, <2>3
<1>6. /\ after \in Seq(Edges) /\ Len(after) = IF j < N THEN N - j - 1 ELSE 0
      /\ \A k \in 1 .. N - j - 1 : after[k] = es[j + 1 + k]
  <2>1. \A k \in j + 2 .. N : es[k] \in Edges
    BY <1>1, <1>2, <1>4
  <2>2. /\ after \in Seq(Edges)
        /\ Len(after) = IF j + 2 <= N THEN N - (j + 2) + 1 ELSE 0
        /\ \A k \in 1 .. N - (j + 2) + 1 : after[k] = es[j + 2 + k - 1]
    BY <1>1, <1>2, <2>1, SubSeqProperties
  <2> HIDE DEF after, N
  <2>3. j < N <=> j + 2 <= N
    BY <1>1, <1>2
  <2>4. \A k \in 1 .. N - j - 1 : k \in 1 .. N - (j + 2) + 1 /\ j + 2 + k - 1 = j + 1 + k
    BY <1>1, <1>2
  <2> QED  BY <1>1, <1>2, <2>2, <2>3, <2>4
<1>7. /\ before = <<>> <=> i = 1
      /\ after = <<>> <=> j = N
  <2> HIDE DEF before, after, N
  <2>1. Len(before) = 0 <=> i = 1
    BY <1>1, <1>2, <1>5
  <2>2. Len(after) = 0 <=> j = N
    BY <1>1, <1>2, <1>6
  <2>3. \A q \in Seq(Edges) : q = <<>> <=> Len(q) = 0
    OBVIOUS
  <2> QED  BY <1>5, <1>6, <2>1, <2>2, <2>3
<1>8. i >= 3 /\ j < N => d \in Nat /\ d >= es[i - 1].us
  <2> SUFFICES ASSUME i >= 3, j < N PROVE d \in Nat /\ d >= es[i - 1].us
    OBVIOUS
  <2>1. i - 1 \in 1..N /\ j + 1 \in 1..N /\ i - 1 <= j + 1
    BY <1>1, <1>2
  <2>2. \A k \in i - 1 .. j + 1 : es[k] \in Edges
    BY <1>1, <1>4, <2>1
  <2>3. /\ gone \in Seq(Edges)
        /\ Len(gone) = (j + 1) - (i - 1) + 1
        /\ \A k \in 1 .. (j + 1) - (i - 1) + 1 : gone[k] = es[(i - 1) + k - 1]
    BY <2>1, <2>2, SubSeqProperties
  <2> HIDE DEF gone
  <2>4. gone # <<>> /\ gone[1] = es[i - 1]
    <3>1. 1 \in 1 .. (j + 1) - (i - 1) + 1 /\ (i - 1) + 1 - 1 = i - 1 /\ Len(gone) # 0
      BY <1>1, <1>2, <2>3
    <3> QED  BY <2>3, <3>1
  <2> QED  BY <2>3, <2>4, DurationType, DurationBound
<1> HIDE DEF before, after, gone, d, long, N
<1>9. CASE i = 1
  <2>1. r = before \o after /\ before = <<>>
    BY <1>3, <1>7, <1>9
  <2>2. r = after
    BY <1>6, <2>1
  <2>3. \A k \in 1 .. Len(after) : k \in 1 .. N - j - 1
    BY <1>1, <1>2, <1>6
  <2> QED  BY <1>2, <1>6, <1>9, <2>2, <2>3 DEF r, N
<1>10. CASE i # 1 /\ j = N
  <2>1. r = before \o after /\ after = <<>>
    BY <1>3, <1>7, <1>10
  <2>2. r = before
    BY <1>5, <2>1
  <2>3. i >= 3
    BY <1>1, <1>2, <1>10
  <2> QED  BY <1>2, <1>5, <1>10, <2>2, <2>3 DEF r, N
<1>11. CASE i # 1 /\ j # N
  <2>0. i >= 3 /\ j < N
    BY <1>1, <1>2, <1>11
  <2>01. before # <<>> /\ after # <<>>
    BY <1>7, <1>11
  <2>1. i >= 3 /\ j < N /\ r = before \o long \o after
    BY <1>3, <2>0, <2>01
  <2>2. /\ long \in Seq(Edges) /\ Len(long) = 1
        /\ long[1].kind = "space" /\ long[1].us \in Nat /\ long[1].us >= es[i - 1].us
    BY <1>8, <2>1, EdgeTypes DEF long, Space
  <2>3. /\ Len(r) = Len(before) + Len(long) + Len(after)
        /\ \A k \in 1 .. Len(before) + Len(long) + Len(after) :
             r[k] = IF k <= Len(before) THEN before[k]
                    ELSE IF k <= Len(before) + Len(long) THEN long[k - Len(before)]
                    ELSE after[k - (Len(before) + Len(long))]
    <3> DEFINE t == before \o long \o after
    <3>1. before \in Seq(Edges) /\ long \in Seq(Edges) /\ after \in Seq(Edges)
      BY <1>5, <1>6, <2>2
    <3>2. /\ Len(t) = Len(before) + Len(long) + Len(after)
          /\ \A k \in 1 .. Len(before) + Len(long) + Len(after) :
               t[k] = IF k <= Len(before) THEN before[k]
                      ELSE IF k <= Len(before) + Len(long) THEN long[k - Len(before)]
                      ELSE after[k - (Len(before) + Len(long))]
      BY <3>1, ThreePieces
    <3>3. r = t
      BY <2>1
    <3> HIDE DEF t
    <3> QED  BY <3>2, <3>3
  <2>4. Len(before) = i - 2 /\ Len(after) = N - j - 1
    BY <1>5, <1>6, <2>1
  <2>5. (i - 2) + 1 + (N - j - 1) = N - (j - i) - 2 /\ (i - 2) + 1 = i - 1
    BY <1>1, <1>2
  <2>6. Len(r) = N - (j - i) - 2
    BY <2>2, <2>3, <2>4, <2>5
  <2>7. \A k \in 1 .. N - (j - i) - 2 :
          r[k] = IF k <= i - 2 THEN before[k] ELSE IF k <= i - 1 THEN long[k - (i - 2)] ELSE after[k - (i - 1)]
    BY <2>2, <2>3, <2>4, <2>5
  <2>8. ASSUME NEW k \in 1 .. i - 2 PROVE r[k] = es[k]
    <3>1. k \in 1 .. N - (j - i) - 2 /\ k <= i - 2
      BY <1>1, <1>2, <2>1
    <3> QED  BY <1>5, <2>7, <3>1
  <2>9. r[i - 1] = long[1]
    <3>1. i - 1 \in 1 .. N - (j - i) - 2 /\ ~(i - 1 <= i - 2) /\ (i - 1) - (i - 2) = 1 /\ i - 1 <= i - 1
      BY <1>1, <1>2, <2>1
    <3> QED  BY <2>7, <3>1
  <2>10. ASSUME NEW k \in i .. Len(r) PROVE r[k] = es[k + (j - i) + 2]
    <3>1. /\ k \in 1 .. N - (j - i) - 2 /\ ~(k <= i - 2) /\ ~(k <= i - 1)
          /\ k - (i - 1) \in 1 .. N - j - 1
          /\ j + 1 + (k - (i - 1)) = k + (j - i) + 2
      BY <1>1, <1>2, <2>1, <2>6
    <3>2. r[k] = after[k - (i - 1)]
      BY <2>7, <3>1
    <3> QED  BY <1>6, <3>1, <3>2
  <2>11. /\ i >= 3 /\ j < N /\ Len(r) = N - (j - i) - 2
         /\ \A k \in 1 .. i - 2 : r[k] = es[k]
         /\ r[i - 1].kind = "space" /\ r[i - 1].us \in Nat /\ r[i - 1].us >= es[i - 1].us
         /\ \A k \in i .. Len(r) : r[k] = es[k + (j - i) + 2]
    BY <2>1, <2>2, <2>6, <2>8, <2>9, <2>10
  <2> QED  BY <1>2, <2>11 DEF r, N
<1> QED  BY <1>9, <1>10, <1>11

\* What is received of a message, with the word that follows it: the edges up to
\* an overflow or to the end,
CutOff(v, es) ==
  \E p \in 2 .. Len(es) + 1 :
    /\ p <= Len(v) /\ \A k \in 1 .. p - 1 : v[k] = es[k]
    /\ v[p] = Overflow \/ (p = Len(v) /\ IsEnd(v[p]))

\* the leader and too few edges for a frame,
TooShort(v) ==
  /\ Len(v) \in 2 .. 2 * FrameBits + 2 /\ IsEnd(v[Len(v)])
  /\ Big(v[1]) /\ v[2].us \in Nat /\ v[2].us > 2925

\* or edges without a leader: all but the leader's, or too few.
Headless(v, es) ==
  /\ ~Big(v[1])
  /\ \/ v[1] = Overflow
     \/ /\ Len(v) = Len(es) - 1 /\ IsEnd(v[Len(v)])
        /\ \A k \in 1 .. Len(es) - 2 : v[k] = es[k + 2]
     \/ Len(v) <= 2 * FrameBits /\ IsEnd(v[Len(v)])

OneLeader(v) == \A k \in 2 .. Len(v) : ~Big(v[k])

LEMMA EndIsNotBig ==
  ASSUME NEW g, IsEnd(g) \/ g = Overflow
  PROVE  ~Big(g)
  BY EndsAreLong DEF Big, Overflow

LEMMA OddPlaces ==
  ASSUME NEW N \in Nat, N % 2 = 1, NEW i \in 1..N, NEW j \in 1..N, i % 2 = 1, j % 2 = 1, i <= j
  PROVE  /\ j # N => j + 2 <= N
         /\ i # 1 => i >= 3
         /\ j # 1 => j >= 3
  OBVIOUS

LEMMA FadedShape ==
  ASSUME NEW m \in MessageType, NEW s \in Scales, NEW g, IsEnd(g),
         NEW i \in PulsesOf(Sent(m, s)), NEW j \in PulsesOf(Sent(m, s)), i <= j,
         Faded(Sent(m, s), i, j) # <<>>
  PROVE  LET es == Sent(m, s)
             v == Append(Faded(es, i, j), g)
         IN  (CutOff(v, es) \/ TooShort(v) \/ Headless(v, es)) /\ OneLeader(v)
<1> DEFINE es == Sent(m, s)
           N == Len(es)
           r == Faded(es, i, j)
           R == Len(r)
           v == Append(r, g)
<1>1. /\ es \in Seq(Edges) /\ N \in Nat /\ N >= 3 /\ N % 2 = 1
      /\ Big(es[1]) /\ \A k \in 2..N : ~Big(es[k])
      /\ m = Repeat => N = 3
      /\ m # Repeat => N = 2 * FrameBits + 3 /\ es[2].us \in Nat /\ es[2].us > 2925
  BY SentPoints
<1>2. /\ i \in 1..N /\ j \in 1..N /\ i % 2 = 1 /\ j % 2 = 1
      /\ \/ /\ i = 1 /\ R = (IF j < N THEN N - j - 1 ELSE 0)
            /\ \A k \in 1 .. R : r[k] = es[j + 1 + k]
         \/ /\ i >= 3 /\ j = N /\ R = i - 2
            /\ \A k \in 1 .. i - 2 : r[k] = es[k]
         \/ /\ i >= 3 /\ j < N /\ R = N - (j - i) - 2
            /\ \A k \in 1 .. i - 2 : r[k] = es[k]
            /\ r[i - 1].kind = "space" /\ r[i - 1].us \in Nat /\ r[i - 1].us >= es[i - 1].us
            /\ \A k \in i .. R : r[k] = es[k + (j - i) + 2]
  BY SentIsWhole, FadedPieces
<1>3. Whole(r) /\ r \in Seq(Edges) /\ R \in Nat /\ R >= 1
  <2>1. Whole(r)
    BY SentIsWhole, FadedIsWhole
  <2> QED  BY <2>1 DEF Whole
<1>4. g \in Words /\ FrameBits \in Nat /\ FrameBits >= 4
  BY EndsAreLong, ByteBitsAssumption DEF FrameBits
<1>5. /\ Len(v) = R + 1 /\ v[R + 1] = g /\ \A k \in 1..R : v[k] = r[k]
  <2>1. r \in Seq(Words)
    BY <1>3, EdgeTypes, SeqMonotonic
  <2> HIDE DEF r
  <2> QED  BY <1>4, <2>1, AppendProperties
<1> HIDE DEF r, v, es, N, R
<1>6. ~Big(g)
  BY EndIsNotBig
<1>10. /\ i \in Nat /\ j \in Nat /\ i >= 1 /\ i <= j /\ j <= N /\ N \in Nat
       /\ j # N => j + 2 <= N
       /\ i # 1 => i >= 3
       /\ j # 1 => j >= 3
  <2>1. N \in Nat /\ N % 2 = 1 /\ i \in 1..N /\ j \in 1..N /\ i % 2 = 1 /\ j % 2 = 1
    BY <1>1, <1>2
  <2>2. /\ j # N => j + 2 <= N
        /\ i # 1 => i >= 3
        /\ j # 1 => j >= 3
    BY <2>1, OddPlaces
  <2>3. i \in Nat /\ j \in Nat /\ i >= 1 /\ j <= N
    BY <2>1
  <2> QED  BY <2>1, <2>2, <2>3
<1>7. CASE i = 1
  <2>0. R = (IF j < N THEN N - j - 1 ELSE 0) /\ \A k \in 1..R : r[k] = es[j + 1 + k]
    BY <1>2, <1>7
  <2>1. R = N - j - 1 /\ j < N /\ \A k \in 1..R : r[k] = es[j + 1 + k]
    <3>1. R # 0
      BY <1>3
    <3> QED  BY <2>0, <3>1
  <2>2. ASSUME NEW k \in 1 .. R + 1 PROVE ~Big(v[k])
    <3>1. k \in 1..R => j + 1 + k \in 2..N
      <4>1. R = N - j - 1 /\ k \in Nat
        BY <1>3, <2>1
      <4> QED  BY <1>10, <4>1
    <3>2. k \in 1..R \/ k = R + 1
      BY <1>3
    <3> QED  BY <1>1, <1>5, <1>6, <2>1, <3>1, <3>2
  <2>3. OneLeader(v) /\ ~Big(v[1])
    BY <1>3, <1>5, <2>2 DEF OneLeader
  <2>4. CASE j = 1
    <3>1. /\ Len(v) = N - 1 /\ IsEnd(v[Len(v)])
          /\ \A k \in 1 .. N - 2 : v[k] = es[k + 2]
      BY <1>1, <1>3, <1>5, <2>1, <2>4
    <3> QED  BY <2>3, <3>1 DEF Headless, N, es, v, r
  <2>5. CASE j # 1
    <3>1. m # Repeat
      BY <1>1, <1>2, <2>1, <2>5
    <3>2. Len(v) <= 2 * FrameBits /\ IsEnd(v[Len(v)])
      <4>1. N = 2 * FrameBits + 3 /\ j >= 3
        BY <1>1, <1>10, <2>5, <3>1
      <4>2. R + 1 = N - j
        BY <1>1, <1>10, <2>1
      <4>4. N - j <= 2 * FrameBits
        BY <1>1, <1>4, <1>10, <4>1
      <4> QED  BY <1>5, <4>2, <4>4
    <3> QED  BY <2>3, <3>2 DEF Headless, N, es, v, r
  <2> QED  BY <2>4, <2>5
<1>8. CASE i >= 3 /\ j = N
  <2>1. R = i - 2 /\ \A k \in 1..R : r[k] = es[k]
    BY <1>1, <1>2, <1>8
  <2>2. ASSUME NEW k \in 2 .. R + 1 PROVE ~Big(v[k])
    <3>1. (k \in 1..R /\ k \in 2..N) \/ k = R + 1
      <4>1. R = i - 2
        BY <2>1
      <4> QED  BY <1>3, <1>10, <4>1
    <3> QED  BY <1>1, <1>5, <1>6, <2>1, <3>1
  <2>3. OneLeader(v)
    BY <1>3, <1>5, <2>2 DEF OneLeader
  <2>4. /\ R + 1 \in 2 .. N + 1 /\ R + 1 <= Len(v) /\ R + 1 = Len(v)
        /\ \A k \in 1 .. (R + 1) - 1 : v[k] = es[k]
    <3>1. R = i - 2 /\ (R + 1) - 1 = R
      BY <1>3, <2>1
    <3>2. R + 1 \in 2 .. N + 1 /\ R + 1 <= R + 1
      BY <1>8, <1>10, <3>1
    <3> QED  BY <1>5, <2>1, <3>1, <3>2
  <2>5. CutOff(v, es)
    BY <1>5, <2>4 DEF CutOff, N
  <2> QED  BY <2>3, <2>5 DEF es, v, r
<1>9. CASE i >= 3 /\ j < N
  <2>1. /\ R = N - (j - i) - 2
        /\ \A k \in 1 .. i - 2 : r[k] = es[k]
        /\ r[i - 1].kind = "space" /\ r[i - 1].us \in Nat /\ r[i - 1].us >= es[i - 1].us
        /\ \A k \in i .. R : r[k] = es[k + (j - i) + 2]
    BY <1>1, <1>2, <1>9
  <2>2. ASSUME NEW k \in 2 .. R + 1 PROVE ~Big(v[k])
    <3>1. CASE k \in 1 .. i - 2
      <4>1. k \in 2..N /\ k \in 1..R
        BY <1>1, <1>2, <1>9, <2>1, <3>1
      <4> QED  BY <1>1, <1>5, <2>1, <3>1, <4>1
    <3>2. CASE k = i - 1
      <4>1. k \in 1..R
        <5>1. R = N - (j - i) - 2 /\ j + 2 <= N
          BY <1>9, <1>10, <2>1
        <5> QED  BY <1>9, <1>10, <3>2, <5>1
      <4>2. v[k].kind = "space"
        BY <1>5, <2>1, <3>2, <4>1
      <4> QED  BY <4>2 DEF Big
    <3>3. CASE k \in i..R
      <4>1. k \in 1..R /\ k + (j - i) + 2 \in 2..N
        BY <1>1, <1>2, <2>1, <3>3
      <4> QED  BY <1>1, <1>5, <2>1, <3>3, <4>1
    <3>4. CASE k = R + 1
      BY <1>5, <1>6, <3>4
    <3> QED  BY <1>2, <1>3, <3>1, <3>2, <3>3, <3>4
  <2>3. OneLeader(v)
    BY <1>3, <1>5, <2>2 DEF OneLeader
  <2>4. m # Repeat
    BY <1>1, <1>2, <1>9
  <2>5. Len(v) \in 2 .. 2 * FrameBits + 2 /\ IsEnd(v[Len(v)])
    <3>1. R <= 2 * FrameBits + 1
      <4>1. N = 2 * FrameBits + 3 /\ j + 2 <= N /\ j < N
        BY <1>1, <1>9, <1>10, <2>4
      <4>2. R <= 2 * FrameBits + 1
        <5>1. R = N - (j - i) - 2
          BY <2>1
        <5> QED  BY <1>4, <1>9, <1>10, <4>1, <5>1
      <4> QED  BY <4>2
    <3>2. R + 1 \in 2 .. 2 * FrameBits + 2
      BY <1>3, <1>4, <3>1
    <3> QED  BY <1>5, <3>2
  <2>6. 1 \in 1 .. i - 2 /\ 1 \in 1..R /\ 2 \in 1..R
    <3>1. i >= 3 /\ j + 2 <= N
      BY <1>9, <1>10
    <3>2. R = N - (j - i) - 2
      BY <2>1
    <3> QED  BY <1>10, <3>1, <3>2
  <2>7. Big(v[1])
    BY <1>1, <1>5, <2>1, <2>6
  <2>8. v[2].us \in Nat /\ v[2].us > 2925
    <3>1. CASE i = 3
      <4>1. i - 1 = 2
        BY <3>1
      <4>2. r[2].us \in Nat /\ r[2].us >= es[2].us /\ v[2] = r[2]
        BY <1>5, <2>1, <2>6, <4>1
      <4> QED  BY <1>1, <2>4, <4>2
    <3>2. CASE i # 3
      <4>1. 2 \in 1 .. i - 2
        BY <1>2, <1>9, <3>2
      <4> QED  BY <1>1, <1>5, <2>1, <2>4, <2>6, <4>1
    <3> QED  BY <3>1, <3>2
  <2> QED  BY <2>3, <2>5, <2>7, <2>8 DEF TooShort, es, v, r
<1> QED  BY <1>1, <1>2, <1>7, <1>8, <1>9

LEMMA OverflowedShape ==
  ASSUME NEW m \in MessageType, NEW s \in Scales, NEW g, IsEnd(g),
         NEW i \in 1 .. Len(Sent(m, s)), NEW j \in i .. i + MaxDropped - 1
  PROVE  LET es == Sent(m, s)
             v == Append(Overflowed(es, i, j), g)
         IN  (CutOff(v, es) \/ TooShort(v) \/ Headless(v, es)) /\ OneLeader(v)
<1> DEFINE es == Sent(m, s)
           N == Len(es)
           r == Overflowed(es, i, j)
           R == Len(r)
           v == Append(r, g)
           Q == IF j < N THEN N - j ELSE 0
<1>1. N \in Nat /\ N >= 3 /\ Big(es[1]) /\ \A k \in 2..N : ~Big(es[k])
  BY SentPoints
<1>2. /\ r \in Seq(Words) /\ R = i + Q
      /\ \A k \in 1 .. i - 1 : r[k] = es[k]
      /\ r[i] = Overflow
      /\ \A k \in i + 1 .. i + Q : r[k] = es[j + k - i]
  BY SentIsWhole, OverflowedPieces
<1>3. g \in Words /\ ~Big(g) /\ ~Big(Overflow)
  BY EndsAreLong, EndIsNotBig
<1>4. /\ Len(v) = R + 1 /\ v[R + 1] = g /\ \A k \in 1..R : v[k] = r[k]
  <2>1. r \in Seq(Words) /\ g \in Words
    BY <1>2, <1>3
  <2> HIDE DEF r
  <2> QED  BY <2>1, AppendProperties
<1>5. i \in Nat /\ j \in Nat /\ 1 <= i /\ i <= N /\ i <= j /\ Q \in Nat /\ (Q # 0 => Q = N - j)
  BY <1>1, DroppedAssumption
<1> HIDE DEF r, v, es, N, R, Q
<1>10. R \in Nat /\ i <= R /\ N \in Nat
  BY <1>1, <1>2, <1>5
<1>6. ASSUME NEW k \in 2 .. R + 1 PROVE ~Big(v[k])
  <2>1. CASE k < i
    <3>1. k \in 1 .. i - 1 /\ k \in 1..R /\ k \in 2..N
      BY <1>5, <1>10, <2>1
    <3> QED  BY <1>1, <1>2, <1>4, <3>1
  <2>2. CASE k = i
    <3>1. k \in 1..R
      BY <1>2, <1>5, <2>2
    <3> QED  BY <1>2, <1>3, <1>4, <2>2, <3>1
  <2>3. CASE k > i /\ k <= R
    <3>1. k \in i + 1 .. i + Q /\ k \in 1..R
      BY <1>2, <1>5, <2>3
    <3>2. j + k - i \in 2..N
      BY <1>1, <1>5, <3>1
    <3> QED  BY <1>1, <1>2, <1>4, <3>1, <3>2
  <2>4. CASE k = R + 1
    BY <1>3, <1>4, <2>4
  <2>5. R \in Nat
    BY <1>2, <1>5
  <2> QED  BY <1>5, <2>1, <2>2, <2>3, <2>4, <2>5
<1>7. OneLeader(v)
  BY <1>4, <1>6 DEF OneLeader
<1>8. CASE i = 1
  <2>1. 1 \in 1..R
    BY <1>2, <1>5, <1>8
  <2>2. v[1] = Overflow
    BY <1>2, <1>4, <1>8, <2>1
  <2> QED  BY <1>3, <1>7, <2>2 DEF Headless, es, v, r
<1>9. CASE i # 1
  <2>1. i \in 2 .. N + 1 /\ i <= Len(v) /\ i \in 1..R
    BY <1>1, <1>2, <1>4, <1>5, <1>9
  <2>2. \A k \in 1 .. i - 1 : v[k] = es[k]
    <3>1. \A k \in 1 .. i - 1 : k \in 1..R
      BY <1>2, <1>5
    <3> QED  BY <1>2, <1>4, <3>1
  <2>3. v[i] = Overflow
    BY <1>2, <1>4, <2>1
  <2>4. CutOff(v, es)
    BY <2>1, <2>2, <2>3 DEF CutOff, N
  <2> QED  BY <1>7, <2>4 DEF es, v, r
<1> QED  BY <1>8, <1>9

LEMMA WholeShape ==
  ASSUME NEW m \in MessageType, NEW s \in Scales, NEW g, IsEnd(g)
  PROVE  LET es == Sent(m, s)
             v == Append(es, g)
         IN  CutOff(v, es) /\ OneLeader(v)
<1> DEFINE es == Sent(m, s)
           N == Len(es)
           v == Append(es, g)
<1>1. es \in Seq(Edges) /\ N \in Nat /\ N >= 3 /\ \A k \in 2..N : ~Big(es[k])
  BY SentPoints
<1>2. g \in Words /\ ~Big(g)
  BY EndsAreLong, EndIsNotBig
<1>3. /\ Len(v) = N + 1 /\ v[N + 1] = g /\ \A k \in 1..N : v[k] = es[k]
  <2>1. es \in Seq(Words)
    BY <1>1, EdgeTypes, SeqMonotonic
  <2> HIDE DEF es
  <2> QED  BY <1>2, <2>1, AppendProperties
<1> HIDE DEF v, es
<1>4. N + 1 \in 2 .. Len(es) + 1 /\ N + 1 = Len(v) /\ (N + 1) - 1 = N
  BY <1>1, <1>3
<1> HIDE DEF N
<1>5. CutOff(v, es)
  <2>1. N + 1 <= Len(v) /\ (\A k \in 1 .. (N + 1) - 1 : v[k] = es[k]) /\ IsEnd(v[N + 1])
    BY <1>1, <1>3, <1>4
  <2> QED  BY <1>4, <2>1 DEF CutOff
<1>6. \A k \in 2 .. N + 1 : k \in 2..N \/ k = N + 1
  BY <1>1
<1>7. OneLeader(v)
  <2>1. \A k \in 2..N : k \in 1..N
    BY <1>1
  <2> QED  BY <1>1, <1>2, <1>3, <1>6, <2>1 DEF OneLeader
<1> QED  BY <1>5, <1>7 DEF v, es

LEMMA ShortEnds ==
  ASSUME NEW w \in Seq(Words), Len(w) <= 2 * FrameBits + 2, IsEnd(w[Len(w)])
  PROVE  ~AllBits(w)
<1>1. FrameBits \in Nat /\ FrameBits \in 1..FrameBits /\ Len(w) \in Nat
  BY ByteBitsAssumption DEF FrameBits
<1>2. 2 * FrameBits + 2 <= Len(w) => IsEnd(w[2 * FrameBits + 2])
  <2>1. 2 * FrameBits + 2 <= Len(w) => 2 * FrameBits + 2 = Len(w)
    BY <1>1
  <2> QED  BY <2>1
<1> QED  BY <1>1, <1>2, NoBit

\* What is received of a message alone says nothing else.
LEMMA HonestAlone ==
  ASSUME NEW m \in MessageType, NEW s \in Scales, NEW v \in Seq(Words),
         CutOff(v, Sent(m, s)) \/ TooShort(v) \/ Headless(v, Sent(m, s))
  PROVE  Honest(v, {m})
<1> DEFINE es == Sent(m, s)
           N == Len(es)
<1>1. /\ N \in Nat /\ N >= 3
      /\ m = Repeat => N = 3
      /\ m # Repeat => N = 2 * FrameBits + 3 /\ CarriesBits(es, m) /\ es[2].us \in Nat /\ es[2].us > 2925
  BY SentPoints
<1>2. FrameBits \in Nat /\ FrameBits >= 4 /\ Len(v) \in Nat
  BY ByteBitsAssumption DEF FrameBits
<1>3. \A u \in Nat : u > 2925 => ~Near(u, 2250, 30)
  BY DEF Near
<1> HIDE DEF es
<1>4. CASE CutOff(v, es)
  <2>1. PICK p \in 2 .. N + 1 :
          /\ p <= Len(v) /\ \A k \in 1 .. p - 1 : v[k] = es[k]
          /\ v[p] = Overflow \/ (p = Len(v) /\ IsEnd(v[p]))
    BY <1>4 DEF CutOff
  <2> HIDE DEF N
  <2>2. ~Near(Overflow.us, 2250, 30) /\ ~Near(Overflow.us, 4500, 30)
    BY DEF Overflow, Near
  <2>3. Near(v[2].us, 2250, 30) => m = Repeat
    <3>1. CASE p = 2
      BY <2>1, <2>2, <3>1, EndsAreLong
    <3>2. CASE p # 2
      <4>1. 2 \in 1 .. p - 1
        BY <1>1, <3>2
      <4> QED  BY <1>1, <1>3, <2>1, <4>1
    <3> QED  BY <3>1, <3>2
  <2>4. ASSUME Near(v[2].us, 4500, 30), AllBits(v) PROVE m # Repeat /\ CarriesBits(v, m)
    <3>1. p > 2 * FrameBits + 2
      <4> SUFFICES ASSUME p <= 2 * FrameBits + 2 PROVE FALSE
        BY <1>1, <1>2
      <4>1. v[p] = Overflow
        <5>1. ~(p = Len(v) /\ IsEnd(v[p]))
          BY <2>4, ShortEnds
        <5> QED  BY <2>1, <5>1
      <4>2. p # 2
        BY <2>2, <2>4, <4>1
      <4>3. p \in Nat /\ p >= 3
        BY <1>1, <4>2
      <4>4. PICK k \in 1..FrameBits : p = 2 * k + 1 \/ p = 2 * k + 2
        <5>1. (p - 1) \div 2 \in 1..FrameBits
          BY <1>2, <4>3
        <5>2. p = 2 * ((p - 1) \div 2) + 1 \/ p = 2 * ((p - 1) \div 2) + 2
          BY <4>3
        <5> QED  BY <5>1, <5>2
      <4>5. v[2 * k + 1].kind # "pulse" \/ v[2 * k + 2].kind # "space"
        BY <4>1, <4>4 DEF Overflow
      <4> QED  BY <2>4, <4>5, NoBit
    <3>2. m # Repeat
      BY <1>1, <1>2, <3>1
    <3>3. \A k \in 1..FrameBits : v[2 * k + 1] = es[2 * k + 1] /\ v[2 * k + 2] = es[2 * k + 2]
      <4>1. \A k \in 1..FrameBits : 2 * k + 1 \in 1 .. p - 1 /\ 2 * k + 2 \in 1 .. p - 1
        BY <1>1, <1>2, <3>1
      <4> QED  BY <2>1, <4>1
    <3>4. CarriesBits(es, m)
      BY <1>1, <3>2
    <3>5. CarriesBits(v, m)
      BY <3>3, <3>4 DEF CarriesBits, IsBit, Bit
    <3> QED  BY <3>2, <3>5
  <2> QED  BY <2>3, <2>4 DEF Honest
<1>5. CASE TooShort(v)
  <2>1. ~Near(v[2].us, 2250, 30)
    BY <1>3, <1>5 DEF TooShort
  <2>2. ~AllBits(v)
    <3>1. Len(v) <= 2 * FrameBits + 2 /\ IsEnd(v[Len(v)])
      BY <1>5 DEF TooShort
    <3> QED  BY <3>1, ShortEnds
  <2> QED  BY <2>1, <2>2 DEF Honest
<1>6. CASE Headless(v, es)
  BY <1>6 DEF Honest, Headless, IsLeader, Big
<1> QED  BY <1>4, <1>5, <1>6 DEF es

\* After two edges it says nothing else either.
LEMMA HonestAfterTwo ==
  ASSUME NEW m \in MessageType, NEW s \in Scales, NEW v \in Seq(Words),
         CutOff(v, Sent(m, s)) \/ TooShort(v) \/ Headless(v, Sent(m, s)),
         NEW w \in Seq(Words), Len(w) = Len(v) + 2, \A k \in 1 .. Len(v) : w[k + 2] = v[k],
         v # <<>>, AllBits(w)
  PROVE  m # Repeat /\ CarriesBits(w, m)
<1> DEFINE es == Sent(m, s)
           N == Len(es)
<1>1. /\ N \in Nat /\ N >= 3 /\ Big(es[1])
      /\ m = Repeat => N = 3
      /\ m # Repeat => N = 2 * FrameBits + 3 /\ CarriesBits(es, m)
  BY SentPoints
<1>2. FrameBits \in Nat /\ FrameBits >= 4 /\ Len(v) \in Nat /\ Len(v) >= 1 /\ 1 \in 1..FrameBits
  BY ByteBitsAssumption DEF FrameBits
<1>3. 2 * FrameBits + 2 <= Len(w)
  <2>1. FrameBits \in 1..FrameBits
    BY <1>2
  <2> QED  BY <2>1 DEF AllBits
<1> HIDE DEF es
<1>4. w[3] = v[1]
  BY <1>2
<1>5. ~Big(v[1]) /\ v[1].kind = "pulse"
  <2>1. 2 * 1 + 1 = 3
    OBVIOUS
  <2> QED  BY <1>2, <1>4, <2>1, NoBit
<1>6. ~CutOff(v, es)
  <2> SUFFICES ASSUME CutOff(v, es) PROVE FALSE
    OBVIOUS
  <2>1. PICK p \in 2 .. N + 1 : \A k \in 1 .. p - 1 : v[k] = es[k]
    BY DEF CutOff
  <2>2. 1 \in 1 .. p - 1
    BY <1>1
  <2> QED  BY <1>1, <1>5, <2>1, <2>2
<1>7. ~TooShort(v)
  BY <1>5 DEF TooShort
<1>8. ~(Len(v) <= 2 * FrameBits /\ IsEnd(v[Len(v)]))
  <2> SUFFICES ASSUME Len(v) <= 2 * FrameBits, IsEnd(v[Len(v)]) PROVE FALSE
    OBVIOUS
  <2>1. Len(v) \in 1 .. Len(v)
    BY <1>2
  <2>2. w[Len(w)] = v[Len(v)] /\ Len(w) <= 2 * FrameBits + 2
    BY <1>2, <2>1
  <2> QED  BY <2>2, ShortEnds
<1>9. Len(v) = N - 1 /\ \A k \in 1 .. N - 2 : v[k] = es[k + 2]
  <2>1. v[1] # Overflow
    BY <1>5 DEF Overflow
  <2>2. Headless(v, es)
    BY <1>6, <1>7 DEF es
  <2> QED  BY <1>8, <2>1, <2>2 DEF Headless
<1> HIDE DEF N
<1>10. m # Repeat
  BY <1>1, <1>2, <1>3, <1>9
<1>11. ASSUME NEW k \in 1..FrameBits PROVE w[2 * k + 1] = es[2 * k + 1] /\ w[2 * k + 2] = es[2 * k + 2]
  <2>1. /\ 2 * k - 1 \in 1 .. N - 2 /\ 2 * k - 1 \in 1 .. Len(v) /\ (2 * k - 1) + 2 = 2 * k + 1
        /\ 2 * k \in 1 .. N - 2 /\ 2 * k \in 1 .. Len(v)
    BY <1>1, <1>2, <1>9, <1>10
  <2>2. w[(2 * k - 1) + 2] = es[(2 * k - 1) + 2] /\ w[2 * k + 2] = es[2 * k + 2]
    BY <1>9, <2>1
  <2> QED  BY <2>1, <2>2
<1>12. CarriesBits(es, m)
  BY <1>1, <1>10
<1>13. ASSUME NEW k \in 1..FrameBits PROVE IsBit(w, k) /\ Bit(w, k) = Bits(m)[k]
  <2>1. IsBit(es, k) /\ Bit(es, k) = Bits(m)[k]
    BY <1>12 DEF CarriesBits
  <2> QED  BY <1>11, <2>1 DEF IsBit, Bit
<1> QED  BY <1>10, <1>13 DEF CarriesBits

-----------------------------------------------------------------------------
(* The edges and the words that are still to be read.                      *)

\* ws are the words of w after the first n, perhaps with a word without timing
\* before the last.
Coming(ws, w, n) ==
  LET left == Len(w) - n
  IN  \/ /\ Len(ws) = left
         /\ \A i \in 1..left : ws[i] = w[n + i]
      \/ /\ left >= 1 /\ Len(ws) = left + 1
         /\ \A i \in 1 .. left - 1 : ws[i] = w[n + i]
         /\ ws[left] = Frequency /\ ws[left + 1] = w[Len(w)]

\* edges and air are the words of w.
Ahead(w) ==
  /\ \A i \in 1 .. Len(w) : w[i] # Frequency
  /\ Len(edges) <= Len(w) /\ \A i \in 1 .. Len(edges) : edges[i] = w[i]
  /\ Coming(air, w, Len(edges))

\* The message that the first of edges is part of, or will be.
Opener == IF edges = <<>> THEN message ELSE opened

\* The next burst begins with no leader.
Unled == IF edges = <<>> THEN air # <<>> => ~Big(air[1]) ELSE ~Big(edges[1])

Tale ==
  /\ Unled \/ \E w \in Seq(Words) : Ahead(w) /\ Honest(w, {Opener, message})
  /\ OneLeader(air)
  /\ air # <<>> =>
       /\ IsEnd(air[Len(air)])
       /\ air[Len(air)] = Space(ShortGapUs) /\ edges # <<>> => opened = message
  /\ air = <<>> /\ edges # <<>> => edges[Len(edges)] = Space(ShortGapUs) /\ opened = message

LEMMA ComingTail ==
  ASSUME NEW ws \in Seq(Words), ws # <<>>, NEW w \in Seq(Words), NEW n \in Nat, n <= Len(w),
         Coming(ws, w, n)
  PROVE  \/ n + 1 <= Len(w) /\ Head(ws) = w[n + 1] /\ Coming(Tail(ws), w, n + 1)
         \/ Head(ws) = Frequency /\ Coming(Tail(ws), w, n)
<1> DEFINE left == Len(w) - n
           t == Tail(ws)
<1>1. /\ Len(ws) \in Nat /\ Len(ws) >= 1 /\ Head(ws) = ws[1]
      /\ Len(t) = Len(ws) - 1 /\ \A i \in 1 .. Len(ws) - 1 : t[i] = ws[i + 1]
  BY HeadTailProperties
<1>2. left \in Nat /\ Len(w) \in Nat /\ Len(w) = n + left
  OBVIOUS
<1> HIDE DEF t, left
<1>3. \/ /\ Len(ws) = left
         /\ \A i \in 1..left : ws[i] = w[n + i]
      \/ /\ left >= 1 /\ Len(ws) = left + 1
         /\ \A i \in 1 .. left - 1 : ws[i] = w[n + i]
         /\ ws[left] = Frequency /\ ws[left + 1] = w[Len(w)]
  BY DEF Coming, left
<1>4. Len(w) - (n + 1) = left - 1 /\ Len(w) - n = left
  BY <1>2
<1>5. ASSUME Len(ws) = left, \A i \in 1..left : ws[i] = w[n + i]
      PROVE  n + 1 <= Len(w) /\ Head(ws) = w[n + 1] /\ Coming(t, w, n + 1)
  <2>1. 1 \in 1..left /\ n + 1 <= Len(w)
    BY <1>1, <1>2, <1>5
  <2>2. ASSUME NEW i \in 1 .. left - 1 PROVE t[i] = w[n + 1 + i]
    <3>1. i + 1 \in 1..left /\ n + (i + 1) = n + 1 + i /\ i \in 1 .. Len(ws) - 1
      BY <1>2, <1>5
    <3> QED  BY <1>1, <1>5, <3>1
  <2>3. Len(t) = left - 1
    BY <1>1, <1>5
  <2>4. Coming(t, w, n + 1)
    BY <1>4, <2>2, <2>3 DEF Coming
  <2> QED  BY <1>1, <1>5, <2>1, <2>4
<1>6. ASSUME left >= 1, Len(ws) = left + 1, \A i \in 1 .. left - 1 : ws[i] = w[n + i],
             ws[left] = Frequency, ws[left + 1] = w[Len(w)]
      PROVE  \/ n + 1 <= Len(w) /\ Head(ws) = w[n + 1] /\ Coming(t, w, n + 1)
             \/ Head(ws) = Frequency /\ Coming(t, w, n)
  <2>1. CASE left = 1
    <3>1. Len(t) = 1 /\ t[1] = ws[1 + 1] /\ 1 \in 1 .. Len(ws) - 1
      BY <1>1, <1>6, <2>1
    <3>2. t[1] = w[n + 1] /\ \A i \in 1..1 : i = 1
      BY <1>2, <1>6, <2>1, <3>1
    <3>3. Coming(t, w, n)
      BY <1>4, <2>1, <3>1, <3>2 DEF Coming
    <3> QED  BY <1>1, <1>6, <2>1, <3>3
  <2>2. CASE left # 1
    <3>1. left \in Nat /\ left >= 2
      BY <1>2, <1>6, <2>2
    <3>2. 1 \in 1 .. left - 1 /\ n + 1 <= Len(w)
      BY <1>2, <3>1
    <3>3. ASSUME NEW i \in 1 .. (left - 1) - 1 PROVE t[i] = w[n + 1 + i]
      <4>1. i + 1 \in 1 .. left - 1 /\ n + (i + 1) = n + 1 + i /\ i \in 1 .. Len(ws) - 1
        BY <1>2, <1>6, <3>1
      <4> QED  BY <1>1, <1>6, <4>1
    <3>4. t[left - 1] = Frequency /\ t[(left - 1) + 1] = w[Len(w)]
      <4>1. /\ left - 1 \in 1 .. Len(ws) - 1 /\ (left - 1) + 1 = left
            /\ left \in 1 .. Len(ws) - 1
        BY <1>6, <3>1
      <4> QED  BY <1>1, <1>6, <4>1
    <3>5. left - 1 >= 1 /\ Len(t) = (left - 1) + 1
      BY <1>1, <1>6, <3>1
    <3>6. Coming(t, w, n + 1)
      BY <1>4, <3>3, <3>4, <3>5 DEF Coming
    <3> QED  BY <1>1, <1>6, <3>2, <3>6
  <2> QED  BY <2>1, <2>2
<1> QED  BY <1>3, <1>5, <1>6 DEF t

\* The outcomes of reading a word.
LEMMA RunCases ==
  ASSUME LInv, Run
  PROVE  /\ Read
         /\ \/ /\ Word \in Edges /\ edges' = Append(edges, Word) /\ burst' = <<>>
               /\ opened' = Opener
               /\ Word.kind = "space" => edges # <<>> /\ ~IsGap(Word)
            \/ /\ edges # <<>> /\ edges' = <<>> /\ source' = opened
               /\ Flush(edges) \/ (Word \in Edges /\ Flush(Append(edges, Word)))
            \/ /\ edges' = edges /\ burst' = <<>> /\ opened' = opened
               /\ edges = <<>> \/ Word.kind = "frequency"
<1>1. Read
  BY DEF Run, ReadPulse, ReadSpace, ReadEnd, ReadNothing
<1>2. Word \in Words /\ edges \in Seq(Edges) /\ Len(edges) \in Nat
  BY <1>1, ReadLeaves DEF LInv, TypeOK
<1>3. ASSUME Word.kind \in {"pulse", "space"}, Keep(Append(edges, Word)), opened' = Opener,
             Word.kind = "space" => edges # <<>> /\ ~IsGap(Word)
      PROVE  \/ /\ Word \in Edges /\ edges' = Append(edges, Word) /\ burst' = <<>>
                /\ opened' = Opener
                /\ Word.kind = "space" => edges # <<>> /\ ~IsGap(Word)
             \/ /\ edges # <<>> /\ edges' = <<>> /\ source' = opened
                /\ Flush(edges) \/ (Word \in Edges /\ Flush(Append(edges, Word)))
  <2>1. Word \in Edges
    BY <1>2, <1>3, EdgeTypes
  <2>2. Len(Append(edges, Word)) = Len(edges) + 1
    BY <1>2, <2>1, AppendProperties
  <2>3. CASE Len(Append(edges, Word)) >= MaxBurstEdges
    <3>1. Flush(Append(edges, Word))
      BY <1>3, <2>3 DEF Keep
    <3>2. Len(edges) # 0
      BY <1>2, <2>2, <2>3, EdgesAssumption, ByteBitsAssumption DEF FrameBits
    <3>3. edges # <<>>
      BY <3>2
    <3>4. edges' = <<>> /\ source' = opened
      BY <3>1 DEF Flush
    <3> QED  BY <2>1, <3>1, <3>3, <3>4
  <2>4. CASE ~(Len(Append(edges, Word)) >= MaxBurstEdges)
    BY <1>3, <2>1, <2>4 DEF Keep, NothingPublished
  <2> QED  BY <2>3, <2>4
<1>4. CASE ReadPulse
  <2>1. Word.kind = "pulse" /\ Keep(Append(edges, Word)) /\ opened' = Opener
    BY <1>4 DEF ReadPulse, Opener
  <2> QED  BY <1>1, <1>3, <2>1
<1>5. CASE ReadSpace
  <2>1. /\ Word.kind = "space" /\ Keep(Append(edges, Word)) /\ opened' = Opener
        /\ edges # <<>> /\ ~IsGap(Word)
    BY <1>5 DEF ReadSpace, Opener
  <2> QED  BY <1>1, <1>3, <2>1
<1>6. CASE ReadEnd
  BY <1>1, <1>6 DEF ReadEnd, Flush
<1>7. CASE ReadNothing
  BY <1>1, <1>7 DEF ReadNothing, NothingPublished
<1> QED  BY <1>4, <1>5, <1>6, <1>7 DEF Run

\* What is said when edges are published.
LEMMA TaleIsTold ==
  ASSUME LInv, Tale, Read, edges # <<>>, source' = opened,
         Flush(edges) \/ (Word \in Edges /\ Flush(Append(edges, Word)))
  PROVE  ShownWasSent'
<1>1. /\ edges \in Seq(Edges) /\ air \in Seq(Words) /\ air # <<>> /\ {opened, message} \subseteq MessageType
      /\ Len(edges) \in Nat /\ Len(edges) >= 1 /\ message' = message /\ Word = Head(air)
  BY DEF LInv, TypeOK, Read, Word
<1>2. PICK es \in Seq(Edges) :
        /\ Flush(es) /\ Len(es) >= 1 /\ es[1] = edges[1]
        /\ \/ es = edges
           \/ /\ Word \in Edges /\ Len(es) = Len(edges) + 1 /\ es[Len(edges) + 1] = Word
              /\ \A i \in 1 .. Len(edges) : es[i] = edges[i]
  <2>1. CASE Flush(edges)
    BY <1>1, <2>1
  <2>2. CASE Word \in Edges /\ Flush(Append(edges, Word))
    <3> DEFINE es == Append(edges, Word)
    <3>1. /\ es \in Seq(Edges) /\ Len(es) = Len(edges) + 1 /\ es[Len(edges) + 1] = Word
          /\ \A i \in 1 .. Len(edges) : es[i] = edges[i]
      BY <1>1, <2>2, AppendProperties
    <3> HIDE DEF es
    <3>2. Flush(es)
      BY <2>2 DEF es
    <3> QED  BY <1>1, <2>2, <3>1, <3>2
  <2> QED  BY <2>1, <2>2
<1>3. /\ burst' \in Seq(Edges) /\ Len(burst') <= Len(es) /\ \A i \in 1 .. Len(burst') : burst'[i] = es[i]
      /\ Len(burst') \in Nat
  BY <1>2, FlushTrims
<1>4. CASE Unled
  <2>1. ~Big(edges[1])
    BY <1>4 DEF Unled
  <2>2. ~IsLeader(burst')
    <3> SUFFICES ASSUME IsLeader(burst') PROVE FALSE
      OBVIOUS
    <3>1. Len(burst') >= 2 /\ Big(burst'[1])
      BY DEF IsLeader, Big
    <3>2. burst'[1] = edges[1]
      BY <1>2, <1>3, <3>1
    <3> QED  BY <2>1, <3>1, <3>2
  <2>3. DecodeNec(burst').kind \notin {"frame", "repeat"}
    BY <1>3, <2>2, DecodedKinds
  <2> QED  BY <2>3 DEF ShownWasSent
<1>5. ASSUME NEW w \in Seq(Words), Ahead(w), Honest(w, {Opener, message})
      PROVE  ShownWasSent'
  <2>1. /\ \A i \in 1 .. Len(w) : w[i] # Frequency
        /\ Len(edges) <= Len(w) /\ \A i \in 1 .. Len(edges) : edges[i] = w[i]
        /\ Coming(air, w, Len(edges)) /\ Len(w) \in Nat
    BY <1>5 DEF Ahead
  <2>2. Len(es) <= Len(w) /\ \A i \in 1 .. Len(es) : es[i] = w[i]
    <3>1. CASE es = edges
      BY <2>1, <3>1
    <3>2. CASE es # edges
      <4>1. /\ Word \in Edges /\ Len(es) = Len(edges) + 1 /\ es[Len(edges) + 1] = Word
            /\ \A i \in 1 .. Len(edges) : es[i] = edges[i]
        BY <1>2, <3>2
      <4>2. Head(air) # Frequency
        BY <1>1, <4>1, EdgeTypes DEF Frequency
      <4>3. Len(edges) + 1 <= Len(w) /\ Word = w[Len(edges) + 1]
        BY <1>1, <2>1, <4>2, ComingTail
      <4>4. \A i \in 1 .. Len(es) : i \in 1 .. Len(edges) \/ i = Len(edges) + 1
        BY <1>1, <4>1
      <4> QED  BY <2>1, <4>1, <4>3, <4>4
    <3> QED  BY <3>1, <3>2
  <2>3. Len(burst') <= Len(w) /\ \A i \in 1 .. Len(burst') : burst'[i] = w[i]
    <3>1. Len(es) \in Nat
      BY <1>2
    <3>2. \A i \in 1 .. Len(burst') : i \in 1 .. Len(es)
      BY <1>3, <3>1
    <3> QED  BY <1>3, <2>1, <2>2, <3>1, <3>2
  <2>4. Opener = opened /\ {Opener, message} \in SUBSET MessageType
    BY <1>1 DEF Opener
  <2>5. DecodeNec(burst').kind \in {"frame", "repeat"}
          => \E m \in {Opener, message} : DecodeNec(burst') = Meaning(m)
    BY <1>3, <1>5, <2>3, <2>4, HonestPrefix
  <2>6. DecodeNec(burst').kind \in {"frame", "repeat"}
          => DecodeNec(burst') \in {Meaning(source'), Meaning(message')}
    BY <1>1, <2>4, <2>5
  <2> QED  BY <2>6 DEF ShownWasSent
<1> QED  BY <1>4, <1>5 DEF Tale

LEMMA NothingIsShown == DecodeNec(<<>>).kind \notin {"frame", "repeat"}
<1> DEFINE none == <<>>
<1>1. none \in Seq(Edges) /\ Len(none) = 0
  OBVIOUS
<1> HIDE DEF none
<1>2. ~IsLeader(none)
  BY <1>1 DEF IsLeader
<1>3. DecodeNec(none).kind \notin {"frame", "repeat"}
  <2>1. DecodeNec(none) = NotNec
    BY <1>1, <1>2, DecodeCases
  <2> QED  BY <2>1 DEF NotNec
<1> QED  BY <1>3 DEF none

LEMMA RunTale ==
  ASSUME LInv, Tale, Run
  PROVE  Tale' /\ ShownWasSent'
<1>1. Read /\ message' = message
  BY RunCases DEF Read
<1>2. /\ edges \in Seq(Edges) /\ air \in Seq(Words) /\ Len(edges) \in Nat
      /\ air # <<>> /\ air' = Tail(air) /\ Word = Head(air)
  BY <1>1 DEF LInv, TypeOK, Read, Word
<1>3. /\ Word = air[1] /\ Len(air) \in Nat /\ Len(air) >= 1
      /\ air' \in Seq(Words) /\ Len(air') = Len(air) - 1
      /\ \A i \in 1 .. Len(air) - 1 : air'[i] = air[i + 1]
  BY <1>2, HeadTailProperties
<1>4. \A i \in 1 .. Len(air') : ~Big(air'[i])
  <2>1. \A i \in 1 .. Len(air) - 1 : i + 1 \in 2 .. Len(air)
    BY <1>3
  <2>2. \A i \in 2 .. Len(air) : ~Big(air[i])
    BY DEF Tale, OneLeader
  <2> QED  BY <1>3, <2>1, <2>2
<1>5. OneLeader(air')
  <2>1. \A i \in 2 .. Len(air') : i \in 1 .. Len(air')
    BY <1>3
  <2> QED  BY <1>4, <2>1 DEF OneLeader
<1>6. air' # <<>> => ~Big(air'[1]) /\ air'[Len(air')] = air[Len(air)]
  <2> SUFFICES ASSUME air' # <<>> PROVE ~Big(air'[1]) /\ air'[Len(air')] = air[Len(air)]
    OBVIOUS
  <2>1. Len(air') >= 1
    BY <1>3
  <2>2. 1 \in 1 .. Len(air') /\ Len(air') \in 1 .. Len(air) - 1 /\ Len(air') + 1 = Len(air)
    BY <1>3, <2>1
  <2> QED  BY <1>3, <1>4, <2>2
<1>7. air' = <<>> => Word = air[Len(air)]
  <2>1. air' = <<>> => Len(air) = 1
    BY <1>3
  <2> QED  BY <1>3, <2>1
<1>8. /\ IsEnd(air[Len(air)])
      /\ air[Len(air)] = Space(ShortGapUs) /\ edges # <<>> => opened = message
  BY <1>2 DEF Tale
<1>9. CASE /\ Word \in Edges /\ edges' = Append(edges, Word) /\ burst' = <<>>
           /\ opened' = Opener
           /\ Word.kind = "space" => edges # <<>> /\ ~IsGap(Word)
  <2>1. /\ Len(edges') = Len(edges) + 1 /\ edges'[Len(edges) + 1] = Word
        /\ \A i \in 1 .. Len(edges) : edges'[i] = edges[i]
        /\ edges' # <<>>
    BY <1>2, <1>9, AppendProperties
  <2>2. Opener' = Opener
    BY <1>1, <1>9, <2>1 DEF Opener
  <2>3. ShownWasSent'
    BY <1>9, NothingIsShown DEF ShownWasSent
  <2>4. Unled => Unled'
    <3>1. CASE edges = <<>>
      BY <1>2, <1>3, <2>1, <3>1 DEF Unled
    <3>2. CASE edges # <<>>
      <4>1. 1 \in 1 .. Len(edges)
        BY <1>2, <3>2
      <4> QED  BY <2>1, <3>2, <4>1 DEF Unled
    <3> QED  BY <3>1, <3>2
  <2>5. ASSUME NEW w \in Seq(Words), Ahead(w), Honest(w, {Opener, message})
        PROVE  Ahead(w)' /\ Honest(w, {Opener, message})'
    <3>1. /\ \A i \in 1 .. Len(w) : w[i] # Frequency
          /\ Len(edges) <= Len(w) /\ \A i \in 1 .. Len(edges) : edges[i] = w[i]
          /\ Coming(air, w, Len(edges))
      BY <2>5 DEF Ahead
    <3>2. Word # Frequency
      BY <1>9, EdgeTypes DEF Frequency
    <3>3. Len(edges) + 1 <= Len(w) /\ Word = w[Len(edges) + 1] /\ Coming(air', w, Len(edges) + 1)
      BY <1>2, <3>1, <3>2, ComingTail
    <3>4. \A i \in 1 .. Len(edges') : i \in 1 .. Len(edges) \/ i = Len(edges) + 1
      BY <1>2, <2>1
    <3>5. Len(edges') <= Len(w) /\ \A i \in 1 .. Len(edges') : edges'[i] = w[i]
      BY <2>1, <3>1, <3>3, <3>4
    <3>6. Ahead(w)'
      BY <2>1, <3>1, <3>3, <3>5 DEF Ahead
    <3>7. Honest(w, {Opener, message}')
      BY <1>1, <2>2, <2>5
    <3> QED  BY <3>6, <3>7
  <2>6. Unled' \/ \E w \in Seq(Words) : Ahead(w)' /\ Honest(w, {Opener, message})'
    BY <2>4, <2>5 DEF Tale
  <2>7. edges # <<>> => opened' = opened
    BY <1>9 DEF Opener
  <2>8. edges = <<>> => opened' = message
    BY <1>9 DEF Opener
  <2>9. air' = <<>> => Word = Space(ShortGapUs) /\ edges # <<>>
    <3> SUFFICES ASSUME IsEnd(Word) PROVE Word = Space(ShortGapUs) /\ edges # <<>>
      BY <1>7, <1>8
    <3>1. Word.kind = "space"
      BY <1>9, EdgeTypes, EndsAreLong
    <3>2. ~IsGap(Word) /\ edges # <<>>
      BY <1>9, <3>1
    <3> QED  BY <3>1, <3>2, GapsAssumption DEF IsEnd, Silences, IsGap, Timeout, Space
  <2> QED  BY <1>1, <1>5, <1>6, <1>7, <1>8, <2>1, <2>3, <2>6, <2>7, <2>8, <2>9 DEF Tale
<1>10. CASE /\ edges # <<>> /\ edges' = <<>> /\ source' = opened
            /\ Flush(edges) \/ (Word \in Edges /\ Flush(Append(edges, Word)))
  <2>1. ShownWasSent'
    BY <1>1, <1>10, TaleIsTold
  <2>2. Unled'
    BY <1>6, <1>10 DEF Unled
  <2> QED  BY <1>5, <1>6, <1>8, <1>10, <2>1, <2>2 DEF Tale
<1>11. CASE /\ edges' = edges /\ burst' = <<>> /\ opened' = opened
            /\ edges = <<>> \/ Word.kind = "frequency"
  <2>1. ShownWasSent'
    BY <1>11, NothingIsShown DEF ShownWasSent
  <2>2. CASE edges = <<>>
    <3>1. Unled'
      BY <1>6, <1>11, <2>2 DEF Unled
    <3> QED  BY <1>5, <1>6, <1>8, <1>11, <2>1, <2>2, <3>1 DEF Tale
  <2>3. CASE edges # <<>>
    <3>1. Word.kind = "frequency" /\ Opener' = Opener
      BY <1>1, <1>11, <2>3 DEF Opener
    <3>2. Unled => Unled'
      BY <1>11, <2>3 DEF Unled
    <3>3. ASSUME NEW w \in Seq(Words), Ahead(w), Honest(w, {Opener, message})
          PROVE  Ahead(w)' /\ Honest(w, {Opener, message})'
      <4>1. /\ \A i \in 1 .. Len(w) : w[i] # Frequency
            /\ Len(edges) <= Len(w) /\ \A i \in 1 .. Len(edges) : edges[i] = w[i]
            /\ Coming(air, w, Len(edges)) /\ Len(w) \in Nat
        BY <3>3 DEF Ahead
      <4>2. Coming(air', w, Len(edges))
        <5>1. Word = Frequency
          <6>1. Word \in Words
            BY <1>2
          <6> QED  BY <3>1, <6>1 DEF Words, Edges, Timeout, Overflow
        <5>2. ~(Len(edges) + 1 <= Len(w) /\ Head(air) = w[Len(edges) + 1])
          <6>1. Len(edges) + 1 <= Len(w) => Len(edges) + 1 \in 1 .. Len(w)
            BY <1>2, <4>1
          <6> QED  BY <1>2, <4>1, <5>1, <6>1
        <5> QED  BY <1>2, <4>1, <5>2, ComingTail
      <4> QED  BY <1>1, <1>11, <3>1, <3>3, <4>1, <4>2 DEF Ahead
    <3>4. Unled' \/ \E w \in Seq(Words) : Ahead(w)' /\ Honest(w, {Opener, message})'
      BY <3>2, <3>3 DEF Tale
    <3>5. air' # <<>>
      BY <1>7, <1>8, <3>1, EndsAreLong
    <3> QED  BY <1>1, <1>5, <1>6, <1>8, <1>11, <2>1, <3>4, <3>5 DEF Tale
  <2> QED  BY <2>2, <2>3
<1> QED  BY <1>9, <1>10, <1>11, RunCases

\* What comes of a message with the word that follows it.
Comes(v, m) ==
  /\ v \in Seq(Words) /\ v # <<>> /\ OneLeader(v) /\ IsEnd(v[Len(v)])
  /\ \A i \in 1 .. Len(v) : v[i] # Frequency
  /\ \E s \in Scales : CutOff(v, Sent(m, s)) \/ TooShort(v) \/ Headless(v, Sent(m, s))

LEMMA WithEnd ==
  ASSUME NEW r \in Seq(Words), \A i \in 1 .. Len(r) : r[i] # Frequency, NEW g, IsEnd(g)
  PROVE  LET v == Append(r, g)
         IN  /\ v \in Seq(Words) /\ v # <<>> /\ IsEnd(v[Len(v)]) /\ v[Len(v)] = g
             /\ \A i \in 1 .. Len(v) : v[i] # Frequency
             /\ Len(v) = Len(r) + 1 /\ \A i \in 1 .. Len(r) : v[i] = r[i]
<1> DEFINE v == Append(r, g)
<1>1. g \in Words /\ g # Frequency
  BY EndsAreLong DEF Frequency
<1>2. /\ v \in Seq(Words) /\ Len(v) = Len(r) + 1 /\ v[Len(r) + 1] = g
      /\ \A i \in 1 .. Len(r) : v[i] = r[i]
  BY <1>1, AppendProperties
<1> HIDE DEF v
<1>3. Len(r) \in Nat
  OBVIOUS
<1>4. v # <<>>
  BY <1>2, <1>3
<1>5. \A i \in 1 .. Len(v) : i \in 1 .. Len(r) \/ i = Len(r) + 1
  BY <1>2, <1>3
<1> QED  BY <1>1, <1>2, <1>4, <1>5 DEF v

LEMMA OverflowedHasNoFrequency ==
  ASSUME NEW m \in MessageType, NEW s \in Scales,
         NEW i \in 1 .. Len(Sent(m, s)), NEW j \in i .. i + MaxDropped - 1
  PROVE  LET r == Overflowed(Sent(m, s), i, j)
         IN  r \in Seq(Words) /\ \A k \in 1 .. Len(r) : r[k] # Frequency
<1> DEFINE es == Sent(m, s)
           N == Len(es)
           r == Overflowed(es, i, j)
           Q == IF j < N THEN N - j ELSE 0
<1>1. es \in Seq(Edges) /\ N \in Nat
  BY SentPoints
<1>2. \A k \in 1..N : es[k] # Frequency
  <2>1. \A k \in 1..N : es[k] \in Edges
    BY <1>1
  <2> HIDE DEF es
  <2> QED  BY <2>1, EdgeTypes DEF Frequency
<1>3. /\ r \in Seq(Words) /\ Len(r) = i + Q
      /\ \A k \in 1 .. i - 1 : r[k] = es[k]
      /\ r[i] = Overflow
      /\ \A k \in i + 1 .. i + Q : r[k] = es[j + k - i]
  BY SentIsWhole, OverflowedPieces
<1>4. i \in Nat /\ j \in Nat /\ 1 <= i /\ i <= N /\ i <= j /\ Q \in Nat /\ (Q # 0 => Q = N - j)
  BY <1>1, DroppedAssumption
<1> HIDE DEF es, N, r, Q
<1>5. ASSUME NEW k \in 1 .. i + Q PROVE r[k] # Frequency
  <2>1. CASE k < i
    <3>1. k \in 1 .. i - 1 /\ k \in 1..N
      BY <1>1, <1>4, <2>1
    <3> QED  BY <1>2, <1>3, <3>1
  <2>2. CASE k = i
    BY <1>3, <2>2 DEF Frequency, Overflow
  <2>3. CASE k > i
    <3>1. k \in i + 1 .. i + Q
      BY <1>4, <2>3
    <3>2. j + k - i \in 1..N
      BY <1>1, <1>4, <3>1
    <3> QED  BY <1>2, <1>3, <3>1, <3>2
  <2> QED  BY <1>4, <2>1, <2>2, <2>3
<1> QED  BY <1>3, <1>5 DEF r, es

LEMMA TransmitGives ==
  ASSUME LInv, NEW m \in Messages, Transmit(m)
  PROVE  \E v \in Seq(Words) :
           /\ Comes(v, m) /\ Coming(air', v, 0)
           /\ edges # <<>> => v[Len(v)] \in Silences
<1>1. m \in MessageType
  BY MessagesAssumption
<1>2. PICK s \in Scales, g \in Gaps :
        \/ air' \in {Append(Sent(m, s), g), Sent(m, s) \o <<Frequency, g>>}
        \/ air' \in {Append(rest, g) : rest \in Disturbed(Sent(m, s))}
  BY DEF Transmit
<1> DEFINE es == Sent(m, s)
           N == Len(es)
<1>3. IsEnd(g) /\ (edges # <<>> => g \in Silences)
  BY DEF Gaps, IsEnd
<1>4. g \in Words /\ Frequency \in Words
  BY <1>3, EndsAreLong, EdgeTypes
<1>5. \A t \in Seq(Edges) : t \in Seq(Words) /\ \A i \in 1 .. Len(t) : t[i] # Frequency
  <2> SUFFICES ASSUME NEW t \in Seq(Edges) PROVE t \in Seq(Words) /\ \A i \in 1 .. Len(t) : t[i] # Frequency
    OBVIOUS
  <2>1. t \in Seq(Words)
    BY EdgeTypes, SeqMonotonic
  <2>2. \A i \in 1 .. Len(t) : t[i] \in Edges
    OBVIOUS
  <2> QED  BY <2>1, <2>2, EdgeTypes DEF Frequency
<1>6. ASSUME NEW v \in Seq(Words), air' = v PROVE Coming(air', v, 0)
  <2>1. Len(v) - 0 = Len(v) /\ \A i \in 1 .. Len(v) : 0 + i = i
    OBVIOUS
  <2> QED  BY <1>6, <2>1 DEF Coming
<1>7. es \in Seq(Edges) /\ N \in Nat /\ N >= 3
  BY <1>1, SentPoints
<1>8. CASE air' = Append(es, g) \/ air' = es \o <<Frequency, g>>
  <2> DEFINE v == Append(es, g)
  <2>1. /\ es \in Seq(Words) /\ \A i \in 1 .. Len(es) : es[i] # Frequency
    BY <1>5, <1>7
  <2>2. /\ v \in Seq(Words) /\ v # <<>> /\ IsEnd(v[Len(v)]) /\ v[Len(v)] = g
        /\ \A i \in 1 .. Len(v) : v[i] # Frequency
        /\ Len(v) = N + 1 /\ \A i \in 1..N : v[i] = es[i]
    BY <1>3, <2>1, WithEnd
  <2>3. CutOff(v, es) /\ OneLeader(v)
    BY <1>1, <1>3, WholeShape
  <2>4. CASE air' = v
    <3> HIDE DEF es, v
    <3>1. Comes(v, m)
      BY <2>2, <2>3 DEF Comes, es
    <3> QED  BY <1>3, <1>6, <2>2, <2>4, <3>1
  <2>5. CASE air' = es \o <<Frequency, g>>
    <3> DEFINE end == <<Frequency, g>>
    <3>1. end \in Seq(Words) /\ Len(end) = 2 /\ end[1] = Frequency /\ end[2] = g
      BY <1>4
    <3>2. air' = es \o end
      BY <2>5
    <3> HIDE DEF es, v, end
    <3>3. /\ Len(air') = N + 2
          /\ \A i \in 1 .. N + 2 : air'[i] = IF i <= N THEN es[i] ELSE end[i - N]
      <4>1. /\ Len(es \o end) = Len(es) + Len(end)
            /\ \A i \in 1 .. Len(es) + Len(end) :
                 (es \o end)[i] = IF i <= Len(es) THEN es[i] ELSE end[i - Len(es)]
        BY <2>1, <3>1, TwoPieces
      <4> QED  BY <3>1, <3>2, <4>1
    <3>4. Comes(v, m)
      BY <2>2, <2>3 DEF Comes, es
    <3>5. Coming(air', v, 0)
      <4>1. Len(v) - 0 = N + 1 /\ (N + 1) - 1 = N /\ (N + 1) + 1 = N + 2 /\ N + 1 >= 1
        BY <1>7, <2>2
      <4>2. \A i \in 1..N : air'[i] = v[0 + i]
        <5>1. \A i \in 1..N : i \in 1 .. N + 2 /\ i <= N /\ 0 + i = i
          BY <1>7
        <5> QED  BY <2>2, <3>3, <5>1
      <4>3. air'[N + 1] = Frequency /\ air'[N + 2] = g
        <5>1. /\ N + 1 \in 1 .. N + 2 /\ ~(N + 1 <= N) /\ (N + 1) - N = 1
              /\ N + 2 \in 1 .. N + 2 /\ ~(N + 2 <= N) /\ (N + 2) - N = 2
          BY <1>7
        <5> QED  BY <3>1, <3>3, <5>1
      <4> QED  BY <2>2, <3>3, <4>1, <4>2, <4>3 DEF Coming
    <3> QED  BY <1>3, <2>2, <3>4, <3>5
  <2> QED  BY <1>8, <2>4, <2>5
<1>9. ASSUME NEW rest \in Disturbed(es), air' = Append(rest, g)
      PROVE  \E v \in Seq(Words) :
               /\ Comes(v, m) /\ Coming(air', v, 0)
               /\ edges # <<>> => v[Len(v)] \in Silences
  <2> DEFINE v == Append(rest, g)
  <2>1. /\ CutOff(v, es) \/ TooShort(v) \/ Headless(v, es)
        /\ OneLeader(v)
        /\ rest \in Seq(Words) /\ \A i \in 1 .. Len(rest) : rest[i] # Frequency
    <3>1. CASE \E i \in PulsesOf(es) :
                 rest \in {Faded(es, i, j) : j \in {k \in PulsesOf(es) : k >= i}} \ {<<>>}
      <4>1. PICK i \in PulsesOf(es), j \in PulsesOf(es) :
              j >= i /\ rest = Faded(es, i, j) /\ rest # <<>>
        BY <3>1
      <4>2. i <= j
        BY <1>7, <4>1 DEF PulsesOf
      <4>3. /\ CutOff(v, es) \/ TooShort(v) \/ Headless(v, es)
            /\ OneLeader(v)
        BY <1>1, <1>3, <4>1, <4>2, FadedShape
      <4>4. rest \in Seq(Edges)
        <5>1. Whole(es)
          BY <1>1, SentIsWhole
        <5> HIDE DEF es
        <5> QED  BY <4>1, <4>2, <5>1, FadedIsWhole DEF Whole
      <4> QED  BY <1>5, <4>3, <4>4
    <3>2. CASE \E i \in DOMAIN es :
                 rest \in {Overflowed(es, i, j) : j \in i .. i + MaxDropped - 1}
      <4>1. PICK i \in 1 .. Len(es) : \E j \in i .. i + MaxDropped - 1 : rest = Overflowed(es, i, j)
        BY <1>7, <3>2
      <4>2. PICK j \in i .. i + MaxDropped - 1 : rest = Overflowed(es, i, j)
        BY <4>1
      <4>3. /\ CutOff(v, es) \/ TooShort(v) \/ Headless(v, es)
            /\ OneLeader(v)
        BY <1>1, <1>3, <4>2, OverflowedShape
      <4> QED  BY <1>1, <4>2, <4>3, OverflowedHasNoFrequency
    <3> QED  BY <1>9, <3>1, <3>2 DEF Disturbed
  <2>2. /\ v \in Seq(Words) /\ v # <<>> /\ IsEnd(v[Len(v)]) /\ v[Len(v)] = g
        /\ \A i \in 1 .. Len(v) : v[i] # Frequency
    BY <1>3, <2>1, WithEnd
  <2>3. air' = v
    BY <1>9
  <2> HIDE DEF v, es
  <2>4. Comes(v, m)
    BY <2>1, <2>2 DEF Comes, es
  <2> QED  BY <1>3, <1>6, <2>2, <2>3, <2>4
<1> QED  BY <1>2, <1>8, <1>9

\* Edges that a short space ended, and what comes of the next message.
LEMMA HonestTogether ==
  ASSUME NEW m \in MessageType, NEW v, Comes(v, m), NEW m0 \in MessageType,
         NEW es \in Seq(Edges), Alternates(es), es # <<>>, es[Len(es)] = Space(ShortGapUs),
         Honest(es, {m0}), NEW w \in Seq(Words), Len(w) = Len(es) + Len(v),
         \A i \in 1 .. Len(es) : w[i] = es[i],
         \A i \in 1 .. Len(v) : w[Len(es) + i] = v[i]
  PROVE  Honest(w, {m0, m})
<1> DEFINE L == Len(es)
<1>1. L \in Nat /\ L >= 2 /\ L % 2 = 0
  <2>1. L \in Nat /\ L >= 1 /\ L \in DOMAIN es
    OBVIOUS
  <2>2. L % 2 # 1
    BY <2>1 DEF Alternates, Space
  <2> QED  BY <2>1, <2>2
<1>2. w[1] = es[1] /\ w[2] = es[2] /\ w[L] = Space(ShortGapUs) /\ Len(w) >= 2
  <2>1. 1 \in 1..L /\ 2 \in 1..L /\ L \in 1..L
    BY <1>1
  <2>2. Len(v) \in Nat
    BY DEF Comes
  <2> QED  BY <1>1, <2>1, <2>2
<1>3. v \in Seq(Words) /\ Len(v) \in Nat /\ FrameBits \in Nat /\ FrameBits >= 4
  BY ByteBitsAssumption DEF Comes, FrameBits
<1> SUFFICES ASSUME IsLeader(w)
             PROVE  /\ Near(w[2].us, 2250, 30) => Repeat \in {m0, m}
                    /\ Near(w[2].us, 4500, 30) /\ AllBits(w)
                         => \E x \in {m0, m} \ {Repeat} : CarriesBits(w, x)
  BY DEF Honest
<1>4. IsLeader(es)
  BY <1>1, <1>2 DEF IsLeader
<1>5. Near(w[2].us, 2250, 30) => Repeat \in {m0, m}
  BY <1>2, <1>4 DEF Honest
<1>6. ASSUME Near(w[2].us, 4500, 30), AllBits(w)
      PROVE  \E x \in {m0, m} \ {Repeat} : CarriesBits(w, x)
  <2>1. CASE L = 2
    <3>1. Len(w) = Len(v) + 2 /\ \A k \in 1 .. Len(v) : w[k + 2] = v[k]
      <4>1. \A k \in 1 .. Len(v) : L + k = k + 2
        BY <2>1
      <4> QED  BY <1>3, <2>1, <4>1
    <3>2. m # Repeat /\ CarriesBits(w, m)
      <4>1. PICK s \in Scales : CutOff(v, Sent(m, s)) \/ TooShort(v) \/ Headless(v, Sent(m, s))
        BY DEF Comes
      <4>2. v # <<>>
        BY DEF Comes
      <4> QED  BY <1>3, <1>6, <3>1, <4>1, <4>2, HonestAfterTwo
    <3> QED  BY <3>2
  <2>2. CASE L # 2 /\ L <= 2 * FrameBits + 2
    <3>1. PICK k \in 1..FrameBits : L = 2 * k + 2
      <4> HIDE DEF L
      <4>1. PICK h \in Int : L = 2 * h
        <5>1. L \div 2 \in Int
          BY <1>1
        <5>2. L = 2 * (L \div 2)
          BY <1>1
        <5> QED  BY <5>1, <5>2
      <4>2. h - 1 \in 1..FrameBits /\ L = 2 * (h - 1) + 2
        <5>1. h >= 2
          BY <1>1, <2>2, <4>1
        <5>2. h - 1 <= FrameBits
          BY <1>3, <2>2, <4>1
        <5> QED  BY <1>3, <4>1, <5>1, <5>2
      <4> QED  BY <4>2
    <3>2. IsEnd(w[2 * k + 2])
      BY <1>2, <3>1 DEF IsEnd
    <3> QED  BY <1>6, <3>2, NoBit
  <2>3. CASE L > 2 * FrameBits + 2
    <3>1. ASSUME NEW k \in 1..FrameBits
          PROVE  /\ w[2 * k + 1] = es[2 * k + 1] /\ w[2 * k + 2] = es[2 * k + 2]
                 /\ 2 * k + 2 <= Len(es)
      <4>1. 2 * k + 1 \in 1..L /\ 2 * k + 2 \in 1..L
        BY <1>1, <1>3, <2>3
      <4> QED  BY <4>1
    <3>2. AllBits(es)
      <4> SUFFICES ASSUME NEW k \in 1..FrameBits PROVE 2 * k + 2 <= Len(es) /\ IsBit(es, k)
        BY DEF AllBits
      <4>1. IsBit(w, k)
        BY <1>6 DEF AllBits
      <4> QED  BY <3>1, <4>1 DEF IsBit
    <3>3. m0 # Repeat /\ CarriesBits(es, m0)
      BY <1>2, <1>4, <1>6, <3>2 DEF Honest
    <3>4. ASSUME NEW k \in 1..FrameBits PROVE IsBit(w, k) /\ Bit(w, k) = Bits(m0)[k]
      <4>1. IsBit(es, k) /\ Bit(es, k) = Bits(m0)[k]
        BY <3>3 DEF CarriesBits
      <4> QED  BY <3>1, <4>1 DEF IsBit, Bit
    <3>5. CarriesBits(w, m0)
      BY <3>4 DEF CarriesBits
    <3> QED  BY <3>3, <3>5
  <2> QED  BY <1>1, <1>3, <2>1, <2>2, <2>3
<1> QED  BY <1>5, <1>6

LEMMA TransmitTale ==
  ASSUME LInv, Tale, NEW m \in Messages, Transmit(m)
  PROVE  Tale' /\ ShownWasSent'
<1>1. /\ air = <<>> /\ edges' = edges /\ opened' = opened /\ message' = m /\ burst' = <<>>
      /\ m \in MessageType
  BY MessagesAssumption DEF Transmit, NothingPublished
<1>2. ShownWasSent'
  BY <1>1, NothingIsShown DEF ShownWasSent
<1>3. PICK v \in Seq(Words) :
        /\ Comes(v, m) /\ Coming(air', v, 0)
        /\ edges # <<>> => v[Len(v)] \in Silences
  BY TransmitGives
<1>4. /\ v # <<>> /\ OneLeader(v) /\ IsEnd(v[Len(v)])
      /\ \A i \in 1 .. Len(v) : v[i] # Frequency
      /\ Len(v) \in Nat /\ Len(v) >= 1
  BY <1>3 DEF Comes
<1>5. edges \in Seq(Edges) /\ Len(edges) \in Nat /\ opened \in MessageType /\ Alternates(edges)
  BY DEF LInv, TypeOK, Control
<1>6. \/ Len(air') = Len(v) /\ \A i \in 1 .. Len(v) : air'[i] = v[i]
      \/ /\ Len(air') = Len(v) + 1 /\ \A i \in 1 .. Len(v) - 1 : air'[i] = v[i]
         /\ air'[Len(v)] = Frequency /\ air'[Len(v) + 1] = v[Len(v)]
  <2>1. Len(v) - 0 = Len(v) /\ \A i \in 1 .. Len(v) : 0 + i = i
    BY <1>4
  <2>2. \A i \in 1 .. Len(v) - 1 : 0 + i = i
    BY <1>4
  <2> QED  BY <1>3, <2>1, <2>2 DEF Coming
<1>7. air'[Len(air')] = v[Len(v)]
  <2>1. Len(v) \in 1 .. Len(v)
    BY <1>4
  <2> QED  BY <1>6, <2>1
<1>8. OneLeader(air')
  <2>1. ~Big(Frequency) /\ ~Big(v[Len(v)])
    BY <1>4, EndIsNotBig DEF Big, Frequency
  <2>2. \A i \in 2 .. Len(v) : ~Big(v[i])
    BY <1>4 DEF OneLeader
  <2>3. CASE Len(air') = Len(v) /\ \A i \in 1 .. Len(v) : air'[i] = v[i]
    <3>1. \A i \in 2 .. Len(v) : i \in 1 .. Len(v)
      BY <1>4
    <3> QED  BY <2>2, <2>3, <3>1 DEF OneLeader
  <2>4. CASE /\ Len(air') = Len(v) + 1 /\ \A i \in 1 .. Len(v) - 1 : air'[i] = v[i]
             /\ air'[Len(v)] = Frequency /\ air'[Len(v) + 1] = v[Len(v)]
    <3>1. \A i \in 2 .. Len(v) + 1 : \/ i \in 2 .. Len(v) /\ i \in 1 .. Len(v) - 1
                                     \/ i = Len(v) \/ i = Len(v) + 1
      BY <1>4
    <3> QED  BY <2>1, <2>2, <2>4, <3>1 DEF OneLeader
  <2> QED  BY <1>6, <2>3, <2>4
<1>9. edges # <<>> => air'[Len(air')] # Space(ShortGapUs)
  BY <1>3, <1>7, GapsAssumption DEF Silences, Space, Timeout
<1>10. air' # <<>>
  <2>1. Len(air') # 0
    BY <1>4, <1>6
  <2> QED  BY <2>1
<1>11. CASE edges = <<>>
  <2>1. Honest(v, {m})
    <3>1. PICK s \in Scales : CutOff(v, Sent(m, s)) \/ TooShort(v) \/ Headless(v, Sent(m, s))
      BY <1>3 DEF Comes
    <3> QED  BY <1>1, <3>1, HonestAlone
  <2>2. Ahead(v)'
    <3>1. Len(edges') = 0 /\ 0 <= Len(v)
      BY <1>1, <1>4, <1>11
    <3> QED  BY <1>3, <1>4, <3>1 DEF Ahead
  <2>3. {Opener, message}' = {m}
    BY <1>1, <1>11 DEF Opener
  <2>4. Honest(v, {Opener, message})'
    BY <2>1, <2>3
  <2> QED  BY <1>1, <1>2, <1>4, <1>7, <1>8, <1>10, <1>11, <2>2, <2>4 DEF Tale
<1>12. CASE edges # <<>>
  <2>1. edges[Len(edges)] = Space(ShortGapUs) /\ opened = message
    BY <1>1, <1>12 DEF Tale
  <2>2. Unled => Unled'
    BY <1>1, <1>12 DEF Unled
  <2>3. ASSUME NEW w0 \in Seq(Words), Ahead(w0), Honest(w0, {Opener, message})
        PROVE  \E w \in Seq(Words) : Ahead(w)' /\ Honest(w, {Opener, message})'
    <3>1. Len(w0) \in Nat /\ Len(edges) = Len(w0) /\ \A i \in 1 .. Len(edges) : edges[i] = w0[i]
      <4>1. Len(w0) \in Nat /\ Len(edges) <= Len(w0) /\ \A i \in 1 .. Len(edges) : edges[i] = w0[i]
        BY <2>3 DEF Ahead
      <4>2. Len(air) = 0
        BY <1>1
      <4>3. Len(w0) - Len(edges) = 0
        BY <1>5, <2>3, <4>1, <4>2 DEF Ahead, Coming
      <4> QED  BY <1>5, <4>1, <4>3
    <3>2. edges \in Seq(Words)
      BY <1>5, EdgeTypes, SeqMonotonic
    <3>3. edges = w0
      BY <3>1, <3>2, SeqEqual
    <3>4. Honest(edges, {opened})
      <4>1. {Opener, message} = {opened}
        BY <1>12, <2>1 DEF Opener
      <4> QED  BY <2>3, <3>3, <4>1
    <3> DEFINE w == edges \o v
    <3>5. /\ w \in Seq(Words) /\ Len(w) = Len(edges) + Len(v)
          /\ \A k \in 1 .. Len(edges) + Len(v) : w[k] = IF k <= Len(edges) THEN edges[k] ELSE v[k - Len(edges)]
      BY <3>2, TwoPieces
    <3> HIDE DEF w
    <3>6. \A i \in 1 .. Len(edges) : w[i] = edges[i]
      <4>1. \A i \in 1 .. Len(edges) : i \in 1 .. Len(edges) + Len(v) /\ i <= Len(edges)
        BY <1>4, <1>5
      <4> QED  BY <3>5, <4>1
    <3>7. \A i \in 1 .. Len(v) : w[Len(edges) + i] = v[i]
      <4>1. \A i \in 1 .. Len(v) : /\ Len(edges) + i \in 1 .. Len(edges) + Len(v)
                                   /\ ~(Len(edges) + i <= Len(edges))
                                   /\ (Len(edges) + i) - Len(edges) = i
        BY <1>4, <1>5
      <4> QED  BY <3>5, <4>1
    <3>8. Honest(w, {opened, m})
      BY <1>1, <1>3, <1>5, <1>12, <2>1, <3>4, <3>5, <3>6, <3>7, HonestTogether
    <3>9. \A i \in 1 .. Len(w) : w[i] # Frequency
      <4>1. \A i \in 1 .. Len(w0) : w0[i] # Frequency
        BY <2>3 DEF Ahead
      <4>2. ASSUME NEW i \in 1 .. Len(edges) + Len(v) PROVE w[i] # Frequency
        <5>1. CASE i <= Len(edges)
          <6>1. i \in 1 .. Len(edges)
            BY <1>5, <5>1
          <6> QED  BY <3>1, <3>6, <4>1, <6>1
        <5>2. CASE ~(i <= Len(edges))
          <6>1. i - Len(edges) \in 1 .. Len(v)
            BY <1>4, <1>5, <5>2
          <6> QED  BY <1>4, <3>5, <5>2, <6>1
        <5> QED  BY <5>1, <5>2
      <4> QED  BY <3>5, <4>2
    <3>10. Coming(air', w, Len(edges))
      <4>1. Len(w) - Len(edges) = Len(v) /\ Len(v) - 0 = Len(v)
        BY <1>4, <1>5, <3>5
      <4>2. w[Len(w)] = v[Len(v)]
        <5>1. Len(v) \in 1 .. Len(v)
          BY <1>4
        <5> QED  BY <3>5, <3>7, <5>1
      <4>3. \A i \in 1 .. Len(v) - 1 : i \in 1 .. Len(v)
        BY <1>4
      <4> QED  BY <1>4, <1>6, <3>7, <4>1, <4>2, <4>3 DEF Coming
    <3>11. Len(edges) <= Len(w)
      BY <1>4, <1>5, <3>5
    <3>12. PICK x \in Seq(Words) :
             /\ Honest(x, {opened, m}) /\ Coming(air', x, Len(edges)) /\ Len(edges) <= Len(x)
             /\ \A i \in 1 .. Len(edges) : x[i] = edges[i]
             /\ \A i \in 1 .. Len(x) : x[i] # Frequency
      BY <3>5, <3>6, <3>8, <3>9, <3>10, <3>11
    <3>13. Ahead(x)'
      BY <1>1, <3>12 DEF Ahead
    <3>14. {Opener, message}' = {opened, m}
      BY <1>1, <1>12 DEF Opener
    <3>15. Honest(x, {Opener, message})'
      BY <3>12, <3>14
    <3> QED  BY <3>12, <3>13, <3>15
  <2>4. Unled' \/ \E w \in Seq(Words) : Ahead(w)' /\ Honest(w, {Opener, message})'
    BY <2>2, <2>3 DEF Tale
  <2> QED  BY <1>1, <1>2, <1>4, <1>7, <1>8, <1>9, <1>10, <2>4 DEF Tale
<1> QED  BY <1>11, <1>12

\* decode_nec invents nothing: whatever pulses are not seen and words dropped, a
\* burst is shown to say what the message that it begins with says, or the last.
THEOREM NothingIsInvented == Spec => []ShownWasSent
<1>1. Init => Tale /\ ShownWasSent
  BY NothingIsShown DEF Init, Tale, Unled, OneLeader, ShownWasSent
<1>2. LInv /\ Tale /\ ShownWasSent /\ [Next]_vars => Tale' /\ ShownWasSent'
  <2> SUFFICES ASSUME LInv, Tale, ShownWasSent, [Next]_vars PROVE Tale' /\ ShownWasSent'
    OBVIOUS
  <2>1. CASE UNCHANGED vars
    BY <2>1 DEF vars, Tale, Unled, OneLeader, Ahead, Opener, ShownWasSent
  <2>2. CASE Run
    BY <2>2, RunTale
  <2>3. ASSUME NEW m \in Messages, Transmit(m) PROVE Tale' /\ ShownWasSent'
    BY <2>3, TransmitTale
  <2> QED  BY <2>1, <2>2, <2>3 DEF Next
<1> QED  BY <1>1, <1>2, InitLInv, LInvStep, PTL DEF Spec

=============================================================================
