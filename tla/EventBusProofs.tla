--------------------------- MODULE EventBusProofs ---------------------------
(***************************************************************************)
(* TypeOK, LosesOnlyOldest, NeverRepeats, KeepsUpGetsAll and               *)
(* ErrorIsInStream of EventBus, for any readers, connections, queue        *)
(* capacity and number of events.                                          *)
(*                                                                         *)
(* None is inductive alone: what a put appends is an event of the right    *)
(* number only because of where its reader is in publish(), and a queue    *)
(* starts empty only because nobody has a connection among its targets     *)
(* before it subscribes.  Control says so.  The other three are about the  *)
(* whole stream of a client, of which its queue is the end: StreamInv says *)
(* that the stream is in order, how far it goes, that the stream of a      *)
(* client that keeps up has no hole, and where the error of a reader is on *)
(* its way to a client.                                                    *)
(***************************************************************************)
EXTENDS EventBus, SequenceTheorems, TLAPS

Publishing == {"publish", "put", "evict", "putAgain"}

ReaderControl ==
  \A r \in Readers :
    /\ pc[r] \in {"evict", "putAgain"} => target[r] \in targets[r]
    /\ pc[r] \in Publishing => event[r] = Event(r, seq[r])
    /\ pc[r] \in {"start", "reading", "publish", "ended", "lost"} => targets[r] = {}
    /\ pc[r] = "start" => seq[r] = 0 /\ ~error[r]
    /\ pc[r] = "reading" => ~error[r]
    /\ error[r] => seq[r] = 0
    /\ pc[r] \in Publishing /\ ~error[r] => seq[r] >= 1
    /\ pc[r] = "crashed" /\ targets[r] # {} /\ ~error[r] => seq[r] >= 1

ClientControl ==
  \A c \in Clients :
    stage[c] = "new" =>
      queue[c] = <<>> /\ c \notin subs /\ \A r \in Readers : c \notin targets[r]

Control == ReaderControl /\ ClientControl

IInv == TypeOK /\ Control /\ LosesOnlyOldest

-----------------------------------------------------------------------------

\* What put_nowait does to a queue.
LEMMA AppendBounded ==
  ASSUME NEW q \in Seq(Events), NEW e \in Events, Len(q) < MaxSize
  PROVE  Append(q, e) \in Seq(Events) /\ Len(Append(q, e)) <= MaxSize
  BY SizeAssumption

\* What get_nowait and get do to a queue.
LEMMA TailBounded ==
  ASSUME NEW q \in Seq(Events), q # <<>>, Len(q) <= MaxSize
  PROVE  /\ Tail(q) \in Seq(Events)
         /\ Len(Tail(q)) <= MaxSize
         /\ Head(q) \in Events
  BY SizeAssumption

LEMMA EventType ==
  ASSUME NEW r \in Readers, NEW n \in 0..MaxEvents
  PROVE  Event(r, n) \in Events /\ Event(r, n).src = r /\ Event(r, n).seq = n
  BY DEF Event, Events

\* Taking the head leaves no hole.
LEMMA UnholedTail ==
  ASSUME NEW q \in Seq(Events), q # <<>>, NEW offered, Unholed(q, offered)
  PROVE  Unholed(Tail(q), offered)
<1> SUFFICES ASSUME NEW i \in DOMAIN Tail(q)
             PROVE  /\ Tail(q)[i].seq <= offered[Tail(q)[i].src]
                    /\ \A n \in Tail(q)[i].seq + 1 .. offered[Tail(q)[i].src] :
                         \E j \in i + 1 .. Len(Tail(q)) :
                           Tail(q)[j] = Event(Tail(q)[i].src, n)
  BY DEF Unholed
<1>1. /\ Len(Tail(q)) = Len(q) - 1
      /\ \A k \in 1 .. Len(q) - 1 : Tail(q)[k] = q[k + 1]
      /\ i \in 1 .. Len(q) - 1
      /\ i + 1 \in DOMAIN q
      /\ Len(q) \in Nat
  OBVIOUS
<1>2. Tail(q)[i] = q[i + 1]
  BY <1>1
<1>3. /\ q[i + 1].seq <= offered[q[i + 1].src]
      /\ \A n \in q[i + 1].seq + 1 .. offered[q[i + 1].src] :
           \E j \in i + 2 .. Len(q) : q[j] = Event(q[i + 1].src, n)
  BY <1>1 DEF Unholed
<1>4. ASSUME NEW n \in q[i + 1].seq + 1 .. offered[q[i + 1].src]
      PROVE  \E j \in i + 1 .. Len(Tail(q)) : Tail(q)[j] = Event(q[i + 1].src, n)
  <2>1. PICK j \in i + 2 .. Len(q) : q[j] = Event(q[i + 1].src, n)
    BY <1>3
  <2>2. j - 1 \in i + 1 .. Len(Tail(q)) /\ Tail(q)[j - 1] = q[j]
    BY <1>1, <2>1
  <2> QED  BY <2>1, <2>2
<1> QED  BY <1>2, <1>3, <1>4

\* Appending the event that follows the last one offered leaves no hole; 0 is
\* followed by 0, the error event of a reader that has no other.
LEMMA UnholedAppend ==
  ASSUME NEW q \in Seq(Events), NEW e \in Events,
         NEW old \in [Readers -> Int], NEW new \in [Readers -> Int],
         Unholed(q, old),
         \A r \in Readers \ {e.src} : new[r] = old[r],
         new[e.src] = e.seq,
         old[e.src] = e.seq - 1 \/ (e.seq = 0 /\ old[e.src] = 0)
  PROVE  Unholed(Append(q, e), new)
<1> DEFINE p == Append(q, e)
<1>1. /\ Len(q) \in Nat
      /\ Len(p) = Len(q) + 1
      /\ DOMAIN p = 1 .. Len(q) + 1
      /\ p[Len(q) + 1] = e
      /\ \A k \in 1 .. Len(q) : p[k] = q[k] /\ q[k] \in Events
  OBVIOUS
<1>2. e.src \in Readers /\ e.seq \in 0..MaxEvents /\ e = Event(e.src, e.seq)
  BY DEF Events, Event
<1> SUFFICES ASSUME NEW i \in DOMAIN p
             PROVE  /\ p[i].seq <= new[p[i].src]
                    /\ \A n \in p[i].seq + 1 .. new[p[i].src] :
                         \E j \in i + 1 .. Len(p) : p[j] = Event(p[i].src, n)
  BY DEF Unholed
<1>3. CASE i = Len(q) + 1
  BY <1>1, <1>2, <1>3, SizeAssumption
<1>4. CASE i \in 1 .. Len(q)
  <2>1. p[i] = q[i] /\ q[i] \in Events /\ q[i].src \in Readers /\ q[i].seq \in 0..MaxEvents
    BY <1>1, <1>4 DEF Events
  <2>2. /\ q[i].seq <= old[q[i].src]
        /\ \A n \in q[i].seq + 1 .. old[q[i].src] :
             \E j \in i + 1 .. Len(q) : q[j] = Event(q[i].src, n)
    BY <1>1, <1>4 DEF Unholed
  <2>3. old[q[i].src] <= new[q[i].src]
    <3>1. CASE q[i].src = e.src
      BY <1>2, <3>1, SizeAssumption
    <3>2. CASE q[i].src # e.src
      <4>1. old[q[i].src] = new[q[i].src] /\ old[q[i].src] \in Int
        BY <2>1, <3>2
      <4> QED  BY <4>1
    <3> QED  BY <3>1, <3>2
  <2>4. p[i].seq <= new[p[i].src]
    BY <2>1, <2>2, <2>3, SizeAssumption
  <2>5. ASSUME NEW n \in q[i].seq + 1 .. new[q[i].src]
        PROVE  \E j \in i + 1 .. Len(p) : p[j] = Event(q[i].src, n)
    <3>1. CASE n \in q[i].seq + 1 .. old[q[i].src]
      <4>1. PICK j \in i + 1 .. Len(q) : q[j] = Event(q[i].src, n)
        BY <2>2, <3>1
      <4>2. j \in i + 1 .. Len(p) /\ p[j] = q[j]
        BY <1>1, <1>4, <4>1
      <4> QED  BY <4>1, <4>2
    <3>2. CASE n \notin q[i].seq + 1 .. old[q[i].src]
      <4>1. q[i].src = e.src /\ n = e.seq
        BY <1>2, <2>1, <2>2, <2>3, <3>2, SizeAssumption
      <4>2. Len(p) \in i + 1 .. Len(p) /\ p[Len(p)] = Event(q[i].src, n)
        BY <1>1, <1>2, <1>4, <4>1
      <4> QED  BY <4>2
    <3> QED  BY <3>1, <3>2
  <2> QED  BY <2>1, <2>4, <2>5
<1>5. i = Len(q) + 1 \/ i \in 1 .. Len(q)
  BY <1>1
<1> QED  BY <1>3, <1>4, <1>5

-----------------------------------------------------------------------------

\* Types: one step per action.
LEMMA TypeStep ==
  ASSUME TypeOK, Control, [Next]_vars
  PROVE  TypeOK'
<1> USE SizeAssumption, NoneAssumption DEF TypeOK, Control, ReaderControl, Publishing
<1>1. CASE UNCHANGED vars
  BY <1>1 DEF vars, readerVars, clientVars, historyVars
<1>2. ASSUME NEW r \in Readers, OpenDevice(r) PROVE TypeOK'
  BY <1>2, EventType DEF OpenDevice, clientVars, historyVars
<1>3. ASSUME NEW r \in Readers, OpenFails(r) PROVE TypeOK'
  BY <1>3, EventType DEF OpenFails, clientVars, historyVars
<1>4. ASSUME NEW r \in Readers, ReadEvent(r) PROVE TypeOK'
  BY <1>4, EventType DEF ReadEvent, clientVars, historyVars
<1>5. ASSUME NEW r \in Readers, DeviceLost(r) PROVE TypeOK'
  BY <1>5, EventType DEF DeviceLost, clientVars, historyVars
<1>6. ASSUME NEW r \in Readers, Snapshot(r) PROVE TypeOK'
  BY <1>6, EventType DEF Snapshot, clientVars, historyVars
<1>7. ASSUME NEW r \in Readers, NEW c \in Clients, Put(r, c) PROVE TypeOK'
  <2>1. /\ queue[c] \in Seq(Events) /\ event[r] \in Events /\ Len(queue[c]) < MaxSize
        /\ queue' = [queue EXCEPT ![c] = Append(queue[c], event[r])]
    BY <1>7, EventType DEF Put, Full
  <2>2. Append(queue[c], event[r]) \in Seq(Events) /\ Len(Append(queue[c], event[r])) <= MaxSize
    BY <2>1, AppendBounded
  <2>3. queue' \in [Clients -> Seq(Events)] /\ \A d \in Clients : Len(queue'[d]) <= MaxSize
    BY <2>1, <2>2
  <2> QED  BY <1>7, <2>3 DEF Put, clientVars, historyVars
<1>8. ASSUME NEW r \in Readers, NEW c \in Clients, PutRaisesFull(r, c) PROVE TypeOK'
  BY <1>8, EventType DEF PutRaisesFull, clientVars, historyVars
<1>9. ASSUME NEW r \in Readers, Evict(r) PROVE TypeOK'
  BY <1>9, EventType DEF Evict, clientVars, historyVars
<1>10. ASSUME NEW r \in Readers, EvictRaisesEmpty(r) PROVE TypeOK'
  BY <1>10, EventType DEF EvictRaisesEmpty, clientVars, historyVars
<1>11. ASSUME NEW r \in Readers, PutAgain(r) PROVE TypeOK'
  <2> DEFINE c == target[r]
  <2>1. /\ c \in Clients /\ queue[c] \in Seq(Events) /\ event[r] \in Events
        /\ Len(queue[c]) < MaxSize
        /\ queue' = [queue EXCEPT ![c] = Append(queue[c], event[r])]
    BY <1>11, EventType DEF PutAgain, Full
  <2>2. Append(queue[c], event[r]) \in Seq(Events) /\ Len(Append(queue[c], event[r])) <= MaxSize
    BY <2>1, AppendBounded
  <2>3. queue' \in [Clients -> Seq(Events)] /\ \A d \in Clients : Len(queue'[d]) <= MaxSize
    BY <2>1, <2>2
  <2> QED  BY <1>11, <2>3 DEF PutAgain, clientVars, historyVars
<1>12. ASSUME NEW r \in Readers, PutAgainRaisesFull(r) PROVE TypeOK'
  BY <1>12, EventType DEF PutAgainRaisesFull, clientVars, historyVars
<1>13. ASSUME NEW r \in Readers, Published(r) PROVE TypeOK'
  BY <1>13, EventType DEF Published, clientVars, historyVars
<1>14. ASSUME NEW c \in Clients, Subscribe(c) PROVE TypeOK'
  <2>1. \A r \in Readers : Snapped(r) \in 0..MaxEvents
    BY DEF Snapped
  <2>2. joined' \in [Clients -> [Readers -> 0..MaxEvents]]
    BY <1>14, <2>1 DEF Subscribe
  <2> QED  BY <1>14, <2>2 DEF Subscribe, readerVars
<1>15. ASSUME NEW c \in Clients, CheckError(c) PROVE TypeOK'
  <2>1. checked[c] + 1 \in DOMAIN ReaderNames
    BY <1>15, ReaderNamesAssumption DEF CheckError
  <2>2. ReaderNames[checked[c] + 1] \in Readers
    BY <2>1 DEF Readers
  <2>3. Event(ReaderNames[checked[c] + 1], 0) \in Events
    BY <2>2, EventType
  <2>4. checked' \in [Clients -> 0..Len(ReaderNames)]
    BY <1>15, <2>1, ReaderNamesAssumption DEF CheckError
  <2> QED  BY <1>15, <2>3, <2>4 DEF CheckError, readerVars, historyVars
<1>16. ASSUME NEW c \in Clients, EnterLoop(c) PROVE TypeOK'
  BY <1>16, EventType DEF EnterLoop, readerVars, historyVars
<1>17. ASSUME NEW c \in Clients, Take(c) PROVE TypeOK'
  BY <1>17, EventType DEF Take, readerVars, historyVars
<1>18. ASSUME NEW c \in Clients, Send(c) PROVE TypeOK'
  BY <1>18, EventType DEF Send, readerVars, historyVars
<1>19. ASSUME NEW c \in Clients, Disconnect(c) PROVE TypeOK'
  BY <1>19, EventType DEF Disconnect, readerVars, historyVars
<1>20. ASSUME NEW c \in Clients, Unsubscribe(c) PROVE TypeOK'
  BY <1>20, EventType DEF Unsubscribe, readerVars, historyVars
<1> QED
  BY <1>1, <1>2, <1>3, <1>4, <1>5, <1>6, <1>7, <1>8, <1>9, <1>10, <1>11, <1>12, <1>13, <1>14, <1>15, <1>16, <1>17, <1>18, <1>19, <1>20
     DEF Next, ReaderStep, PublishStep, StreamStep

\* Where the readers are: one step per action.
LEMMA ReaderControlStep ==
  ASSUME TypeOK, Control, [Next]_vars
  PROVE  ReaderControl'
<1> USE SizeAssumption, NoneAssumption DEF TypeOK, Control, ReaderControl, Publishing
<1>1. CASE UNCHANGED vars
  BY <1>1 DEF vars, readerVars, clientVars, historyVars
<1>2. ASSUME NEW r \in Readers, OpenDevice(r) PROVE ReaderControl'
  BY <1>2, EventType DEF OpenDevice, clientVars, historyVars
<1>3. ASSUME NEW r \in Readers, OpenFails(r) PROVE ReaderControl'
  BY <1>3, EventType DEF OpenFails, clientVars, historyVars
<1>4. ASSUME NEW r \in Readers, ReadEvent(r) PROVE ReaderControl'
  BY <1>4, EventType DEF ReadEvent, clientVars, historyVars
<1>5. ASSUME NEW r \in Readers, DeviceLost(r) PROVE ReaderControl'
  BY <1>5, EventType DEF DeviceLost, clientVars, historyVars
<1>6. ASSUME NEW r \in Readers, Snapshot(r) PROVE ReaderControl'
  BY <1>6, EventType DEF Snapshot, clientVars, historyVars
<1>7. ASSUME NEW r \in Readers, NEW c \in Clients, Put(r, c) PROVE ReaderControl'
  BY <1>7, EventType DEF Put, clientVars, historyVars
<1>8. ASSUME NEW r \in Readers, NEW c \in Clients, PutRaisesFull(r, c) PROVE ReaderControl'
  BY <1>8, EventType DEF PutRaisesFull, clientVars, historyVars
<1>9. ASSUME NEW r \in Readers, Evict(r) PROVE ReaderControl'
  BY <1>9, EventType DEF Evict, clientVars, historyVars
<1>10. ASSUME NEW r \in Readers, EvictRaisesEmpty(r) PROVE ReaderControl'
  BY <1>10, EventType DEF EvictRaisesEmpty, clientVars, historyVars
<1>11. ASSUME NEW r \in Readers, PutAgain(r) PROVE ReaderControl'
  BY <1>11, EventType DEF PutAgain, clientVars, historyVars
<1>12. ASSUME NEW r \in Readers, PutAgainRaisesFull(r) PROVE ReaderControl'
  BY <1>12, EventType DEF PutAgainRaisesFull, clientVars, historyVars
<1>13. ASSUME NEW r \in Readers, Published(r) PROVE ReaderControl'
  BY <1>13, EventType DEF Published, clientVars, historyVars
<1>14. ASSUME NEW c \in Clients, Subscribe(c) PROVE ReaderControl'
  BY <1>14, EventType DEF Subscribe, readerVars, historyVars
<1>15. ASSUME NEW c \in Clients, CheckError(c) PROVE ReaderControl'
  BY <1>15, EventType DEF CheckError, readerVars, historyVars
<1>16. ASSUME NEW c \in Clients, EnterLoop(c) PROVE ReaderControl'
  BY <1>16, EventType DEF EnterLoop, readerVars, historyVars
<1>17. ASSUME NEW c \in Clients, Take(c) PROVE ReaderControl'
  BY <1>17, EventType DEF Take, readerVars, historyVars
<1>18. ASSUME NEW c \in Clients, Send(c) PROVE ReaderControl'
  BY <1>18, EventType DEF Send, readerVars, historyVars
<1>19. ASSUME NEW c \in Clients, Disconnect(c) PROVE ReaderControl'
  BY <1>19, EventType DEF Disconnect, readerVars, historyVars
<1>20. ASSUME NEW c \in Clients, Unsubscribe(c) PROVE ReaderControl'
  BY <1>20, EventType DEF Unsubscribe, readerVars, historyVars
<1> QED
  BY <1>1, <1>2, <1>3, <1>4, <1>5, <1>6, <1>7, <1>8, <1>9, <1>10, <1>11, <1>12, <1>13, <1>14, <1>15, <1>16, <1>17, <1>18, <1>19, <1>20
     DEF Next, ReaderStep, PublishStep, StreamStep

\* Nobody knows a connection before it subscribes: one step per action.
LEMMA ClientControlStep ==
  ASSUME TypeOK, Control, [Next]_vars
  PROVE  ClientControl'
<1> USE SizeAssumption, NoneAssumption DEF TypeOK, Control, ClientControl
<1>1. CASE UNCHANGED vars
  BY <1>1 DEF vars, readerVars, clientVars, historyVars
<1>2. ASSUME NEW r \in Readers, OpenDevice(r) PROVE ClientControl'
  BY <1>2, EventType DEF OpenDevice, clientVars, historyVars
<1>3. ASSUME NEW r \in Readers, OpenFails(r) PROVE ClientControl'
  BY <1>3, EventType DEF OpenFails, clientVars, historyVars
<1>4. ASSUME NEW r \in Readers, ReadEvent(r) PROVE ClientControl'
  BY <1>4, EventType DEF ReadEvent, clientVars, historyVars
<1>5. ASSUME NEW r \in Readers, DeviceLost(r) PROVE ClientControl'
  BY <1>5, EventType DEF DeviceLost, clientVars, historyVars
<1>6. ASSUME NEW r \in Readers, Snapshot(r) PROVE ClientControl'
  BY <1>6, EventType DEF Snapshot, clientVars, historyVars
<1>7. ASSUME NEW r \in Readers, NEW c \in Clients, Put(r, c) PROVE ClientControl'
  BY <1>7, EventType DEF Put, clientVars, historyVars
<1>8. ASSUME NEW r \in Readers, NEW c \in Clients, PutRaisesFull(r, c) PROVE ClientControl'
  BY <1>8, EventType DEF PutRaisesFull, clientVars, historyVars
<1>9. ASSUME NEW r \in Readers, Evict(r) PROVE ClientControl'
  BY <1>9, EventType DEF Evict, clientVars, historyVars
<1>10. ASSUME NEW r \in Readers, EvictRaisesEmpty(r) PROVE ClientControl'
  BY <1>10, EventType DEF EvictRaisesEmpty, clientVars, historyVars
<1>11. ASSUME NEW r \in Readers, PutAgain(r) PROVE ClientControl'
  <2>1. target[r] \in targets[r]
    BY <1>11 DEF PutAgain, ReaderControl
  <2> QED  BY <1>11, <2>1 DEF PutAgain, clientVars, historyVars
<1>12. ASSUME NEW r \in Readers, PutAgainRaisesFull(r) PROVE ClientControl'
  BY <1>12, EventType DEF PutAgainRaisesFull, clientVars, historyVars
<1>13. ASSUME NEW r \in Readers, Published(r) PROVE ClientControl'
  BY <1>13, EventType DEF Published, clientVars, historyVars
<1>14. ASSUME NEW c \in Clients, Subscribe(c) PROVE ClientControl'
  BY <1>14, EventType DEF Subscribe, readerVars, historyVars
<1>15. ASSUME NEW c \in Clients, CheckError(c) PROVE ClientControl'
  BY <1>15, EventType DEF CheckError, readerVars, historyVars
<1>16. ASSUME NEW c \in Clients, EnterLoop(c) PROVE ClientControl'
  BY <1>16, EventType DEF EnterLoop, readerVars, historyVars
<1>17. ASSUME NEW c \in Clients, Take(c) PROVE ClientControl'
  BY <1>17, EventType DEF Take, readerVars, historyVars
<1>18. ASSUME NEW c \in Clients, Send(c) PROVE ClientControl'
  BY <1>18, EventType DEF Send, readerVars, historyVars
<1>19. ASSUME NEW c \in Clients, Disconnect(c) PROVE ClientControl'
  BY <1>19, EventType DEF Disconnect, readerVars, historyVars
<1>20. ASSUME NEW c \in Clients, Unsubscribe(c) PROVE ClientControl'
  BY <1>20, EventType DEF Unsubscribe, readerVars, historyVars
<1> QED
  BY <1>1, <1>2, <1>3, <1>4, <1>5, <1>6, <1>7, <1>8, <1>9, <1>10, <1>11, <1>12, <1>13, <1>14, <1>15, <1>16, <1>17, <1>18, <1>19, <1>20
     DEF Next, ReaderStep, PublishStep, StreamStep

-----------------------------------------------------------------------------

LEMMA OfferedType ==
  ASSUME TypeOK, NEW c
  PROVE  OfferedTo(c) \in [Readers -> Int]
  BY SizeAssumption DEF TypeOK, OfferedTo, Offered, Snapped

\* A step that touches no queue and offers nothing keeps the property.
LEMMA NothingOffered ==
  ASSUME LosesOnlyOldest, UNCHANGED queue, subs' \subseteq subs,
         \A c \in subs : OfferedTo(c)' = OfferedTo(c)
  PROVE  LosesOnlyOldest'
  BY DEF LosesOnlyOldest, Unholed

\* A step that takes the head of one queue and offers nothing keeps it.
LEMMA HeadTaken ==
  ASSUME TypeOK, LosesOnlyOldest, UNCHANGED subs,
         NEW d \in Clients, queue[d] # <<>>,
         queue' = [queue EXCEPT ![d] = Tail(@)],
         \A c \in subs : OfferedTo(c)' = OfferedTo(c)
  PROVE  LosesOnlyOldest'
<1> SUFFICES ASSUME NEW c \in subs PROVE Unholed(queue'[c], OfferedTo(c))
  BY DEF LosesOnlyOldest, Unholed
<1>1. c \in Clients /\ queue[c] \in Seq(Events) /\ Unholed(queue[c], OfferedTo(c))
  BY DEF TypeOK, LosesOnlyOldest
<1>2. CASE c = d
  BY <1>1, <1>2, UnholedTail DEF TypeOK
<1>3. CASE c # d
  BY <1>1, <1>3 DEF TypeOK
<1> QED  BY <1>2, <1>3

\* A step by which r puts its event in the queue of one of its targets, and
\* goes on to the next, keeps it.
LEMMA EventPut ==
  ASSUME TypeOK, ReaderControl, LosesOnlyOldest, UNCHANGED <<subs, error, seq>>,
         NEW r \in Readers, NEW d \in targets[r], pc[r] \in Publishing \ {"publish"},
         pc' = [pc EXCEPT ![r] = "put"],
         queue' = [queue EXCEPT ![d] = Append(@, event[r])],
         targets' = [targets EXCEPT ![r] = @ \ {d}]
  PROVE  LosesOnlyOldest'
<1> SUFFICES ASSUME NEW c \in subs PROVE Unholed(queue'[c], OfferedTo(c)')
  BY DEF LosesOnlyOldest, Unholed
<1>1. c \in Clients /\ queue[c] \in Seq(Events) /\ Unholed(queue[c], OfferedTo(c))
  BY DEF TypeOK, LosesOnlyOldest
<1>2. /\ event[r] = Event(r, seq[r]) /\ seq[r] \in 0..MaxEvents
      /\ event[r] \in Events /\ event[r].src = r /\ event[r].seq = seq[r]
  BY EventType DEF ReaderControl, Publishing, TypeOK
<1>3. d \in Clients
  BY DEF TypeOK
<1>4. \A s \in Readers \ {r} : OfferedTo(c)'[s] = OfferedTo(c)[s]
  BY DEF OfferedTo, Offered, Snapped, TypeOK
<1>5. OfferedTo(c)' \in [Readers -> Int]
  <2>1. \A s \in Readers : seq'[s] \in Int
    BY SizeAssumption DEF TypeOK
  <2>2. \A s \in Readers : Offered(s, c)' \in Int
    BY <2>1 DEF Offered, Snapped
  <2> QED  BY <2>2 DEF OfferedTo
<1>6. CASE c = d
  <2>1. OfferedTo(c)'[r] = seq[r]
    BY <1>6 DEF OfferedTo, Offered, Snapped, TypeOK
  <2>2. OfferedTo(c)[r] = IF error[r] THEN seq[r] ELSE seq[r] - 1
    BY <1>6 DEF OfferedTo, Offered, Snapped, TypeOK
  <2>3. error[r] => seq[r] = 0
    BY DEF ReaderControl
  <2>4. OfferedTo(c)[r] = seq[r] - 1 \/ (seq[r] = 0 /\ OfferedTo(c)[r] = 0)
    BY <2>2, <2>3
  <2>5. Unholed(Append(queue[c], event[r]), OfferedTo(c)')
    BY <1>1, <1>2, <1>4, <1>5, <2>1, <2>4, OfferedType, UnholedAppend
  <2>6. queue'[c] = Append(queue[c], event[r])
    BY <1>3, <1>6 DEF TypeOK
  <2> QED  BY <2>5, <2>6
<1>7. CASE c # d
  <2>1. OfferedTo(c)'[r] = OfferedTo(c)[r]
    BY <1>7 DEF OfferedTo, Offered, Snapped, TypeOK, Publishing
  <2>2. OfferedTo(c)' = OfferedTo(c)
    BY <1>4, <2>1 DEF OfferedTo
  <2> QED  BY <1>1, <1>3, <1>7, <2>2 DEF TypeOK
<1> QED  BY <1>6, <1>7

\* LosesOnlyOldest: one step per action.
LEMMA LosesOnlyOldestStep ==
  ASSUME IInv, [Next]_vars
  PROVE  LosesOnlyOldest'
<1> USE SizeAssumption DEF IInv, Control
<1> DEFINE Still == \A c \in subs : OfferedTo(c)' = OfferedTo(c)
<1>1. CASE UNCHANGED vars
  <2>1. Still
    BY <1>1 DEF vars, readerVars, OfferedTo, Offered, Snapped
  <2> QED  BY <1>1, <2>1, NothingOffered DEF vars
<1>2. ASSUME NEW r \in Readers, OpenDevice(r) PROVE LosesOnlyOldest'
  <2>1. Still
    BY <1>2 DEF OpenDevice, readerVars, OfferedTo, Offered, Snapped, TypeOK, ReaderControl, Publishing
  <2> QED  BY <1>2, <2>1, NothingOffered DEF OpenDevice
<1>3. ASSUME NEW r \in Readers, OpenFails(r) PROVE LosesOnlyOldest'
  <2>1. Still
    BY <1>3 DEF OpenFails, readerVars, OfferedTo, Offered, Snapped, TypeOK, ReaderControl, Publishing
  <2> QED  BY <1>3, <2>1, NothingOffered DEF OpenFails
<1>4. ASSUME NEW r \in Readers, ReadEvent(r) PROVE LosesOnlyOldest'
  <2>1. Still
    BY <1>4 DEF ReadEvent, readerVars, OfferedTo, Offered, Snapped, TypeOK, ReaderControl, Publishing
  <2> QED  BY <1>4, <2>1, NothingOffered DEF ReadEvent
<1>5. ASSUME NEW r \in Readers, DeviceLost(r) PROVE LosesOnlyOldest'
  <2>1. Still
    BY <1>5 DEF DeviceLost, readerVars, OfferedTo, Offered, Snapped, TypeOK, ReaderControl, Publishing
  <2> QED  BY <1>5, <2>1, NothingOffered DEF DeviceLost
<1>6. ASSUME NEW r \in Readers, Snapshot(r) PROVE LosesOnlyOldest'
  <2>1. Still
    BY <1>6 DEF Snapshot, readerVars, OfferedTo, Offered, Snapped, TypeOK, ReaderControl, Publishing
  <2> QED  BY <1>6, <2>1, NothingOffered DEF Snapshot
<1>7. ASSUME NEW r \in Readers, NEW d \in Clients, PutRaisesFull(r, d) PROVE LosesOnlyOldest'
  <2>1. Still
    BY <1>7 DEF PutRaisesFull, readerVars, OfferedTo, Offered, Snapped, TypeOK, ReaderControl, Publishing
  <2> QED  BY <1>7, <2>1, NothingOffered DEF PutRaisesFull
<1>8. ASSUME NEW r \in Readers, PutAgainRaisesFull(r) PROVE LosesOnlyOldest'
  <2>1. Still
    BY <1>8 DEF PutAgainRaisesFull, readerVars, OfferedTo, Offered, Snapped, TypeOK, ReaderControl, Publishing
  <2> QED  BY <1>8, <2>1, NothingOffered DEF PutAgainRaisesFull
<1>9. ASSUME NEW r \in Readers, Published(r) PROVE LosesOnlyOldest'
  <2>1. Still
    BY <1>9 DEF Published, readerVars, OfferedTo, Offered, Snapped, TypeOK, ReaderControl, Publishing
  <2> QED  BY <1>9, <2>1, NothingOffered DEF Published
<1>10. ASSUME NEW d \in Clients, CheckError(d) PROVE LosesOnlyOldest'
  <2>1. Still
    BY <1>10 DEF CheckError, readerVars, OfferedTo, Offered, Snapped, TypeOK, ReaderControl, Publishing
  <2> QED  BY <1>10, <2>1, NothingOffered DEF CheckError
<1>11. ASSUME NEW d \in Clients, EnterLoop(d) PROVE LosesOnlyOldest'
  <2>1. Still
    BY <1>11 DEF EnterLoop, readerVars, OfferedTo, Offered, Snapped, TypeOK, ReaderControl, Publishing
  <2> QED  BY <1>11, <2>1, NothingOffered DEF EnterLoop
<1>12. ASSUME NEW d \in Clients, Send(d) PROVE LosesOnlyOldest'
  <2>1. Still
    BY <1>12 DEF Send, readerVars, OfferedTo, Offered, Snapped, TypeOK, ReaderControl, Publishing
  <2> QED  BY <1>12, <2>1, NothingOffered DEF Send
<1>13. ASSUME NEW d \in Clients, Disconnect(d) PROVE LosesOnlyOldest'
  <2>1. Still
    BY <1>13 DEF Disconnect, readerVars, OfferedTo, Offered, Snapped, TypeOK, ReaderControl, Publishing
  <2> QED  BY <1>13, <2>1, NothingOffered DEF Disconnect
<1>14. ASSUME NEW d \in Clients, Unsubscribe(d) PROVE LosesOnlyOldest'
  <2>1. Still
    BY <1>14 DEF Unsubscribe, readerVars, OfferedTo, Offered, Snapped, TypeOK, ReaderControl, Publishing
  <2> QED  BY <1>14, <2>1, NothingOffered DEF Unsubscribe
<1>15. ASSUME NEW r \in Readers, NEW d \in Clients, Put(r, d) PROVE LosesOnlyOldest'
  <2>1. pc' = [pc EXCEPT ![r] = "put"]
    BY <1>15 DEF Put, TypeOK
  <2> QED  BY <1>15, <2>1, EventPut DEF Put, Publishing
<1>16. ASSUME NEW r \in Readers, PutAgain(r) PROVE LosesOnlyOldest'
  <2>1. target[r] \in targets[r]
    BY <1>16 DEF PutAgain, ReaderControl
  <2> QED  BY <1>16, <2>1, EventPut DEF PutAgain, Publishing
<1>17. ASSUME NEW r \in Readers, Evict(r) PROVE LosesOnlyOldest'
  <2>1. target[r] \in Clients
    BY <1>17 DEF Evict, ReaderControl, TypeOK
  <2>2. Still
    BY <1>17 DEF Evict, OfferedTo, Offered, Snapped, TypeOK
  <2> QED  BY <1>17, <2>1, <2>2, HeadTaken DEF Evict
<1>18. ASSUME NEW r \in Readers, EvictRaisesEmpty(r) PROVE LosesOnlyOldest'
  <2> SUFFICES ASSUME NEW c \in subs PROVE Unholed(queue[c], OfferedTo(c))'
    BY <1>18 DEF EvictRaisesEmpty, LosesOnlyOldest
  <2>1. CASE c = target[r]
    BY <1>18, <2>1 DEF EvictRaisesEmpty, Unholed
  <2>2. CASE c # target[r]
    <3>1. OfferedTo(c)' = OfferedTo(c)
      BY <1>18, <2>2 DEF EvictRaisesEmpty, OfferedTo, Offered, Snapped, TypeOK
    <3> QED  BY <1>18, <3>1 DEF EvictRaisesEmpty, LosesOnlyOldest, Unholed
  <2> QED  BY <2>1, <2>2
<1>19. ASSUME NEW d \in Clients, Subscribe(d) PROVE LosesOnlyOldest'
  <2> SUFFICES ASSUME NEW c \in subs' PROVE Unholed(queue[c], OfferedTo(c))'
    BY DEF LosesOnlyOldest
  <2>1. CASE c = d
    BY <1>19, <2>1 DEF Subscribe, ClientControl, Unholed
  <2>2. CASE c # d
    <3>1. c \in subs /\ OfferedTo(c)' = OfferedTo(c)
      BY <1>19, <2>2 DEF Subscribe, readerVars, OfferedTo, Offered, Snapped
    <3> QED  BY <1>19, <3>1 DEF Subscribe, LosesOnlyOldest, Unholed
  <2> QED  BY <2>1, <2>2
<1>20. ASSUME NEW d \in Clients, Take(d) PROVE LosesOnlyOldest'
  <2>1. Still
    BY <1>20 DEF Take, readerVars, OfferedTo, Offered, Snapped
  <2> QED  BY <1>20, <2>1, HeadTaken DEF Take
<1> QED
  BY <1>1, <1>2, <1>3, <1>4, <1>5, <1>6, <1>7, <1>8, <1>9, <1>10, <1>11, <1>12, <1>13, <1>14, <1>15, <1>16, <1>17, <1>18, <1>19, <1>20
     DEF Next, ReaderStep, PublishStep, StreamStep

-----------------------------------------------------------------------------

LEMMA InitIInv == Init => IInv
<1> SUFFICES ASSUME Init PROVE IInv
  OBVIOUS
<1>1. TypeOK
  BY SizeAssumption, ReaderNamesAssumption DEF Init, TypeOK
<1>2. Control
  BY DEF Init, Control, ReaderControl, ClientControl, Publishing
<1>3. LosesOnlyOldest
  BY DEF Init, LosesOnlyOldest
<1> QED  BY <1>1, <1>2, <1>3 DEF IInv

LEMMA IInvStep == IInv /\ [Next]_vars => IInv'
  BY TypeStep, ReaderControlStep, ClientControlStep, LosesOnlyOldestStep
     DEF IInv, Control

\* The variables have their types and no queue outgrows its maxsize.
THEOREM TypeCorrect == Spec => []TypeOK
<1>1. IInv => TypeOK
  BY DEF IInv
<1> QED  BY <1>1, InitIInv, IInvStep, PTL DEF Spec

\* A connected client's queue never has a hole: whatever the interleaving of
\* the readers and the clients, what is lost is older than what is held.
THEOREM LossIsOldest == Spec => []LosesOnlyOldest
<1>1. IInv => LosesOnlyOldest
  BY DEF IInv
<1> QED  BY <1>1, InitIInv, IInvStep, PTL DEF Spec

-----------------------------------------------------------------------------
(* The streams: what a client has got, is being sent and has in its queue.     *)

Holds(s, e) == \E i \in DOMAIN s : s[i] = e
GivenIn(s, h, q, e) == Holds(s, e) \/ h = e \/ Holds(q, e)

Before(e, f) == e.src = f.src /\ e.seq > 0 /\ f.seq > 0 => e.seq < f.seq
Ordered(s) == \A i, j \in DOMAIN s : i < j => Before(s[i], s[j])
OrderedIn(s, h, q) ==
  /\ Ordered(s) /\ Ordered(q)
  /\ \A i \in DOMAIN s, j \in DOMAIN q : Before(s[i], q[j])
  /\ h # NoEvent => \A i \in DOMAIN s : Before(s[i], h)
  /\ h # NoEvent => \A j \in DOMAIN q : Before(h, q[j])

LEMMA OrderedTail ==
  ASSUME NEW s \in Seq(Events), NEW h, NEW q \in Seq(Events), q # <<>>, OrderedIn(s, h, q)
  PROVE  /\ OrderedIn(s, h, Tail(q))
         /\ \A e : GivenIn(s, h, Tail(q), e) => GivenIn(s, h, q, e)
<1>1. /\ Len(q) \in Nat /\ DOMAIN Tail(q) = 1 .. Len(q) - 1 /\ DOMAIN q = 1 .. Len(q)
      /\ \A k \in DOMAIN Tail(q) : Tail(q)[k] = q[k + 1] /\ k + 1 \in DOMAIN q
  OBVIOUS
<1> DEFINE t == Tail(q)
<1> HIDE DEF t
<1>2. OrderedIn(s, h, t)
  BY <1>1 DEF OrderedIn, Ordered, t
<1>3. \A e : GivenIn(s, h, t, e) => GivenIn(s, h, q, e)
  BY <1>1 DEF GivenIn, Holds, t
<1> QED  BY <1>2, <1>3 DEF t

LEMMA OrderedAppend ==
  ASSUME NEW s \in Seq(Events), NEW h, NEW q \in Seq(Events), OrderedIn(s, h, q),
         NEW e \in Events,
         \A f \in Events : GivenIn(s, h, q, f) => Before(f, e), h \in Events \cup {NoEvent}
  PROVE  /\ OrderedIn(s, h, Append(q, e))
         /\ \A f : GivenIn(s, h, Append(q, e), f) <=> GivenIn(s, h, q, f) \/ f = e
<1> DEFINE t == Append(q, e)
<1>1. /\ Len(q) \in Nat /\ DOMAIN t = 1 .. Len(q) + 1 /\ DOMAIN q = 1 .. Len(q)
      /\ \A k \in DOMAIN q : t[k] = q[k] /\ q[k] \in Events
      /\ t[Len(q) + 1] = e /\ \A k \in DOMAIN s : s[k] \in Events
  OBVIOUS
<1> HIDE DEF t
<1>2. \A f : GivenIn(s, h, t, f) <=> GivenIn(s, h, q, f) \/ f = e
  <2>1. \A f : Holds(t, f) <=> Holds(q, f) \/ f = e
    BY <1>1 DEF Holds
  <2> QED  BY <2>1 DEF GivenIn
<1>3. /\ \A k \in DOMAIN q : Before(q[k], e)
      /\ \A k \in DOMAIN s : Before(s[k], e)
      /\ h # NoEvent => Before(h, e)
  BY <1>1 DEF GivenIn, Holds
<1>4. Ordered(t)
  BY <1>1, <1>3 DEF OrderedIn, Ordered
<1>5. \A i \in DOMAIN s, j \in DOMAIN t : Before(s[i], t[j])
  BY <1>1, <1>3 DEF OrderedIn
<1>6. h # NoEvent => \A j \in DOMAIN t : Before(h, t[j])
  BY <1>1, <1>3 DEF OrderedIn
<1> QED  BY <1>2, <1>4, <1>5, <1>6 DEF OrderedIn, t

\* q.get(): the head of the queue is in the handler's hand.
LEMMA OrderedTake ==
  ASSUME NEW s \in Seq(Events), NEW q \in Seq(Events), q # <<>>, OrderedIn(s, NoEvent, q)
  PROVE  /\ OrderedIn(s, Head(q), Tail(q))
         /\ \A f \in Events : GivenIn(s, Head(q), Tail(q), f) <=> GivenIn(s, NoEvent, q, f)
<1> DEFINE t == Tail(q)
           h == Head(q)
<1>1. /\ Len(q) \in Nat /\ DOMAIN t = 1 .. Len(q) - 1 /\ DOMAIN q = 1 .. Len(q) /\ 1 \in DOMAIN q
      /\ \A k \in DOMAIN t : t[k] = q[k + 1] /\ k + 1 \in DOMAIN q
      /\ h = q[1]
  OBVIOUS
<1> HIDE DEF t, h
<1>2. OrderedIn(s, h, t)
  BY <1>1 DEF OrderedIn, Ordered
<1>3. ASSUME NEW f \in Events PROVE GivenIn(s, h, t, f) <=> GivenIn(s, NoEvent, q, f)
  <2>1. f # NoEvent
    BY NoneAssumption
  <2>2. Holds(q, f) <=> h = f \/ Holds(t, f)
    <3>1. ASSUME NEW i \in DOMAIN q, q[i] = f PROVE h = f \/ Holds(t, f)
      <4>1. CASE i = 1
        BY <1>1, <3>1, <4>1
      <4>2. CASE i # 1
        <5>1. i - 1 \in DOMAIN t /\ t[i - 1] = q[i]
          BY <1>1, <4>2
        <5> QED  BY <3>1, <5>1 DEF Holds
      <4> QED  BY <4>1, <4>2
    <3> QED  BY <1>1, <3>1 DEF Holds
  <2> QED  BY <2>1, <2>2 DEF GivenIn
<1> QED  BY <1>2, <1>3 DEF t, h

\* _send_event: what was in the hand is written.
LEMMA OrderedSend ==
  ASSUME NEW s \in Seq(Events), NEW h \in Events, NEW q \in Seq(Events), OrderedIn(s, h, q)
  PROVE  /\ OrderedIn(Append(s, h), NoEvent, q)
         /\ \A f \in Events : GivenIn(Append(s, h), NoEvent, q, f) <=> GivenIn(s, h, q, f)
<1> DEFINE t == Append(s, h)
<1>1. /\ Len(s) \in Nat /\ DOMAIN t = 1 .. Len(s) + 1 /\ DOMAIN s = 1 .. Len(s)
      /\ \A k \in DOMAIN s : t[k] = s[k] /\ s[k] \in Events
      /\ t[Len(s) + 1] = h /\ h # NoEvent
  BY NoneAssumption
<1> HIDE DEF t
<1>2. Ordered(t)
  BY <1>1 DEF OrderedIn, Ordered
<1>3. \A i \in DOMAIN t, j \in DOMAIN q : Before(t[i], q[j])
  BY <1>1 DEF OrderedIn
<1>4. ASSUME NEW f \in Events PROVE GivenIn(t, NoEvent, q, f) <=> GivenIn(s, h, q, f)
  <2>1. f # NoEvent /\ (Holds(t, f) <=> Holds(s, f) \/ f = h)
    BY <1>1, NoneAssumption DEF Holds
  <2> QED  BY <2>1 DEF GivenIn
<1>5. OrderedIn(t, NoEvent, q)
  BY <1>2, <1>3 DEF OrderedIn
<1> QED  BY <1>4, <1>5 DEF t

\* What c has been given and what it may still be given.
Given(c, e) == GivenIn(sent[c], hand[c], queue[c], e)

StreamControl ==
  /\ \A c \in Clients :
       /\ stage[c] = "new" => sent[c] = <<>> /\ hand[c] = NoEvent /\ checked[c] = 0
       /\ stage[c] \in {"checking", "loop"} => c \in subs
       /\ stage[c] = "loop" => checked[c] = Len(ReaderNames)
  /\ \A r \in Readers :
       /\ pc[r] \in {"evict", "putAgain"} => crowded[target[r]]
       /\ pc[r] = "ended" => error[r]

StreamOrder ==
  \A c \in Clients :
    /\ OrderedIn(sent[c], hand[c], queue[c])
    /\ \A e \in Events : Given(c, e) => e.seq <= Offered(e.src, c)

Connected(c) == stage[c] \in {"checking", "loop"} /\ ~crowded[c]

\* A client that keeps up has every event between its first and the last offered.
Complete ==
  \A c \in Clients : \A r \in Readers :
    Connected(c) =>
      /\ joined[c][r] <= Offered(r, c)
      /\ \A n \in 1..MaxEvents : n > joined[c][r] /\ n <= Offered(r, c) => Given(c, Event(r, n))
      /\ \A n \in 1..MaxEvents : Given(c, Event(r, n)) => n > joined[c][r]

\* It has the error of a reader, or it will look at it, or it will be told.
ErrorComes ==
  \A i \in DOMAIN ReaderNames : \A c \in Clients :
    error[ReaderNames[i]] /\ Connected(c) =>
      \/ Given(c, Event(ReaderNames[i], 0))
      \/ checked[c] < i
      \/ pc[ReaderNames[i]] = "publish"
      \/ c \in targets[ReaderNames[i]]

StreamInv == IInv /\ StreamControl /\ StreamOrder /\ Complete /\ ErrorComes

LEMMA StreamControlStep ==
  ASSUME IInv, StreamControl, [Next]_vars
  PROVE  StreamControl'
<1> USE SizeAssumption, NoneAssumption DEF IInv, TypeOK, Control, ReaderControl, StreamControl
<1>1. CASE UNCHANGED vars
  BY <1>1 DEF vars, readerVars, clientVars, historyVars
<1>2. ASSUME NEW r \in Readers, OpenDevice(r) PROVE StreamControl'
  BY <1>2 DEF OpenDevice, readerVars, clientVars, historyVars
<1>3. ASSUME NEW r \in Readers, OpenFails(r) PROVE StreamControl'
  BY <1>3 DEF OpenFails, readerVars, clientVars, historyVars
<1>4. ASSUME NEW r \in Readers, ReadEvent(r) PROVE StreamControl'
  BY <1>4 DEF ReadEvent, readerVars, clientVars, historyVars
<1>5. ASSUME NEW r \in Readers, DeviceLost(r) PROVE StreamControl'
  BY <1>5 DEF DeviceLost, readerVars, clientVars, historyVars
<1>6. ASSUME NEW r \in Readers, Snapshot(r) PROVE StreamControl'
  BY <1>6 DEF Snapshot, readerVars, clientVars, historyVars
<1>7. ASSUME NEW r \in Readers, NEW d \in Clients, Put(r, d) PROVE StreamControl'
  BY <1>7 DEF Put, readerVars, clientVars, historyVars
<1>8. ASSUME NEW r \in Readers, NEW d \in Clients, PutRaisesFull(r, d) PROVE StreamControl'
  BY <1>8 DEF PutRaisesFull, readerVars, clientVars, historyVars
<1>9. ASSUME NEW r \in Readers, Evict(r) PROVE StreamControl'
  BY <1>9 DEF Evict, readerVars, clientVars, historyVars
<1>10. ASSUME NEW r \in Readers, EvictRaisesEmpty(r) PROVE StreamControl'
  BY <1>10 DEF EvictRaisesEmpty, readerVars, clientVars, historyVars
<1>11. ASSUME NEW r \in Readers, PutAgain(r) PROVE StreamControl'
  BY <1>11 DEF PutAgain, readerVars, clientVars, historyVars
<1>12. ASSUME NEW r \in Readers, PutAgainRaisesFull(r) PROVE StreamControl'
  BY <1>12 DEF PutAgainRaisesFull, readerVars, clientVars, historyVars
<1>13. ASSUME NEW r \in Readers, Published(r) PROVE StreamControl'
  BY <1>13 DEF Published, readerVars, clientVars, historyVars
<1>14. ASSUME NEW d \in Clients, Subscribe(d) PROVE StreamControl'
  BY <1>14 DEF Subscribe, readerVars, clientVars, historyVars
<1>15. ASSUME NEW d \in Clients, CheckError(d) PROVE StreamControl'
  BY <1>15 DEF CheckError, readerVars, clientVars, historyVars
<1>16. ASSUME NEW d \in Clients, EnterLoop(d) PROVE StreamControl'
  BY <1>16 DEF EnterLoop, readerVars, clientVars, historyVars
<1>17. ASSUME NEW d \in Clients, Take(d) PROVE StreamControl'
  BY <1>17 DEF Take, readerVars, clientVars, historyVars
<1>18. ASSUME NEW d \in Clients, Send(d) PROVE StreamControl'
  BY <1>18 DEF Send, readerVars, clientVars, historyVars
<1>19. ASSUME NEW d \in Clients, Disconnect(d) PROVE StreamControl'
  BY <1>19 DEF Disconnect, readerVars, clientVars, historyVars
<1>20. ASSUME NEW d \in Clients, Unsubscribe(d) PROVE StreamControl'
  BY <1>20 DEF Unsubscribe, readerVars, clientVars, historyVars
<1> QED
  BY <1>1, <1>2, <1>3, <1>4, <1>5, <1>6, <1>7, <1>8, <1>9, <1>10, <1>11, <1>12, <1>13, <1>14, <1>15, <1>16, <1>17, <1>18, <1>19, <1>20
     DEF Next, ReaderStep, PublishStep, StreamStep

\* What a step may do to the stream of client c.
Quiet(c) == UNCHANGED <<sent[c], hand[c], queue[c]>>
Evicts(c) ==
  /\ crowded[c] /\ queue[c] # <<>> /\ queue'[c] = Tail(queue[c])
  /\ UNCHANGED <<sent[c], hand[c]>>
Gains(c, r) ==
  /\ c \in targets[r] /\ pc[r] \in {"put", "putAgain"}
  /\ queue'[c] = Append(queue[c], Event(r, seq[r]))
  /\ pc' = [pc EXCEPT ![r] = "put"] /\ targets' = [targets EXCEPT ![r] = @ \ {c}]
  /\ UNCHANGED <<error, seq, sent[c], hand[c]>>
Takes(c) ==
  /\ hand[c] = NoEvent /\ queue[c] # <<>>
  /\ hand'[c] = Head(queue[c]) /\ queue'[c] = Tail(queue[c]) /\ UNCHANGED sent[c]
Sends(c) ==
  /\ hand[c] \in Events /\ sent'[c] = Append(sent[c], hand[c]) /\ hand'[c] = NoEvent
  /\ UNCHANGED queue[c]
Leaves(c) == hand'[c] = NoEvent /\ stage'[c] = "closing" /\ UNCHANGED <<sent[c], queue[c]>>
Looks(c) ==
  /\ hand[c] = NoEvent
  /\ hand'[c] = NoEvent \/ \E r \in Readers : hand'[c] = Event(r, 0)
  /\ UNCHANGED <<sent[c], queue[c]>>
Change(c) ==
  \/ Quiet(c) \/ Evicts(c) \/ (\E r \in Readers : Gains(c, r))
  \/ Takes(c) \/ Sends(c) \/ Leaves(c) \/ Looks(c)

LEMMA StreamChanges ==
  ASSUME IInv, StreamControl, [Next]_vars, NEW c \in Clients
  PROVE  Change(c)
<1> USE SizeAssumption, NoneAssumption DEF IInv, TypeOK, Control, ReaderControl
<1>1. CASE UNCHANGED vars
  BY <1>1 DEF vars, clientVars, Change, Quiet
<1>2. ASSUME NEW r \in Readers, OpenDevice(r) PROVE Change(c)
  BY <1>2 DEF OpenDevice, clientVars, Change, Quiet
<1>3. ASSUME NEW r \in Readers, OpenFails(r) PROVE Change(c)
  BY <1>3 DEF OpenFails, clientVars, Change, Quiet
<1>4. ASSUME NEW r \in Readers, ReadEvent(r) PROVE Change(c)
  BY <1>4 DEF ReadEvent, clientVars, Change, Quiet
<1>5. ASSUME NEW r \in Readers, DeviceLost(r) PROVE Change(c)
  BY <1>5 DEF DeviceLost, clientVars, Change, Quiet
<1>6. ASSUME NEW r \in Readers, Snapshot(r) PROVE Change(c)
  BY <1>6 DEF Snapshot, clientVars, Change, Quiet
<1>7. ASSUME NEW r \in Readers, NEW d \in Clients, Put(r, d) PROVE Change(c)
  <2>1. CASE c = d
    <3>1. Gains(c, r)
      BY <1>7, <2>1 DEF Put, Gains, Publishing, clientVars
    <3> QED  BY <3>1 DEF Change
  <2>2. CASE c # d
    BY <1>7, <2>2 DEF Put, clientVars, Change, Quiet
  <2> QED  BY <2>1, <2>2
<1>8. ASSUME NEW r \in Readers, NEW d \in Clients, PutRaisesFull(r, d) PROVE Change(c)
  BY <1>8 DEF PutRaisesFull, clientVars, Change, Quiet
<1>9. ASSUME NEW r \in Readers, Evict(r) PROVE Change(c)
  <2>1. CASE c = target[r]
    <3>1. Evicts(c)
      BY <1>9, <2>1 DEF Evict, Evicts, StreamControl, clientVars
    <3> QED  BY <3>1 DEF Change
  <2>2. CASE c # target[r]
    BY <1>9, <2>2 DEF Evict, clientVars, Change, Quiet
  <2> QED  BY <2>1, <2>2
<1>10. ASSUME NEW r \in Readers, EvictRaisesEmpty(r) PROVE Change(c)
  BY <1>10 DEF EvictRaisesEmpty, clientVars, Change, Quiet
<1>11. ASSUME NEW r \in Readers, PutAgain(r) PROVE Change(c)
  <2>0. target[r] \in targets[r] /\ event[r] = Event(r, seq[r])
    BY <1>11 DEF PutAgain, Publishing
  <2>1. CASE c = target[r]
    <3>1. Gains(c, r)
      BY <1>11, <2>0, <2>1 DEF PutAgain, Gains, clientVars
    <3> QED  BY <3>1 DEF Change
  <2>2. CASE c # target[r]
    BY <1>11, <2>2 DEF PutAgain, clientVars, Change, Quiet
  <2> QED  BY <2>1, <2>2
<1>12. ASSUME NEW r \in Readers, PutAgainRaisesFull(r) PROVE Change(c)
  BY <1>12 DEF PutAgainRaisesFull, clientVars, Change, Quiet
<1>13. ASSUME NEW r \in Readers, Published(r) PROVE Change(c)
  BY <1>13 DEF Published, clientVars, Change, Quiet
<1>14. ASSUME NEW d \in Clients, Subscribe(d) PROVE Change(c)
  BY <1>14 DEF Subscribe, clientVars, Change, Quiet
<1>15. ASSUME NEW d \in Clients, CheckError(d) PROVE Change(c)
  <2>1. CASE c = d
    <3>1. ReaderNames[checked[c] + 1] \in Readers
      BY <1>15, <2>1 DEF CheckError, Readers
    <3>2. Looks(c)
      BY <1>15, <2>1, <3>1 DEF CheckError, Looks
    <3> QED  BY <3>2 DEF Change
  <2>2. CASE c # d
    BY <1>15, <2>2 DEF CheckError, Change, Quiet
  <2> QED  BY <2>1, <2>2
<1>16. ASSUME NEW d \in Clients, EnterLoop(d) PROVE Change(c)
  BY <1>16 DEF EnterLoop, clientVars, Change, Quiet
<1>17. ASSUME NEW d \in Clients, Take(d) PROVE Change(c)
  BY <1>17 DEF Take, Change, Takes, Quiet
<1>18. ASSUME NEW d \in Clients, Send(d) PROVE Change(c)
  BY <1>18 DEF Send, Change, Sends, Quiet
<1>19. ASSUME NEW d \in Clients, Disconnect(d) PROVE Change(c)
  BY <1>19 DEF Disconnect, Change, Leaves, Quiet
<1>20. ASSUME NEW d \in Clients, Unsubscribe(d) PROVE Change(c)
  BY <1>20 DEF Unsubscribe, clientVars, Change, Quiet
<1> QED
  BY <1>1, <1>2, <1>3, <1>4, <1>5, <1>6, <1>7, <1>8, <1>9, <1>10, <1>11, <1>12, <1>13, <1>14, <1>15, <1>16, <1>17, <1>18, <1>19, <1>20
     DEF Next, ReaderStep, PublishStep, StreamStep

LEMMA OfferedInt ==
  ASSUME TypeOK, NEW r \in Readers, NEW c
  PROVE  Offered(r, c) \in Int /\ Offered(r, c) <= seq[r]
  BY SizeAssumption DEF TypeOK, Offered, Snapped

\* What is offered to a client grows, and to one that is connected only by a put,
\* unless its queue was full.
Grows(r, c) ==
  /\ Offered(r, c)' >= Offered(r, c)
  /\ c \in subs /\ Offered(r, c)' # Offered(r, c) =>
       crowded[c] \/ (Gains(c, r) /\ Offered(r, c)' = Offered(r, c) + 1)

LEMMA OfferedGrows ==
  ASSUME IInv, StreamControl, [Next]_vars, NEW c \in Clients, NEW q \in Readers
  PROVE  Grows(q, c)
<1> USE SizeAssumption, NoneAssumption DEF IInv, TypeOK, Control, ReaderControl
<1>0. Offered(q, c) \in Int
  BY OfferedInt
<1>1. CASE UNCHANGED vars
  BY <1>0, <1>1 DEF vars, readerVars, Grows, Offered, Snapped
<1>2. ASSUME NEW r \in Readers, OpenDevice(r) PROVE Grows(q, c)
  BY <1>0, <1>2 DEF OpenDevice, readerVars, Grows, Offered, Snapped, Publishing
<1>3. ASSUME NEW r \in Readers, OpenFails(r) PROVE Grows(q, c)
  BY <1>0, <1>3 DEF OpenFails, readerVars, Grows, Offered, Snapped, Publishing
<1>4. ASSUME NEW r \in Readers, ReadEvent(r) PROVE Grows(q, c)
  BY <1>0, <1>4 DEF ReadEvent, readerVars, Grows, Offered, Snapped, Publishing
<1>5. ASSUME NEW r \in Readers, DeviceLost(r) PROVE Grows(q, c)
  BY <1>0, <1>5 DEF DeviceLost, readerVars, Grows, Offered, Snapped, Publishing
<1>6. ASSUME NEW r \in Readers, Snapshot(r) PROVE Grows(q, c)
  BY <1>0, <1>6 DEF Snapshot, readerVars, Grows, Offered, Snapped, Publishing
<1>7. ASSUME NEW r \in Readers, NEW d \in Clients, Put(r, d) PROVE Grows(q, c)
  <2>1. CASE r = q /\ c = d
    <3>1. Gains(c, q)
      BY <1>7, <2>1 DEF Put, Gains, Publishing, clientVars
    <3>2. Offered(q, c)' = Offered(q, c) + 1 \/ Offered(q, c)' = Offered(q, c)
      BY <1>7, <2>1 DEF Put, Offered, Snapped, Publishing
    <3> QED  BY <1>0, <3>1, <3>2 DEF Grows
  <2>2. CASE ~(r = q /\ c = d)
    <3>1. Offered(q, c)' = Offered(q, c)
      BY <1>7, <2>2 DEF Put, Offered, Snapped
    <3> QED  BY <1>0, <3>1 DEF Grows
  <2> QED  BY <2>1, <2>2
<1>8. ASSUME NEW r \in Readers, NEW d \in Clients, PutRaisesFull(r, d) PROVE Grows(q, c)
  BY <1>0, <1>8 DEF PutRaisesFull, readerVars, Grows, Offered, Snapped, Publishing
<1>9. ASSUME NEW r \in Readers, Evict(r) PROVE Grows(q, c)
  BY <1>0, <1>9 DEF Evict, readerVars, Grows, Offered, Snapped, Publishing
<1>10. ASSUME NEW r \in Readers, EvictRaisesEmpty(r) PROVE Grows(q, c)
  BY <1>0, <1>10 DEF EvictRaisesEmpty, Grows, Offered, Snapped, StreamControl
<1>11. ASSUME NEW r \in Readers, PutAgain(r) PROVE Grows(q, c)
  <2>1. CASE r = q /\ c = target[r]
    <3>1. Gains(c, q)
      BY <1>11, <2>1 DEF PutAgain, Gains, Publishing, clientVars
    <3>2. Offered(q, c)' = Offered(q, c) + 1 \/ Offered(q, c)' = Offered(q, c)
      BY <1>11, <2>1 DEF PutAgain, Offered, Snapped, Publishing
    <3> QED  BY <1>0, <3>1, <3>2 DEF Grows
  <2>2. CASE ~(r = q /\ c = target[r])
    <3>1. Offered(q, c)' = Offered(q, c)
      BY <1>11, <2>2 DEF PutAgain, Offered, Snapped
    <3> QED  BY <1>0, <3>1 DEF Grows
  <2> QED  BY <2>1, <2>2
<1>12. ASSUME NEW r \in Readers, PutAgainRaisesFull(r) PROVE Grows(q, c)
  BY <1>0, <1>12 DEF PutAgainRaisesFull, readerVars, Grows, Offered, Snapped, Publishing
<1>13. ASSUME NEW r \in Readers, Published(r) PROVE Grows(q, c)
  BY <1>0, <1>13 DEF Published, readerVars, Grows, Offered, Snapped, Publishing
<1>14. ASSUME NEW d \in Clients, Subscribe(d) PROVE Grows(q, c)
  BY <1>0, <1>14 DEF Subscribe, readerVars, Grows, Offered, Snapped, Publishing
<1>15. ASSUME NEW d \in Clients, CheckError(d) PROVE Grows(q, c)
  BY <1>0, <1>15 DEF CheckError, readerVars, Grows, Offered, Snapped, Publishing
<1>16. ASSUME NEW d \in Clients, EnterLoop(d) PROVE Grows(q, c)
  BY <1>0, <1>16 DEF EnterLoop, readerVars, Grows, Offered, Snapped, Publishing
<1>17. ASSUME NEW d \in Clients, Take(d) PROVE Grows(q, c)
  BY <1>0, <1>17 DEF Take, readerVars, Grows, Offered, Snapped, Publishing
<1>18. ASSUME NEW d \in Clients, Send(d) PROVE Grows(q, c)
  BY <1>0, <1>18 DEF Send, readerVars, Grows, Offered, Snapped, Publishing
<1>19. ASSUME NEW d \in Clients, Disconnect(d) PROVE Grows(q, c)
  BY <1>0, <1>19 DEF Disconnect, readerVars, Grows, Offered, Snapped, Publishing
<1>20. ASSUME NEW d \in Clients, Unsubscribe(d) PROVE Grows(q, c)
  BY <1>0, <1>20 DEF Unsubscribe, readerVars, Grows, Offered, Snapped, Publishing
<1> QED
  BY <1>1, <1>2, <1>3, <1>4, <1>5, <1>6, <1>7, <1>8, <1>9, <1>10, <1>11, <1>12, <1>13, <1>14, <1>15, <1>16, <1>17, <1>18, <1>19, <1>20
     DEF Next, ReaderStep, PublishStep, StreamStep

LEMMA OfferedNat ==
  ASSUME IInv, NEW r \in Readers, NEW c
  PROVE  Offered(r, c) \in Nat
<1>1. /\ seq[r] \in Nat /\ (error[r] => seq[r] = 0)
      /\ c \in targets[r] /\ ~error[r] => pc[r] # "publish" /\ seq[r] >= 1
      /\ pc[r] = "publish" /\ ~error[r] => seq[r] >= 1
  BY SizeAssumption DEF IInv, TypeOK, Control, ReaderControl, Publishing
<1> QED  BY <1>1 DEF Offered, Snapped

LEMMA GainsFacts ==
  ASSUME IInv, NEW r \in Readers, NEW c \in Clients, Gains(c, r)
  PROVE  /\ Offered(r, c)' = seq[r] /\ (seq[r] >= 1 => Offered(r, c) = seq[r] - 1)
         /\ Event(r, seq[r]) \in Events /\ Event(r, seq[r]).src = r /\ Event(r, seq[r]).seq = seq[r]
         /\ error[r] => seq[r] = 0
         /\ seq[r] \in Nat
<1>1. seq[r] \in 0..MaxEvents /\ seq[r] \in Nat /\ (error[r] => seq[r] = 0)
  BY SizeAssumption DEF IInv, TypeOK, Control, ReaderControl
<1>2. Offered(r, c)' = seq[r]
  BY DEF Gains, IInv, TypeOK, Offered, Snapped
<1>3. seq[r] >= 1 => Offered(r, c) = seq[r] - 1
  BY <1>1 DEF Gains, Offered, Snapped
<1> QED  BY <1>1, <1>2, <1>3, EventType

\* The order survives every change, and what is given comes from a put or is
\* the error of a reader.
LEMMA StreamChange ==
  ASSUME IInv, StreamOrder, NEW c \in Clients, Change(c)
  PROVE  /\ OrderedIn(sent'[c], hand'[c], queue'[c])
         /\ \A f \in Events :
              /\ GivenIn(sent'[c], hand'[c], queue'[c], f) =>
                   \/ Given(c, f) \/ f.seq = 0
                   \/ \E r \in Readers : Gains(c, r) /\ f = Event(r, seq[r])
              /\ Given(c, f) =>
                   GivenIn(sent'[c], hand'[c], queue'[c], f) \/ crowded[c] \/ stage'[c] = "closing"
         /\ \A r \in Readers : Gains(c, r) => GivenIn(sent'[c], hand'[c], queue'[c], Event(r, seq[r]))
<1> DEFINE s == sent[c]
           h == hand[c]
           q == queue[c]
<1>0. /\ s \in Seq(Events) /\ q \in Seq(Events) /\ h \in Events \cup {NoEvent} /\ OrderedIn(s, h, q)
      /\ \A f \in Events : f.seq \in Nat /\ f.src \in Readers
  <2>1. \A f \in Events : f.seq \in Nat /\ f.src \in Readers
    BY SizeAssumption DEF Events
  <2>2. s \in Seq(Events) /\ q \in Seq(Events) /\ h \in Events \cup {NoEvent}
    BY DEF IInv, TypeOK
  <2> QED  BY <2>1, <2>2 DEF StreamOrder
<1> DEFINE Goal ==
      /\ OrderedIn(sent'[c], hand'[c], queue'[c])
      /\ \A f \in Events :
           /\ GivenIn(sent'[c], hand'[c], queue'[c], f) =>
                \/ GivenIn(s, h, q, f) \/ f.seq = 0
                \/ \E r \in Readers : Gains(c, r) /\ f = Event(r, seq[r])
           /\ GivenIn(s, h, q, f) =>
                GivenIn(sent'[c], hand'[c], queue'[c], f) \/ crowded[c] \/ stage'[c] = "closing"
<1>1. CASE Quiet(c)
  <2>1. Goal
    BY <1>0, <1>1 DEF Quiet
  <2>2. ASSUME NEW r \in Readers, Gains(c, r) PROVE FALSE
    <3>1. queue[c] = Append(queue[c], Event(r, seq[r]))
      BY <1>1, <2>2 DEF Quiet, Gains
    <3>2. Len(q) = Len(q) + 1 /\ Len(q) \in Nat
      BY <1>0, <2>2, <3>1, GainsFacts
    <3> QED  BY <3>2
  <2> QED  BY <2>1, <2>2 DEF Given
<1>2. CASE Evicts(c)
  <2>1. OrderedIn(s, h, Tail(q)) /\ \A f : GivenIn(s, h, Tail(q), f) => GivenIn(s, h, q, f)
    BY <1>0, <1>2, OrderedTail DEF Evicts
  <2>2. Goal
    BY <1>2, <2>1 DEF Evicts
  <2>3. ASSUME NEW r \in Readers, Gains(c, r) PROVE FALSE
    <3>1. Tail(q) = Append(q, Event(r, seq[r])) /\ q # <<>>
      BY <1>2, <2>3 DEF Evicts, Gains
    <3>2. Len(q) - 1 = Len(q) + 1 /\ Len(q) \in Nat
      BY <1>0, <2>3, <3>1, GainsFacts
    <3> QED  BY <3>2
  <2> QED  BY <2>2, <2>3 DEF Given
<1>3. ASSUME NEW r \in Readers, Gains(c, r) PROVE Goal
  <2> DEFINE e == Event(r, seq[r])
  <2>1. e \in Events /\ e.src = r /\ e.seq = seq[r] /\ seq[r] \in Nat
        /\ (seq[r] >= 1 => Offered(r, c) = seq[r] - 1)
    BY <1>3, GainsFacts
  <2>2. queue'[c] = Append(q, e) /\ sent'[c] = s /\ hand'[c] = h
    BY <1>3 DEF Gains
  <2> HIDE DEF e
  <2>3. ASSUME NEW f \in Events, GivenIn(s, h, q, f) PROVE Before(f, e)
    <3>1. f.seq <= Offered(f.src, c)
      BY <2>3 DEF StreamOrder, Given
    <3> QED  BY <1>0, <2>1, <3>1 DEF Before
  <2>4. /\ OrderedIn(s, h, Append(q, e))
        /\ \A f : GivenIn(s, h, Append(q, e), f) <=> GivenIn(s, h, q, f) \/ f = e
    BY <1>0, <2>1, <2>3, OrderedAppend
  <2> QED  BY <1>3, <2>2, <2>4 DEF e
<1>4. ASSUME NEW r \in Readers, Gains(c, r)
      PROVE  GivenIn(sent'[c], hand'[c], queue'[c], Event(r, seq[r]))
  <2> DEFINE e == Event(r, seq[r])
             t == Append(q, e)
  <2>1. e \in Events /\ queue'[c] = t
    BY <1>4, GainsFacts DEF Gains
  <2> HIDE DEF e
  <2>2. Len(q) + 1 \in DOMAIN t /\ t[Len(q) + 1] = e
    BY <1>0, <2>1
  <2> HIDE DEF t
  <2>3. GivenIn(sent'[c], hand'[c], queue'[c], e)
    BY <2>1, <2>2 DEF GivenIn, Holds
  <2> QED  BY <2>3 DEF e
<1>5. CASE Takes(c)
  <2>1. /\ OrderedIn(s, Head(q), Tail(q))
        /\ \A f \in Events : GivenIn(s, Head(q), Tail(q), f) <=> GivenIn(s, NoEvent, q, f)
    BY <1>0, <1>5, OrderedTake DEF Takes
  <2> QED  BY <1>4, <1>5, <2>1 DEF Takes, Given
<1>6. CASE Sends(c)
  <2>1. /\ OrderedIn(Append(s, h), NoEvent, q)
        /\ \A f \in Events : GivenIn(Append(s, h), NoEvent, q, f) <=> GivenIn(s, h, q, f)
    BY <1>0, <1>6, OrderedSend DEF Sends
  <2> QED  BY <1>4, <1>6, <2>1 DEF Sends, Given
<1>7. CASE Leaves(c)
  <2>1. OrderedIn(s, NoEvent, q)
    BY <1>0 DEF OrderedIn
  <2>2. \A f \in Events : f # NoEvent
    BY NoneAssumption
  <2> QED  BY <1>4, <1>7, <2>1, <2>2 DEF Leaves, Given, GivenIn
<1>8. CASE Looks(c)
  <2>1. hand'[c] = NoEvent \/ hand'[c].seq = 0
    <3>1. \A r \in Readers : Event(r, 0).seq = 0
      BY DEF Event
    <3> QED  BY <1>8, <3>1 DEF Looks
  <2>2. OrderedIn(s, hand'[c], q)
    BY <1>0, <2>1 DEF OrderedIn, Before
  <2>3. \A f \in Events : f # NoEvent
    BY NoneAssumption
  <2> QED  BY <1>4, <1>8, <2>1, <2>2, <2>3 DEF Looks, Given, GivenIn
<1> QED  BY <1>1, <1>2, <1>3, <1>4, <1>5, <1>6, <1>7, <1>8 DEF Change, Given

LEMMA StreamOrderStep ==
  ASSUME IInv, StreamControl, StreamOrder, [Next]_vars
  PROVE  StreamOrder'
<1> SUFFICES ASSUME NEW c \in Clients
             PROVE  /\ OrderedIn(sent'[c], hand'[c], queue'[c])
                    /\ \A f \in Events :
                         GivenIn(sent'[c], hand'[c], queue'[c], f) => f.seq <= Offered(f.src, c)'
  BY DEF StreamOrder, Given
<1>1. Change(c)
  BY StreamChanges
<1>2. OrderedIn(sent'[c], hand'[c], queue'[c])
  BY <1>1, StreamChange
<1>3. ASSUME NEW f \in Events, GivenIn(sent'[c], hand'[c], queue'[c], f)
      PROVE  f.seq <= Offered(f.src, c)'
  <2>1. f.src \in Readers /\ f.seq \in Nat
    BY SizeAssumption DEF Events
  <2> DEFINE r == f.src
  <2>2. /\ Offered(r, c)' >= Offered(r, c) /\ Offered(r, c) \in Nat
    BY <2>1, OfferedGrows, OfferedNat DEF Grows
  <2>3. IInv'
    BY IInvStep
  <2>4. Offered(r, c)' \in Int
    <3>1. TypeOK'
      BY <2>3 DEF IInv
    <3>2. seq'[r] \in Int
      BY <2>1, <3>1, SizeAssumption DEF TypeOK
    <3> QED  BY <3>2 DEF Offered, Snapped
  <2>5. CASE Given(c, f)
    <3>1. f.seq <= Offered(r, c)
      BY <2>5 DEF StreamOrder
    <3> QED  BY <2>1, <2>2, <2>4, <3>1
  <2>6. CASE f.seq = 0
    BY <2>2, <2>4, <2>6
  <2>7. ASSUME NEW q \in Readers, Gains(c, q), f = Event(q, seq[q])
        PROVE  f.seq <= Offered(f.src, c)'
    BY <2>7, GainsFacts
  <2> QED  BY <1>1, <1>3, <2>5, <2>6, <2>7, StreamChange
<1> QED  BY <1>2, <1>3

LEMMA Connects ==
  ASSUME IInv, StreamControl, [Next]_vars, NEW c \in Clients, Connected(c)'
  PROVE  (Connected(c) /\ joined'[c] = joined[c]) \/ Subscribe(c)
<1> USE DEF IInv, TypeOK, Connected
<1> DEFINE Was == (Connected(c) /\ joined'[c] = joined[c]) \/ Subscribe(c)
<1>1. CASE UNCHANGED vars
  BY <1>1 DEF vars, clientVars, historyVars
<1>2. ASSUME NEW r \in Readers, OpenDevice(r) PROVE Was
  BY <1>2 DEF OpenDevice, clientVars, historyVars
<1>3. ASSUME NEW r \in Readers, OpenFails(r) PROVE Was
  BY <1>3 DEF OpenFails, clientVars, historyVars
<1>4. ASSUME NEW r \in Readers, ReadEvent(r) PROVE Was
  BY <1>4 DEF ReadEvent, clientVars, historyVars
<1>5. ASSUME NEW r \in Readers, DeviceLost(r) PROVE Was
  BY <1>5 DEF DeviceLost, clientVars, historyVars
<1>6. ASSUME NEW r \in Readers, Snapshot(r) PROVE Was
  BY <1>6 DEF Snapshot, clientVars, historyVars
<1>7. ASSUME NEW r \in Readers, NEW d \in Clients, Put(r, d) PROVE Was
  BY <1>7 DEF Put, clientVars, historyVars
<1>8. ASSUME NEW r \in Readers, NEW d \in Clients, PutRaisesFull(r, d) PROVE Was
  BY <1>8 DEF PutRaisesFull, clientVars, historyVars
<1>9. ASSUME NEW r \in Readers, Evict(r) PROVE Was
  BY <1>9 DEF Evict, clientVars, historyVars
<1>10. ASSUME NEW r \in Readers, EvictRaisesEmpty(r) PROVE Was
  BY <1>10 DEF EvictRaisesEmpty, clientVars, historyVars
<1>11. ASSUME NEW r \in Readers, PutAgain(r) PROVE Was
  BY <1>11 DEF PutAgain, clientVars, historyVars
<1>12. ASSUME NEW r \in Readers, PutAgainRaisesFull(r) PROVE Was
  BY <1>12 DEF PutAgainRaisesFull, clientVars, historyVars
<1>13. ASSUME NEW r \in Readers, Published(r) PROVE Was
  BY <1>13 DEF Published, clientVars, historyVars
<1>14. ASSUME NEW d \in Clients, Subscribe(d) PROVE Was
  BY <1>14 DEF Subscribe, clientVars, historyVars
<1>15. ASSUME NEW d \in Clients, CheckError(d) PROVE Was
  BY <1>15 DEF CheckError, clientVars, historyVars
<1>16. ASSUME NEW d \in Clients, EnterLoop(d) PROVE Was
  BY <1>16 DEF EnterLoop, clientVars, historyVars
<1>17. ASSUME NEW d \in Clients, Take(d) PROVE Was
  BY <1>17 DEF Take, clientVars, historyVars
<1>18. ASSUME NEW d \in Clients, Send(d) PROVE Was
  BY <1>18 DEF Send, clientVars, historyVars
<1>19. ASSUME NEW d \in Clients, Disconnect(d) PROVE Was
  BY <1>19 DEF Disconnect, clientVars, historyVars
<1>20. ASSUME NEW d \in Clients, Unsubscribe(d) PROVE Was
  BY <1>20 DEF Unsubscribe, clientVars, historyVars
<1> QED
  BY <1>1, <1>2, <1>3, <1>4, <1>5, <1>6, <1>7, <1>8, <1>9, <1>10, <1>11, <1>12, <1>13, <1>14, <1>15, <1>16, <1>17, <1>18, <1>19, <1>20
     DEF Next, ReaderStep, PublishStep, StreamStep

LEMMA CompleteStep ==
  ASSUME IInv, StreamControl, StreamOrder, Complete, [Next]_vars
  PROVE  Complete'
<1> SUFFICES ASSUME NEW c \in Clients, NEW r \in Readers, Connected(c)'
             PROVE  /\ joined'[c][r] <= Offered(r, c)'
                    /\ \A n \in 1..MaxEvents :
                         n > joined'[c][r] /\ n <= Offered(r, c)' => Given(c, Event(r, n))'
                    /\ \A n \in 1..MaxEvents : Given(c, Event(r, n))' => n > joined'[c][r]
  BY DEF Complete
<1>1. /\ Change(c) /\ Grows(r, c) /\ joined[c][r] \in Int /\ seq[r] \in Int
      /\ Offered(r, c) \in Nat
  BY StreamChanges, OfferedGrows, OfferedNat, SizeAssumption DEF IInv, TypeOK
<1>2. Offered(r, c)' \in Nat
  <2>1. IInv'
    BY IInvStep
  <2>2. seq'[r] \in Int
    BY <2>1, SizeAssumption DEF IInv, TypeOK
  <2>3. Offered(r, c)' \in Int
    BY <2>2 DEF Offered, Snapped
  <2> QED  BY <1>1, <2>3 DEF Grows
<1>3. \A n \in 1..MaxEvents : Event(r, n) \in Events /\ Event(r, n).src = r /\ Event(r, n).seq = n
  BY SizeAssumption, EventType
<1>4. CASE Connected(c) /\ joined'[c] = joined[c]
  <2>1. /\ joined[c][r] <= Offered(r, c)
        /\ \A n \in 1..MaxEvents : n > joined[c][r] /\ n <= Offered(r, c) => Given(c, Event(r, n))
        /\ \A n \in 1..MaxEvents : Given(c, Event(r, n)) => n > joined[c][r]
    BY <1>4 DEF Complete
  <2>2. ~crowded[c] /\ c \in subs /\ stage'[c] # "closing"
    BY <1>4 DEF Connected, StreamControl
  <2>3. ASSUME NEW n \in 1..MaxEvents, Given(c, Event(r, n)) PROVE Given(c, Event(r, n))'
    BY <1>1, <1>3, <2>2, <2>3, StreamChange DEF Given, Event
  <2>4. ASSUME NEW n \in 1..MaxEvents, Given(c, Event(r, n))', ~Given(c, Event(r, n))
        PROVE  Gains(c, r) /\ n = seq[r]
    <3>1. \E p \in Readers : Gains(c, p) /\ Event(r, n) = Event(p, seq[p])
      <4>1. n # 0
        OBVIOUS
      <4> QED  BY <1>1, <1>3, <2>4, <4>1, StreamChange DEF Given, Event
    <3> QED  BY <1>3, <3>1, GainsFacts
  <2>5. CASE Gains(c, r)
    <3>1. /\ Offered(r, c)' = seq[r] /\ (seq[r] >= 1 => Offered(r, c) = seq[r] - 1)
      BY <2>5, GainsFacts
    <3>2. Given(c, Event(r, seq[r]))'
      BY <1>1, <2>5, StreamChange DEF Given, Gains
    <3>3. ASSUME NEW n \in 1..MaxEvents, n > joined[c][r], n <= seq[r] PROVE Given(c, Event(r, n))'
      <4>1. CASE n = seq[r]
        BY <2>5, <3>2, <4>1 DEF Gains, Given, Event
      <4>2. CASE n # seq[r]
        <5>1. n <= Offered(r, c)
          BY <1>1, <3>1, <3>3, <4>2
        <5> QED  BY <2>1, <2>3, <3>3, <5>1
      <4> QED  BY <4>1, <4>2
    <3>4. ASSUME NEW n \in 1..MaxEvents, Given(c, Event(r, n))' PROVE n > joined[c][r]
      BY <1>1, <2>1, <2>4, <3>1, <3>4
    <3>5. joined[c][r] <= Offered(r, c)'
      BY <1>1, <1>2, <2>1 DEF Grows
    <3> QED  BY <1>4, <3>1, <3>3, <3>4, <3>5
  <2>6. CASE ~Gains(c, r)
    <3>1. Offered(r, c)' = Offered(r, c)
      BY <1>1, <2>2, <2>6 DEF Grows
    <3> QED  BY <1>4, <2>1, <2>3, <2>4, <2>6, <3>1
  <2> QED  BY <2>5, <2>6
<1>5. CASE Subscribe(c)
  <2>1. /\ queue'[c] = <<>> /\ sent'[c] = <<>> /\ hand'[c] = NoEvent
        /\ joined'[c][r] = Snapped(r) /\ Offered(r, c)' = Snapped(r)
    BY <1>5 DEF Subscribe, readerVars, StreamControl, IInv, TypeOK, Control, ClientControl,
                Offered, Snapped
  <2>2. \A n \in 1..MaxEvents : ~Given(c, Event(r, n))'
    BY <1>3, <2>1, NoneAssumption DEF Given, GivenIn, Holds, Event
  <2> QED  BY <1>2, <2>1, <2>2
<1> QED  BY <1>4, <1>5, Connects

\* Where the error of reader r comes from, and where it does not get lost.
Pending(c, r) ==
  \/ Subscribe(c)
  \/ pc'[r] = "publish"
  \/ /\ error[r] /\ Connected(c)
     /\ \/ checked'[c] = checked[c]
        \/ checked'[c] = checked[c] + 1
           /\ (r = ReaderNames[checked[c] + 1] => hand'[c] = Event(r, 0))
     /\ pc[r] = "publish" => c \in targets'[r]
     /\ c \in targets[r] => c \in targets'[r] \/ Gains(c, r)

LEMMA ErrorPending ==
  ASSUME IInv, StreamControl, [Next]_vars, NEW c \in Clients, Connected(c)',
         NEW q \in Readers, error'[q]
  PROVE  Pending(c, q)
<1> USE DEF IInv, TypeOK, Connected, StreamControl
<1>1. CASE UNCHANGED vars
  BY <1>1 DEF vars, readerVars, clientVars, historyVars, Pending
<1>2. ASSUME NEW r \in Readers, OpenDevice(r) PROVE Pending(c, q)
  BY <1>2 DEF OpenDevice, readerVars, clientVars, historyVars, Pending
<1>3. ASSUME NEW r \in Readers, OpenFails(r) PROVE Pending(c, q)
  BY <1>3 DEF OpenFails, readerVars, clientVars, historyVars, Pending
<1>4. ASSUME NEW r \in Readers, ReadEvent(r) PROVE Pending(c, q)
  BY <1>4 DEF ReadEvent, readerVars, clientVars, historyVars, Pending
<1>5. ASSUME NEW r \in Readers, DeviceLost(r) PROVE Pending(c, q)
  BY <1>5 DEF DeviceLost, readerVars, clientVars, historyVars, Pending
<1>6. ASSUME NEW r \in Readers, Snapshot(r) PROVE Pending(c, q)
  BY <1>6 DEF Snapshot, readerVars, clientVars, historyVars, Pending
<1>7. ASSUME NEW r \in Readers, NEW d \in Clients, Put(r, d) PROVE Pending(c, q)
  <2>1. CASE r = q /\ c = d
    <3>1. Gains(c, q)
      BY <1>7, <2>1 DEF Put, Gains, Control, ReaderControl, Publishing, clientVars
    <3> QED  BY <1>7, <2>1, <3>1 DEF Put, Pending, Gains, clientVars, historyVars
  <2>2. CASE ~(r = q /\ c = d)
    BY <1>7, <2>2 DEF Put, Pending, clientVars, historyVars
  <2> QED  BY <2>1, <2>2
<1>8. ASSUME NEW r \in Readers, NEW d \in Clients, PutRaisesFull(r, d) PROVE Pending(c, q)
  BY <1>8 DEF PutRaisesFull, readerVars, clientVars, historyVars, Pending
<1>9. ASSUME NEW r \in Readers, Evict(r) PROVE Pending(c, q)
  BY <1>9 DEF Evict, readerVars, clientVars, historyVars, Pending
<1>10. ASSUME NEW r \in Readers, EvictRaisesEmpty(r) PROVE Pending(c, q)
  BY <1>10 DEF EvictRaisesEmpty, readerVars, clientVars, historyVars, Pending
<1>11. ASSUME NEW r \in Readers, PutAgain(r) PROVE Pending(c, q)
  <2>1. CASE r = q /\ c = target[r]
    <3>1. Gains(c, q)
      BY <1>11, <2>1 DEF PutAgain, Gains, Control, ReaderControl, Publishing, clientVars
    <3> QED  BY <1>11, <2>1, <3>1 DEF PutAgain, Pending, Gains, clientVars, historyVars
  <2>2. CASE ~(r = q /\ c = target[r])
    BY <1>11, <2>2 DEF PutAgain, Pending, clientVars, historyVars
  <2> QED  BY <2>1, <2>2
<1>12. ASSUME NEW r \in Readers, PutAgainRaisesFull(r) PROVE Pending(c, q)
  BY <1>12 DEF PutAgainRaisesFull, readerVars, clientVars, historyVars, Pending
<1>13. ASSUME NEW r \in Readers, Published(r) PROVE Pending(c, q)
  BY <1>13 DEF Published, readerVars, clientVars, historyVars, Pending
<1>14. ASSUME NEW d \in Clients, Subscribe(d) PROVE Pending(c, q)
  BY <1>14 DEF Subscribe, readerVars, clientVars, historyVars, Pending
<1>15. ASSUME NEW d \in Clients, CheckError(d) PROVE Pending(c, q)
  BY <1>15 DEF CheckError, readerVars, clientVars, historyVars, Pending
<1>16. ASSUME NEW d \in Clients, EnterLoop(d) PROVE Pending(c, q)
  BY <1>16 DEF EnterLoop, readerVars, clientVars, historyVars, Pending
<1>17. ASSUME NEW d \in Clients, Take(d) PROVE Pending(c, q)
  BY <1>17 DEF Take, readerVars, clientVars, historyVars, Pending
<1>18. ASSUME NEW d \in Clients, Send(d) PROVE Pending(c, q)
  BY <1>18 DEF Send, readerVars, clientVars, historyVars, Pending
<1>19. ASSUME NEW d \in Clients, Disconnect(d) PROVE Pending(c, q)
  BY <1>19 DEF Disconnect, readerVars, clientVars, historyVars, Pending
<1>20. ASSUME NEW d \in Clients, Unsubscribe(d) PROVE Pending(c, q)
  BY <1>20 DEF Unsubscribe, readerVars, clientVars, historyVars, Pending
<1> QED
  BY <1>1, <1>2, <1>3, <1>4, <1>5, <1>6, <1>7, <1>8, <1>9, <1>10, <1>11, <1>12, <1>13, <1>14, <1>15, <1>16, <1>17, <1>18, <1>19, <1>20
     DEF Next, ReaderStep, PublishStep, StreamStep

LEMMA ErrorComesStep ==
  ASSUME IInv, StreamControl, StreamOrder, ErrorComes, [Next]_vars
  PROVE  ErrorComes'
<1> SUFFICES ASSUME NEW i \in DOMAIN ReaderNames, NEW c \in Clients,
                    error'[ReaderNames[i]], Connected(c)'
             PROVE  \/ Given(c, Event(ReaderNames[i], 0))'
                    \/ checked'[c] < i
                    \/ pc'[ReaderNames[i]] = "publish"
                    \/ c \in targets'[ReaderNames[i]]
  BY DEF ErrorComes
<1>1. PICK r \in Readers : r = ReaderNames[i]
  BY DEF Readers
<1>2. Pending(c, r) /\ Change(c) /\ Event(r, 0) \in Events
  BY <1>1, ErrorPending, StreamChanges, EventType, SizeAssumption
<1>3. i \in Nat /\ i >= 1 /\ checked[c] \in Nat
  BY ReaderNamesAssumption DEF IInv, TypeOK
<1>4. CASE Subscribe(c)
  BY <1>3, <1>4 DEF Subscribe, StreamControl
<1>5. CASE /\ error[r] /\ Connected(c)
           /\ \/ checked'[c] = checked[c]
              \/ checked'[c] = checked[c] + 1
                 /\ (r = ReaderNames[checked[c] + 1] => hand'[c] = Event(r, 0))
           /\ pc[r] = "publish" => c \in targets'[r]
           /\ c \in targets[r] => c \in targets'[r] \/ Gains(c, r)
  <2>1. CASE Given(c, Event(r, 0))
    <3>1. ~crowded[c] /\ stage'[c] # "closing"
      BY <1>5 DEF Connected
    <3>2. Given(c, Event(r, 0))'
      BY <1>2, <2>1, <3>1, StreamChange DEF Given, Event
    <3> QED  BY <1>1, <3>2 DEF Given, Event
  <2>2. CASE checked[c] < i
    <3>1. CASE checked'[c] < i
      BY <3>1
    <3>2. CASE ~(checked'[c] < i)
      <4>1. checked'[c] = checked[c] + 1 /\ checked[c] + 1 = i
        BY <1>3, <1>5, <2>2, <3>2
      <4>2. hand'[c] = Event(r, 0)
        BY <1>1, <1>3, <1>5, <4>1
      <4> QED  BY <1>1, <4>2 DEF Given, GivenIn, Event
    <3> QED  BY <3>1, <3>2
  <2>3. CASE Gains(c, r)
    <3>1. seq[r] = 0
      BY <1>5, <2>3, GainsFacts
    <3>2. GivenIn(sent'[c], hand'[c], queue'[c], Event(r, 0))
      BY <1>2, <2>3, <3>1, StreamChange
    <3> QED  BY <1>1, <3>2 DEF Given, Event
  <2> QED  BY <1>1, <1>5, <2>1, <2>2, <2>3 DEF ErrorComes
<1> QED  BY <1>1, <1>2, <1>4, <1>5 DEF Pending

LEMMA InitStreams == Init => StreamInv
<1> SUFFICES ASSUME Init PROVE StreamInv
  OBVIOUS
<1>1. IInv
  BY InitIInv
<1>2. StreamControl
  BY DEF Init, StreamControl
<1>3. StreamOrder
  BY NoneAssumption DEF Init, StreamOrder, OrderedIn, Ordered, Given, GivenIn, Holds
<1>4. Complete /\ ErrorComes
  BY DEF Init, Complete, ErrorComes, Connected
<1> QED  BY <1>1, <1>2, <1>3, <1>4 DEF StreamInv

LEMMA StreamsStep == StreamInv /\ [Next]_vars => StreamInv'
  BY IInvStep, StreamControlStep, StreamOrderStep, CompleteStep, ErrorComesStep DEF StreamInv

LEMMA StreamsHold == Spec => []StreamInv
  BY InitStreams, StreamsStep, PTL DEF Spec

\* What is in a stream is what was written, is in the hand or is in the queue.
LEMMA StreamParts ==
  ASSUME TypeOK, NEW c \in Clients
  PROVE  /\ \A e : e # NoEvent => (InStream(c, e) <=> Given(c, e))
         /\ OrderedIn(sent[c], hand[c], queue[c]) =>
              \A i, j \in DOMAIN Stream(c) : i < j => Before(Stream(c)[i], Stream(c)[j])
<1> DEFINE s == sent[c]
           h == IF hand[c] = NoEvent THEN <<>> ELSE <<hand[c]>>
           q == queue[c]
           t == s \o h \o q
<1>1. /\ s \in Seq(Events) /\ h \in Seq(Events) /\ q \in Seq(Events)
      /\ hand[c] \in Events \cup {NoEvent}
  BY DEF TypeOK
<1>2. /\ hand[c] = NoEvent => Len(h) = 0
      /\ hand[c] # NoEvent => Len(h) = 1 /\ h[1] = hand[c]
  OBVIOUS
<1> HIDE DEF s, h, q
<1>3. /\ Len(t) = Len(s) + Len(h) + Len(q) /\ DOMAIN t = 1 .. Len(s) + Len(h) + Len(q)
      /\ \A k \in DOMAIN s : t[k] = s[k] /\ k \in DOMAIN t
      /\ \A k \in DOMAIN h : t[Len(s) + k] = h[k] /\ Len(s) + k \in DOMAIN t
      /\ \A k \in DOMAIN q : t[Len(s) + Len(h) + k] = q[k] /\ Len(s) + Len(h) + k \in DOMAIN t
  BY <1>1
<1>4. /\ Len(s) \in Nat /\ Len(h) \in Nat /\ Len(q) \in Nat /\ DOMAIN s = 1 .. Len(s)
      /\ DOMAIN h = 1 .. Len(h) /\ DOMAIN q = 1 .. Len(q)
  BY <1>1
<1>5. t = Stream(c)
  BY DEF Stream, s, h, q
<1> HIDE DEF t
<1>6. \A k \in DOMAIN t :
        \/ k \in DOMAIN s /\ t[k] = s[k]
        \/ hand[c] # NoEvent /\ k = Len(s) + 1 /\ Len(h) = 1 /\ t[k] = hand[c]
        \/ k - Len(s) - Len(h) \in DOMAIN q /\ t[k] = q[k - Len(s) - Len(h)]
  <2> SUFFICES ASSUME NEW k \in DOMAIN t
               PROVE  \/ k \in DOMAIN s /\ t[k] = s[k]
                      \/ hand[c] # NoEvent /\ k = Len(s) + 1 /\ Len(h) = 1 /\ t[k] = hand[c]
                      \/ k - Len(s) - Len(h) \in DOMAIN q /\ t[k] = q[k - Len(s) - Len(h)]
    OBVIOUS
  <2>1. CASE k <= Len(s)
    BY <1>3, <1>4, <2>1
  <2>2. CASE k > Len(s) /\ k <= Len(s) + Len(h)
    <3>1. Len(h) = 1 /\ hand[c] # NoEvent /\ k = Len(s) + 1
      BY <1>2, <1>3, <1>4, <2>2
    <3>2. t[k] = h[1]
      BY <1>3, <1>4, <3>1
    <3> QED  BY <1>2, <3>1, <3>2
  <2>3. CASE k > Len(s) + Len(h)
    <3>1. k - Len(s) - Len(h) \in DOMAIN q
      BY <1>3, <1>4, <2>3
    <3>2. Len(s) + Len(h) + (k - Len(s) - Len(h)) = k
      BY <1>3, <1>4
    <3>3. t[Len(s) + Len(h) + (k - Len(s) - Len(h))] = q[k - Len(s) - Len(h)]
      BY <1>3, <3>1
    <3> QED  BY <3>1, <3>2, <3>3
  <2> QED  BY <1>3, <1>4, <2>1, <2>2, <2>3
<1>7. ASSUME NEW e, e # NoEvent PROVE Holds(t, e) <=> GivenIn(s, hand[c], q, e)
  <2>1. Holds(t, e) => GivenIn(s, hand[c], q, e)
    BY <1>6 DEF Holds, GivenIn
  <2>2. ASSUME hand[c] = e PROVE Holds(t, e)
    <3>1. 1 \in DOMAIN h /\ h[1] = e
      BY <1>2, <1>4, <1>7, <2>2
    <3> QED  BY <1>3, <3>1 DEF Holds
  <2>3. Holds(s, e) \/ Holds(q, e) => Holds(t, e)
    BY <1>3 DEF Holds
  <2> QED  BY <2>1, <2>2, <2>3 DEF GivenIn
<1>8. ASSUME OrderedIn(s, hand[c], q), NEW i \in DOMAIN t, NEW j \in DOMAIN t, i < j
      PROVE  Before(t[i], t[j])
  <2>1. CASE i \in DOMAIN s /\ t[i] = s[i]
    BY <1>4, <1>6, <1>8, <2>1 DEF OrderedIn, Ordered
  <2>2. CASE hand[c] # NoEvent /\ i = Len(s) + 1 /\ Len(h) = 1 /\ t[i] = hand[c]
    <3>1. j - Len(s) - Len(h) \in DOMAIN q /\ t[j] = q[j - Len(s) - Len(h)]
      BY <1>3, <1>4, <1>6, <1>8, <2>2
    <3> QED  BY <1>8, <2>2, <3>1 DEF OrderedIn
  <2>3. CASE i - Len(s) - Len(h) \in DOMAIN q /\ t[i] = q[i - Len(s) - Len(h)]
    <3>1. ~(j \in DOMAIN s) /\ ~(j = Len(s) + 1 /\ Len(h) = 1)
      BY <1>3, <1>4, <1>8, <2>3
    <3>2. j - Len(s) - Len(h) \in DOMAIN q /\ t[j] = q[j - Len(s) - Len(h)]
      BY <1>6, <3>1
    <3>3. i - Len(s) - Len(h) < j - Len(s) - Len(h)
      BY <1>3, <1>4, <1>8
    <3> QED  BY <1>8, <2>3, <3>2, <3>3 DEF OrderedIn, Ordered
  <2> QED  BY <1>6, <2>1, <2>2, <2>3
<1> QED  BY <1>5, <1>7, <1>8 DEF InStream, Given, Holds, s, q

LEMMA InOrderAll ==
  ASSUME StreamInv, NEW c \in Clients, NEW r \in Readers
  PROVE  InOrder(c, r)
<1>1. TypeOK /\ OrderedIn(sent[c], hand[c], queue[c])
  BY DEF StreamInv, IInv, StreamOrder
<1>2. \A i, j \in DOMAIN Stream(c) : i < j => Before(Stream(c)[i], Stream(c)[j])
  BY <1>1, StreamParts
<1> QED  BY <1>2 DEF InOrder, Before

\* An event is given to a client at most once and never after a later one of its
\* reader, however the steps of publish(), of another reader's publish() and of
\* the client's handler interleave.
THEOREM StreamsNeverRepeat == Spec => []NeverRepeats
<1>1. StreamInv => NeverRepeats
  BY InOrderAll DEF NeverRepeats
<1> QED  BY <1>1, StreamsHold, PTL

\* A client whose queue was never full gets every event that is published after
\* its subscribe(), once and in order, and none from before.
THEOREM FastClientsGetAll == Spec => []KeepsUpGetsAll
<1>1. StreamInv => KeepsUpGetsAll
  <2> SUFFICES ASSUME StreamInv, NEW c \in Clients, NEW r \in Readers, Connected(c)
               PROVE  /\ InOrder(c, r)
                      /\ \A n \in 1..MaxEvents :
                           InStream(c, Event(r, n)) <=> n \in joined[c][r] + 1 .. Offered(r, c)
    BY DEF KeepsUpGetsAll, Connected
  <2>1. TypeOK /\ joined[c][r] \in Int /\ Offered(r, c) \in Int /\ IInv
    BY OfferedInt, SizeAssumption DEF StreamInv, IInv, TypeOK
  <2>2. ASSUME NEW n \in 1..MaxEvents
        PROVE  InStream(c, Event(r, n)) <=> n \in joined[c][r] + 1 .. Offered(r, c)
    <3>1. /\ Event(r, n) \in Events /\ Event(r, n).src = r /\ Event(r, n).seq = n
          /\ Event(r, n) # NoEvent
      BY EventType, SizeAssumption, NoneAssumption
    <3>2. InStream(c, Event(r, n)) <=> Given(c, Event(r, n))
      BY <2>1, <3>1, StreamParts
    <3>3. Given(c, Event(r, n)) => n <= Offered(r, c)
      BY <3>1 DEF StreamInv, StreamOrder
    <3>4. /\ n > joined[c][r] /\ n <= Offered(r, c) => Given(c, Event(r, n))
          /\ Given(c, Event(r, n)) => n > joined[c][r]
      BY DEF StreamInv, Complete
    <3> QED  BY <2>1, <3>2, <3>3, <3>4
  <2> QED  BY <2>2, InOrderAll
<1> QED  BY <1>1, StreamsHold, PTL

\* A reader that could not open its device is shown as failed to every client in
\* its loop whose queue was never full (run() sets error before it publishes it,
\* _stream looks after it has subscribed).
THEOREM ErrorIsShown == Spec => []ErrorIsInStream
<1>1. StreamInv => ErrorIsInStream
  <2> SUFFICES ASSUME StreamInv, NEW r \in Readers, NEW c \in Clients,
                      pc[r] = "ended", stage[c] = "loop", ~crowded[c]
               PROVE  InStream(c, Event(r, 0))
    BY DEF ErrorIsInStream
  <2>1. PICK i \in DOMAIN ReaderNames : r = ReaderNames[i]
    BY DEF Readers
  <2>2. /\ error[r] /\ Connected(c) /\ checked[c] = Len(ReaderNames)
        /\ targets[r] = {} /\ TypeOK
    BY DEF StreamInv, StreamControl, Connected, IInv, Control, ReaderControl
  <2>3. ~(checked[c] < i)
    BY <2>2, ReaderNamesAssumption
  <2>4. Given(c, Event(r, 0))
    BY <2>1, <2>2, <2>3 DEF StreamInv, ErrorComes
  <2>5. Event(r, 0) # NoEvent
    BY EventType, SizeAssumption, NoneAssumption
  <2> QED  BY <2>2, <2>4, <2>5, StreamParts
<1> QED  BY <1>1, StreamsHold, PTL

=============================================================================
