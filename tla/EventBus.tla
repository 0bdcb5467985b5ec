------------------------------ MODULE EventBus ------------------------------
(***************************************************************************)
(* The event fan-out of scripts/tvbox-panel.py: the reader threads         *)
(* (LircReader, InputReader) publish events on an EventBus, and one HTTP   *)
(* handler thread per connected browser (Handler._stream) subscribes a     *)
(* bounded queue.Queue and sends what it gets from it.                     *)
(*                                                                         *)
(* publish() copies the set of subscribers under the lock and then works   *)
(* on the queues without it, so a put, the get that evicts and the second  *)
(* put are separate steps here: queue.Queue makes each of them atomic and  *)
(* nothing makes them atomic together.  The bodies guarded by the bus lock *)
(* are single steps.                                                       *)
(***************************************************************************)
EXTENDS Integers, Sequences

CONSTANTS
  ReaderNames,  \* the readers, in the order _stream looks at their errors
  Clients,      \* stream connections; each is used once and has its own queue
  MaxSize,      \* EventBus(maxsize): the capacity of a subscriber's queue
  MaxEvents,    \* bound of the model: events a reader may get from its device
  NoEvent, NoClient

Readers == {ReaderNames[i] : i \in DOMAIN ReaderNames}

ASSUME ReaderNamesAssumption ==
  /\ ReaderNames \in Seq(Readers)
  /\ \A i, j \in DOMAIN ReaderNames : ReaderNames[i] = ReaderNames[j] => i = j
ASSUME SizeAssumption == MaxSize \in Nat \ {0} /\ MaxEvents \in Nat

\* A reader numbers its events from 1; 0 is its "error" event.
Events == [src : Readers, seq : 0..MaxEvents]
Event(r, n) == [src |-> r, seq |-> n]

ASSUME NoneAssumption == NoEvent \notin Events /\ NoClient \notin Clients

VARIABLES
  pc,       \* pc[r]: where reader thread r is
  error,    \* error[r]: r.error is set
  seq,      \* seq[r]: r._sequence
  event,    \* event[r]: the argument of the publish() r is in
  targets,  \* targets[r]: queues of the snapshot that r has still to serve
  target,   \* target[r]: the queue whose put_nowait has raised Full
  subs,     \* EventBus._subscribers
  queue,    \* queue[c]: what connection c's queue.Queue holds
  stage,    \* stage[c]: where connection c's _stream is
  checked,  \* checked[c]: how many readers' errors it has looked at
  hand,     \* hand[c]: the event it is sending
  sent,     \* sent[c]: history of the events written to c
  crowded,  \* crowded[c]: history, some put to c's queue has raised Full
  joined    \* joined[c][r]: history, r's last snapshot when c subscribed

readerVars  == <<pc, error, seq, event, targets, target>>
clientVars  == <<stage, checked, hand, sent>>
historyVars == <<crowded, joined>>
vars == <<readerVars, subs, queue, clientVars, historyVars>>

Init ==
  /\ pc = [r \in Readers |-> "start"]
  /\ error = [r \in Readers |-> FALSE]
  /\ seq = [r \in Readers |-> 0]
  /\ event = [r \in Readers |-> NoEvent]
  /\ targets = [r \in Readers |-> {}]
  /\ target = [r \in Readers |-> NoClient]
  /\ subs = {}
  /\ queue = [c \in Clients |-> <<>>]
  /\ stage = [c \in Clients |-> "new"]
  /\ checked = [c \in Clients |-> 0]
  /\ hand = [c \in Clients |-> NoEvent]
  /\ sent = [c \in Clients |-> <<>>]
  /\ crowded = [c \in Clients |-> FALSE]
  /\ joined = [c \in Clients |-> [r \in Readers |-> 0]]

-----------------------------------------------------------------------------
(* The reader threads.                                                     *)

Full(c) == Len(queue[c]) >= MaxSize

\* The device opens and the thread enters its read loop.
OpenDevice(r) ==
  /\ pc[r] = "start"
  /\ pc' = [pc EXCEPT ![r] = "reading"]
  /\ UNCHANGED <<error, seq, event, targets, target, subs, queue, clientVars, historyVars>>

\* open() fails: self.error is set before the error is published.
OpenFails(r) ==
  /\ pc[r] = "start"
  /\ pc' = [pc EXCEPT ![r] = "publish"]
  /\ error' = [error EXCEPT ![r] = TRUE]
  /\ event' = [event EXCEPT ![r] = Event(r, 0)]
  /\ UNCHANGED <<seq, targets, target, subs, queue, clientVars, historyVars>>

\* A burst or scancode is complete: _flush / _emit numbers it and publishes.
ReadEvent(r) ==
  /\ pc[r] = "reading"
  /\ seq[r] < MaxEvents
  /\ pc' = [pc EXCEPT ![r] = "publish"]
  /\ seq' = [seq EXCEPT ![r] = @ + 1]
  /\ event' = [event EXCEPT ![r] = Event(r, seq[r] + 1)]
  /\ UNCHANGED <<error, targets, target, subs, queue, clientVars, historyVars>>

\* fd.read() raises (the device is gone): the exception ends the thread and
\* nobody sets self.error.
DeviceLost(r) ==
  /\ pc[r] = "reading"
  /\ pc' = [pc EXCEPT ![r] = "lost"]
  /\ UNCHANGED <<error, seq, event, targets, target, subs, queue, clientVars, historyVars>>

\* publish: the subscribers are copied under the lock.
Snapshot(r) ==
  /\ pc[r] = "publish"
  /\ pc' = [pc EXCEPT ![r] = "put"]
  /\ targets' = [targets EXCEPT ![r] = subs]
  /\ UNCHANGED <<error, seq, event, target, subs, queue, clientVars, historyVars>>

\* Mutant: the loop does not go on to the next target.
PutStays(r, c) ==
  /\ pc[r] = "put"
  /\ c \in targets[r]
  /\ ~Full(c)
  /\ queue' = [queue EXCEPT ![c] = Append(@, event[r])]
  /\ UNCHANGED <<pc, error, seq, event, targets, target, subs, clientVars, historyVars>>

\* put_nowait succeeds and the loop goes on to the next target.
Put(r, c) ==
  /\ pc[r] = "put"
  /\ c \in targets[r]
  /\ ~Full(c)
  /\ queue' = [queue EXCEPT ![c] = Append(@, event[r])]
  /\ targets' = [targets EXCEPT ![r] = @ \ {c}]
  /\ UNCHANGED <<pc, error, seq, event, target, subs, clientVars, historyVars>>

\* Mutant: a put that waits for the client to make room.
PutWaits(r, c) ==
  /\ pc[r] = "put"
  /\ c \in targets[r]
  /\ Full(c)
  /\ UNCHANGED vars

\* put_nowait raises Full.
PutRaisesFull(r, c) ==
  /\ pc[r] = "put"
  /\ c \in targets[r]
  /\ Full(c)
  /\ pc' = [pc EXCEPT ![r] = "evict"]
  /\ target' = [target EXCEPT ![r] = c]
  /\ crowded' = [crowded EXCEPT ![c] = TRUE]
  /\ UNCHANGED <<error, seq, event, targets, subs, queue, clientVars, joined>>

\* Mutant: the eviction takes the newest event.
EvictNewest(r) ==
  /\ pc[r] = "evict"
  /\ queue[target[r]] # <<>>
  /\ queue' = [queue EXCEPT ![target[r]] = SubSeq(@, 1, Len(@) - 1)]
  /\ pc' = [pc EXCEPT ![r] = "putAgain"]
  /\ UNCHANGED <<error, seq, event, targets, target, subs, clientVars, historyVars>>

\* get_nowait drops whatever is now the head of that queue.
Evict(r) ==
  /\ pc[r] = "evict"
  /\ queue[target[r]] # <<>>
  /\ queue' = [queue EXCEPT ![target[r]] = Tail(@)]
  /\ pc' = [pc EXCEPT ![r] = "putAgain"]
  /\ UNCHANGED <<error, seq, event, targets, target, subs, clientVars, historyVars>>

\* Mutant: Empty ends the loop over the targets.
EmptyEndsLoop(r) ==
  /\ pc[r] = "evict"
  /\ queue[target[r]] = <<>>
  /\ pc' = [pc EXCEPT ![r] = "put"]
  /\ targets' = [targets EXCEPT ![r] = {}]
  /\ target' = [target EXCEPT ![r] = NoClient]
  /\ UNCHANGED <<error, seq, event, subs, queue, clientVars, historyVars>>

\* The client has drained its queue meanwhile: get_nowait raises Empty, which
\* is swallowed, and the loop goes on to the next target.
EvictRaisesEmpty(r) ==
  /\ pc[r] = "evict"
  /\ queue[target[r]] = <<>>
  /\ pc' = [pc EXCEPT ![r] = "put"]
  /\ targets' = [targets EXCEPT ![r] = @ \ {target[r]}]
  /\ target' = [target EXCEPT ![r] = NoClient]
  /\ UNCHANGED <<error, seq, event, subs, queue, clientVars, historyVars>>

\* Mutant: the queue is not bounded by the second put.
PutAgainUnbounded(r) ==
  /\ pc[r] = "putAgain"
  /\ queue' = [queue EXCEPT ![target[r]] = Append(@, event[r])]
  /\ pc' = [pc EXCEPT ![r] = "put"]
  /\ targets' = [targets EXCEPT ![r] = @ \ {target[r]}]
  /\ target' = [target EXCEPT ![r] = NoClient]
  /\ UNCHANGED <<error, seq, event, subs, clientVars, historyVars>>

\* The second put_nowait.
PutAgain(r) ==
  /\ pc[r] = "putAgain"
  /\ ~Full(target[r])
  /\ queue' = [queue EXCEPT ![target[r]] = Append(@, event[r])]
  /\ pc' = [pc EXCEPT ![r] = "put"]
  /\ targets' = [targets EXCEPT ![r] = @ \ {target[r]}]
  /\ target' = [target EXCEPT ![r] = NoClient]
  /\ UNCHANGED <<error, seq, event, subs, clientVars, historyVars>>

\* The other reader has filled the place the get made: the second put_nowait
\* raises Full, which "except queue.Empty" does not catch.  The exception
\* leaves publish() and run(), and the thread is gone.
PutAgainRaisesFull(r) ==
  /\ pc[r] = "putAgain"
  /\ Full(target[r])
  /\ pc' = [pc EXCEPT ![r] = "crashed"]
  /\ UNCHANGED <<error, seq, event, targets, target, subs, queue, clientVars, historyVars>>

\* publish returns: to the read loop or, after the error event, out of run().
Published(r) ==
  /\ pc[r] = "put"
  /\ targets[r] = {}
  /\ pc' = [pc EXCEPT ![r] = IF error[r] THEN "ended" ELSE "reading"]
  /\ event' = [event EXCEPT ![r] = NoEvent]
  /\ UNCHANGED <<error, seq, targets, target, subs, queue, clientVars, historyVars>>

-----------------------------------------------------------------------------
(* The stream handlers.                                                    *)

\* The last event of r whose snapshot has been taken.
Snapped(r) == IF pc[r] = "publish" /\ ~error[r] THEN seq[r] - 1 ELSE seq[r]

\* subscribe(), before the readers' errors are looked at.
Subscribe(c) ==
  /\ stage[c] = "new"
  /\ stage' = [stage EXCEPT ![c] = "checking"]
  /\ subs' = subs \cup {c}
  /\ joined' = [joined EXCEPT ![c] = [r \in Readers |-> Snapped(r)]]
  /\ UNCHANGED <<readerVars, queue, checked, hand, sent, crowded>>

\* Mutant: the errors set before the client came are not resent.
CheckNothing(c) ==
  /\ stage[c] = "checking"
  /\ hand[c] = NoEvent
  /\ checked[c] < Len(ReaderNames)
  /\ checked' = [checked EXCEPT ![c] = @ + 1]
  /\ UNCHANGED <<readerVars, subs, queue, stage, hand, sent, historyVars>>

\* One turn of "for reader in (lirc, input)": the error is resent if it is set.
CheckError(c) ==
  /\ stage[c] = "checking"
  /\ hand[c] = NoEvent
  /\ checked[c] < Len(ReaderNames)
  /\ LET r == ReaderNames[checked[c] + 1]
     IN  hand' = [hand EXCEPT ![c] = IF error[r] THEN Event(r, 0) ELSE NoEvent]
  /\ checked' = [checked EXCEPT ![c] = @ + 1]
  /\ UNCHANGED <<readerVars, subs, queue, stage, sent, historyVars>>

\* Mutant: what came while the errors were sent is thrown away.
EnterLoopEmpty(c) ==
  /\ stage[c] = "checking"
  /\ hand[c] = NoEvent
  /\ checked[c] = Len(ReaderNames)
  /\ stage' = [stage EXCEPT ![c] = "loop"]
  /\ queue' = [queue EXCEPT ![c] = <<>>]
  /\ UNCHANGED <<readerVars, subs, checked, hand, sent, historyVars>>

EnterLoop(c) ==
  /\ stage[c] = "checking"
  /\ hand[c] = NoEvent
  /\ checked[c] = Len(ReaderNames)
  /\ stage' = [stage EXCEPT ![c] = "loop"]
  /\ UNCHANGED <<readerVars, subs, queue, checked, hand, sent, historyVars>>

\* Mutant: the event that was got is not sent.
TakeAndForget(c) ==
  /\ stage[c] = "loop"
  /\ hand[c] = NoEvent
  /\ queue[c] # <<>>
  /\ queue' = [queue EXCEPT ![c] = Tail(@)]
  /\ UNCHANGED <<readerVars, subs, stage, checked, hand, sent, historyVars>>

\* q.get() returns an event.
Take(c) ==
  /\ stage[c] = "loop"
  /\ hand[c] = NoEvent
  /\ queue[c] # <<>>
  /\ hand' = [hand EXCEPT ![c] = Head(queue[c])]
  /\ queue' = [queue EXCEPT ![c] = Tail(@)]
  /\ UNCHANGED <<readerVars, subs, stage, checked, sent, historyVars>>

\* _send_event writes the event to the socket.
Send(c) ==
  /\ stage[c] \in {"checking", "loop"}
  /\ hand[c] # NoEvent
  /\ sent' = [sent EXCEPT ![c] = Append(@, hand[c])]
  /\ hand' = [hand EXCEPT ![c] = NoEvent]
  /\ UNCHANGED <<readerVars, subs, queue, stage, checked, historyVars>>

\* The browser has gone: writing an event, or a keepalive after 15 s with
\* nothing to get, raises, and control passes to the finally clause.
Disconnect(c) ==
  /\ \/ stage[c] \in {"checking", "loop"} /\ hand[c] # NoEvent
     \/ stage[c] = "loop" /\ queue[c] = <<>>
  /\ stage' = [stage EXCEPT ![c] = "closing"]
  /\ hand' = [hand EXCEPT ![c] = NoEvent]
  /\ UNCHANGED <<readerVars, subs, queue, checked, sent, historyVars>>

\* finally: unsubscribe.
Unsubscribe(c) ==
  /\ stage[c] = "closing"
  /\ stage' = [stage EXCEPT ![c] = "gone"]
  /\ subs' = subs \ {c}
  /\ UNCHANGED <<readerVars, queue, checked, hand, sent, historyVars>>

-----------------------------------------------------------------------------

\* The steps of publish(): they wait for no other thread.
PublishStep(r) ==
  \/ Snapshot(r) \/ Published(r)
  \/ \E c \in Clients : Put(r, c) \/ PutRaisesFull(r, c)
  \/ Evict(r) \/ EvictRaisesEmpty(r) \/ PutAgain(r) \/ PutAgainRaisesFull(r)

ReaderStep(r) ==
  OpenDevice(r) \/ OpenFails(r) \/ ReadEvent(r) \/ DeviceLost(r) \/ PublishStep(r)

\* The steps of a handler thread whose browser reads what it is sent.
StreamStep(c) ==
  CheckError(c) \/ EnterLoop(c) \/ Take(c) \/ Send(c) \/ Unsubscribe(c)

Next ==
  \/ \E r \in Readers : ReaderStep(r)
  \/ \E c \in Clients : Subscribe(c) \/ StreamStep(c) \/ Disconnect(c)

Spec == Init /\ [][Next]_vars

\* A runnable thread runs.  Devices owe no events and browsers need neither
\* connect, nor read, nor leave: no fairness for their actions.
PublisherFairness == \A r \in Readers : WF_vars(PublishStep(r))
PublisherFairSpec == Spec /\ PublisherFairness

\* The connected browsers read their streams, so that no write blocks for ever.
BrowsersRead == \A c \in Clients : WF_vars(StreamStep(c))

-----------------------------------------------------------------------------
(* Properties.                                                             *)

TypeOK ==
  /\ pc \in [Readers -> {"start", "reading", "publish", "put", "evict",
                         "putAgain", "ended", "lost", "crashed"}]
  /\ error \in [Readers -> BOOLEAN]
  /\ seq \in [Readers -> 0..MaxEvents]
  /\ event \in [Readers -> Events \cup {NoEvent}]
  /\ targets \in [Readers -> SUBSET Clients]
  /\ target \in [Readers -> Clients \cup {NoClient}]
  /\ subs \subseteq Clients
  /\ queue \in [Clients -> Seq(Events)]
  /\ \A c \in Clients : Len(queue[c]) <= MaxSize
  /\ stage \in [Clients -> {"new", "checking", "loop", "closing", "gone"}]
  /\ checked \in [Clients -> 0..Len(ReaderNames)]
  /\ hand \in [Clients -> Events \cup {NoEvent}]
  /\ sent \in [Clients -> Seq(Events)]
  /\ crowded \in [Clients -> BOOLEAN]
  /\ joined \in [Clients -> [Readers -> 0..MaxEvents]]

\* The last event of r that r has finished putting, or trying to put, in c's
\* queue.
Offered(r, c) ==
  IF c \in targets[r] /\ ~error[r] THEN Snapped(r) - 1 ELSE Snapped(r)
OfferedTo(c) == [r \in Readers |-> Offered(r, c)]

\* With an event of a reader the queue q holds, behind it, every later one up
\* to the last that was offered.
Unholed(q, offered) ==
  \A i \in DOMAIN q :
    /\ q[i].seq <= offered[q[i].src]
    /\ \A n \in q[i].seq + 1 .. offered[q[i].src] :
         \E j \in i + 1 .. Len(q) : q[j] = Event(q[i].src, n)

\* What the queue of a connected client holds of a reader has no holes.  So a
\* slow client loses its oldest events, as EventBus promises, whatever the
\* threads' interleaving, the swallowed Empty and a crashed reader included.
LosesOnlyOldest ==
  \A c \in subs : Unholed(queue[c], OfferedTo(c))

\* What c has been or will be given, oldest first.
Stream(c) ==
  sent[c] \o (IF hand[c] = NoEvent THEN <<>> ELSE <<hand[c]>>) \o queue[c]
InStream(c, e) == \E i \in DOMAIN Stream(c) : Stream(c)[i] = e

\* The numbered events of r are in it once each and in order.
InOrder(c, r) ==
  \A i, j \in DOMAIN Stream(c) :
    LET e == Stream(c)[i]
        f == Stream(c)[j]
    IN  i < j /\ e.src = r /\ f.src = r /\ e.seq > 0 /\ f.seq > 0 => e.seq < f.seq

\* No client, however slow, is given an event twice or after a later event of
\* the same reader, although an eviction and the put that follows it are not
\* one step.
NeverRepeats == \A c \in Clients : \A r \in Readers : InOrder(c, r)

\* A client that was never too slow misses nothing: from the moment it
\* subscribes it gets each event of each reader once and in order, and none from
\* before, although publish() uses the queues outside the lock and subscribers
\* come and go at any step of it.
KeepsUpGetsAll ==
  \A c \in Clients : \A r \in Readers :
    stage[c] \in {"checking", "loop"} /\ ~crowded[c] =>
      /\ InOrder(c, r)
      /\ \A n \in 1..MaxEvents :
           InStream(c, Event(r, n)) <=> n \in joined[c][r] + 1 .. Offered(r, c)

\* publish() never waits for a client: a reader that starts to publish goes
\* back to its device, whatever the clients do (or is killed by the put that
\* raises; see ReaderSurvivesClients).
NeverStalls ==
  \A r \in Readers :
    pc[r] = "publish" ~> pc[r] \in {"reading", "ended", "crashed"}

\* A reader that could not open its device is shown as failed to every client
\* that has entered its loop, whether it connected before, during or after the
\* failure: the error is set before it is published, and looked at after
\* subscribing.  Only a queue that was full may have lost the event.
ErrorIsInStream ==
  \A r \in Readers, c \in Clients :
    pc[r] = "ended" /\ stage[c] = "loop" /\ ~crowded[c]
      => InStream(c, Event(r, 0))

Written(c, e) == \E i \in DOMAIN sent[c] : sent[c][i] = e

\* If the browsers read, an event in the queue of one is written to it, unless the
\* browser leaves; only from a queue that has been full can it disappear instead,
\* by an eviction.
QueuedIsWritten ==
  BrowsersRead =>
    \A r \in Readers, c \in Clients : \A n \in 0..MaxEvents :
      (\E i \in DOMAIN queue[c] : queue[c][i] = Event(r, n))
        ~> \/ Written(c, Event(r, n)) \/ stage[c] \in {"closing", "gone"}
           \/ crowded[c] /\ ~InStream(c, Event(r, n))

\* "A client that stops reading loses its oldest events rather than stalling
\* the reader threads" (EventBus, tvbox-panel.py:84-85): no client kills one
\* either.  Two readers that publish to a full queue at the same time refute it.
ReaderSurvivesClients == \A r \in Readers : pc[r] # "crashed"

\* The same docstring, the other way round: what is lost is the oldest.  With
\* one reader, once publish() has returned the newest event is in the stream of
\* each client connected since before.  The swallowed Empty refutes it.
NewestIsKept ==
  \A c \in Clients : \A r \in Readers :
    /\ stage[c] \in {"checking", "loop"}
    /\ pc[r] = "reading"
    /\ seq[r] > joined[c][r]
    => InStream(c, Event(r, seq[r]))

=============================================================================
