---------------------------- MODULE InputReader ----------------------------
(***************************************************************************)
(* InputReader of scripts/tvbox-panel.py: the thread that turns the events *)
(* of /dev/input/event0 into the scancodes that it publishes (EventBus has *)
(* the publishing itself, and what becomes of the thread if a read fails). *)
(* The kernel is not part of the repository; it is modelled as run() uses  *)
(* it: rc-core sends packets of events, each ended by EV_SYN, and the      *)
(* device keeps those that are not read yet in a buffer of fixed size.     *)
(***************************************************************************)
EXTENDS Integers, SequencesExt, Keymaps

VARIABLES
  buffer,        \* the events that run() has not read
  lastScan,      \* rc-core: the last scancode
  held,          \* rc-core: the key that is down, or NoKey
  pending_scan,  \* run()'s pending_scan
  published,     \* what _emit has just published, None if nothing
  sent           \* history: what the packet that pending_scan is from said

kernel == <<lastScan, held>>
vars == <<buffer, lastScan, held, pending_scan, published, sent>>

Init ==
  /\ buffer = <<>>
  /\ lastScan = 0 /\ held = NoKey
  /\ pending_scan = None
  /\ published = None
  /\ sent = None

-----------------------------------------------------------------------------
(* The kernel.                                                             *)

\* An event's value is signed.
Signed(s) == IF s < ScanSize \div 2 THEN s ELSE s - ScanSize

\* packet is a history: the scancode and the key that its packet carries.
MscEvent(s, key) ==
  [type |-> "msc", value |-> Signed(s), packet |-> [scancode |-> s, key |-> key]]
KeyEvent(key, value) == [type |-> "key", code |-> key, value |-> value]
SynReport == [type |-> "syn", code |-> "report"]
SynDropped == [type |-> "syn", code |-> "dropped"]

\* evdev: an event that finds the buffer full takes the place of all others.
Pass(events, packet) ==
  LET upTo[n \in 0..Len(packet)] ==
        IF n = 0 THEN events
        ELSE IF Len(upTo[n - 1]) = BufferSize THEN <<SynDropped, packet[n]>>
        ELSE Append(upTo[n - 1], packet[n])
  IN  upTo[Len(packet)]

Send(packet) ==
  /\ buffer' = Pass(buffer, packet \o <<SynReport>>)
  /\ published' = None
  /\ UNCHANGED <<pending_scan, sent>>

Release == IF held = NoKey THEN <<>> ELSE <<KeyEvent(held, 0)>>

\* A scancode that is not that of the key held down: the key goes up first, and
\* the new one, if the scancode has any, goes down.
ScanNew(s) ==
  /\ held = NoKey \/ s # lastScan
  /\ lastScan' = s /\ held' = Keymap[s]
  /\ Send(Release \o <<MscEvent(s, Keymap[s])>>
            \o (IF Keymap[s] = NoKey THEN <<>> ELSE <<KeyEvent(Keymap[s], 1)>>))

\* The remote repeats: only the scancode is sent again.
ScanRepeat ==
  /\ Send(<<MscEvent(lastScan, NoKey)>>)
  /\ UNCHANGED kernel

\* The input layer repeats the key held down.
KeyRepeat ==
  /\ held # NoKey
  /\ Send(<<KeyEvent(held, 2)>>)
  /\ UNCHANGED kernel

\* rc-core's timer: the remote has stopped.
KeyUp ==
  /\ held # NoKey
  /\ held' = NoKey
  /\ Send(Release)
  /\ UNCHANGED lastScan

Kernel == (\E s \in Scancodes : ScanNew(s)) \/ ScanRepeat \/ KeyRepeat \/ KeyUp

-----------------------------------------------------------------------------
(* The reader.                                                             *)

Event == Head(buffer)
Read ==
  /\ buffer # <<>>
  /\ buffer' = Tail(buffer)
  /\ UNCHANGED kernel

\* value & 0xFFFFFFFF
Unsigned(value) == value % ScanSize

\* _emit
Emit(scancode, keycode, pressed) ==
  published' = IF scancode = None THEN None
               ELSE [scancode |-> scancode, keycode |-> keycode, pressed |-> pressed]

ReadScan ==
  /\ Read
  /\ Event.type = "msc"
  /\ pending_scan' = Unsigned(Event.value)
  /\ sent' = Event.packet
  /\ published' = None

\* Mutant: pending_scan is not cleared.
KeyKeepsScan ==
  /\ Read
  /\ Event.type = "key"
  /\ Emit(pending_scan, Event.code, Event.value # 0)
  /\ UNCHANGED <<pending_scan, sent>>

\* EV_KEY: the scancode before it in the packet has this key.
ReadKey ==
  /\ Read
  /\ Event.type = "key"
  /\ Emit(pending_scan, Event.code, Event.value # 0)
  /\ pending_scan' = None
  /\ UNCHANGED sent

\* Mutant: a scancode without a key waits for one.
SynIgnored ==
  /\ Read
  /\ Event.type = "syn"
  /\ published' = None
  /\ UNCHANGED <<pending_scan, sent>>

\* Mutant: only SYN_REPORT ends a packet.
SynReportOnly ==
  /\ Read
  /\ Event.type = "syn"
  /\ IF Event.code = "report"
     THEN Emit(pending_scan, None, None) /\ pending_scan' = None
     ELSE published' = None /\ UNCHANGED pending_scan
  /\ UNCHANGED sent

\* EV_SYN of any code: a scancode that still waits has no key in its packet.
ReadSyn ==
  /\ Read
  /\ Event.type = "syn"
  /\ Emit(pending_scan, None, None)
  /\ pending_scan' = None
  /\ UNCHANGED sent

Run == ReadScan \/ ReadKey \/ ReadSyn

Next == Run \/ Kernel

Spec == Init /\ [][Next]_vars

-----------------------------------------------------------------------------
(* Properties.                                                             *)

Packets == [scancode : Scancodes, key : Keys \cup {NoKey}]
Events ==
  {MscEvent(p.scancode, p.key) : p \in Packets} \cup {SynReport, SynDropped}
    \cup {KeyEvent(k, v) : k \in Keys, v \in 0..2}

TypeOK ==
  /\ buffer \in Seq(Events) /\ Len(buffer) <= BufferSize
  /\ lastScan \in Scancodes /\ held \in Keys \cup {NoKey}
  /\ pending_scan \in Scancodes \cup {None}
  /\ published \in {None} \cup [scancode : Scancodes, keycode : Keys \cup {None},
                                pressed : BOOLEAN \cup {None}]
  /\ sent \in Packets \cup {None}

\* The scancodes that are on the way from the device to the page.
ScansIn(events) ==
  LET upTo[n \in 0..Len(events)] ==
        IF n = 0 THEN <<>>
        ELSE IF events[n].type = "msc" THEN Append(upTo[n - 1], events[n].packet.scancode)
        ELSE upTo[n - 1]
  IN  upTo[Len(events)]
OnTheWay(events, pending) ==
  (IF pending = None THEN <<>> ELSE <<pending>>) \o ScansIn(events)

\* No scancode that the device still has is lost, published twice or out of
\* order by the reader: a read takes one from those on the way only to publish
\* it, and publishes nothing else.
ScansArePublishedOnce ==
  [][buffer # <<>> /\ buffer' = Tail(buffer)
       => OnTheWay(buffer, pending_scan) =
            (IF published' = None THEN <<>> ELSE <<published'.scancode>>)
              \o OnTheWay(buffer', pending_scan')]_vars

\* A scancode is published with the key of its own packet, never with that of
\* another, and only a press is; without a key only if the packet has none, or
\* if the kernel dropped the key because the reader was late.
KeyGoesWithItsScan ==
  [][published' # None
       => /\ published'.scancode = sent.scancode
          /\ \/ published'.keycode = sent.key /\ published'.pressed = TRUE
             \/ /\ published'.keycode = None /\ published'.pressed = None
                /\ sent.key = NoKey \/ Event = SynDropped]_vars

\* While run() waits for the remote, no scancode waits in it: one that has no
\* key is published without the help of the next packet.
NothingWaits == buffer = <<>> => pending_scan = None

=============================================================================
