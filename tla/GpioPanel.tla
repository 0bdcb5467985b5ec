------------------------------ MODULE GpioPanel ------------------------------
(***************************************************************************)
(* The GPIO explorer: handler threads of scripts/tvbox-panel.py            *)
(* (_handle_gpio, gpio_pulse, GpioBaseline) that run                       *)
(* scripts/tvbox-gpio-helper.py through sudo, and the PL061 banks it       *)
(* writes to, which the kernel's LED driver shares.                        *)
(*                                                                         *)
(* Each HTTP request has a thread, each helper call a process: nothing     *)
(* orders the register accesses of two requests.  A helper's "dir" reads   *)
(* GPIODIR and writes it back, two steps; its "set" is one masked write,   *)
(* its "restore" one write of the whole register.  A call may fail (sudo   *)
(* refuses, the 10 s timeout, a helper that dies) without any effect,      *)
(* after the read, or when the register has been written already.          *)
(***************************************************************************)
EXTENDS Naturals

CONSTANTS
  Handlers,   \* the threads that serve requests
  Banks, Pins,
  Reserved,   \* RESERVED_LINES, <<bank, pin>> pairs claimed by a kernel driver
  Requests,   \* the requests that the page, or any HTTP client, may post
  Failures,   \* TRUE: a helper call may fail
  BadPin      \* a pin number that check_pin refuses

\* {"pulse": s}, or any mix of {"direction": d} and {"level": l}, posted to
\* /api/gpio/<bank>/<pin>; and a post to /api/gpio/restore.  The helper refuses
\* what is "bad", the handler a level that is no number at all.
RequestType ==
  [kind : {"pulse", "direct", "restore"}, bank : Banks, pin : Pins \cup {BadPin},
   direction : {"in", "out", "bad", "none"}, level : {"0", "1", "bad", "nan", "none"}]

ASSUME LinesAssumption == Reserved \subseteq Banks \X Pins /\ BadPin \notin Pins
ASSUME RequestsAssumption == Requests # {} /\ Requests \subseteq RequestType
ASSUME FailuresAssumption == Failures \in BOOLEAN

\* No GPIODIR value has been read: the value of no register.
NoMask == {BadPin}

VARIABLES
  dir,        \* dir[b]: GPIODIR of bank b, the pins that are outputs
  latch,      \* latch[b]: the pins of b whose output level is high
  pc,         \* pc[h]: the helper call that handler h is in, or "idle"
  req,        \* req[h]: the request h serves
  original,   \* original[h]: gpio_pulse's copy of GPIODIR
  read,       \* read[h]: the GPIODIR that h's helper has read, in cmd_dir
  raising,    \* raising[h]: the status that the exception on its way through
              \* finally will give, or "none"
  status,     \* status[h]: the HTTP status of h's last reply
  led,        \* led: history, the reserved lines that the kernel drives high
  boot,       \* boot: history, the registers when the panel started
  before,     \* before[h]: history, GPIODIR of the bank when h's request came
  disturbed,  \* disturbed[h]: history, another request was served on the bank
              \* while h's was, or an undoing call of its pulse failed
  named       \* history, the lines that an accepted request has named

registers   == <<dir, latch>>
handlerVars == <<pc, req, original, read, raising, status>>
historyVars == <<led, boot, before, disturbed, named>>
vars == <<registers, handlerVars, historyVars>>

ReservedPins(b) == {p \in Pins : <<b, p>> \in Reserved}

Idle(h) == pc[h] = "idle"

\* The value of req[h] while h is idle: any will do.
NoRequest == CHOOSE q \in Requests : TRUE

\* The panel starts after the kernel has made its lines outputs.  Whatever the
\* boot loader left in the other pins stays.
Init ==
  /\ dir \in [Banks -> SUBSET Pins]
  /\ \A b \in Banks : ReservedPins(b) \subseteq dir[b]
  /\ latch \in [Banks -> SUBSET Pins]
  /\ pc = [h \in Handlers |-> "idle"]
  /\ req = [h \in Handlers |-> NoRequest]
  /\ original = [h \in Handlers |-> NoMask]
  /\ read = [h \in Handlers |-> NoMask]
  /\ raising = [h \in Handlers |-> "none"]
  /\ status = [h \in Handlers |-> "none"]
  /\ led = [b \in Banks |-> latch[b] \cap ReservedPins(b)]
  /\ boot = [dir |-> dir, latch |-> latch]
  /\ before = [h \in Handlers |-> NoMask]
  /\ disturbed = [h \in Handlers |-> FALSE]
  /\ named = {}

-----------------------------------------------------------------------------
(* A request arrives.                                                      *)

\* The threads that serve another request for bank b.
Others(h, b) ==
  {g \in Handlers \ {h} : ~Idle(g) /\ req[g].kind # "restore" /\ req[g].bank = b}

\* _handle_gpio refuses the lines that a kernel driver has claimed.
Refuse(h, q) ==
  /\ Idle(h)
  /\ q.kind # "restore"
  /\ <<q.bank, q.pin>> \in Reserved
  /\ status' = [status EXCEPT ![h] = "409"]
  /\ UNCHANGED <<registers, pc, req, original, read, raising, historyVars>>

\* The first call that an accepted request makes.
FirstCall(q) ==
  CASE q.kind = "pulse" -> "originalDump"
    [] q.kind = "direct" /\ q.direction # "none" -> "direction"
    [] q.kind = "direct" /\ q.direction = "none" /\ q.level # "none" -> "level"
    [] OTHER -> "replyDump"

Accept(h, q) ==
  /\ Idle(h)
  /\ q.kind # "restore"
  /\ <<q.bank, q.pin>> \notin Reserved
  /\ req' = [req EXCEPT ![h] = q]
  /\ pc' = [pc EXCEPT ![h] = FirstCall(q)]
  /\ before' = [before EXCEPT ![h] = dir[q.bank]]
  /\ disturbed' = [g \in Handlers |->
                     IF g = h THEN Others(h, q.bank) # {}
                              ELSE disturbed[g] \/ g \in Others(h, q.bank)]
  /\ named' = named \cup {<<q.bank, q.pin>>}
  /\ status' = [status EXCEPT ![h] = "none"]
  /\ UNCHANGED <<registers, original, read, raising, led, boot>>

\* GpioBaseline.masks: capture() would fill it, and nothing calls capture().
BaselineMasks == [b \in {} |-> {}]

\* GPIO_BASELINE.restore() writes GPIODIR of each bank it has a mask of: none.
Restore(h, q) ==
  /\ Idle(h)
  /\ q.kind = "restore"
  /\ dir' = [b \in Banks |->
               IF b \in DOMAIN BaselineMasks THEN BaselineMasks[b] ELSE dir[b]]
  /\ req' = [req EXCEPT ![h] = q]
  /\ pc' = [pc EXCEPT ![h] = FirstCall(q)]
  /\ status' = [status EXCEPT ![h] = "none"]
  /\ UNCHANGED <<latch, original, read, raising, historyVars>>

-----------------------------------------------------------------------------
(* How a handler goes on after a helper call.                              *)

\* Mutant: "elif": a level is ignored when a direction comes with it.
NextCallElif(h) ==
  CASE pc[h] = "originalDump" -> "out"
    [] pc[h] = "out"          -> "high"
    [] pc[h] = "high"         -> "sleep"
    [] pc[h] = "low"          -> "undo"
    [] OTHER -> "replyDump"

\* The calls in the order of the code.
NextCall(h) ==
  CASE pc[h] = "originalDump" -> "out"
    [] pc[h] = "out"          -> "high"
    [] pc[h] = "high"         -> "sleep"
    [] pc[h] = "low"          -> "undo"
    [] pc[h] = "direction" /\ req[h].level # "none" -> "level"
    [] OTHER -> "replyDump"

\* The reply; the locals of the handler are gone.
Reply(h, code) ==
  /\ pc' = [pc EXCEPT ![h] = "idle"]
  /\ status' = [status EXCEPT ![h] = code]
  /\ raising' = [raising EXCEPT ![h] = "none"]
  /\ req' = [req EXCEPT ![h] = NoRequest]
  /\ original' = [original EXCEPT ![h] = NoMask]
  /\ before' = [before EXCEPT ![h] = NoMask]

\* The handler goes on to another call.
Continue(h, call, exception) ==
  /\ pc' = [pc EXCEPT ![h] = call]
  /\ raising' = [raising EXCEPT ![h] = exception]
  /\ original' = [original EXCEPT ![h] = IF pc[h] = "originalDump" THEN dir[req[h].bank] ELSE @]
  /\ UNCHANGED <<req, status, before>>

\* The call returns: the last one is followed by the reply, and the last of
\* finally by the exception it has delayed.
Succeeds(h) ==
  /\ IF pc[h] = "replyDump" THEN Reply(h, "200")
     ELSE IF pc[h] = "undo" /\ raising[h] # "none" THEN Reply(h, raising[h])
     ELSE Continue(h, NextCall(h), raising[h])
  /\ UNCHANGED disturbed

\* Mutant: no check_pin.
InvalidAnyPin(h) ==
  \/ pc[h] = "direction" /\ req[h].direction = "bad"
  \/ pc[h] = "level" /\ req[h].level = "bad"

\* The helper exits before it has opened the bank: check_pin, "direction must be
\* in or out", "level must be 0 or 1".
Invalid(h) ==
  \/ req[h].pin = BadPin
  \/ pc[h] = "direction" /\ req[h].direction = "bad"
  \/ pc[h] = "level" /\ req[h].level = "bad"

\* Mutant: gpio_pulse without its try ... finally.
FailsAtOnce(h) ==
  /\ Reply(h, "500")
  /\ disturbed' = [disturbed EXCEPT ![h] = @ \/ pc[h] \in {"low", "undo"}]

\* The call raises GpioError: inside gpio_pulse's try, finally comes first.
Fails(h) ==
  /\ IF pc[h] \in {"out", "high"}
     THEN Continue(h, "low", "500")
     ELSE Reply(h, "500")
  /\ disturbed' = [disturbed EXCEPT ![h] = @ \/ pc[h] \in {"low", "undo"}]

-----------------------------------------------------------------------------
(* The helper calls.                                                       *)

\* cmd_dump: gpio_pulse keeps the bank's GPIODIR (Continue), a reply only shows
\* it.
Dump(h) ==
  /\ pc[h] \in {"originalDump", "replyDump"}
  /\ Succeeds(h)
  /\ UNCHANGED <<registers, read, led, boot, named>>

\* cmd_dir reads the register ...
ReadDir(h) ==
  /\ pc[h] \in {"out", "direction"}
  /\ ~Invalid(h)
  /\ read[h] = NoMask
  /\ read' = [read EXCEPT ![h] = dir[req[h].bank]]
  /\ UNCHANGED <<registers, pc, req, original, raising, status, historyVars>>

Output(h) == pc[h] = "out" \/ req[h].direction = "out"

\* Mutant: 1 << pin is written, whatever was read.
WriteDirAlone(h) ==
  /\ pc[h] \in {"out", "direction"}
  /\ read[h] # NoMask
  /\ dir' = [dir EXCEPT ![req[h].bank] = IF Output(h) THEN {req[h].pin} ELSE {}]
  /\ read' = [read EXCEPT ![h] = NoMask]
  /\ Succeeds(h) \/ (Failures /\ Fails(h))
  /\ UNCHANGED <<latch, led, boot, named>>

\* ... and writes it with its own pin changed.
WriteDir(h) ==
  /\ pc[h] \in {"out", "direction"}
  /\ read[h] # NoMask
  /\ dir' = [dir EXCEPT ![req[h].bank] =
               IF Output(h) THEN read[h] \cup {req[h].pin} ELSE read[h] \ {req[h].pin}]
  /\ read' = [read EXCEPT ![h] = NoMask]
  /\ Succeeds(h) \/ (Failures /\ Fails(h))
  /\ UNCHANGED <<latch, led, boot, named>>

\* int(payload["level"]): no call is made, whatever the one before has done.
Unparsed(h) == pc[h] = "level" /\ req[h].level = "nan"

\* It raises a ValueError or TypeError, which becomes a 400, or for an infinity an
\* OverflowError, which nothing catches: no reply.
LevelRaises(h) ==
  /\ Unparsed(h)
  /\ \E code \in {"400", "none"} : Reply(h, code)
  /\ UNCHANGED <<registers, read, led, boot, disturbed, named>>

High(h) == pc[h] = "high" \/ (pc[h] = "level" /\ req[h].level = "1")

\* Mutant: the write goes to all pins of the bank.
SetLevelUnmasked(h) ==
  /\ pc[h] \in {"high", "low", "level"}
  /\ ~Invalid(h) /\ ~Unparsed(h)
  /\ latch' = [latch EXCEPT ![req[h].bank] =
                 IF High(h) THEN @ \cup dir[req[h].bank] ELSE @ \ dir[req[h].bank]]
  /\ Succeeds(h) \/ (Failures /\ Fails(h))
  /\ UNCHANGED <<dir, read, led, boot, named>>

\* cmd_set: the address masks all pins but one, and the PL061 takes a level
\* only for a pin that is an output.
SetLevel(h) ==
  /\ pc[h] \in {"high", "low", "level"}
  /\ ~Invalid(h) /\ ~Unparsed(h)
  /\ latch' = [latch EXCEPT ![req[h].bank] =
                 IF req[h].pin \notin dir[req[h].bank] THEN @
                 ELSE IF High(h) THEN @ \cup {req[h].pin} ELSE @ \ {req[h].pin}]
  /\ Succeeds(h) \/ (Failures /\ Fails(h))
  /\ UNCHANGED <<dir, read, led, boot, named>>

\* cmd_restore, at the end of gpio_pulse: the whole GPIODIR as it was read.
UndoDir(h) ==
  /\ pc[h] = "undo"
  /\ dir' = [dir EXCEPT ![req[h].bank] = original[h]]
  /\ Succeeds(h) \/ (Failures /\ Fails(h))
  /\ UNCHANGED <<latch, read, led, boot, named>>

\* The call fails before it has written anything.
CallFails(h) ==
  /\ pc[h] \notin {"idle", "sleep"} /\ ~Unparsed(h)
  /\ Failures \/ (Invalid(h) /\ pc[h] \in {"out", "high", "low", "direction", "level"})
  /\ Fails(h)
  /\ read' = [read EXCEPT ![h] = NoMask]
  /\ UNCHANGED <<registers, led, boot, named>>

\* time.sleep is over: finally.
WakeUp(h) ==
  /\ pc[h] = "sleep"
  /\ pc' = [pc EXCEPT ![h] = "low"]
  /\ UNCHANGED <<registers, req, original, read, raising, status, historyVars>>

\* A negative length: time.sleep raises ValueError, which becomes a 400.
SleepRaises(h) ==
  /\ pc[h] = "sleep"
  /\ pc' = [pc EXCEPT ![h] = "low"]
  /\ raising' = [raising EXCEPT ![h] = "400"]
  /\ UNCHANGED <<registers, req, original, read, status, historyVars>>

\* The kernel's LED class sets a line it owns, by a masked write of its own.
KernelSetsLed(b, p) ==
  /\ <<b, p>> \in Reserved
  /\ \E on \in {{}, {p}} :
       /\ latch' = [latch EXCEPT ![b] = (@ \ {p}) \cup on]
       /\ led' = [led EXCEPT ![b] = (@ \ {p}) \cup on]
  /\ UNCHANGED <<dir, handlerVars, boot, before, disturbed, named>>

-----------------------------------------------------------------------------

Serve(h) ==
  \/ Dump(h) \/ ReadDir(h) \/ WriteDir(h) \/ SetLevel(h) \/ UndoDir(h)
  \/ LevelRaises(h) \/ CallFails(h) \/ WakeUp(h) \/ SleepRaises(h)

Next ==
  \/ \E h \in Handlers, q \in Requests : Refuse(h, q) \/ Accept(h, q) \/ Restore(h, q)
  \/ \E h \in Handlers : Serve(h)
  \/ \E b \in Banks, p \in Pins : KernelSetsLed(b, p)

Spec == Init /\ [][Next]_vars

-----------------------------------------------------------------------------
(* Properties.                                                             *)

Calls == {"originalDump", "out", "high", "sleep", "low", "undo",
          "direction", "level", "replyDump"}
Statuses == {"none", "200", "400", "409", "500"}

TypeOK ==
  /\ dir \in [Banks -> SUBSET Pins]
  /\ latch \in [Banks -> SUBSET Pins]
  /\ pc \in [Handlers -> Calls \cup {"idle"}]
  /\ req \in [Handlers -> Requests]
  /\ original \in [Handlers -> (SUBSET Pins) \cup {NoMask}]
  /\ read \in [Handlers -> (SUBSET Pins) \cup {NoMask}]
  /\ raising \in [Handlers -> {"none", "400", "500"}]
  /\ status \in [Handlers -> Statuses]
  /\ led \in [Banks -> SUBSET Pins]
  /\ boot \in [dir : [Banks -> SUBSET Pins], latch : [Banks -> SUBSET Pins]]
  /\ before \in [Handlers -> (SUBSET Pins) \cup {NoMask}]
  /\ disturbed \in [Handlers -> BOOLEAN]
  /\ named \subseteq Banks \X (Pins \cup {BadPin})

\* Directions are written a bank at a time, from copies that other requests have
\* made stale: still, a line that no accepted request has named keeps the
\* direction and, if the kernel does not drive it, the level that it had when
\* the panel started.  Calls that fail half-way do not change that.
OnlyNamedLinesChange ==
  \A b \in Banks, p \in Pins : <<b, p>> \notin named =>
    /\ p \in dir[b] <=> p \in boot.dir[b]
    /\ <<b, p>> \notin Reserved => (p \in latch[b] <=> p \in boot.latch[b])

\* The lines claimed by a kernel driver stay outputs and have the level that
\* the driver gave them: the panel refuses to name them, a masked write does
\* not touch them and no stale GPIODIR lacks them.
ReservedLinesKept ==
  \A b \in Banks :
    /\ ReservedPins(b) \subseteq dir[b]
    /\ latch[b] \cap ReservedPins(b) = led[b]

\* A pulse puts the directions of its bank back, whichever of its calls failed
\* and whether or not its length was valid, provided that the calls that undo it
\* worked and that no other request was served on the bank meanwhile.
PulsePutsDirectionsBack ==
  [][\A h \in Handlers :
       req[h].kind = "pulse" /\ ~Idle(h) /\ Idle(h)' /\ ~disturbed'[h]
         => dir'[req[h].bank] = before[h]]_vars

\* A direct request that is answered 200 with no other on its bank meanwhile has
\* had its effect: the direction, then the level if the line is an output.
DirectTakesEffect ==
  [][\A h \in Handlers :
       LET q == req[h]
       IN  q.kind = "direct" /\ ~Idle(h) /\ Idle(h)' /\ status'[h] = "200" /\ ~disturbed[h]
             => /\ q.direction = "out" => q.pin \in dir'[q.bank]
                /\ q.direction = "in" => q.pin \notin dir'[q.bank]
                /\ q.level # "none" /\ q.pin \in dir'[q.bank]
                     => (q.pin \in latch'[q.bank] <=> q.level = "1")]_vars

AllIdle == \A h \in Handlers : Idle(h)

\* "an output left driven on an unidentified pin is exactly what this tool is
\* trying to avoid leaving behind" (gpio_pulse, tvbox-panel.py:446-448): after
\* nothing but pulses, no call of which has failed, no line is an output that
\* was none.  Two pulses that overlap on one bank refute it.
PulsesLeaveNoOutput ==
  AllIdle => \A b \in Banks : dir[b] = boot.dir[b]

\* "Remembers each bank's GPIODIR as first seen, so the UI can undo itself"
\* (GpioBaseline, tvbox-panel.py:414): when a restore is answered, with nothing
\* else under way, the directions are those of the start.
RestoreUndoes ==
  [][\A h \in Handlers :
       /\ req[h].kind = "restore" /\ ~Idle(h) /\ status'[h] = "200"
       /\ \A g \in Handlers \ {h} : Idle(g)
       => \A b \in Banks : dir'[b] = boot.dir[b]]_vars

=============================================================================
