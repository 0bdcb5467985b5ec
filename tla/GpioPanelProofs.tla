-------------------------- MODULE GpioPanelProofs --------------------------
(***************************************************************************)
(* TypeOK, OnlyNamedLinesChange, ReservedLinesKept,                        *)
(* PulsePutsDirectionsBack and DirectTakesEffect of GpioPanel, for any     *)
(* handlers, banks, pins, reserved lines and requests, with and without    *)
(* failures.                                                               *)
(*                                                                         *)
(* What a helper writes comes from a copy of GPIODIR that may be old, so   *)
(* the invariant has to speak of the copies: each agrees with the start on *)
(* the lines that nobody has named (Copies), and a handler that makes      *)
(* calls has named its own line (Handling).  What a request may rely on    *)
(* while it has its bank to itself, until it is answered, is in Courses.   *)
(***************************************************************************)
EXTENDS GpioPanel, TLAPS

\* The calls of gpio_pulse that come after its copy of GPIODIR has been taken.
Undoing == {"out", "high", "sleep", "low", "undo"}

\* A value of GPIODIR of bank b that only named lines can tell from the first.
Agrees(mask, b) ==
  /\ mask \in SUBSET Pins
  /\ \A p \in Pins : <<b, p>> \notin named => (p \in mask <=> p \in boot.dir[b])

Handling ==
  /\ \A h \in Handlers :
       /\ req[h].kind = "restore" => pc[h] \in {"idle", "replyDump"}
       /\ ~Idle(h) /\ req[h].kind # "restore" => <<req[h].bank, req[h].pin>> \in named
       /\ read[h] # NoMask => pc[h] \in {"out", "direction"} /\ req[h].pin \in Pins
  /\ named \cap Reserved = {}

Copies ==
  \A h \in Handlers :
    /\ read[h] # NoMask => Agrees(read[h], req[h].bank)
    /\ pc[h] \in Undoing => Agrees(original[h], req[h].bank)

\* OnlyNamedLinesChange and ReservedLinesKept, in terms of the start.
Lines ==
  /\ \A b \in Banks : Agrees(dir[b], b) /\ ReservedPins(b) \subseteq boot.dir[b]
  /\ \A b \in Banks, p \in Pins :
       <<b, p>> \notin named /\ <<b, p>> \notin Reserved
         => (p \in latch[b] <=> p \in boot.latch[b])
  /\ \A b \in Banks : latch[b] \cap ReservedPins(b) = led[b]

IInv == TypeOK /\ Handling /\ Copies /\ Lines

-----------------------------------------------------------------------------

\* A request has the fields of its type.
LEMMA RequestFields ==
  ASSUME NEW q \in Requests
  PROVE  /\ q.kind \in {"pulse", "direct", "restore"}
         /\ q.bank \in Banks
         /\ q.pin \in Pins \cup {BadPin}
  BY RequestsAssumption DEF RequestType

LEMMA NoRequestIsOne == NoRequest \in Requests
  BY RequestsAssumption DEF NoRequest

\* NoMask is no value of a register.
LEMMA NoMaskIsNone == NoMask \notin SUBSET Pins
  BY LinesAssumption DEF NoMask

LEMMA FirstCallType ==
  ASSUME NEW q \in Requests
  PROVE  /\ FirstCall(q) \in {"originalDump", "direction", "level", "replyDump"}
         /\ q.kind = "restore" => FirstCall(q) = "replyDump"
  BY RequestFields DEF FirstCall

\* How a helper call ends for its handler and for the others.
LEMMA CallEnds ==
  ASSUME TypeOK, NEW h \in Handlers, pc[h] \notin {"idle", "sleep"},
         Succeeds(h) \/ Fails(h)
  PROVE  /\ pc' \in [Handlers -> Calls \cup {"idle"}]
         /\ req' \in [Handlers -> Requests]
         /\ original' \in [Handlers -> (SUBSET Pins) \cup {NoMask}]
         /\ raising' \in [Handlers -> {"none", "400", "500"}]
         /\ status' \in [Handlers -> Statuses]
         /\ before' \in [Handlers -> (SUBSET Pins) \cup {NoMask}]
         /\ disturbed' \in [Handlers -> BOOLEAN]
         /\ \A g \in Handlers \ {h} :
              pc'[g] = pc[g] /\ req'[g] = req[g] /\ original'[g] = original[g]
         /\ \/ pc'[h] = "idle"
            \/ /\ req'[h] = req[h]
               /\ pc[h] # "replyDump"
               /\ pc'[h] \in Undoing =>
                    \/ pc[h] \in Undoing /\ original'[h] = original[h]
                    \/ pc[h] = "originalDump" /\ original'[h] = dir[req[h].bank]
<1> DEFINE Types ==
             /\ pc' \in [Handlers -> Calls \cup {"idle"}]
             /\ req' \in [Handlers -> Requests]
             /\ original' \in [Handlers -> (SUBSET Pins) \cup {NoMask}]
             /\ raising' \in [Handlers -> {"none", "400", "500"}]
             /\ status' \in [Handlers -> Statuses]
             /\ before' \in [Handlers -> (SUBSET Pins) \cup {NoMask}]
           Apart == \A g \in Handlers \ {h} :
              pc'[g] = pc[g] /\ req'[g] = req[g] /\ original'[g] = original[g]
<1>1. ASSUME NEW code \in Statuses, Reply(h, code)
      PROVE  Types /\ Apart /\ pc'[h] = "idle"
  BY <1>1, NoRequestIsOne DEF TypeOK, Reply
<1>2. ASSUME NEW call \in Calls, NEW exception \in {"none", "400", "500"},
             Continue(h, call, exception)
      PROVE  /\ Types /\ Apart
             /\ req'[h] = req[h] /\ pc'[h] = call
             /\ original'[h] = IF pc[h] = "originalDump" THEN dir[req[h].bank] ELSE original[h]
  <2>1. req[h].bank \in Banks
    BY RequestFields DEF TypeOK
  <2>2. dir[req[h].bank] \in SUBSET Pins
    BY <2>1 DEF TypeOK
  <2> QED  BY <1>2, <2>2 DEF TypeOK, Continue
<1>3. disturbed' \in [Handlers -> BOOLEAN]
  BY DEF TypeOK, Succeeds, Fails
<1>4. raising[h] \in {"none", "400", "500"} /\ raising[h] \in Statuses
  BY DEF TypeOK, Statuses
<1>5. CASE Succeeds(h)
  <2>1. CASE pc[h] = "replyDump"
    BY <1>1, <1>3, <1>5, <2>1 DEF Succeeds, Statuses
  <2>2. CASE pc[h] = "undo" /\ raising[h] # "none"
    BY <1>1, <1>3, <1>4, <1>5, <2>2 DEF Succeeds
  <2>3. CASE pc[h] # "replyDump" /\ ~(pc[h] = "undo" /\ raising[h] # "none")
    <3>1. Continue(h, NextCall(h), raising[h])
      BY <1>5, <2>3 DEF Succeeds
    <3>2. /\ NextCall(h) \in Calls
          /\ NextCall(h) \in Undoing => pc[h] \in Undoing \/ pc[h] = "originalDump"
      BY DEF NextCall, Calls, Undoing
    <3>3. pc[h] \in Undoing => pc[h] # "originalDump"
      BY DEF Undoing
    <3> QED  BY <1>2, <1>3, <1>4, <2>3, <3>1, <3>2, <3>3
  <2> QED  BY <2>1, <2>2, <2>3
<1>6. CASE Fails(h)
  <2>1. CASE pc[h] \in {"out", "high"}
    <3>1. Continue(h, "low", "500")
      BY <1>6, <2>1 DEF Fails
    <3>2. "low" \in Calls
      BY DEF Calls
    <3> QED  BY <1>2, <1>3, <2>1, <3>1, <3>2 DEF Undoing
  <2>2. CASE pc[h] \notin {"out", "high"}
    BY <1>1, <1>3, <1>6, <2>2 DEF Fails, Statuses
  <2> QED  BY <2>1, <2>2
<1> QED  BY <1>5, <1>6

-----------------------------------------------------------------------------

\* A call that ends leaves Handling and Copies as they are: the copy that
\* gpio_pulse takes is of a register that agrees with the start.
LEMMA CallKeepsCopies ==
  ASSUME IInv, NEW h \in Handlers, pc[h] \notin {"idle", "sleep"},
         Succeeds(h) \/ Fails(h),
         read'[h] = NoMask, \A g \in Handlers \ {h} : read'[g] = read[g],
         named' = named, boot' = boot
  PROVE  Handling' /\ Copies'
<1> USE DEF IInv
<1>1. /\ \A g \in Handlers \ {h} :
           pc'[g] = pc[g] /\ req'[g] = req[g] /\ original'[g] = original[g]
      /\ \/ pc'[h] = "idle"
         \/ /\ req'[h] = req[h]
            /\ pc[h] # "replyDump"
            /\ pc'[h] \in Undoing =>
                 \/ pc[h] \in Undoing /\ original'[h] = original[h]
                 \/ pc[h] = "originalDump" /\ original'[h] = dir[req[h].bank]
  BY CallEnds
<1>2. \A g \in Handlers : req[g].bank \in Banks
  BY RequestFields DEF TypeOK
<1>3. Handling'
  BY <1>1 DEF Handling, Idle
<1>4. ASSUME NEW g \in Handlers
      PROVE  /\ read'[g] # NoMask => Agrees(read[g], req[g].bank)'
             /\ pc'[g] \in Undoing => Agrees(original[g], req[g].bank)'
  <2>1. CASE g # h
    BY <1>1, <2>1 DEF Copies, Agrees
  <2>2. CASE g = h
    <3>1. CASE pc'[h] \notin Undoing
      BY <2>2, <3>1
    <3>2. CASE pc'[h] \in Undoing
      <4>1. req'[h] = req[h] /\ (\/ pc[h] \in Undoing /\ original'[h] = original[h]
                                \/ original'[h] = dir[req[h].bank])
        BY <1>1, <3>2 DEF Undoing
      <4>2. Agrees(dir[req[h].bank], req[h].bank)
        BY <1>2 DEF Lines
      <4> QED  BY <2>2, <4>1, <4>2 DEF Copies, Agrees
    <3> QED  BY <3>1, <3>2
  <2> QED  BY <2>1, <2>2
<1> QED  BY <1>3, <1>4 DEF Copies

-----------------------------------------------------------------------------
(* The steps, in the order of GpioPanel.                                   *)

LEMMA AcceptStep ==
  ASSUME IInv, NEW h \in Handlers, NEW q \in Requests, Accept(h, q)
  PROVE  IInv'
<1> USE DEF IInv
<1>1. /\ q.kind \in {"pulse", "direct", "restore"} /\ q.bank \in Banks /\ q.pin \in Pins \cup {BadPin}
      /\ FirstCall(q) \in {"originalDump", "direction", "level", "replyDump"}
  BY RequestFields, FirstCallType
<1>2. /\ q.kind # "restore" /\ <<q.bank, q.pin>> \notin Reserved
      /\ named' = named \cup {<<q.bank, q.pin>>}
      /\ req' = [req EXCEPT ![h] = q] /\ pc' = [pc EXCEPT ![h] = FirstCall(q)]
      /\ pc[h] = "idle"
      /\ UNCHANGED <<dir, latch, original, read, raising, led, boot>>
  BY DEF Accept, Idle, registers
<1>3. TypeOK'
  <2>1. disturbed' \in [Handlers -> BOOLEAN]
    BY DEF Accept, TypeOK
  <2>2. before' \in [Handlers -> (SUBSET Pins) \cup {NoMask}] /\ status' \in [Handlers -> Statuses]
    BY <1>1 DEF Accept, TypeOK, Statuses
  <2>3. pc' \in [Handlers -> Calls \cup {"idle"}] /\ req' \in [Handlers -> Requests]
    BY <1>1, <1>2 DEF TypeOK, Calls
  <2>4. named' \subseteq Banks \X (Pins \cup {BadPin})
    BY <1>1, <1>2 DEF TypeOK
  <2> QED  BY <1>2, <2>1, <2>2, <2>3, <2>4 DEF TypeOK
<1>4. Handling'
  BY <1>1, <1>2 DEF TypeOK, Handling, Idle
<1>5. Copies'
  <2> SUFFICES ASSUME NEW g \in Handlers
               PROVE  /\ read'[g] # NoMask => Agrees(read[g], req[g].bank)'
                      /\ pc'[g] \in Undoing => Agrees(original[g], req[g].bank)'
    BY DEF Copies
  <2>1. CASE g = h
    BY <1>1, <1>2, <2>1 DEF TypeOK, Handling, Undoing
  <2>2. CASE g # h
    BY <1>2, <2>2 DEF TypeOK, Copies, Agrees
  <2> QED  BY <2>1, <2>2
<1>6. Lines'
  BY <1>2 DEF Lines, Agrees, ReservedPins
<1> QED  BY <1>3, <1>4, <1>5, <1>6

LEMMA RefuseStep ==
  ASSUME IInv, NEW h \in Handlers, NEW q \in Requests, Refuse(h, q)
  PROVE  IInv'
<1> USE DEF IInv
<1>1. UNCHANGED <<dir, latch, pc, req, original, read, raising, led, boot, before, disturbed, named>>
  BY DEF Refuse, registers, historyVars
<1>2. TypeOK'
  <2>1. status' \in [Handlers -> Statuses]
    BY DEF Refuse, TypeOK, Statuses
  <2> QED  BY <1>1, <2>1 DEF TypeOK
<1> QED  BY <1>1, <1>2 DEF Handling, Idle, Copies, Agrees, Lines

\* No bank has a mask in the baseline: restore() writes nothing.
LEMMA RestoreStep ==
  ASSUME IInv, NEW h \in Handlers, NEW q \in Requests, Restore(h, q)
  PROVE  IInv'
<1> USE DEF IInv
<1>1. dir' = dir
  BY DEF Restore, BaselineMasks, TypeOK
<1>2. /\ FirstCall(q) = "replyDump" /\ q.kind = "restore" /\ pc[h] = "idle"
      /\ req' = [req EXCEPT ![h] = q] /\ pc' = [pc EXCEPT ![h] = "replyDump"]
      /\ UNCHANGED <<latch, original, read, raising, led, boot, before, disturbed, named>>
  BY FirstCallType DEF Restore, Idle, historyVars
<1>3. TypeOK'
  <2>1. status' \in [Handlers -> Statuses]
    BY DEF Restore, TypeOK, Statuses
  <2> QED  BY <1>1, <1>2, <2>1 DEF TypeOK, Calls
<1>4. Handling'
  BY <1>2 DEF TypeOK, Handling, Idle
<1>5. Copies'
  <2> SUFFICES ASSUME NEW g \in Handlers
               PROVE  /\ read'[g] # NoMask => Agrees(read[g], req[g].bank)'
                      /\ pc'[g] \in Undoing => Agrees(original[g], req[g].bank)'
    BY DEF Copies
  <2>1. CASE g = h
    BY <1>2, <2>1 DEF TypeOK, Handling, Undoing
  <2>2. CASE g # h
    BY <1>2, <2>2 DEF TypeOK, Copies, Agrees
  <2> QED  BY <2>1, <2>2
<1>6. Lines'
  BY <1>1, <1>2 DEF Lines, Agrees
<1> QED  BY <1>3, <1>4, <1>5, <1>6

LEMMA DumpStep ==
  ASSUME IInv, NEW h \in Handlers, Dump(h)
  PROVE  IInv'
<1> USE DEF IInv
<1>1. /\ pc[h] \notin {"idle", "sleep"} /\ Succeeds(h)
      /\ UNCHANGED <<dir, latch, read, led, boot, named>>
  BY DEF Dump, registers
<1>2. read[h] = NoMask
  BY DEF Dump, Handling
<1>3. TypeOK'
  BY <1>1, CallEnds DEF TypeOK
<1>4. Handling' /\ Copies'
  BY <1>1, <1>2, CallKeepsCopies
<1>5. Lines'
  BY <1>1 DEF Lines, Agrees
<1> QED  BY <1>3, <1>4, <1>5

LEMMA ReadDirStep ==
  ASSUME IInv, NEW h \in Handlers, ReadDir(h)
  PROVE  IInv'
<1> USE DEF IInv
<1>1. /\ pc[h] \in {"out", "direction"} /\ req[h].pin \in Pins /\ req[h].bank \in Banks
      /\ read' = [read EXCEPT ![h] = dir[req[h].bank]]
      /\ UNCHANGED <<dir, latch, pc, req, original, raising, status, led, boot, before, disturbed, named>>
  BY RequestFields DEF ReadDir, Invalid, registers, historyVars, TypeOK
<1>2. TypeOK'
  BY <1>1 DEF TypeOK
<1>3. Handling'
  BY <1>1 DEF TypeOK, Handling, Idle
<1>4. Copies'
  <2> SUFFICES ASSUME NEW g \in Handlers
               PROVE  read'[g] # NoMask => Agrees(read[g], req[g].bank)'
    BY <1>1 DEF Copies, Agrees
  <2>1. CASE g = h
    BY <1>1, <2>1 DEF TypeOK, Lines, Agrees
  <2>2. CASE g # h
    BY <1>1, <2>2 DEF TypeOK, Copies, Agrees
  <2> QED  BY <2>1, <2>2
<1>5. Lines'
  BY <1>1 DEF Lines, Agrees
<1> QED  BY <1>2, <1>3, <1>4, <1>5

\* The write changes the bit of a named line in a value that agrees with the
\* start on the others.
LEMMA WriteDirStep ==
  ASSUME IInv, NEW h \in Handlers, WriteDir(h)
  PROVE  IInv'
<1> USE DEF IInv
<1> DEFINE b == req[h].bank
           p == req[h].pin
           written == IF Output(h) THEN read[h] \cup {p} ELSE read[h] \ {p}
<1>1. /\ pc[h] \in {"out", "direction"} /\ read[h] # NoMask
      /\ Succeeds(h) \/ Fails(h)
      /\ dir' = [dir EXCEPT ![b] = written]
      /\ read' = [read EXCEPT ![h] = NoMask]
      /\ UNCHANGED <<latch, led, boot, named>>
  BY DEF WriteDir
<1>2. b \in Banks /\ p \in Pins /\ <<b, p>> \in named
  BY <1>1, RequestFields DEF TypeOK, Handling, Idle
<1>3. Agrees(read[h], b)
  BY <1>1 DEF Copies
<1>4. Agrees(written, b)
  BY <1>2, <1>3 DEF Agrees
<1>5. TypeOK'
  <2>1. dir' \in [Banks -> SUBSET Pins] /\ read' \in [Handlers -> (SUBSET Pins) \cup {NoMask}]
    BY <1>1, <1>4 DEF TypeOK, Agrees
  <2> QED  BY <1>1, <2>1, CallEnds DEF TypeOK
<1>6. Handling' /\ Copies'
  <2>1. read'[h] = NoMask /\ \A g \in Handlers \ {h} : read'[g] = read[g]
    BY <1>1 DEF TypeOK
  <2> QED  BY <1>1, <2>1, CallKeepsCopies
<1>7. Lines'
  <2>1. \A a \in Banks : dir'[a] = IF a = b THEN written ELSE dir[a]
    BY <1>1 DEF TypeOK
  <2> QED  BY <1>1, <1>4, <2>1 DEF Lines, Agrees
<1> QED  BY <1>5, <1>6, <1>7

\* The level of one line, which has been named and is not the kernel's.
LEMMA SetLevelStep ==
  ASSUME IInv, NEW h \in Handlers, SetLevel(h)
  PROVE  IInv'
<1> USE DEF IInv
<1> DEFINE b == req[h].bank
           p == req[h].pin
           written == IF p \notin dir[b] THEN latch[b]
                      ELSE IF High(h) THEN latch[b] \cup {p} ELSE latch[b] \ {p}
<1>1. /\ pc[h] \in {"high", "low", "level"} /\ p # BadPin
      /\ Succeeds(h) \/ Fails(h)
      /\ latch' = [latch EXCEPT ![b] = written]
      /\ UNCHANGED <<dir, read, led, boot, named>>
  BY DEF SetLevel, Invalid
<1>2. b \in Banks /\ p \in Pins /\ <<b, p>> \in named /\ <<b, p>> \notin Reserved
  BY <1>1, RequestFields DEF TypeOK, Handling, Idle
<1>3. read[h] = NoMask
  BY <1>1 DEF Handling
<1>4. TypeOK'
  <2>1. latch' \in [Banks -> SUBSET Pins]
    BY <1>1, <1>2 DEF TypeOK
  <2> QED  BY <1>1, <2>1, CallEnds DEF TypeOK
<1>5. Handling' /\ Copies'
  BY <1>1, <1>3, CallKeepsCopies
<1>6. Lines'
  <2>1. \A a \in Banks : latch'[a] = IF a = b THEN written ELSE latch[a]
    BY <1>1 DEF TypeOK
  <2>2. \A a \in Banks, o \in Pins : <<a, o>> # <<b, p>> => (o \in latch'[a] <=> o \in latch[a])
    BY <2>1
  <2>3. \A a \in Banks, o \in Pins :
          <<a, o>> \notin named /\ <<a, o>> \notin Reserved => (o \in latch'[a] <=> o \in boot.latch[a])
    BY <1>2, <2>2 DEF Lines
  <2>4. \A a \in Banks : latch'[a] \cap ReservedPins(a) = latch[a] \cap ReservedPins(a)
    BY <1>2, <2>2 DEF ReservedPins
  <2> QED  BY <1>1, <2>3, <2>4 DEF Lines, Agrees
<1> QED  BY <1>4, <1>5, <1>6

\* The copy that gpio_pulse writes back agrees with the start.
LEMMA UndoDirStep ==
  ASSUME IInv, NEW h \in Handlers, UndoDir(h)
  PROVE  IInv'
<1> USE DEF IInv
<1> DEFINE b == req[h].bank
<1>1. /\ pc[h] = "undo"
      /\ Succeeds(h) \/ Fails(h)
      /\ dir' = [dir EXCEPT ![b] = original[h]]
      /\ UNCHANGED <<latch, read, led, boot, named>>
  BY DEF UndoDir
<1>2. b \in Banks
  BY RequestFields DEF TypeOK
<1>3. Agrees(original[h], b)
  BY <1>1 DEF Copies, Undoing
<1>4. read[h] = NoMask
  BY <1>1 DEF Handling
<1>5. TypeOK'
  <2>1. dir' \in [Banks -> SUBSET Pins]
    BY <1>1, <1>3 DEF TypeOK, Agrees
  <2> QED  BY <1>1, <2>1, CallEnds DEF TypeOK
<1>6. Handling' /\ Copies'
  BY <1>1, <1>4, CallKeepsCopies
<1>7. Lines'
  <2>1. \A a \in Banks : dir'[a] = IF a = b THEN original[h] ELSE dir[a]
    BY <1>1 DEF TypeOK
  <2> QED  BY <1>1, <1>3, <2>1 DEF Lines, Agrees
<1> QED  BY <1>5, <1>6, <1>7

LEMMA CallFailsStep ==
  ASSUME IInv, NEW h \in Handlers, CallFails(h)
  PROVE  IInv'
<1> USE DEF IInv
<1>1. /\ pc[h] \notin {"idle", "sleep"} /\ Fails(h)
      /\ read' = [read EXCEPT ![h] = NoMask]
      /\ UNCHANGED <<dir, latch, led, boot, named>>
  BY DEF CallFails, registers
<1>2. TypeOK'
  <2>1. read' \in [Handlers -> (SUBSET Pins) \cup {NoMask}]
    BY <1>1 DEF TypeOK
  <2> QED  BY <1>1, <2>1, CallEnds DEF TypeOK
<1>3. Handling' /\ Copies'
  <2>1. read'[h] = NoMask /\ \A g \in Handlers \ {h} : read'[g] = read[g]
    BY <1>1 DEF TypeOK
  <2> QED  BY <1>1, <2>1, CallKeepsCopies
<1>4. Lines'
  BY <1>1 DEF Lines, Agrees
<1> QED  BY <1>2, <1>3, <1>4

\* A reply of handler h, and nothing else.
LEMMA ReplyOnly ==
  ASSUME TypeOK, NEW h \in Handlers, NEW code \in Statuses, Reply(h, code)
  PROVE  /\ pc' \in [Handlers -> Calls \cup {"idle"}]
         /\ req' \in [Handlers -> Requests]
         /\ original' \in [Handlers -> (SUBSET Pins) \cup {NoMask}]
         /\ raising' \in [Handlers -> {"none", "400", "500"}]
         /\ status' \in [Handlers -> Statuses]
         /\ before' \in [Handlers -> (SUBSET Pins) \cup {NoMask}]
         /\ pc'[h] = "idle" /\ status'[h] = code
         /\ \A g \in Handlers \ {h} :
              /\ pc'[g] = pc[g] /\ req'[g] = req[g] /\ original'[g] = original[g]
              /\ before'[g] = before[g]
  BY NoRequestIsOne DEF TypeOK, Reply

LEMMA LevelRaisesStep ==
  ASSUME IInv, NEW h \in Handlers, LevelRaises(h)
  PROVE  IInv'
<1> USE DEF IInv
<1>1. /\ pc[h] = "level" /\ UNCHANGED <<dir, latch, read, led, boot, disturbed, named>>
  BY DEF LevelRaises, Unparsed, registers
<1>2. PICK code \in Statuses : Reply(h, code)
  BY DEF LevelRaises, Statuses
<1>3. TypeOK'
  BY <1>1, <1>2, ReplyOnly DEF TypeOK
<1>4. /\ pc'[h] = "idle" /\ read[h] = NoMask
      /\ \A g \in Handlers \ {h} :
           pc'[g] = pc[g] /\ req'[g] = req[g] /\ original'[g] = original[g]
  BY <1>1, <1>2, ReplyOnly DEF Handling
<1>5. Handling'
  BY <1>1, <1>4 DEF Handling, Idle
<1>6. Copies'
  BY <1>1, <1>4 DEF Copies, Agrees, Undoing
<1>7. Lines'
  BY <1>1 DEF Lines, Agrees
<1> QED  BY <1>3, <1>5, <1>6, <1>7

LEMMA SleepEndsStep ==
  ASSUME IInv, NEW h \in Handlers, WakeUp(h) \/ SleepRaises(h)
  PROVE  IInv'
<1> USE DEF IInv
<1>1. /\ pc[h] = "sleep" /\ pc' = [pc EXCEPT ![h] = "low"]
      /\ UNCHANGED <<dir, latch, req, original, read, status, led, boot, before, disturbed, named>>
  BY DEF WakeUp, SleepRaises, registers, historyVars
<1>2. TypeOK'
  <2>1. raising' \in [Handlers -> {"none", "400", "500"}]
    BY DEF WakeUp, SleepRaises, TypeOK
  <2> QED  BY <1>1, <2>1 DEF TypeOK, Calls
<1>3. Handling'
  BY <1>1 DEF TypeOK, Handling, Idle
<1>4. Copies'
  BY <1>1 DEF TypeOK, Copies, Agrees, Undoing
<1>5. Lines'
  BY <1>1 DEF Lines, Agrees
<1> QED  BY <1>2, <1>3, <1>4, <1>5

LEMMA KernelStep ==
  ASSUME IInv, NEW b \in Banks, NEW p \in Pins, KernelSetsLed(b, p)
  PROVE  IInv'
<1> USE DEF IInv
<1>1. PICK on \in {{}, {p}} :
        /\ latch' = [latch EXCEPT ![b] = (@ \ {p}) \cup on]
        /\ led' = [led EXCEPT ![b] = (@ \ {p}) \cup on]
  BY DEF KernelSetsLed
<1>2. /\ <<b, p>> \in Reserved
      /\ UNCHANGED <<dir, pc, req, original, read, raising, status, boot, before, disturbed, named>>
  BY DEF KernelSetsLed, handlerVars
<1>3. TypeOK'
  BY <1>1, <1>2 DEF TypeOK
<1>4. Handling' /\ Copies'
  BY <1>2 DEF Handling, Idle, Copies, Agrees
<1>5. Lines'
  <2>1. \A a \in Banks : /\ latch'[a] = IF a = b THEN (latch[a] \ {p}) \cup on ELSE latch[a]
                         /\ led'[a] = IF a = b THEN (led[a] \ {p}) \cup on ELSE led[a]
    BY <1>1 DEF TypeOK
  <2>2. \A a \in Banks, o \in Pins :
          <<a, o>> \notin named /\ <<a, o>> \notin Reserved => (o \in latch'[a] <=> o \in boot.latch[a])
    BY <1>2, <2>1 DEF Lines
  <2>3. \A a \in Banks : latch'[a] \cap ReservedPins(a) = led'[a]
    BY <1>2, <2>1 DEF Lines, ReservedPins
  <2> QED  BY <1>2, <2>2, <2>3 DEF Lines, Agrees
<1> QED  BY <1>3, <1>4, <1>5

-----------------------------------------------------------------------------

LEMMA InitIInv == Init => IInv
<1> SUFFICES ASSUME Init PROVE IInv
  OBVIOUS
<1>1. TypeOK
  <2>1. led \in [Banks -> SUBSET Pins]
    BY DEF Init
  <2> QED  BY <2>1, NoRequestIsOne DEF Init, TypeOK, Statuses
<1>2. Handling /\ Copies
  BY DEF Init, Handling, Idle, Copies, Undoing
<1>3. Lines
  BY DEF Init, Lines, Agrees
<1> QED  BY <1>1, <1>2, <1>3 DEF IInv

LEMMA IInvStep == IInv /\ [Next]_vars => IInv'
<1> SUFFICES ASSUME IInv, [Next]_vars PROVE IInv'
  OBVIOUS
<1>1. CASE UNCHANGED vars
  BY <1>1 DEF vars, registers, handlerVars, historyVars, IInv, TypeOK, Handling, Idle, Copies, Agrees, Lines
<1>2. ASSUME NEW h \in Handlers, NEW q \in Requests, Refuse(h, q) \/ Accept(h, q) \/ Restore(h, q)
      PROVE  IInv'
  BY <1>2, RefuseStep, AcceptStep, RestoreStep
<1>3. ASSUME NEW h \in Handlers, Serve(h) PROVE IInv'
  BY <1>3, DumpStep, ReadDirStep, WriteDirStep, LevelRaisesStep, SetLevelStep, UndoDirStep, CallFailsStep,
     SleepEndsStep
     DEF Serve
<1>4. ASSUME NEW b \in Banks, NEW p \in Pins, KernelSetsLed(b, p) PROVE IInv'
  BY <1>4, KernelStep
<1> QED  BY <1>1, <1>2, <1>3, <1>4 DEF Next

\* The registers and the handlers' variables have their types.
THEOREM TypeCorrect == Spec => []TypeOK
<1>1. IInv => TypeOK
  BY DEF IInv
<1> QED  BY <1>1, InitIInv, IInvStep, PTL DEF Spec

\* Whatever requests race and whichever helper calls fail, a line that nobody
\* has named keeps the direction and level that it had.
THEOREM UnnamedLinesStay == Spec => []OnlyNamedLinesChange
<1>1. IInv => OnlyNamedLinesChange
  BY DEF IInv, Lines, Agrees, OnlyNamedLinesChange
<1> QED  BY <1>1, InitIInv, IInvStep, PTL DEF Spec

\* The lines claimed by a kernel driver stay outputs, at the driver's level.
THEOREM KernelKeepsLines == Spec => []ReservedLinesKept
<1>1. IInv => ReservedLinesKept
  BY DEF IInv, Handling, Lines, Agrees, ReservedPins, ReservedLinesKept
<1> QED  BY <1>1, InitIInv, IInvStep, PTL DEF Spec

-----------------------------------------------------------------------------
(* What one request may rely on while no other is served on its bank.       *)

Undisturbed(h) == ~Idle(h) /\ req[h].kind # "restore" /\ ~disturbed[h]

\* Of two requests on one bank, the second to come has disturbed both.
Alone ==
  \A h \in Handlers, g \in Handlers :
    Undisturbed(h) /\ g # h /\ ~Idle(g) /\ req[g].kind # "restore" => req[g].bank # req[h].bank

\* Until gpio_pulse has its copy, and after it has written it, the directions are
\* those that the request found; meanwhile the copy is.
PulseOnCourse(h) ==
  /\ pc[h] \in {"originalDump", "replyDump"} \cup Undoing
  /\ pc[h] \in {"originalDump", "replyDump"} => dir[req[h].bank] = before[h]
  /\ pc[h] \in Undoing => original[h] = before[h]

Directed(h) ==
  /\ req[h].direction = "out" => req[h].pin \in dir[req[h].bank]
  /\ req[h].direction = "in" => req[h].pin \notin dir[req[h].bank]

Levelled(h) ==
  req[h].level # "none" /\ req[h].pin \in dir[req[h].bank]
    => (req[h].pin \in latch[req[h].bank] <=> req[h].level = "1")

\* The direction is as asked once its call is behind, and the level at the reply.
DirectOnCourse(h) ==
  /\ pc[h] \in {"direction", "level", "replyDump"}
  /\ pc[h] \in {"level", "replyDump"} => Directed(h)
  /\ pc[h] = "replyDump" => Levelled(h)

Course(h) ==
  /\ req[h].kind = "pulse" => PulseOnCourse(h)
  /\ req[h].kind = "direct" => DirectOnCourse(h)

Courses == \A h \in Handlers : Undisturbed(h) => Course(h)

PInv == IInv /\ Alone /\ Courses

\* How a helper call ends, in more detail than CallEnds.
LEMMA CallEndsHow ==
  ASSUME TypeOK, NEW h \in Handlers, pc[h] \notin {"idle", "sleep"},
         Succeeds(h) \/ Fails(h)
  PROVE  /\ \A g \in Handlers \ {h} :
              /\ pc'[g] = pc[g] /\ req'[g] = req[g] /\ original'[g] = original[g]
              /\ before'[g] = before[g] /\ disturbed'[g] = disturbed[g]
         /\ disturbed[h] => disturbed'[h]
         /\ \/ /\ pc'[h] = "idle"
               /\ \/ pc[h] = "replyDump"
                  \/ pc[h] = "undo" /\ status'[h] # "200"
                  \/ pc[h] = "low" /\ disturbed'[h] /\ status'[h] = "500"
                  \/ pc[h] \notin {"out", "high", "low", "undo"} /\ status'[h] = "500"
            \/ /\ req'[h] = req[h] /\ before'[h] = before[h] /\ pc[h] # "replyDump"
               /\ original'[h] = IF pc[h] = "originalDump" THEN dir[req[h].bank] ELSE original[h]
               /\ \/ Succeeds(h) /\ pc'[h] = NextCall(h)
                  \/ pc[h] \in {"out", "high"} /\ pc'[h] = "low"
         /\ pc[h] = "undo" /\ Fails(h) => disturbed'[h]
<1>1. ASSUME NEW code \in Statuses, Reply(h, code)
      PROVE  /\ pc'[h] = "idle" /\ status'[h] = code
             /\ \A g \in Handlers \ {h} :
                  /\ pc'[g] = pc[g] /\ req'[g] = req[g] /\ original'[g] = original[g]
                  /\ before'[g] = before[g]
  BY <1>1 DEF TypeOK, Reply
<1>2. ASSUME NEW call \in Calls, NEW exception \in {"none", "400", "500"},
             Continue(h, call, exception)
      PROVE  /\ req'[h] = req[h] /\ pc'[h] = call /\ before'[h] = before[h]
             /\ original'[h] = IF pc[h] = "originalDump" THEN dir[req[h].bank] ELSE original[h]
             /\ \A g \in Handlers \ {h} :
                  /\ pc'[g] = pc[g] /\ req'[g] = req[g] /\ original'[g] = original[g]
                  /\ before'[g] = before[g]
  BY <1>2 DEF TypeOK, Continue
<1>3. raising[h] \in {"none", "400", "500"} /\ raising[h] \in Statuses
  BY DEF TypeOK, Statuses
<1>4. CASE Succeeds(h)
  <2>1. disturbed' = disturbed
    BY <1>4 DEF Succeeds
  <2>2. pc[h] = "undo" /\ Fails(h) => disturbed'[h]
    BY DEF Fails, TypeOK
  <2>3. CASE pc[h] = "replyDump"
    <3>1. Reply(h, "200")
      BY <1>4, <2>3 DEF Succeeds
    <3> QED  BY <1>1, <2>1, <2>2, <2>3, <3>1 DEF Statuses
  <2>4. CASE pc[h] = "undo" /\ raising[h] # "none"
    <3>1. Reply(h, raising[h])
      BY <1>4, <2>4 DEF Succeeds
    <3> QED  BY <1>1, <1>3, <2>1, <2>2, <2>4, <3>1
  <2>5. CASE pc[h] # "replyDump" /\ ~(pc[h] = "undo" /\ raising[h] # "none")
    <3>1. Continue(h, NextCall(h), raising[h])
      BY <1>4, <2>5 DEF Succeeds
    <3>2. NextCall(h) \in Calls
      BY DEF NextCall, Calls
    <3> QED  BY <1>2, <1>3, <1>4, <2>1, <2>2, <2>5, <3>1, <3>2
  <2> QED  BY <2>3, <2>4, <2>5
<1>5. CASE Fails(h)
  <2>1. /\ \A g \in Handlers \ {h} : disturbed'[g] = disturbed[g]
        /\ disturbed[h] => disturbed'[h]
        /\ pc[h] \in {"low", "undo"} => disturbed'[h]
    BY <1>5 DEF Fails, TypeOK
  <2>2. CASE pc[h] \in {"out", "high"}
    <3>1. Continue(h, "low", "500")
      BY <1>5, <2>2 DEF Fails
    <3>2. "low" \in Calls
      BY DEF Calls
    <3> QED  BY <1>2, <2>1, <2>2, <3>1, <3>2
  <2>3. CASE pc[h] \notin {"out", "high"}
    <3>1. Reply(h, "500")
      BY <1>5, <2>3 DEF Fails
    <3>2. pc'[h] = "idle" /\ status'[h] = "500"
      BY <1>1, <3>1 DEF Statuses
    <3>3. \A g \in Handlers \ {h} :
            /\ pc'[g] = pc[g] /\ req'[g] = req[g] /\ original'[g] = original[g]
            /\ before'[g] = before[g]
      BY <1>1, <3>1 DEF Statuses
    <3> QED  BY <2>1, <2>3, <3>2, <3>3
  <2> QED  BY <2>2, <2>3
<1> QED  BY <1>4, <1>5

\* Requests that end, or are disturbed, leave the others alone.
LEMMA StaysAlone ==
  ASSUME Alone,
         \A k \in Handlers : pc'[k] # "idle" /\ req'[k].kind # "restore" =>
           /\ pc[k] # "idle" /\ req'[k] = req[k]
           /\ disturbed[k] => disturbed'[k]
  PROVE  Alone'
  BY DEF Alone, Undisturbed, Idle

\* A handler's course does not depend on what is done on another bank.
LEMMA CourseStays ==
  ASSUME PInv, NEW h \in Handlers, NEW k \in Handlers \ {h},
         pc'[k] = pc[k], req'[k] = req[k], original'[k] = original[k], before'[k] = before[k],
         disturbed[k] => disturbed'[k],
         \A b \in Banks : \/ ~Idle(h) /\ req[h].kind # "restore" /\ req[h].bank = b
                          \/ dir'[b] = dir[b] /\ latch'[b] = latch[b]
  PROVE  (Undisturbed(k) => Course(k))'
<1> SUFFICES ASSUME Undisturbed(k)' PROVE Course(k)'
  OBVIOUS
<1>1. Undisturbed(k)
  BY DEF Undisturbed, Idle
<1>2. req[k].bank \in Banks
  BY RequestFields DEF PInv, IInv, TypeOK
<1>3. dir'[req[k].bank] = dir[req[k].bank] /\ latch'[req[k].bank] = latch[req[k].bank]
  BY <1>1, <1>2 DEF PInv, Alone
<1>4. Course(k)
  BY <1>1 DEF PInv, Courses
<1>5. req[k].kind = "pulse" => PulseOnCourse(k)'
  BY <1>3, <1>4 DEF Course, PulseOnCourse
<1>6. req[k].kind = "direct" => DirectOnCourse(k)'
  BY <1>3, <1>4 DEF Course, DirectOnCourse, Directed, Levelled
<1> QED  BY <1>5, <1>6 DEF Course

\* The step of one helper call: what it does to its own course is left to show.
LEMMA CallKeepsCourses ==
  ASSUME PInv, IInv', NEW h \in Handlers, pc[h] \notin {"idle", "sleep"},
         Succeeds(h) \/ Fails(h),
         \A b \in Banks : \/ req[h].kind # "restore" /\ req[h].bank = b
                          \/ dir'[b] = dir[b] /\ latch'[b] = latch[b],
         (Undisturbed(h) => Course(h))'
  PROVE  PInv'
<1>1. /\ \A g \in Handlers \ {h} :
           /\ pc'[g] = pc[g] /\ req'[g] = req[g] /\ original'[g] = original[g]
           /\ before'[g] = before[g] /\ disturbed'[g] = disturbed[g]
      /\ disturbed[h] => disturbed'[h]
      /\ pc'[h] = "idle" \/ req'[h] = req[h]
  BY CallEndsHow DEF PInv, IInv
<1>2. Alone'
  BY <1>1, StaysAlone DEF PInv
<1>3. ASSUME NEW k \in Handlers \ {h} PROVE (Undisturbed(k) => Course(k))'
  BY <1>1, <1>3, CourseStays DEF Idle
<1>4. Courses'
  BY <1>3 DEF Courses
<1> QED  BY <1>2, <1>4 DEF PInv

-----------------------------------------------------------------------------
(* The steps again, for PInv.                                              *)

\* A request that finds another on its bank is disturbed, and so is the other.
LEMMA AcceptCourse ==
  ASSUME PInv, NEW h \in Handlers, NEW q \in Requests, Accept(h, q)
  PROVE  PInv'
<1> USE DEF PInv
<1>1. IInv'
  BY AcceptStep
<1>2. TypeOK /\ q.bank \in Banks /\ q.kind \in {"pulse", "direct", "restore"}
  BY RequestFields DEF IInv
<1>3. /\ pc[h] = "idle" /\ pc'[h] = FirstCall(q) /\ req'[h] = q /\ before'[h] = dir[q.bank]
      /\ disturbed'[h] = (Others(h, q.bank) # {})
      /\ \A k \in Handlers \ {h} :
           /\ pc'[k] = pc[k] /\ req'[k] = req[k] /\ before'[k] = before[k]
           /\ disturbed'[k] = (disturbed[k] \/ k \in Others(h, q.bank))
      /\ original' = original /\ dir' = dir /\ latch' = latch
  BY <1>2 DEF Accept, Idle, TypeOK, registers
<1>4. Alone'
  <2> SUFFICES ASSUME NEW k \in Handlers, NEW g \in Handlers,
                      Undisturbed(k)', g # k, ~Idle(g)', req'[g].kind # "restore"
               PROVE  req'[g].bank # req'[k].bank
    BY DEF Alone
  <2>1. CASE k = h
    <3>1. g \notin Others(h, q.bank)
      BY <1>3, <2>1 DEF Undisturbed
    <3> QED  BY <1>3, <2>1, <3>1 DEF Others, Idle
  <2>2. CASE g = h
    <3>1. k \notin Others(h, q.bank) /\ pc[k] # "idle" /\ req[k].kind # "restore" /\ req'[k] = req[k]
      BY <1>3, <2>2 DEF Undisturbed, Idle
    <3> QED  BY <1>3, <2>2, <3>1 DEF Others, Idle
  <2>3. CASE k # h /\ g # h
    <3>1. /\ pc'[k] = pc[k] /\ req'[k] = req[k] /\ pc'[g] = pc[g] /\ req'[g] = req[g]
          /\ disturbed[k] => disturbed'[k]
      BY <1>3, <2>3
    <3>2. Undisturbed(k) /\ ~Idle(g) /\ req[g].kind # "restore"
      BY <3>1 DEF Undisturbed, Idle
    <3> QED  BY <3>1, <3>2 DEF Alone
  <2> QED  BY <2>1, <2>2, <2>3
<1>5. ASSUME NEW k \in Handlers \ {h} PROVE (Undisturbed(k) => Course(k))'
  BY <1>3, <1>5, CourseStays
<1>6. Course(h)'
  <2>1. q.kind = "pulse" => PulseOnCourse(h)'
    BY <1>3 DEF PulseOnCourse, FirstCall, Undoing
  <2>2. q.kind = "direct" => DirectOnCourse(h)'
    BY <1>3 DEF DirectOnCourse, FirstCall, Directed, Levelled
  <2> QED  BY <1>3, <2>1, <2>2 DEF Course
<1>7. Courses'
  BY <1>5, <1>6 DEF Courses
<1> QED  BY <1>1, <1>4, <1>7

\* Requests that touch no register and have no course.
LEMMA RefuseOrRestoreCourse ==
  ASSUME PInv, NEW h \in Handlers, NEW q \in Requests, Refuse(h, q) \/ Restore(h, q)
  PROVE  PInv'
<1> USE DEF PInv
<1>1. IInv'
  BY RefuseStep, RestoreStep
<1>2. /\ Idle(h)
      /\ dir' = dir /\ latch' = latch /\ original' = original /\ before' = before
      /\ disturbed' = disturbed
      /\ \A k \in Handlers \ {h} : pc'[k] = pc[k] /\ req'[k] = req[k]
      /\ pc'[h] = "idle" \/ req'[h].kind = "restore"
  BY DEF Refuse, Restore, BaselineMasks, IInv, TypeOK, registers, historyVars, Idle
<1>3. Alone'
  BY <1>2, StaysAlone
<1>4. ASSUME NEW k \in Handlers \ {h} PROVE (Undisturbed(k) => Course(k))'
  BY <1>2, <1>4, CourseStays
<1>5. ~Undisturbed(h)'
  BY <1>2 DEF Undisturbed, Idle
<1> QED  BY <1>1, <1>3, <1>4, <1>5 DEF Courses

LEMMA DumpCourse ==
  ASSUME PInv, NEW h \in Handlers, Dump(h)
  PROVE  PInv'
<1> USE DEF PInv
<1>1. IInv'
  BY DumpStep
<1>2. /\ pc[h] \in {"originalDump", "replyDump"} /\ Succeeds(h)
      /\ dir' = dir /\ latch' = latch
  BY DEF Dump, registers
<1>3. (Undisturbed(h) => Course(h))'
  <2> SUFFICES ASSUME Undisturbed(h)' PROVE Course(h)'
    OBVIOUS
  <2>1. /\ pc[h] = "originalDump" /\ pc'[h] = "out" /\ req'[h] = req[h] /\ before'[h] = before[h]
        /\ original'[h] = dir[req[h].bank] /\ ~disturbed[h]
    BY <1>2, CallEndsHow DEF IInv, Undisturbed, Idle, NextCall
  <2>2. Undisturbed(h)
    BY <2>1 DEF Undisturbed, Idle
  <2>3. Course(h)
    BY <2>2 DEF Courses
  <2>4. req[h].kind = "pulse" => PulseOnCourse(h)'
    BY <1>2, <2>1, <2>3 DEF Course, PulseOnCourse, Undoing
  <2>5. req[h].kind # "direct"
    BY <2>1, <2>3 DEF Course, DirectOnCourse
  <2> QED  BY <2>1, <2>4, <2>5 DEF Course
<1> QED  BY <1>1, <1>2, <1>3, CallKeepsCourses

LEMMA ReadDirCourse ==
  ASSUME PInv, NEW h \in Handlers, ReadDir(h)
  PROVE  PInv'
<1> USE DEF PInv
<1>1. IInv'
  BY ReadDirStep
<1>2. UNCHANGED <<dir, latch, pc, req, original, before, disturbed>>
  BY DEF ReadDir, registers, historyVars
<1> QED  BY <1>1, <1>2 DEF Alone, Courses, Undisturbed, Idle, Course, PulseOnCourse, DirectOnCourse,
                           Directed, Levelled

\* The pin has the direction that was asked for: "out" in a pulse, and in a
\* direct request what the helper was given.
LEMMA WriteDirCourse ==
  ASSUME PInv, NEW h \in Handlers, WriteDir(h)
  PROVE  PInv'
<1> USE DEF PInv
<1> DEFINE b == req[h].bank
<1>1. IInv'
  BY WriteDirStep
<1>2. /\ pc[h] \in {"out", "direction"} /\ read[h] # NoMask
      /\ Succeeds(h) \/ Fails(h)
      /\ dir' = [dir EXCEPT ![b] = IF Output(h) THEN read[h] \cup {req[h].pin}
                                                ELSE read[h] \ {req[h].pin}]
      /\ latch' = latch
  BY DEF WriteDir
<1>3. b \in Banks /\ req[h].kind # "restore"
  BY <1>2, RequestFields DEF IInv, TypeOK, Handling
<1>4. \A a \in Banks : b = a \/ (dir'[a] = dir[a] /\ latch'[a] = latch[a])
  BY <1>2 DEF IInv, TypeOK
<1>5. (Undisturbed(h) => Course(h))'
  <2> SUFFICES ASSUME Undisturbed(h)' PROVE Course(h)'
    OBVIOUS
  <2>1. /\ req'[h] = req[h] /\ before'[h] = before[h] /\ original'[h] = original[h]
        /\ ~disturbed[h]
        /\ \/ Succeeds(h) /\ pc'[h] = NextCall(h)
           \/ pc[h] = "out" /\ pc'[h] = "low"
    BY <1>2, CallEndsHow DEF IInv, Undisturbed, Idle
  <2>2. Course(h)
    BY <1>2, <2>1, <1>3 DEF Courses, Undisturbed, Idle
  <2>3. ASSUME req[h].kind = "pulse" PROVE PulseOnCourse(h)'
    <3>1. pc[h] = "out" /\ original[h] = before[h]
      BY <1>2, <2>2, <2>3 DEF Course, PulseOnCourse, Undoing
    <3>2. pc'[h] \in {"high", "low"}
      BY <2>1, <3>1 DEF NextCall
    <3> QED  BY <2>1, <3>1, <3>2 DEF PulseOnCourse, Undoing
  <2>4. ASSUME req[h].kind = "direct" PROVE DirectOnCourse(h)'
    <3>1. pc[h] = "direction"
      BY <1>2, <2>2, <2>4 DEF Course, DirectOnCourse
    <3>2. pc'[h] = IF req[h].level # "none" THEN "level" ELSE "replyDump"
      BY <2>1, <3>1 DEF NextCall
    <3>3. dir'[b] = IF req[h].direction = "out" THEN read[h] \cup {req[h].pin}
                                               ELSE read[h] \ {req[h].pin}
      BY <1>2, <1>3, <3>1 DEF IInv, TypeOK, Output
    <3>4. Directed(h)'
      BY <2>1, <3>3 DEF Directed
    <3>5. pc'[h] = "replyDump" => Levelled(h)'
      BY <2>1, <3>2 DEF Levelled
    <3> QED  BY <3>2, <3>4, <3>5 DEF DirectOnCourse
  <2> QED  BY <2>1, <2>3, <2>4 DEF Course
<1> QED  BY <1>1, <1>2, <1>3, <1>4, <1>5, CallKeepsCourses

\* If the pin is an output, it has the level that was asked for.
LEMMA SetLevelCourse ==
  ASSUME PInv, NEW h \in Handlers, SetLevel(h)
  PROVE  PInv'
<1> USE DEF PInv
<1> DEFINE b == req[h].bank
           p == req[h].pin
<1>1. IInv'
  BY SetLevelStep
<1>2. /\ pc[h] \in {"high", "low", "level"} /\ ~Invalid(h)
      /\ Succeeds(h) \/ Fails(h)
      /\ latch' = [latch EXCEPT ![b] = IF p \notin dir[b] THEN @
                                       ELSE IF High(h) THEN @ \cup {p} ELSE @ \ {p}]
      /\ dir' = dir
  BY DEF SetLevel
<1>3. b \in Banks /\ req[h].kind # "restore"
  BY <1>2, RequestFields DEF IInv, TypeOK, Handling
<1>4. \A a \in Banks : b = a \/ (dir'[a] = dir[a] /\ latch'[a] = latch[a])
  BY <1>2 DEF IInv, TypeOK
<1>5. (Undisturbed(h) => Course(h))'
  <2> SUFFICES ASSUME Undisturbed(h)' PROVE Course(h)'
    OBVIOUS
  <2>1. /\ req'[h] = req[h] /\ before'[h] = before[h] /\ original'[h] = original[h]
        /\ ~disturbed[h]
        /\ \/ pc'[h] = NextCall(h)
           \/ pc[h] = "high" /\ pc'[h] = "low"
    BY <1>2, CallEndsHow DEF IInv, Undisturbed, Idle
  <2>2. Course(h)
    BY <1>2, <2>1, <1>3 DEF Courses, Undisturbed, Idle
  <2>3. ASSUME req[h].kind = "pulse" PROVE PulseOnCourse(h)'
    <3>1. pc[h] \in {"high", "low"} /\ original[h] = before[h]
      BY <1>2, <2>2, <2>3 DEF Course, PulseOnCourse, Undoing
    <3>2. pc'[h] \in {"sleep", "undo", "low"}
      BY <2>1, <3>1 DEF NextCall
    <3> QED  BY <2>1, <3>1, <3>2 DEF PulseOnCourse, Undoing
  <2>4. ASSUME req[h].kind = "direct" PROVE DirectOnCourse(h)'
    <3>1. pc[h] = "level" /\ Directed(h)
      BY <1>2, <2>2, <2>4 DEF Course, DirectOnCourse
    <3>2. pc'[h] = "replyDump"
      BY <2>1, <3>1 DEF NextCall
    <3>3. p \in dir[b] => latch'[b] = IF req[h].level = "1" THEN latch[b] \cup {p} ELSE latch[b] \ {p}
      BY <1>2, <1>3, <3>1 DEF IInv, TypeOK, High
    <3>4. Directed(h)'
      BY <1>2, <2>1, <3>1 DEF Directed
    <3>5. Levelled(h)'
      BY <1>2, <2>1, <3>3 DEF Levelled
    <3> QED  BY <3>2, <3>4, <3>5 DEF DirectOnCourse
  <2> QED  BY <2>1, <2>3, <2>4 DEF Course
<1> QED  BY <1>1, <1>2, <1>3, <1>4, <1>5, CallKeepsCourses

\* The copy is written back: the directions are those that the request found.
LEMMA UndoDirCourse ==
  ASSUME PInv, NEW h \in Handlers, UndoDir(h)
  PROVE  PInv'
<1> USE DEF PInv
<1> DEFINE b == req[h].bank
<1>1. IInv'
  BY UndoDirStep
<1>2. /\ pc[h] = "undo"
      /\ Succeeds(h) \/ Fails(h)
      /\ dir' = [dir EXCEPT ![b] = original[h]]
      /\ latch' = latch
  BY DEF UndoDir
<1>3. b \in Banks /\ req[h].kind # "restore"
  BY <1>2, RequestFields DEF IInv, TypeOK, Handling
<1>4. \A a \in Banks : b = a \/ (dir'[a] = dir[a] /\ latch'[a] = latch[a])
  BY <1>2 DEF IInv, TypeOK
<1>5. (Undisturbed(h) => Course(h))'
  <2> SUFFICES ASSUME Undisturbed(h)' PROVE Course(h)'
    OBVIOUS
  <2>1. /\ req'[h] = req[h] /\ before'[h] = before[h] /\ ~disturbed[h]
        /\ pc'[h] = "replyDump"
    BY <1>2, CallEndsHow DEF IInv, Undisturbed, Idle, NextCall
  <2>2. Course(h)
    BY <1>2, <2>1, <1>3 DEF Courses, Undisturbed, Idle
  <2>3. dir'[b] = original[h]
    BY <1>2, <1>3 DEF IInv, TypeOK
  <2>4. req[h].kind = "pulse" => PulseOnCourse(h)'
    BY <1>2, <2>1, <2>2, <2>3 DEF Course, PulseOnCourse, Undoing
  <2>5. req[h].kind # "direct"
    BY <1>2, <2>2 DEF Course, DirectOnCourse
  <2> QED  BY <2>1, <2>4, <2>5 DEF Course
<1> QED  BY <1>1, <1>2, <1>3, <1>4, <1>5, CallKeepsCourses

\* A call of gpio_pulse that fails leads to the calls that undo it.
LEMMA CallFailsCourse ==
  ASSUME PInv, NEW h \in Handlers, CallFails(h)
  PROVE  PInv'
<1> USE DEF PInv
<1>1. IInv'
  BY CallFailsStep
<1>2. pc[h] \notin {"idle", "sleep"} /\ Fails(h) /\ dir' = dir /\ latch' = latch
  BY DEF CallFails, registers
<1>3. (Undisturbed(h) => Course(h))'
  <2> SUFFICES ASSUME Undisturbed(h)' PROVE Course(h)'
    OBVIOUS
  <2>1. pc[h] \in {"out", "high"}
    BY <1>2 DEF Fails, Reply, Undisturbed, Idle, IInv, TypeOK
  <2>2. Continue(h, "low", "500")
    BY <1>2, <2>1 DEF Fails
  <2>3. /\ req'[h] = req[h] /\ before'[h] = before[h] /\ original'[h] = original[h]
        /\ pc'[h] = "low"
    BY <2>1, <2>2 DEF Continue, IInv, TypeOK
  <2>4. ~disturbed[h]
    BY <1>2, CallEndsHow DEF IInv, Undisturbed
  <2>5. Course(h)
    BY <1>2, <2>3, <2>4 DEF Courses, Undisturbed, Idle
  <2>6. req[h].kind = "pulse" => PulseOnCourse(h)'
    BY <2>1, <2>3, <2>5 DEF Course, PulseOnCourse, Undoing
  <2>7. req[h].kind # "direct"
    BY <2>1, <2>5 DEF Course, DirectOnCourse
  <2> QED  BY <2>3, <2>6, <2>7 DEF Course
<1> QED  BY <1>1, <1>2, <1>3, CallKeepsCourses

LEMMA LevelRaisesCourse ==
  ASSUME PInv, NEW h \in Handlers, LevelRaises(h)
  PROVE  PInv'
<1> USE DEF PInv
<1>1. IInv'
  BY LevelRaisesStep
<1>2. UNCHANGED <<dir, latch, disturbed>>
  BY DEF LevelRaises, registers
<1>3. PICK code \in Statuses : Reply(h, code)
  BY DEF LevelRaises, Statuses
<1>4. /\ pc'[h] = "idle"
      /\ \A g \in Handlers \ {h} :
           /\ pc'[g] = pc[g] /\ req'[g] = req[g] /\ original'[g] = original[g]
           /\ before'[g] = before[g]
  BY <1>3, ReplyOnly DEF IInv
<1>5. Alone'
  BY <1>2, <1>4, StaysAlone
<1>6. ASSUME NEW k \in Handlers \ {h} PROVE (Undisturbed(k) => Course(k))'
  BY <1>2, <1>4, <1>6, CourseStays
<1>7. ~Undisturbed(h)'
  BY <1>4 DEF Undisturbed, Idle
<1> QED  BY <1>1, <1>5, <1>6, <1>7 DEF Courses

LEMMA SleepEndsCourse ==
  ASSUME PInv, NEW h \in Handlers, WakeUp(h) \/ SleepRaises(h)
  PROVE  PInv'
<1> USE DEF PInv
<1>1. IInv'
  BY SleepEndsStep
<1>2. /\ pc[h] = "sleep" /\ pc' = [pc EXCEPT ![h] = "low"]
      /\ UNCHANGED <<dir, latch, req, original, before, disturbed>>
  BY DEF WakeUp, SleepRaises, registers, historyVars
<1>3. /\ pc'[h] = "low"
      /\ \A k \in Handlers \ {h} : pc'[k] = pc[k]
  BY <1>2 DEF IInv, TypeOK
<1>4. Alone'
  BY <1>2, <1>3, StaysAlone
<1>5. ASSUME NEW k \in Handlers \ {h} PROVE (Undisturbed(k) => Course(k))'
  BY <1>2, <1>3, <1>5, CourseStays
<1>6. (Undisturbed(h) => Course(h))'
  <2> SUFFICES ASSUME Undisturbed(h)' PROVE Course(h)'
    OBVIOUS
  <2>1. Course(h)
    BY <1>2 DEF Courses, Undisturbed, Idle
  <2>2. req[h].kind = "pulse" => PulseOnCourse(h)'
    BY <1>2, <1>3, <2>1 DEF Course, PulseOnCourse, Undoing
  <2>3. req[h].kind # "direct"
    BY <1>2, <2>1 DEF Course, DirectOnCourse
  <2> QED  BY <1>2, <2>2, <2>3 DEF Course
<1> QED  BY <1>1, <1>4, <1>5, <1>6 DEF Courses

\* The kernel's driver sets lines that no request has been accepted for.
LEMMA KernelCourse ==
  ASSUME PInv, NEW b \in Banks, NEW p \in Pins, KernelSetsLed(b, p)
  PROVE  PInv'
<1> USE DEF PInv
<1>1. IInv'
  BY KernelStep
<1>2. PICK on \in {{}, {p}} : latch' = [latch EXCEPT ![b] = (@ \ {p}) \cup on]
  BY DEF KernelSetsLed
<1>3. <<b, p>> \in Reserved /\ UNCHANGED <<dir, pc, req, original, before, disturbed>>
  BY DEF KernelSetsLed, handlerVars
<1>4. Alone'
  BY <1>3, StaysAlone
<1>5. ASSUME NEW k \in Handlers, Undisturbed(k)' PROVE Course(k)'
  <2>1. Course(k) /\ ~Idle(k) /\ req[k].kind # "restore"
    BY <1>3, <1>5 DEF Courses, Undisturbed, Idle
  <2>2. <<req[k].bank, req[k].pin>> # <<b, p>> /\ req[k].bank \in Banks
    BY <1>3, <2>1, RequestFields DEF IInv, TypeOK, Handling
  <2>3. latch'[req[k].bank] = IF req[k].bank = b THEN (latch[b] \ {p}) \cup on ELSE latch[req[k].bank]
    BY <1>2, <2>2 DEF IInv, TypeOK
  <2>4. req[k].pin \in latch'[req[k].bank] <=> req[k].pin \in latch[req[k].bank]
    BY <2>2, <2>3
  <2>5. req[k].kind = "pulse" => PulseOnCourse(k)'
    BY <1>3, <2>1 DEF Course, PulseOnCourse
  <2>6. req[k].kind = "direct" => DirectOnCourse(k)'
    BY <1>3, <2>1, <2>4 DEF Course, DirectOnCourse, Directed, Levelled
  <2> QED  BY <1>3, <2>5, <2>6 DEF Course
<1> QED  BY <1>1, <1>4, <1>5 DEF Courses

-----------------------------------------------------------------------------

LEMMA InitPInv == Init => PInv
  BY InitIInv DEF Init, PInv, Alone, Courses, Undisturbed, Idle

LEMMA PInvStep == PInv /\ [Next]_vars => PInv'
<1> SUFFICES ASSUME PInv, [Next]_vars PROVE PInv'
  OBVIOUS
<1>1. CASE UNCHANGED vars
  <2>1. IInv'
    BY <1>1, IInvStep DEF PInv
  <2> QED  BY <1>1, <2>1 DEF vars, registers, handlerVars, historyVars, PInv, Alone, Courses,
                  Undisturbed, Idle, Course, PulseOnCourse, DirectOnCourse, Directed, Levelled
<1>2. ASSUME NEW h \in Handlers, NEW q \in Requests, Refuse(h, q) \/ Accept(h, q) \/ Restore(h, q)
      PROVE  PInv'
  BY <1>2, RefuseOrRestoreCourse, AcceptCourse
<1>3. ASSUME NEW h \in Handlers, Serve(h) PROVE PInv'
  BY <1>3, DumpCourse, ReadDirCourse, WriteDirCourse, LevelRaisesCourse, SetLevelCourse, UndoDirCourse,
     CallFailsCourse, SleepEndsCourse
     DEF Serve
<1>4. ASSUME NEW b \in Banks, NEW p \in Pins, KernelSetsLed(b, p) PROVE PInv'
  BY <1>4, KernelCourse
<1> QED  BY <1>1, <1>2, <1>3, <1>4 DEF Next

\* The step in which a handler replies: a call of the helper ends, or the level of
\* a direct request turns out to be none.
LEMMA ReplyIsOfACall ==
  ASSUME PInv, [Next]_vars, NEW h \in Handlers, ~Idle(h), Idle(h)'
  PROVE  \/ /\ pc[h] \notin {"idle", "sleep"}
            /\ Succeeds(h) \/ Fails(h)
            /\ Dump(h) \/ WriteDir(h) \/ SetLevel(h) \/ UndoDir(h) \/ CallFails(h)
         \/ pc[h] = "level" /\ disturbed' = disturbed /\ status'[h] # "200"
<1>1. CASE UNCHANGED vars
  BY <1>1 DEF vars, handlerVars, Idle
<1>2. ASSUME NEW g \in Handlers, NEW q \in Requests, Refuse(g, q) \/ Accept(g, q) \/ Restore(g, q)
      PROVE  FALSE
  <2>1. FirstCall(q) # "idle"
    BY FirstCallType
  <2> QED  BY <1>2, <2>1 DEF Refuse, Accept, Restore, Idle, PInv, IInv, TypeOK
<1>3. ASSUME NEW g \in Handlers, Serve(g), ~LevelRaises(g)
      PROVE  /\ g = h
             /\ Dump(g) \/ WriteDir(g) \/ SetLevel(g) \/ UndoDir(g) \/ CallFails(g)
  <2>1. ~ReadDir(g) /\ ~WakeUp(g) /\ ~SleepRaises(g)
    BY DEF ReadDir, WakeUp, SleepRaises, Idle, PInv, IInv, TypeOK
  <2>2. Dump(g) \/ WriteDir(g) \/ SetLevel(g) \/ UndoDir(g) \/ CallFails(g)
    BY <1>3, <2>1 DEF Serve
  <2>3. pc[g] \notin {"idle", "sleep"} /\ (Succeeds(g) \/ Fails(g))
    BY <2>2 DEF Dump, WriteDir, SetLevel, UndoDir, CallFails
  <2>4. g # h => pc'[h] = pc[h]
    BY <2>3, CallEndsHow DEF PInv, IInv
  <2> QED  BY <2>2, <2>4 DEF Idle
<1>4. ASSUME NEW g \in Handlers, LevelRaises(g)
      PROVE  pc[h] = "level" /\ disturbed' = disturbed /\ status'[h] # "200"
  <2>1. pc[g] = "level" /\ disturbed' = disturbed
    BY <1>4 DEF LevelRaises, Unparsed
  <2>2. PICK code \in {"400", "none"} : Reply(g, code)
    BY <1>4 DEF LevelRaises
  <2>3. status'[g] # "200" /\ (g # h => pc'[h] = pc[h])
    BY <2>2, ReplyOnly DEF PInv, IInv, Statuses
  <2> QED  BY <2>1, <2>3 DEF Idle
<1>5. ASSUME NEW b \in Banks, NEW p \in Pins, KernelSetsLed(b, p) PROVE FALSE
  BY <1>5 DEF KernelSetsLed, handlerVars, Idle
<1>6. ASSUME Dump(h) \/ WriteDir(h) \/ SetLevel(h) \/ UndoDir(h) \/ CallFails(h)
      PROVE  pc[h] \notin {"idle", "sleep"} /\ (Succeeds(h) \/ Fails(h))
  BY <1>6 DEF Dump, WriteDir, SetLevel, UndoDir, CallFails
<1> QED  BY <1>1, <1>2, <1>3, <1>4, <1>5, <1>6 DEF Next

\* A pulse that nothing disturbs leaves the directions of its bank as it found
\* them, whichever of its calls failed.
THEOREM PulsesUndoThemselves == Spec => PulsePutsDirectionsBack
<1>1. ASSUME PInv, [Next]_vars, NEW h \in Handlers,
             req[h].kind = "pulse", ~Idle(h), Idle(h)', ~disturbed'[h]
      PROVE  dir'[req[h].bank] = before[h]
  <2> DEFINE b == req[h].bank
  <2>1. /\ pc[h] \notin {"idle", "sleep"}
        /\ Succeeds(h) \/ Fails(h)
        /\ Dump(h) \/ WriteDir(h) \/ SetLevel(h) \/ UndoDir(h) \/ CallFails(h)
    <3>1. ASSUME pc[h] = "level", disturbed' = disturbed PROVE FALSE
      BY <1>1, <3>1 DEF PInv, Courses, Undisturbed, Course, PulseOnCourse, Undoing
    <3> QED  BY <1>1, <3>1, ReplyIsOfACall
  <2>2. b \in Banks /\ TypeOK
    BY <1>1, RequestFields DEF PInv, IInv, TypeOK
  <2>3. ~disturbed[h] /\ pc[h] \notin {"out", "high", "low"}
    <3>1. NextCall(h) # "idle"
      BY DEF NextCall
    <3> QED  BY <1>1, <2>1, <2>2, <3>1, CallEndsHow DEF Idle
  <2>4. Course(h)
    BY <1>1, <2>3 DEF PInv, Courses, Undisturbed
  <2>5. PulseOnCourse(h)
    BY <1>1, <2>4 DEF Course
  <2>6. pc[h] \in {"originalDump", "replyDump", "undo"}
    BY <2>1, <2>3, <2>5 DEF PulseOnCourse, Undoing
  <2>7. CASE pc[h] = "undo"
    <3>1. ~Fails(h)
      BY <1>1, <2>1, <2>2, <2>7, CallEndsHow
    <3>2. UndoDir(h)
      BY <2>1, <2>7, <3>1 DEF Dump, WriteDir, SetLevel, CallFails
    <3>3. dir'[b] = original[h]
      BY <2>2, <3>2 DEF UndoDir, TypeOK
    <3> QED  BY <2>5, <2>7, <3>3 DEF PulseOnCourse, Undoing
  <2>8. CASE pc[h] \in {"originalDump", "replyDump"}
    <3>1. dir' = dir
      BY <2>1, <2>8 DEF Dump, WriteDir, SetLevel, UndoDir, CallFails, registers
    <3> QED  BY <2>5, <2>8, <3>1 DEF PulseOnCourse
  <2> QED  BY <2>6, <2>7, <2>8
<1>2. PInv /\ [Next]_vars =>
        [\A h \in Handlers :
           req[h].kind = "pulse" /\ ~Idle(h) /\ Idle(h)' /\ ~disturbed'[h]
             => dir'[req[h].bank] = before[h]]_vars
  BY <1>1
<1> QED  BY <1>2, InitPInv, PInvStep, PTL DEF Spec, PulsePutsDirectionsBack

\* A direct request that nothing disturbs and that is answered 200 has had its
\* effect.
THEOREM DirectRequestsTakeEffect == Spec => DirectTakesEffect
<1> DEFINE Effect(h) ==
             LET q == req[h]
             IN  q.kind = "direct" /\ ~Idle(h) /\ Idle(h)' /\ status'[h] = "200" /\ ~disturbed[h]
                   => /\ q.direction = "out" => q.pin \in dir'[q.bank]
                      /\ q.direction = "in" => q.pin \notin dir'[q.bank]
                      /\ q.level # "none" /\ q.pin \in dir'[q.bank]
                           => (q.pin \in latch'[q.bank] <=> q.level = "1")
<1>1. ASSUME PInv, [Next]_vars, NEW h \in Handlers,
             req[h].kind = "direct", ~Idle(h), Idle(h)', status'[h] = "200", ~disturbed[h]
      PROVE  dir' = dir /\ latch' = latch /\ Directed(h) /\ Levelled(h)
  <2>1. /\ pc[h] \notin {"idle", "sleep"}
        /\ Succeeds(h) \/ Fails(h)
        /\ Dump(h) \/ WriteDir(h) \/ SetLevel(h) \/ UndoDir(h) \/ CallFails(h)
    BY <1>1, ReplyIsOfACall
  <2>2. Course(h)
    BY <1>1 DEF PInv, Courses, Undisturbed
  <2>3. DirectOnCourse(h)
    BY <1>1, <2>2 DEF Course
  <2>4. pc[h] = "replyDump"
    <3>1. NextCall(h) # "idle"
      BY DEF NextCall
    <3> QED  BY <1>1, <2>1, <2>3, <3>1, CallEndsHow DEF PInv, IInv, Idle, DirectOnCourse
  <2>5. dir' = dir /\ latch' = latch
    BY <2>1, <2>4 DEF Dump, WriteDir, SetLevel, UndoDir, CallFails, registers
  <2> QED  BY <2>3, <2>4, <2>5 DEF DirectOnCourse
<1>2. ASSUME PInv, [Next]_vars, NEW h \in Handlers PROVE Effect(h)
  BY <1>1, <1>2 DEF Directed, Levelled
<1>3. PInv /\ [Next]_vars => [\A h \in Handlers : Effect(h)]_vars
  BY <1>2
<1> QED  BY <1>3, InitPInv, PInvStep, PTL DEF Spec, DirectTakesEffect

=============================================================================
