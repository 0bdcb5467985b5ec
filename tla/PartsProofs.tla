----------------------------- MODULE PartsProofs -----------------------------
(* Theorems about the parts that share no state.  A step of PartsSpec is one   *)
(* of one part, and a step of a part is one of its own specification, so what  *)
(* is proved of the part holds in the composition.  The CPU PLL, the device    *)
(* trees and the IR bursts have modules of their own; the invariants of the    *)
(* other parts are here.                                                       *)
EXTENDS BoxParts, LircReaderProofs

-----------------------------------------------------------------------------
(* The temperature sensor.  A reading is as good as its samples because nobody *)
(* switches the sensor off under the caller that samples: the one that is not  *)
(* idle holds the mutex.                                                       *)

HeatControl ==
  /\ \A c \in Callers : step[c] # "idle" => lock = {c}
  /\ \A c \in Callers : step[c] = "sample" => enabled

HeatInv == Heat!TypeOK /\ HeatControl /\ OneSampleIsDiluted

LEMMA ReadingType ==
  ASSUME NEW s \in Int
  PROVE  Heat!Reading(s) \in {Heat!NoTemp} \cup -40..150
<1>1. Heat!Celsius(s \div 8) \in Int
  BY DEF Heat!Celsius, Heat!Quotient
<1> QED  BY <1>1 DEF Heat!Reading, Heat!Samples, Heat!NoTemp

(* Seven good samples and one of any value do not show 105 degrees below 99.   *)
LEMMA ReadingIsClose ==
  ASSUME NEW c \in Nat, NEW s \in Nat, s <= 7 * c + 1023, Heat!Reading(s) >= 105
  PROVE  Heat!Celsius(c) >= 99
<1> DEFINE avg == s \div 8
<1>1. avg \in Nat /\ 8 * avg <= 7 * c + 1023
  OBVIOUS
<1> HIDE DEF avg
<1>2. Heat!Celsius(avg) >= 105
  BY DEF Heat!Reading, Heat!Samples, Heat!NoTemp, avg
<1>3. avg >= 834
  BY <1>1, <1>2 DEF Heat!Celsius, Heat!Quotient
<1>4. c >= 807
  BY <1>1, <1>3
<1> QED  BY <1>4 DEF Heat!Celsius, Heat!Quotient

LEMMA SampleIsClose ==
  ASSUME code \in 0..1023, enabled = TRUE, NEW s \in Heat!Sum
  PROVE  /\ Heat!Reading(s) \in {Heat!NoTemp} \cup -40..150
         /\ Heat!Reading(s) >= 105 => Heat!Celsius(code) >= 99
<1>1. Heat!Sum = {7 * code + v : v \in {0, code, 1023}}
  BY DEF Heat!Sum, Heat!Samples, Heat!SampleMax
<1>2. code \in Nat /\ s \in Nat /\ s <= 7 * code + 1023
  BY <1>1
<1>3. Heat!Reading(s) \in {Heat!NoTemp} \cup -40..150
  BY <1>2, ReadingType
<1>4. ASSUME Heat!Reading(s) >= 105 PROVE Heat!Celsius(code) >= 99
  BY <1>2, <1>4, ReadingIsClose
<1> QED  BY <1>3, <1>4

LEMMA HeatInit ==
  ASSUME Heat!Init
  PROVE  HeatInv
<1>1. Heat!TypeOK /\ HeatControl
  BY DEF Heat!Init, Heat!TypeOK, HeatControl
<1>2. ~(Heat!NoTemp >= Heat!Critical)
  BY DEF Heat!NoTemp, Heat!Critical
<1>3. OneSampleIsDiluted
  BY <1>2 DEF Heat!Init, OneSampleIsDiluted, Heat!OneSampleIsDiluted
<1> QED  BY <1>1, <1>3 DEF HeatInv

LEMMA HeatStep ==
  ASSUME HeatInv, [Heat!Next]_(Heat!vars)
  PROVE  HeatInv'
<1> USE DEF HeatInv, Heat!TypeOK, HeatControl, OneSampleIsDiluted,
            Heat!OneSampleIsDiluted, Heat!Critical
<1>1. CASE UNCHANGED Heat!vars
  BY <1>1 DEF Heat!vars
<1>2. ASSUME NEW c \in Callers, Heat!Lock(c) PROVE HeatInv'
  BY <1>2 DEF Heat!Lock, Heat!Free
<1>3. ASSUME NEW c \in Callers, Heat!Enable(c) PROVE HeatInv'
  BY <1>3 DEF Heat!Enable
<1>4. ASSUME NEW c \in Callers, Heat!Sample(c) PROVE HeatInv'
  <2>1. PICK s \in Heat!Sum : temp' = [temp EXCEPT ![c] = Heat!Reading(s)]
    BY <1>4 DEF Heat!Sample
  <2>2. code \in 0..1023 /\ enabled = TRUE
    BY <1>4, SensorAssumption DEF Heat!Sample
  <2>3. /\ Heat!Reading(s) \in {Heat!NoTemp} \cup -40..150
        /\ Heat!Reading(s) >= 105 => Heat!Celsius(code) >= 99
    BY <2>2, SampleIsClose
  <2>4. temp'[c] = Heat!Reading(s)
    BY <2>1
  <2>6. Heat!TypeOK' /\ HeatControl'
    BY <1>4, <2>1, <2>3 DEF Heat!Sample
  <2>7. OneSampleIsDiluted'
    BY <1>4, <2>1, <2>3, <2>4 DEF Heat!Sample
  <2> QED  BY <2>6, <2>7
<1>5. ASSUME NEW c \in Callers, Heat!Disable(c) PROVE HeatInv'
  BY <1>5 DEF Heat!Disable
<1>6. ASSUME NEW c \in Callers, Heat!Unlock(c) PROVE HeatInv'
  BY <1>6 DEF Heat!Unlock
<1> QED
  BY <1>1, <1>2, <1>3, <1>4, <1>5, <1>6 DEF Heat!Next

-----------------------------------------------------------------------------
(* uart-cmd.py.  The prompt at the end of the output is that of the command,   *)
(* or of an earlier one whose shell is about to take up the line.              *)

UartInv ==
  /\ Uart!TypeOK
  /\ tail = "prompt" => box \in {"prompting", "finished"}
  /\ ZeroMeansFinished

LEMMA UartInit ==
  ASSUME Uart!Init
  PROVE  UartInv
  BY ConsoleAssumption
     DEF Uart!Init, UartInv, Uart!TypeOK, ZeroMeansFinished, Uart!ZeroMeansFinished

LEMMA UartStep ==
  ASSUME UartInv, [Uart!Next]_(Uart!vars)
  PROVE  UartInv'
<1> USE ConsoleAssumption
    DEF UartInv, Uart!TypeOK, ZeroMeansFinished, Uart!ZeroMeansFinished
<1>1. CASE UNCHANGED Uart!vars
  BY <1>1 DEF Uart!vars
<1>2. CASE Uart!ReadChunk
  <2>1. PICK c \in Uart!Chunks : c[1] = box /\ box' = c[2] /\ tail' = c[3]
    BY <1>2 DEF Uart!ReadChunk
  <2>2. /\ c[2] \in {"earlier", "prompting", "running", "finished"}
        /\ c[3] \in {"text", "prompt"}
        /\ c[3] = "prompt" => c[2] \in {"prompting", "finished"}
    BY DEF Uart!Chunks
  <2> QED  BY <1>2, <2>1, <2>2 DEF Uart!ReadChunk
<1>3. CASE Uart!ReadNothing
  <2>1. Uart!BackForAMoment(now + 1) => box = "finished"
    BY <1>3 DEF Uart!ReadNothing, Uart!BackForAMoment, Uart!MaySayNothing
  <2> QED  BY <1>3, <2>1 DEF Uart!ReadNothing
<1>4. CASE Uart!MaxTimeout
  BY <1>4 DEF Uart!MaxTimeout
<1> QED  BY <1>1, <1>2, <1>3, <1>4 DEF Uart!Next

-----------------------------------------------------------------------------
(* The LED.  Between its two writes a request that is alone has its trigger in *)
(* place; blinking changes the brightness only, and only under a trigger.      *)

LedInv ==
  /\ Light!TypeOK
  /\ \A c \in Light!Posters :
       post[c].pc = "brightness" /\ post[c].alone /\ post[c].payload.trigger # Light!Nothing
         => led.trigger = post[c].payload.trigger
  /\ LoneRequestTakesEffect

LEMMA LedInit ==
  ASSUME Light!Init
  PROVE  LedInv
<1>1. Light!TypeOK
  BY RequestsAssumption
     DEF Light!Init, Light!TypeOK, Light!NoLoad, Light!NoPost, Light!Led, Light!Triggers,
         Light!Payload, Light!Nothing, Light!NotGiven
<1> QED
  BY <1>1 DEF LedInv, Light!Init, LoneRequestTakesEffect, Light!LoneRequestTakesEffect,
         Light!NoPost

(* A step that starts or ends requests and loads, but writes nothing.          *)
LEMMA LedInvKept ==
  ASSUME LedInv, Light!TypeOK', led' = led,
         \A c \in Light!Posters :
           post'[c].pc \in {"brightness", "reply"} => post'[c] = post[c]
  PROVE  LedInv'
  BY DEF LedInv, LoneRequestTakesEffect, Light!LoneRequestTakesEffect

LEMMA PayloadTypes ==
  /\ Payloads \subseteq Light!Payload
  /\ \A p \in Light!Payload :
       p.trigger \in Light!Triggers \cup {Light!Nothing} /\ p.brightness \in {0, 1, Light!NotGiven}
<1>1. 0..2 = {0, 1, 2}
  OBVIOUS
<1> QED
  BY <1>1, RequestsAssumption
     DEF Light!Payload, Light!Triggers, Light!Nothing, Light!NotGiven

LEMMA LedWritten ==
  ASSUME Light!TypeOK, NEW c \in Light!Posters, NEW s \in {"trigger", "brightness"}
  PROVE  Light!Written(c, s) \in Light!Led
<1>1. post[c].payload \in Light!Payload
  BY DEF Light!TypeOK
<1> QED
  BY <1>1, PayloadTypes
     DEF Light!Written, Light!WithTrigger, Light!WithBrightness, Light!TypeOK, Light!Led,
         Light!Triggers, Light!Nothing, Light!NotGiven

(* loadLeds takes a free slot.                                                 *)
LEMMA LoadType ==
  ASSUME Light!TypeOK, Light!LoadLeds
  PROVE  load' \in [1..MaxLoads -> [pc : {"none", "trigger", "brightness", "reply"}, seen : Light!Led]]
  BY DEF Light!TypeOK, Light!LoadLeds

LEMMA LedStep ==
  ASSUME LedInv, [Light!Next]_(Light!vars)
  PROVE  LedInv'
<1>0. Light!TypeOK
  BY DEF LedInv
<1>1. CASE UNCHANGED Light!vars
  BY <1>1 DEF Light!vars, LedInv, Light!TypeOK, LoneRequestTakesEffect,
              Light!LoneRequestTakesEffect
<1>2. CASE Light!Blink
  <2>1. Light!TypeOK'
    BY <1>0, <1>2 DEF Light!Blink, Light!TypeOK, Light!Led
  <2>2. led'.trigger = led.trigger /\ led.trigger # "none"
    BY <1>0, <1>2 DEF Light!Blink, Light!TypeOK, Light!Led
  <2> QED
    BY <1>2, <2>1, <2>2
       DEF Light!Blink, LedInv, LoneRequestTakesEffect, Light!LoneRequestTakesEffect
<1>3. CASE Light!Poll
  BY <1>0, <1>3, LoadType, LedInvKept DEF Light!Poll, Light!TypeOK
<1>4. CASE Light!PageAnswered
  <2>1. post' \in [Light!Posters -> [pc : {"none", "trigger", "brightness", "reply", "failed"},
                                    payload : Light!Payload, alone : BOOLEAN]]
    BY <1>0, <1>4 DEF Light!PageAnswered, Light!TypeOK, Light!NoPost, Light!Payload,
                      Light!Nothing, Light!NotGiven
  <2>2. Light!TypeOK'
    BY <1>0, <1>4, <2>1, LoadType DEF Light!PageAnswered, Light!TypeOK
  <2>3. \A c \in Light!Posters : post'[c].pc \in {"brightness", "reply"} => post'[c] = post[c]
    BY <1>0, <1>4 DEF Light!PageAnswered, Light!TypeOK, Light!NoPost
  <2> QED  BY <1>4, <2>2, <2>3, LedInvKept DEF Light!PageAnswered
<1>5. ASSUME NEW c \in Light!Posters, NEW p \in Light!Payload, Light!Request(c, p),
             UNCHANGED <<led, load, view>>
      PROVE  LedInv'
  BY <1>0, <1>5, LedInvKept DEF Light!Request, Light!TypeOK
<1>6. CASE Light!Click
  <2>1. view.brightness \in {0, 1}
    BY <1>0, <1>6 DEF Light!Click, Light!TypeOK, Light!Led, Light!Nothing
  <2>2. [trigger |-> Light!Nothing, brightness |-> 1 - view.brightness] \in Light!Payload
    BY <2>1 DEF Light!Payload
  <2>3. \A t \in Light!Triggers :
          [trigger |-> t, brightness |-> Light!NotGiven] \in Light!Payload
    BY DEF Light!Payload
  <2> QED  BY <1>5, <1>6, <2>2, <2>3 DEF Light!Click, Light!Posters
<1>7. CASE Light!OtherRequest
  BY <1>5, <1>7, PayloadTypes DEF Light!OtherRequest, Light!Posters
<1>8. ASSUME NEW c \in Light!Posters, Light!SetLed(c) PROVE LedInv'
  <2> DEFINE p == post[c].payload
  <2>1. p \in Light!Payload /\ post[c].pc \in {"trigger", "brightness"}
    BY <1>0, <1>8 DEF Light!SetLed, Light!TypeOK
  <2>2. led' \in Light!Led
    BY <1>0, <1>8, <2>1, LedWritten DEF Light!SetLed
  <2>3. Light!TypeOK'
    BY <1>0, <1>8, <2>1, <2>2 DEF Light!SetLed, Light!Overtaken, Light!TypeOK
  <2>4. \A d \in Light!Posters \ {c} : ~post'[d].alone
    BY <1>0, <1>8 DEF Light!SetLed, Light!Overtaken, Light!TypeOK
  <2>5. /\ post'[c].payload = p /\ post'[c].alone = post[c].alone
        /\ post'[c].pc = IF post[c].pc = "trigger" THEN "brightness" ELSE "reply"
    BY <1>0, <1>8 DEF Light!SetLed, Light!Overtaken, Light!TypeOK
  <2>6. CASE post[c].pc = "trigger"
    <3>1. p.trigger # Light!Nothing => led'.trigger = p.trigger
      BY <1>8, <2>6 DEF Light!SetLed, Light!Written, Light!WithTrigger
    <3> QED
      BY <2>3, <2>4, <2>5, <2>6, <3>1
         DEF LedInv, LoneRequestTakesEffect, Light!LoneRequestTakesEffect
  <2>7. CASE post[c].pc = "brightness"
    <3>1. led' = IF p.brightness = Light!NotGiven THEN led ELSE Light!WithBrightness(p.brightness)
      BY <1>8, <2>7 DEF Light!SetLed, Light!Written
    <3>2. post[c].alone /\ p.trigger # Light!Nothing => led.trigger = p.trigger
      BY <2>7 DEF LedInv
    <3>3. p.brightness \in {0, 1, 2}
      BY <2>1, PayloadTypes DEF Light!NotGiven
    <3>4. post[c].alone /\ p.trigger # Light!Nothing /\ p.brightness # 0 => led'.trigger = p.trigger
      BY <3>1, <3>2 DEF Light!WithBrightness
    <3>5. post[c].alone /\ p.brightness = 0 => led' = [trigger |-> "none", brightness |-> 0]
      BY <3>1 DEF Light!WithBrightness, Light!NotGiven
    <3>6. post[c].alone /\ p.brightness = 1 /\ p.trigger = "none"
            => led' = [trigger |-> "none", brightness |-> 1]
      BY <3>1, <3>2 DEF Light!WithBrightness, Light!NotGiven, Light!Nothing
    <3> QED
      BY <2>3, <2>4, <2>5, <2>7, <3>4, <3>5, <3>6
         DEF LedInv, LoneRequestTakesEffect, Light!LoneRequestTakesEffect
  <2> QED  BY <2>1, <2>6, <2>7
<1>9. ASSUME NEW c \in Light!Posters, Light!SetFails(c) PROVE LedInv'
  BY <1>0, <1>9, LedInvKept
     DEF Light!SetFails, Light!TypeOK, Light!NoPost, Light!Payload, Light!Nothing, Light!NotGiven
<1>10. ASSUME NEW c \in Light!Posters, Light!Answer(c) PROVE LedInv'
  BY <1>0, <1>10, LedInvKept
     DEF Light!Answer, Light!TypeOK, Light!NoPost, Light!Payload, Light!Nothing, Light!NotGiven
<1>11. ASSUME NEW s \in 1..MaxLoads, Light!LedState(s) PROVE LedInv'
  <2>1. Light!TypeOK'
    BY <1>0, <1>11 DEF Light!LedState, Light!TypeOK, Light!Led
  <2> QED  BY <1>11, <2>1, LedInvKept DEF Light!LedState
<1>12. ASSUME NEW s \in 1..MaxLoads, Light!Show(s) PROVE LedInv'
  <2>1. Light!TypeOK'
    BY <1>0, <1>12 DEF Light!Show, Light!TypeOK, Light!NoLoad, Light!Led, Light!Triggers
  <2> QED  BY <1>12, <2>1, LedInvKept DEF Light!Show
<1> QED
  BY <1>1, <1>2, <1>3, <1>4, <1>6, <1>7, <1>8, <1>9, <1>10, <1>11, <1>12 DEF Light!Next

-----------------------------------------------------------------------------
(* The input device.  What follows a scancode in the device's buffer is what   *)
(* follows it in its packet, because an event that finds the buffer full takes *)
(* the place of all of them; so the event that is read after a scancode is its *)
(* own key, the end of its packet, or the kernel's word that there was more.   *)

Follows(p, e) == e = IF p.key = NoKey THEN Input!SynReport ELSE Input!KeyEvent(p.key, 1)

Chained(es) ==
  \A i \in 1 .. Len(es) - 1 : es[i].type = "msc" => Follows(es[i].packet, es[i + 1])

InputControl ==
  /\ Chained(buffer)
  /\ buffer # <<>> => buffer[Len(buffer)].type = "syn"
  /\ pending_scan # None =>
       /\ sent \in Input!Packets /\ sent.scancode = pending_scan
       /\ buffer # <<>>
       /\ buffer[1] = Input!SynDropped \/ Follows(sent, buffer[1])

InputInv == Input!TypeOK /\ InputControl

LEMMA DeviceFacts ==
  /\ ScanSize \in Nat \ {0} /\ Input!Scancodes = 0 .. ScanSize - 1
  /\ \A s \in Input!Scancodes : Keymap[s] \in Input!Keys \cup {NoKey}
  /\ None \notin Input!Scancodes /\ None \notin Input!Keys /\ NoKey # None /\ NoKey \notin Input!Keys
  /\ None \notin [scancode : Input!Scancodes, keycode : Input!Keys \cup {None},
                   pressed : BOOLEAN \cup {None}]
  /\ BufferSize \in Nat /\ BufferSize >= 2
  BY ScanAssumption, KeymapAssumption, BufferAssumption
     DEF Input!Scancodes, Scancodes, Input!Keys, Keys

LEMMA Wraps ==
  ASSUME NEW s \in Input!Scancodes
  PROVE  Input!Signed(s) \in Int /\ Input!Unsigned(Input!Signed(s)) = s
<1>1. \A M \in Nat \ {0} : \A t \in 0 .. M - 1 : (t - M) % M = t /\ t % M = t
  OBVIOUS
<1> QED  BY <1>1, DeviceFacts DEF Input!Signed, Input!Unsigned

LEMMA InputEvents ==
  /\ Input!SynReport \in Input!Events /\ Input!SynDropped \in Input!Events
  /\ \A p \in Input!Packets : /\ p.scancode \in Input!Scancodes /\ p.key \in Input!Keys \cup {NoKey}
                              /\ Input!MscEvent(p.scancode, p.key) \in Input!Events
  /\ \A s \in Input!Scancodes, k \in Input!Keys \cup {NoKey} :
       /\ Input!MscEvent(s, k) \in Input!Events
       /\ Input!MscEvent(s, k).type = "msc"
       /\ Input!MscEvent(s, k).packet = [scancode |-> s, key |-> k]
  /\ \A k \in Input!Keys, v \in 0..2 : Input!KeyEvent(k, v) \in Input!Events
<1>1. \A p \in Input!Packets : p.scancode \in Input!Scancodes /\ p.key \in Input!Keys \cup {NoKey}
  BY DEF Input!Packets
<1>2. \A s \in Input!Scancodes, k \in Input!Keys \cup {NoKey} :
        /\ [scancode |-> s, key |-> k] \in Input!Packets
        /\ [scancode |-> s, key |-> k].scancode = s
        /\ [scancode |-> s, key |-> k].key = k
  BY DEF Input!Packets
<1>3. \A p \in Input!Packets : Input!MscEvent(p.scancode, p.key) \in Input!Events
  BY DEF Input!Events
<1>4. \A s \in Input!Scancodes, k \in Input!Keys \cup {NoKey} : Input!MscEvent(s, k) \in Input!Events
  BY <1>2, <1>3
<1>5. \A k \in Input!Keys, v \in 0..2 : Input!KeyEvent(k, v) \in Input!Events
  BY DEF Input!Events
<1>6. Input!SynReport \in Input!Events /\ Input!SynDropped \in Input!Events
  BY DEF Input!Events
<1> QED  BY <1>1, <1>3, <1>4, <1>5, <1>6 DEF Input!MscEvent

LEMMA EventTypes ==
  ASSUME NEW e \in Input!Events
  PROVE  /\ e.type \in {"msc", "key", "syn"}
         /\ e.type = "msc" => e.packet \in Input!Packets /\ Input!Unsigned(e.value) = e.packet.scancode
         /\ e.type = "key" => e.code \in Input!Keys /\ e.value \in 0..2
         /\ e.type = "syn" => e \in {Input!SynReport, Input!SynDropped}
<1>1. \/ \E p \in Input!Packets : e = Input!MscEvent(p.scancode, p.key)
      \/ e \in {Input!SynReport, Input!SynDropped}
      \/ \E k \in Input!Keys, v \in 0..2 : e = Input!KeyEvent(k, v)
  BY DEF Input!Events
<1>2. ASSUME NEW p \in Input!Packets, e = Input!MscEvent(p.scancode, p.key)
      PROVE  e.type = "msc" /\ e.packet = p /\ Input!Unsigned(e.value) = e.packet.scancode
  <2>1. /\ e.type = "msc" /\ e.value = Input!Signed(p.scancode)
        /\ e.packet = [scancode |-> p.scancode, key |-> p.key]
    BY <1>2 DEF Input!MscEvent
  <2>2. p = [scancode |-> p.scancode, key |-> p.key] /\ p.scancode \in Input!Scancodes
    BY DEF Input!Packets
  <2> QED  BY <2>1, <2>2, Wraps
<1>3. CASE e \in {Input!SynReport, Input!SynDropped}
  BY <1>3 DEF Input!SynReport, Input!SynDropped
<1>4. ASSUME NEW k \in Input!Keys, NEW v \in 0..2, e = Input!KeyEvent(k, v)
      PROVE  e.type = "key" /\ e.code \in Input!Keys /\ e.value \in 0..2
  BY <1>4 DEF Input!KeyEvent
<1> QED  BY <1>1, <1>2, <1>3, <1>4

(* Passing a packet: f has what the buffer holds after each of its events.     *)
Fills(f, es, packet) ==
  /\ f[0] = es
  /\ \A i \in 1 .. Len(packet) :
       f[i] = IF Len(f[i - 1]) = BufferSize THEN <<Input!SynDropped, packet[i]>>
              ELSE Append(f[i - 1], packet[i])

LEMMA PassFills ==
  ASSUME NEW es \in Seq(Input!Events), NEW packet \in Seq(Input!Events)
  PROVE  \E f \in [0 .. Len(packet) -> Seq(Input!Events)] :
            Fills(f, es, packet) /\ Input!Pass(es, packet) = f[Len(packet)]
<1> DEFINE N == Len(packet)
           T == Seq(Input!Events)
           Def(f) == f = [n \in 0..N |->
                            IF n = 0 THEN es
                            ELSE IF Len(f[n - 1]) = BufferSize THEN <<Input!SynDropped, packet[n]>>
                            ELSE Append(f[n - 1], packet[n])]
           upTo == CHOOSE f : Def(f)
           next == [i \in 1..N |-> [t \in T |-> IF Len(t) = BufferSize THEN <<Input!SynDropped, packet[i]>>
                                                ELSE Append(t, packet[i])]]
<1>1. N \in Nat /\ es \in T /\ \A i \in 1..N : packet[i] \in Input!Events
  OBVIOUS
<1>2. /\ next \in [1..N -> [T -> T]]
      /\ \A t \in T, i \in 1..N : next[i][t] = IF Len(t) = BufferSize THEN <<Input!SynDropped, packet[i]>>
                                               ELSE Append(t, packet[i])
  <2>1. \A t \in T, i \in 1..N : <<Input!SynDropped, packet[i]>> \in T /\ Append(t, packet[i]) \in T
    BY <1>1, InputEvents
  <2> QED  BY <2>1
<1> HIDE DEF N, T, next
<1>3. PICK f \in [0..N -> T] : Recurs(f, N, es, next)
  <2> HIDE DEF Def, upTo
  <2> QED  BY <1>1, <1>2, RecursionIsDefined, Zenon
<1>4. /\ f[0] = es
      /\ \A i \in 1..N : f[i] = IF Len(f[i - 1]) = BufferSize THEN <<Input!SynDropped, packet[i]>>
                                ELSE Append(f[i - 1], packet[i])
  <2>1. \A i \in 1..N : f[i - 1] \in T
    BY <1>1, <1>3
  <2> QED  BY <1>2, <1>3, <2>1 DEF Recurs
<1>5. Def(f)
  <2>1. \A n \in 0..N : n # 0 => n \in 1..N
    BY <1>1
  <2>2. \A n \in 0..N : f[n] = IF n = 0 THEN es
                             ELSE IF Len(f[n - 1]) = BufferSize THEN <<Input!SynDropped, packet[n]>>
                             ELSE Append(f[n - 1], packet[n])
    BY <1>4, <2>1
  <2>3. f = [n \in 0..N |-> f[n]]
    BY <1>3
  <2> QED  BY <2>2, <2>3, Zenon
<1>6. Def(upTo)
  <2> HIDE DEF Def
  <2> QED  BY <1>5
<1>7. Input!Pass(es, packet) = upTo[N]
  BY DEF Input!Pass, N
<1> HIDE DEF upTo
<1>8. /\ upTo[0] = es
      /\ \A i \in 1..N : upTo[i] = IF Len(upTo[i - 1]) = BufferSize THEN <<Input!SynDropped, packet[i]>>
                                   ELSE Append(upTo[i - 1], packet[i])
      /\ upTo = [n \in 0..N |-> upTo[n]]
  <2> DEFINE val(n) == IF n = 0 THEN es
                       ELSE IF Len(upTo[n - 1]) = BufferSize THEN <<Input!SynDropped, packet[n]>>
                       ELSE Append(upTo[n - 1], packet[n])
  <2>1. upTo = [n \in 0..N |-> val(n)]
    BY <1>6, Zenon
  <2> HIDE DEF val
  <2>2. \A n \in 0..N : upTo[n] = val(n)
    BY <2>1
  <2>3. val(0) = es
    BY DEF val
  <2>4. \A i \in 1..N : i \in 0..N /\ i # 0
    BY <1>1
  <2>5. 0 \in 0..N
    BY <1>1
  <2>6. upTo = [n \in 0..N |-> upTo[n]]
    BY <2>1
  <2>7. \A i \in 1..N : upTo[i] = IF Len(upTo[i - 1]) = BufferSize THEN <<Input!SynDropped, packet[i]>>
                                   ELSE Append(upTo[i - 1], packet[i])
    BY <2>2, <2>4 DEF val
  <2> QED  BY <2>2, <2>3, <2>5, <2>6, <2>7
<1> HIDE DEF Def
<1>9. \A i \in 1..N : upTo[i - 1] \in T => upTo[i] = next[i][upTo[i - 1]]
  BY <1>2, <1>8
<1>10. \A i \in 0..N : upTo[i] \in T
  <2>1. N \in Nat /\ upTo[0] \in T /\ next \in [1..N -> [T -> T]]
    BY <1>1, <1>2, <1>8
  <2> QED  BY <2>1, <1>9, RecursionHasType, Zenon
<1>11. upTo \in [0..N -> T]
  BY <1>8, <1>10
<1> QED  BY <1>7, <1>8, <1>11 DEF N, T, Fills

(* What a buffer is after some events of a packet: they have joined what was   *)
(* there, or the buffer began anew.                                            *)
Filled(t, es, packet, n) ==
  /\ t \in Seq(Input!Events) /\ Len(t) <= BufferSize
  /\ Chained(t)
  /\ \/ t # <<>> /\ t[1] = Input!SynDropped
     \/ Len(t) = Len(es) + n /\ (es # <<>> => t[1] = es[1])
  /\ n > 0 => t # <<>> /\ t[Len(t)] = packet[n]

LEMMA PassKeepsOrder ==
  ASSUME NEW es \in Seq(Input!Events), Len(es) <= BufferSize, Chained(es),
         es # <<>> => es[Len(es)].type = "syn",
         NEW packet \in Seq(Input!Events), Chained(packet)
  PROVE  Filled(Input!Pass(es, packet), es, packet, Len(packet))
<1>1. PICK f \in [0 .. Len(packet) -> Seq(Input!Events)] :
        Fills(f, es, packet) /\ Input!Pass(es, packet) = f[Len(packet)]
  BY PassFills
<1> DEFINE N == Len(packet)
           S == {n \in 0..N : Filled(f[n], es, packet, n)}
<1>2. N \in Nat /\ N \in 0..N
  OBVIOUS
<1>3. 0 \in S
  BY <1>1 DEF Fills, Filled
<1>4. ASSUME NEW n \in 0 .. N - 1, n \in S PROVE n + 1 \in S
  <2> DEFINE t == f[n]
             e == packet[n + 1]
             r == f[n + 1]
  <2>1. n + 1 \in 1..N /\ (n + 1) - 1 = n /\ e \in Input!Events /\ n + 1 \in 0..N /\ n + 1 > 0
    OBVIOUS
  <2>2. /\ t \in Seq(Input!Events) /\ Len(t) <= BufferSize /\ Len(t) \in Nat /\ Chained(t)
        /\ \/ t # <<>> /\ t[1] = Input!SynDropped
           \/ Len(t) = Len(es) + n /\ (es # <<>> => t[1] = es[1])
        /\ n > 0 => t # <<>> /\ t[Len(t)] = packet[n]
    BY <1>4 DEF Filled
  <2>3. r = IF Len(t) = BufferSize THEN <<Input!SynDropped, e>> ELSE Append(t, e)
    BY <1>1, <2>1 DEF Fills
  <2>4. t # <<>> /\ t[Len(t)].type = "msc" => Follows(t[Len(t)].packet, e)
    <3>1. CASE n = 0
      BY <1>1, <3>1 DEF Fills
    <3>2. CASE n > 0
      <4>1. n \in 1 .. Len(packet) - 1
        BY <3>2
      <4> QED  BY <2>2, <3>2, <4>1 DEF Chained
    <3> QED  BY <3>1, <3>2
  <2> HIDE DEF t, e, r
  <2>5. CASE Len(t) = BufferSize
    <3>1. r = <<Input!SynDropped, e>>
      BY <2>3, <2>5
    <3>2. r \in Seq(Input!Events) /\ Len(r) = 2 /\ r[1] = Input!SynDropped /\ r[2] = e /\ r # <<>>
      BY <2>1, <3>1, InputEvents
    <3>3. Chained(r)
      BY <3>2 DEF Chained, Input!SynDropped
    <3>4. Filled(r, es, packet, n + 1)
      BY <3>2, <3>3, DeviceFacts DEF Filled, e
    <3> QED  BY <2>1, <3>4 DEF r
  <2>6. CASE Len(t) # BufferSize
    <3>1. r = Append(t, e)
      BY <2>3, <2>6
    <3>2. /\ r \in Seq(Input!Events) /\ Len(r) = Len(t) + 1 /\ r # <<>> /\ r[Len(t) + 1] = e
          /\ \A i \in 1 .. Len(t) : r[i] = t[i]
      <4>1. t \in Seq(Input!Events) /\ e \in Input!Events
        BY <2>1, <2>2
      <4>2. /\ Append(t, e) \in Seq(Input!Events) /\ Len(Append(t, e)) = Len(t) + 1
            /\ Append(t, e)[Len(t) + 1] = e
            /\ \A i \in 1 .. Len(t) : Append(t, e)[i] = t[i]
        BY <4>1, AppendProperties
      <4>3. /\ r \in Seq(Input!Events) /\ Len(r) = Len(t) + 1 /\ r[Len(t) + 1] = e
            /\ \A i \in 1 .. Len(t) : r[i] = t[i]
        BY <3>1, <4>2, Zenon
      <4>4. r # <<>>
        BY <2>2, <4>3
      <4> QED  BY <4>3, <4>4
    <3>3. Chained(r)
      <4> SUFFICES ASSUME NEW i \in 1 .. Len(r) - 1, r[i].type = "msc"
                   PROVE  Follows(r[i].packet, r[i + 1])
        BY DEF Chained
      <4>1. i \in 1 .. Len(t) /\ r[i] = t[i]
        BY <2>2, <3>2
      <4>2. CASE i = Len(t)
        BY <2>4, <3>2, <4>1, <4>2
      <4>3. CASE i # Len(t)
        <5>1. i \in 1 .. Len(t) - 1 /\ i + 1 \in 1 .. Len(t)
          BY <2>2, <4>1, <4>3
        <5> QED  BY <2>2, <3>2, <4>1, <5>1 DEF Chained
      <4> QED  BY <4>2, <4>3
    <3>4. Len(r) <= BufferSize
      BY <2>2, <2>6, <3>2, DeviceFacts
    <3>5. r[1] = Input!SynDropped \/ (Len(r) = Len(es) + (n + 1) /\ (es # <<>> => r[1] = es[1]))
      <4>1. CASE Len(t) >= 1
        <5>1. r[1] = t[1]
          BY <2>2, <3>2, <4>1
        <5> QED  BY <2>2, <3>2, <5>1
      <4>2. CASE Len(t) = 0
        <5>1. Len(es) = 0 /\ es = <<>> /\ n = 0
          BY <2>2, <4>2
        <5> QED  BY <3>2, <4>2, <5>1
      <4> QED  BY <2>2, <4>1, <4>2
    <3>6. Filled(r, es, packet, n + 1)
      BY <3>2, <3>3, <3>4, <3>5 DEF Filled, e
    <3> QED  BY <2>1, <3>6 DEF r
  <2> QED  BY <2>5, <2>6
<1>5. \A n \in 0..N : n \in S
  <2> HIDE DEF S, N
  <2> QED  BY <1>2, <1>3, <1>4, Climb
<1> QED  BY <1>1, <1>2, <1>5

(* The scancodes in the buffer: f has those of its first events.               *)
Collects(f, es) ==
  /\ f[0] = <<>>
  /\ \A i \in 1 .. Len(es) :
       f[i] = IF es[i].type = "msc" THEN Append(f[i - 1], es[i].packet.scancode) ELSE f[i - 1]

LEMMA ScansAreCollected ==
  ASSUME NEW es \in Seq(Input!Events)
  PROVE  \E f \in [0 .. Len(es) -> Seq(Input!Scancodes)] :
            Collects(f, es) /\ Input!ScansIn(es) = f[Len(es)]
<1> DEFINE N == Len(es)
           T == Seq(Input!Scancodes)
           Def(f) == f = [n \in 0..N |->
                            IF n = 0 THEN <<>>
                            ELSE IF es[n].type = "msc" THEN Append(f[n - 1], es[n].packet.scancode)
                            ELSE f[n - 1]]
           upTo == CHOOSE f : Def(f)
           next == [i \in 1..N |-> [t \in T |-> IF es[i].type = "msc" THEN Append(t, es[i].packet.scancode)
                                                ELSE t]]
<1>1. N \in Nat /\ <<>> \in T /\ \A i \in 1..N : es[i] \in Input!Events
  OBVIOUS
<1>2. /\ next \in [1..N -> [T -> T]]
      /\ \A t \in T, i \in 1..N : next[i][t] = IF es[i].type = "msc" THEN Append(t, es[i].packet.scancode)
                                               ELSE t
  <2>1. \A i \in 1..N : es[i].type = "msc" => es[i].packet.scancode \in Input!Scancodes
    BY <1>1, EventTypes, InputEvents
  <2> QED  BY <2>1
<1> HIDE DEF N, T, next
<1>3. PICK f \in [0..N -> T] : Recurs(f, N, <<>>, next)
  <2> HIDE DEF Def, upTo
  <2> QED  BY <1>1, <1>2, RecursionIsDefined, Zenon
<1>4. /\ f[0] = <<>>
      /\ \A i \in 1..N : f[i] = IF es[i].type = "msc" THEN Append(f[i - 1], es[i].packet.scancode)
                                ELSE f[i - 1]
  <2>1. \A i \in 1..N : f[i - 1] \in T
    BY <1>1, <1>3
  <2> QED  BY <1>2, <1>3, <2>1 DEF Recurs
<1>5. Def(f)
  <2>1. \A n \in 0..N : n # 0 => n \in 1..N
    BY <1>1
  <2>2. \A n \in 0..N : f[n] = IF n = 0 THEN <<>>
                             ELSE IF es[n].type = "msc" THEN Append(f[n - 1], es[n].packet.scancode)
                             ELSE f[n - 1]
    BY <1>4, <2>1
  <2>3. f = [n \in 0..N |-> f[n]]
    BY <1>3
  <2> QED  BY <2>2, <2>3, Zenon
<1>6. Def(upTo)
  <2> HIDE DEF Def
  <2> QED  BY <1>5
<1>7. Input!ScansIn(es) = upTo[N]
  BY DEF Input!ScansIn, N
<1> HIDE DEF upTo
<1>8. /\ upTo[0] = <<>>
      /\ \A i \in 1..N : upTo[i] = IF es[i].type = "msc" THEN Append(upTo[i - 1], es[i].packet.scancode)
                                   ELSE upTo[i - 1]
      /\ upTo = [n \in 0..N |-> upTo[n]]
  <2> DEFINE val(n) == IF n = 0 THEN <<>>
                       ELSE IF es[n].type = "msc" THEN Append(upTo[n - 1], es[n].packet.scancode)
                       ELSE upTo[n - 1]
  <2>1. upTo = [n \in 0..N |-> val(n)]
    BY <1>6, Zenon
  <2> HIDE DEF val
  <2>2. \A n \in 0..N : upTo[n] = val(n)
    BY <2>1
  <2>3. val(0) = <<>>
    BY DEF val
  <2>4. \A i \in 1..N : i \in 0..N /\ i # 0
    BY <1>1
  <2>5. 0 \in 0..N
    BY <1>1
  <2>6. upTo = [n \in 0..N |-> upTo[n]]
    BY <2>1
  <2>7. \A i \in 1..N : upTo[i] = IF es[i].type = "msc" THEN Append(upTo[i - 1], es[i].packet.scancode)
                                   ELSE upTo[i - 1]
    BY <2>2, <2>4 DEF val
  <2> QED  BY <2>2, <2>3, <2>5, <2>6, <2>7
<1> HIDE DEF Def
<1>9. \A i \in 1..N : upTo[i - 1] \in T => upTo[i] = next[i][upTo[i - 1]]
  BY <1>2, <1>8
<1>10. \A i \in 0..N : upTo[i] \in T
  <2>1. N \in Nat /\ upTo[0] \in T /\ next \in [1..N -> [T -> T]]
    BY <1>1, <1>2, <1>8
  <2> QED  BY <2>1, <1>9, RecursionHasType, Zenon
<1>11. upTo \in [0..N -> T]
  BY <1>8, <1>10
<1> QED  BY <1>7, <1>8, <1>11 DEF N, T, Collects

LEMMA ScansOfTail ==
  ASSUME NEW es \in Seq(Input!Events), es # <<>>
  PROVE  /\ Tail(es) \in Seq(Input!Events)
         /\ Input!ScansIn(Tail(es)) \in Seq(Input!Scancodes)
         /\ es[1].type = "msc" => /\ es[1].packet.scancode \in Input!Scancodes
                                  /\ Input!ScansIn(es) = <<es[1].packet.scancode>> \o Input!ScansIn(Tail(es))
         /\ es[1].type # "msc" => Input!ScansIn(es) = Input!ScansIn(Tail(es))
<1> DEFINE N == Len(es)
           tl == Tail(es)
           first == IF es[1].type = "msc" THEN <<es[1].packet.scancode>> ELSE <<>>
<1>1. /\ N \in Nat /\ N >= 1 /\ tl \in Seq(Input!Events) /\ Len(tl) = N - 1
      /\ \A i \in 1 .. N - 1 : tl[i] = es[i + 1]
      /\ \A i \in 1..N : es[i] \in Input!Events
  BY HeadTailProperties
<1> HIDE DEF tl
<1>2. PICK f \in [0..N -> Seq(Input!Scancodes)] : Collects(f, es) /\ Input!ScansIn(es) = f[N]
  BY ScansAreCollected
<1>3. PICK g \in [0 .. Len(tl) -> Seq(Input!Scancodes)] :
        Collects(g, tl) /\ Input!ScansIn(tl) = g[Len(tl)]
  BY <1>1, ScansAreCollected
<1>4. \A i \in 1..N : es[i].type = "msc" => es[i].packet.scancode \in Input!Scancodes
  BY <1>1, EventTypes, InputEvents
<1>5. first \in Seq(Input!Scancodes) /\ f[1] = first
  <2>1. 1 \in 1..N /\ 1 - 1 = 0
    BY <1>1
  <2>2. f[1] = IF es[1].type = "msc" THEN Append(<<>>, es[1].packet.scancode) ELSE <<>>
    BY <1>2, <2>1 DEF Collects
  <2> QED  BY <1>4, <2>1, <2>2
<1> HIDE DEF first
<1> DEFINE S == {k \in 0 .. N - 1 : f[k + 1] = first \o g[k]}
<1>6. 0 \in S
  BY <1>1, <1>3, <1>5 DEF Collects
<1>7. ASSUME NEW k \in 0 .. (N - 1) - 1, k \in S PROVE k + 1 \in S
  <2>1. k + 2 \in 1..N /\ (k + 2) - 1 = k + 1 /\ k + 1 \in 1 .. N - 1 /\ (k + 1) - 1 = k
        /\ (k + 1) + 1 = k + 2 /\ k + 1 \in 1 .. Len(tl) /\ k \in 0 .. Len(tl) /\ k + 1 \in 0 .. N - 1
    BY <1>1
  <2> DEFINE e == es[k + 2]
  <2>2. tl[k + 1] = e /\ f[k + 1] = first \o g[k] /\ g[k] \in Seq(Input!Scancodes)
    BY <1>1, <1>3, <1>7, <2>1
  <2>3. f[k + 2] = IF e.type = "msc" THEN Append(f[k + 1], e.packet.scancode) ELSE f[k + 1]
    BY <1>2, <2>1 DEF Collects
  <2>4. g[k + 1] = IF e.type = "msc" THEN Append(g[k], e.packet.scancode) ELSE g[k]
    BY <1>3, <2>1, <2>2 DEF Collects
  <2>5. e.type = "msc" => e.packet.scancode \in Input!Scancodes
    BY <1>4, <2>1
  <2> HIDE DEF e
  <2>6. e.type = "msc" => Append(first \o g[k], e.packet.scancode) = first \o Append(g[k], e.packet.scancode)
    <3> SUFFICES ASSUME e.type = "msc"
                 PROVE  Append(first \o g[k], e.packet.scancode) = first \o Append(g[k], e.packet.scancode)
      OBVIOUS
    <3>1. first \in Seq(Input!Scancodes) /\ g[k] \in Seq(Input!Scancodes) /\ e.packet.scancode \in Input!Scancodes
      BY <1>5, <2>2, <2>5
    <3> DEFINE T == Input!Scancodes
               x == e.packet.scancode
               b == g[k]
    <3> HIDE DEF T, x, b
    <3>2. first \in Seq(T) /\ b \in Seq(T) /\ x \in T
      BY <3>1 DEF T, x, b
    <3>3. Append(first \o b, x) = first \o Append(b, x)
      <4>1. first \o b \in Seq(T) /\ Append(b, x) = b \o <<x>> /\ <<x>> \in Seq(T)
        BY <3>2, AppendIsConcat, ConcatProperties
      <4>2. Append(first \o b, x) = (first \o b) \o <<x>>
        BY <3>2, <4>1, AppendIsConcat
      <4>3. (first \o b) \o <<x>> = first \o (b \o <<x>>)
        BY <3>2, <4>1, ConcatAssociative
      <4> QED  BY <4>1, <4>2, <4>3, Zenon
    <3> QED  BY <3>3 DEF x, b
  <2>7. f[k + 2] = first \o g[k + 1]
    BY <2>2, <2>3, <2>4, <2>6
  <2> QED  BY <2>1, <2>7
<1>8. N - 1 \in Nat /\ N - 1 \in 0 .. N - 1 /\ (N - 1) + 1 = N
  BY <1>1
<1>9. \A k \in 0 .. N - 1 : k \in S
  <2> HIDE DEF S, N
  <2> QED  BY <1>6, <1>7, <1>8, Climb
<1>10. f[N] = first \o g[N - 1]
  BY <1>8, <1>9
<1>11. Input!ScansIn(tl) \in Seq(Input!Scancodes) /\ Input!ScansIn(es) = first \o Input!ScansIn(tl)
  BY <1>1, <1>2, <1>3, <1>8, <1>10
<1>12. es[1].type # "msc" => Input!ScansIn(es) = Input!ScansIn(tl)
  BY <1>11 DEF first
<1>13. es[1].type = "msc" => /\ es[1].packet.scancode \in Input!Scancodes
                             /\ Input!ScansIn(es) = <<es[1].packet.scancode>> \o Input!ScansIn(tl)
  BY <1>1, <1>4, <1>11 DEF first
<1> QED  BY <1>1, <1>11, <1>12, <1>13 DEF tl

(* The packets that rc-core and the input layer send.                          *)
Link(a, b) == a.type = "msc" => Follows(a.packet, b)

LEMMA JoinedChains ==
  ASSUME NEW a \in Seq(Input!Events), NEW b \in Seq(Input!Events), Chained(a), Chained(b), b # <<>>,
         a # <<>> => Link(a[Len(a)], b[1])
  PROVE  a \o b \in Seq(Input!Events) /\ Chained(a \o b) /\ a \o b # <<>> /\ (a \o b)[Len(a \o b)] = b[Len(b)]
<1> DEFINE c == a \o b
           A == Len(a)
           B == Len(b)
<1>1. /\ c \in Seq(Input!Events) /\ Len(c) = A + B
      /\ \A i \in 1 .. A + B : c[i] = IF i <= A THEN a[i] ELSE b[i - A]
  BY ConcatProperties
<1>2. A \in Nat /\ B \in Nat /\ B >= 1
  OBVIOUS
<1> HIDE DEF c
<1>3. ASSUME NEW i \in 1 .. A + B - 1, c[i].type = "msc" PROVE Follows(c[i].packet, c[i + 1])
  <2>1. CASE i < A
    <3>1. i \in 1 .. A - 1 /\ i + 1 <= A /\ i <= A /\ i \in 1 .. A + B /\ i + 1 \in 1 .. A + B
      BY <1>2, <2>1
    <3>2. c[i] = a[i] /\ c[i + 1] = a[i + 1]
      BY <1>1, <3>1
    <3> QED  BY <1>3, <3>1, <3>2 DEF Chained
  <2>2. CASE i = A
    <3>1. A >= 1 /\ i \in 1 .. A + B /\ i + 1 \in 1 .. A + B /\ (i + 1) - A = 1 /\ ~(i + 1 <= A)
      BY <1>2, <2>2
    <3>2. c[i] = a[A] /\ c[i + 1] = b[1] /\ a # <<>>
      BY <1>1, <2>2, <3>1
    <3> QED  BY <1>3, <3>2 DEF Link
  <2>3. CASE i > A
    <3>1. /\ i - A \in 1 .. B - 1 /\ (i - A) + 1 = (i + 1) - A /\ ~(i <= A) /\ ~(i + 1 <= A)
          /\ i \in 1 .. A + B /\ i + 1 \in 1 .. A + B
      BY <1>2, <2>3
    <3>2. c[i] = b[i - A] /\ c[i + 1] = b[(i - A) + 1]
      BY <1>1, <3>1
    <3> QED  BY <1>3, <3>1, <3>2 DEF Chained
  <2> QED  BY <1>2, <2>1, <2>2, <2>3
<1>4. Chained(c)
  BY <1>1, <1>3 DEF Chained
<1>5. A + B \in 1 .. A + B /\ ~(A + B <= A) /\ (A + B) - A = B
  BY <1>2
<1>6. c[Len(c)] = b[B] /\ c # <<>>
  BY <1>1, <1>2, <1>5
<1> QED  BY <1>1, <1>4, <1>6 DEF c

LEMMA OneEvent ==
  ASSUME NEW e \in Input!Events
  PROVE  <<e>> \in Seq(Input!Events) /\ Chained(<<e>>) /\ <<e>> # <<>> /\ Len(<<e>>) = 1 /\ <<e>>[1] = e
  BY DEF Chained

Packet(es) == es \in Seq(Input!Events) /\ Chained(es) /\ es # <<>> /\ es[Len(es)] = Input!SynReport

\* The last event of a packet closes it.
LEMMA ClosedPacket ==
  ASSUME NEW es \in Seq(Input!Events), Chained(es), es # <<>>, Link(es[Len(es)], Input!SynReport)
  PROVE  Packet(es \o <<Input!SynReport>>)
<1> DEFINE end == <<Input!SynReport>>
<1>1. /\ end \in Seq(Input!Events) /\ Chained(end) /\ end # <<>>
      /\ Len(end) = 1 /\ end[1] = Input!SynReport
  BY InputEvents, OneEvent
<1> HIDE DEF end
<1>2. /\ es \o end \in Seq(Input!Events) /\ Chained(es \o end) /\ es \o end # <<>>
      /\ (es \o end)[Len(es \o end)] = end[Len(end)]
  BY <1>1, JoinedChains
<1> QED  BY <1>1, <1>2 DEF Packet, end

LEMMA KeyPacket ==
  ASSUME NEW k \in Input!Keys, NEW v \in 0..2
  PROVE  Packet(<<Input!KeyEvent(k, v)>> \o <<Input!SynReport>>)
<1> DEFINE e == Input!KeyEvent(k, v)
<1>1. e \in Input!Events /\ e.type = "key"
  BY InputEvents DEF Input!KeyEvent
<1> HIDE DEF e
<1>2. Link(e, Input!SynReport)
  BY <1>1 DEF Link
<1> QED  BY <1>1, <1>2, OneEvent, ClosedPacket DEF e

LEMMA RepeatPacket ==
  ASSUME NEW s \in Input!Scancodes
  PROVE  Packet(<<Input!MscEvent(s, NoKey)>> \o <<Input!SynReport>>)
<1> DEFINE m == Input!MscEvent(s, NoKey)
<1>1. m \in Input!Events /\ m.packet = [scancode |-> s, key |-> NoKey]
  BY InputEvents
<1> HIDE DEF m
<1>2. Link(m, Input!SynReport)
  BY <1>1 DEF Link, Follows
<1> QED  BY <1>1, <1>2, OneEvent, ClosedPacket DEF m

LEMMA ScanPacket ==
  ASSUME NEW h \in Input!Keys \cup {NoKey}, NEW s \in Input!Scancodes,
         NEW k \in Input!Keys \cup {NoKey}
  PROVE  Packet(((IF h = NoKey THEN <<>> ELSE <<Input!KeyEvent(h, 0)>>)
                   \o <<Input!MscEvent(s, k)>>
                   \o (IF k = NoKey THEN <<>> ELSE <<Input!KeyEvent(k, 1)>>))
                 \o <<Input!SynReport>>)
<1> DEFINE m == Input!MscEvent(s, k)
           up == Input!KeyEvent(h, 0)
           down == Input!KeyEvent(k, 1)
           r == IF h = NoKey THEN <<>> ELSE <<up>>
           d == IF k = NoKey THEN <<>> ELSE <<down>>
           rm == r \o <<m>>
           all == rm \o d
<1>1. /\ m \in Input!Events /\ m.packet = [scancode |-> s, key |-> k]
      /\ h # NoKey => up \in Input!Events /\ up.type = "key"
      /\ k # NoKey => down \in Input!Events /\ down.type = "key"
  <2>1. m \in Input!Events /\ m.packet = [scancode |-> s, key |-> k]
    BY InputEvents
  <2>2. \A x \in Input!Keys, v \in 0..2 :
          Input!KeyEvent(x, v) \in Input!Events /\ Input!KeyEvent(x, v).type = "key"
    BY InputEvents DEF Input!KeyEvent
  <2>3. 0 \in 0..2 /\ 1 \in 0..2
    OBVIOUS
  <2> HIDE DEF m
  <2> QED  BY <2>1, <2>2, <2>3
<1> HIDE DEF m, up
<1>2. Link(m, IF k = NoKey THEN Input!SynReport ELSE down)
  BY <1>1 DEF Link, Follows
<1> HIDE DEF down
<1>3. r \in Seq(Input!Events) /\ Chained(r) /\ (r # <<>> => Link(r[Len(r)], m))
  <2>1. CASE h = NoKey
    BY <2>1 DEF Chained
  <2>2. CASE h # NoKey
    <3>1. Link(up, m)
      BY <1>1, <2>2 DEF Link
    <3>2. r = <<up>>
      BY <2>2
    <3> HIDE DEF r
    <3> QED  BY <1>1, <2>2, <3>1, <3>2, OneEvent
  <2> QED  BY <2>1, <2>2
<1> HIDE DEF r
<1>4. rm \in Seq(Input!Events) /\ Chained(rm) /\ rm # <<>> /\ rm[Len(rm)] = m
  <2> DEFINE o == <<m>>
  <2>1. o \in Seq(Input!Events) /\ Chained(o) /\ o # <<>> /\ o[1] = m /\ Len(o) = 1
    BY <1>1, OneEvent
  <2> HIDE DEF o
  <2>2. r \o o \in Seq(Input!Events) /\ Chained(r \o o) /\ r \o o # <<>> /\ (r \o o)[Len(r \o o)] = o[Len(o)]
    BY <1>3, <2>1, JoinedChains
  <2> QED  BY <2>1, <2>2 DEF o
<1> HIDE DEF rm
<1>5. all \in Seq(Input!Events) /\ Chained(all) /\ all # <<>> /\ Link(all[Len(all)], Input!SynReport)
  <2>1. CASE k = NoKey
    <3>1. all = rm
      BY <1>4, <2>1
    <3> HIDE DEF all
    <3> QED  BY <1>2, <1>4, <2>1, <3>1
  <2>2. CASE k # NoKey
    <3> DEFINE o == <<down>>
    <3>1. o \in Seq(Input!Events) /\ Chained(o) /\ o # <<>> /\ o[1] = down /\ Len(o) = 1
      BY <1>1, <2>2, OneEvent
    <3>2. all = rm \o o
      BY <2>2
    <3> HIDE DEF o, all
    <3>3. /\ rm \o o \in Seq(Input!Events) /\ Chained(rm \o o) /\ rm \o o # <<>>
          /\ (rm \o o)[Len(rm \o o)] = o[Len(o)]
      BY <1>2, <1>4, <2>2, <3>1, JoinedChains
    <3>4. Link(down, Input!SynReport)
      BY <1>1, <2>2 DEF Link
    <3> QED  BY <3>1, <3>2, <3>3, <3>4
  <2> QED  BY <2>1, <2>2
<1>6. Packet(all \o <<Input!SynReport>>)
  <2> HIDE DEF all
  <2> QED  BY <1>5, ClosedPacket
<1> QED  BY <1>6, Zenon DEF all, rm, r, d, m, up, down

(* What a step does: the invariant, and what the two action properties say.    *)
FitsItsScan ==
  published' # None
    => /\ published'.scancode = sent.scancode
       /\ \/ published'.keycode = sent.key /\ published'.pressed = TRUE
          \/ /\ published'.keycode = None /\ published'.pressed = None
             /\ sent.key = NoKey \/ Input!Event = Input!SynDropped

PublishedOnce ==
  buffer # <<>> /\ buffer' = Tail(buffer)
    => Input!OnTheWay(buffer, pending_scan) =
         (IF published' = None THEN <<>> ELSE <<published'.scancode>>)
           \o Input!OnTheWay(buffer', pending_scan')

InputGood == InputInv' /\ FitsItsScan /\ PublishedOnce

LEMMA InputInit ==
  ASSUME Input!Init
  PROVE  InputInv
<1>1. Input!TypeOK
  <2>1. 0 \in Input!Scancodes /\ BufferSize \in Nat
    BY DeviceFacts
  <2> QED  BY <2>1 DEF Input!Init, Input!TypeOK
<1>2. InputControl
  BY DEF Input!Init, InputControl, Chained
<1> QED  BY <1>1, <1>2 DEF InputInv

LEMMA OnTheWayWithout ==
  ASSUME buffer \in Seq(Input!Events), buffer # <<>>, buffer[1].type # "msc"
  PROVE  Input!OnTheWay(buffer, pending_scan) = <<>> \o Input!OnTheWay(Tail(buffer), pending_scan)
<1>1. Input!ScansIn(buffer) = Input!ScansIn(Tail(buffer))
  BY ScansOfTail
<1> QED  BY <1>1 DEF Input!OnTheWay

LEMMA SendStep ==
  ASSUME InputInv, NEW packet, Packet(packet \o <<Input!SynReport>>), Input!Send(packet),
         lastScan' \in Input!Scancodes, held' \in Input!Keys \cup {NoKey}
  PROVE  InputGood
<1> DEFINE all == packet \o <<Input!SynReport>>
           n == Len(all)
           t == buffer'
<1>1. all \in Seq(Input!Events) /\ Chained(all) /\ n \in Nat /\ n > 0 /\ all[n] = Input!SynReport
  BY DEF Packet
<1>2. /\ buffer' = Input!Pass(buffer, all) /\ published' = None
      /\ pending_scan' = pending_scan /\ sent' = sent
  BY DEF Input!Send
<1> HIDE DEF all
<1>3. /\ buffer \in Seq(Input!Events) /\ Len(buffer) <= BufferSize /\ Len(buffer) \in Nat
      /\ Chained(buffer) /\ (buffer # <<>> => buffer[Len(buffer)].type = "syn")
  BY DEF InputInv, Input!TypeOK, InputControl
<1>4. Filled(t, buffer, all, n)
  BY <1>1, <1>2, <1>3, PassKeepsOrder
<1> HIDE DEF t, n
<1>5. /\ t \in Seq(Input!Events) /\ Len(t) <= BufferSize /\ Len(t) \in Nat /\ Chained(t) /\ t # <<>>
      /\ t[1] = Input!SynDropped \/ (Len(t) = Len(buffer) + n /\ (buffer # <<>> => t[1] = buffer[1]))
      /\ t[Len(t)].type = "syn"
  BY <1>1, <1>4 DEF Filled, Input!SynReport
<1>6. Input!TypeOK'
  BY <1>2, <1>5 DEF t, InputInv, Input!TypeOK
<1>7. InputControl'
  <2>1. pending_scan # None =>
          /\ sent \in Input!Packets /\ sent.scancode = pending_scan
          /\ buffer # <<>>
          /\ buffer[1] = Input!SynDropped \/ Follows(sent, buffer[1])
    BY DEF InputInv, InputControl
  <2>2. pending_scan # None => t[1] = Input!SynDropped \/ Follows(sent, t[1])
    BY <1>5, <2>1
  <2> QED  BY <1>2, <1>5, <2>1, <2>2 DEF t, InputControl
<1>8. FitsItsScan
  BY <1>2 DEF FitsItsScan
<1>9. PublishedOnce
  <2> SUFFICES ASSUME buffer # <<>>, t = Tail(buffer) PROVE PublishedOnce
    BY DEF PublishedOnce, t
  <2>1. /\ Len(t) = Len(buffer) - 1 /\ Len(buffer) >= 1
        /\ \A i \in 1 .. Len(buffer) - 1 : t[i] = buffer[i + 1]
    BY <1>3, HeadTailProperties
  <2>2. Len(buffer) - 1 >= 1 /\ t[1] = Input!SynDropped
    BY <1>1, <1>3, <1>5, <2>1
  <2>3. buffer[1 + 1] = Input!SynDropped /\ 1 \in 1 .. Len(buffer) - 1
    BY <1>3, <2>1, <2>2
  <2>4. buffer[1].type # "msc"
    <3> SUFFICES ASSUME buffer[1].type = "msc" PROVE FALSE
      OBVIOUS
    <3>1. Follows(buffer[1].packet, buffer[1 + 1])
      BY <1>3, <2>3 DEF Chained
    <3>2. Follows(buffer[1].packet, Input!SynDropped)
      BY <2>3, <3>1
    <3> QED  BY <3>2 DEF Follows, Input!SynDropped, Input!SynReport, Input!KeyEvent
  <2>5. Input!OnTheWay(buffer, pending_scan) = <<>> \o Input!OnTheWay(t, pending_scan)
    BY <1>3, <2>4, OnTheWayWithout
  <2> QED  BY <1>2, <2>5 DEF PublishedOnce, t
<1> QED  BY <1>6, <1>7, <1>8, <1>9 DEF InputGood, InputInv

LEMMA KernelStep ==
  ASSUME InputInv, Input!Kernel
  PROVE  InputGood
<1>1. lastScan \in Input!Scancodes /\ held \in Input!Keys \cup {NoKey}
  BY DEF InputInv, Input!TypeOK
<1>2. ASSUME NEW s \in Input!Scancodes, Input!ScanNew(s) PROVE InputGood
  <2>1. Keymap[s] \in Input!Keys \cup {NoKey}
    BY DeviceFacts
  <2>2. lastScan' = s /\ held' = Keymap[s]
    BY <1>2 DEF Input!ScanNew
  <2> DEFINE packet == (IF held = NoKey THEN <<>> ELSE <<Input!KeyEvent(held, 0)>>)
                         \o <<Input!MscEvent(s, Keymap[s])>>
                         \o (IF Keymap[s] = NoKey THEN <<>> ELSE <<Input!KeyEvent(Keymap[s], 1)>>)
  <2>3. Input!Send(packet)
    BY <1>2 DEF Input!ScanNew, Input!Release
  <2>4. Packet(packet \o <<Input!SynReport>>)
    BY <1>1, <2>1, ScanPacket
  <2> HIDE DEF packet
  <2> QED  BY <2>1, <2>2, <2>3, <2>4, SendStep
<1>3. CASE Input!ScanRepeat
  <2>1. Packet(<<Input!MscEvent(lastScan, NoKey)>> \o <<Input!SynReport>>)
    BY <1>1, RepeatPacket
  <2>2. /\ Input!Send(<<Input!MscEvent(lastScan, NoKey)>>)
        /\ lastScan' = lastScan /\ held' = held
    BY <1>3 DEF Input!ScanRepeat, Input!kernel
  <2> QED  BY <1>1, <2>1, <2>2, SendStep
<1>4. CASE Input!KeyRepeat
  <2>1. /\ Input!Send(<<Input!KeyEvent(held, 2)>>) /\ held \in Input!Keys
        /\ lastScan' = lastScan /\ held' = held
    BY <1>1, <1>4 DEF Input!KeyRepeat, Input!kernel
  <2>2. Packet(<<Input!KeyEvent(held, 2)>> \o <<Input!SynReport>>)
    <3>1. held \in Input!Keys /\ 2 \in 0..2
      BY <2>1
    <3> QED  BY <3>1, KeyPacket
  <2> QED  BY <1>1, <2>1, <2>2, SendStep
<1>5. CASE Input!KeyUp
  <2>1. /\ Input!Send(<<Input!KeyEvent(held, 0)>>) /\ held \in Input!Keys
        /\ lastScan' = lastScan /\ held' = NoKey
    BY <1>1, <1>5 DEF Input!KeyUp, Input!Release
  <2>2. Packet(<<Input!KeyEvent(held, 0)>> \o <<Input!SynReport>>)
    <3>1. held \in Input!Keys /\ 0 \in 0..2
      BY <2>1
    <3> QED  BY <3>1, KeyPacket
  <2> QED  BY <1>1, <2>1, <2>2, SendStep
<1> QED  BY <1>2, <1>3, <1>4, <1>5 DEF Input!Kernel

(* What is left when an event has been read.                                   *)
LEMMA ReadLeavesChain ==
  ASSUME InputInv, Input!Read
  PROVE  /\ Input!Event = buffer[1] /\ buffer[1] \in Input!Events
         /\ buffer # <<>> /\ buffer' = Tail(buffer)
         /\ buffer' \in Seq(Input!Events) /\ Len(buffer') <= BufferSize /\ Chained(buffer')
         /\ buffer' # <<>> => buffer'[Len(buffer')].type = "syn"
         /\ buffer[1].type = "msc" => buffer' # <<>> /\ Follows(buffer[1].packet, buffer'[1])
         /\ lastScan' = lastScan /\ held' = held
         /\ lastScan \in Input!Scancodes /\ held \in Input!Keys \cup {NoKey}
<1> DEFINE t == buffer'
           N == Len(buffer)
<1>1. /\ buffer \in Seq(Input!Events) /\ N <= BufferSize
      /\ Chained(buffer) /\ (buffer # <<>> => buffer[N].type = "syn")
      /\ lastScan \in Input!Scancodes /\ held \in Input!Keys \cup {NoKey}
  BY DEF InputInv, Input!TypeOK, InputControl
<1>2. buffer # <<>> /\ t = Tail(buffer) /\ lastScan' = lastScan /\ held' = held
  BY DEF Input!Read, Input!kernel
<1>3. /\ N \in Nat /\ N >= 1 /\ Input!Event = buffer[1] /\ buffer[1] \in Input!Events
      /\ t \in Seq(Input!Events) /\ Len(t) = N - 1 /\ \A i \in 1 .. N - 1 : t[i] = buffer[i + 1]
  BY <1>1, <1>2, HeadTailProperties DEF Input!Event
<1> HIDE DEF t
<1>4. Chained(t)
  <2> SUFFICES ASSUME NEW i \in 1 .. Len(t) - 1, t[i].type = "msc" PROVE Follows(t[i].packet, t[i + 1])
    BY DEF Chained
  <2>1. i \in 1 .. N - 1 /\ i + 1 \in 1 .. N - 1 /\ t[i] = buffer[i + 1] /\ t[i + 1] = buffer[(i + 1) + 1]
    BY <1>3
  <2> QED  BY <1>1, <2>1 DEF Chained
<1>5. t # <<>> => t[Len(t)].type = "syn"
  <2> SUFFICES ASSUME t # <<>> PROVE t[Len(t)].type = "syn"
    OBVIOUS
  <2>1. N - 1 >= 1 /\ N - 1 \in 1 .. N - 1 /\ (N - 1) + 1 = N
    BY <1>3
  <2> QED  BY <1>1, <1>2, <1>3, <2>1
<1>6. buffer[1].type = "msc" => t # <<>> /\ Follows(buffer[1].packet, t[1])
  <2> SUFFICES ASSUME buffer[1].type = "msc" PROVE t # <<>> /\ Follows(buffer[1].packet, t[1])
    OBVIOUS
  <2>1. N # 1
    BY <1>1, <1>2
  <2>2. 1 \in 1 .. N - 1 /\ t[1] = buffer[1 + 1] /\ t # <<>>
    BY <1>3, <2>1
  <2> QED  BY <1>1, <2>2 DEF Chained
<1> QED  BY <1>1, <1>2, <1>3, <1>4, <1>5, <1>6, DeviceFacts DEF t

LEMMA ScanReadStep ==
  ASSUME InputInv, Input!ReadScan
  PROVE  InputGood
<1> DEFINE e == buffer[1]
<1>1. /\ Input!Event = e /\ e \in Input!Events
      /\ buffer # <<>> /\ buffer' = Tail(buffer)
      /\ buffer' \in Seq(Input!Events) /\ Len(buffer') <= BufferSize /\ Chained(buffer')
      /\ buffer' # <<>> => buffer'[Len(buffer')].type = "syn"
      /\ e.type = "msc" => buffer' # <<>> /\ Follows(e.packet, buffer'[1])
      /\ lastScan' = lastScan /\ held' = held
      /\ lastScan \in Input!Scancodes /\ held \in Input!Keys \cup {NoKey}
  BY ReadLeavesChain DEF Input!ReadScan
<1>2. /\ e.type = "msc" /\ pending_scan' = Input!Unsigned(e.value)
      /\ sent' = e.packet /\ published' = None
  BY <1>1 DEF Input!ReadScan
<1>3. pending_scan = None
  <2> SUFFICES ASSUME pending_scan # None PROVE FALSE
    OBVIOUS
  <2>1. e = Input!SynDropped \/ Follows(sent, e)
    BY DEF InputInv, InputControl
  <2> QED  BY <1>2, <2>1 DEF Follows, Input!SynDropped, Input!SynReport, Input!KeyEvent
<1>4. e.packet \in Input!Packets /\ pending_scan' = e.packet.scancode
      /\ e.packet.scancode \in Input!Scancodes
  BY <1>1, <1>2, EventTypes, InputEvents
<1>5. Input!TypeOK'
  BY <1>1, <1>2, <1>4 DEF Input!TypeOK
<1>6. InputControl'
  BY <1>1, <1>2, <1>4 DEF InputControl
<1>7. FitsItsScan
  BY <1>2 DEF FitsItsScan
<1>8. PublishedOnce
  <2>1. buffer \in Seq(Input!Events)
    BY DEF InputInv, Input!TypeOK
  <2>2. /\ Input!ScansIn(Tail(buffer)) \in Seq(Input!Scancodes)
        /\ Input!ScansIn(buffer) = <<e.packet.scancode>> \o Input!ScansIn(Tail(buffer))
    BY <1>1, <1>2, <2>1, ScansOfTail
  <2>3. pending_scan' # None
    BY <1>4, DeviceFacts
  <2>4. Input!OnTheWay(buffer, pending_scan) = <<>> \o (<<e.packet.scancode>> \o Input!ScansIn(Tail(buffer)))
    BY <1>3, <2>2 DEF Input!OnTheWay
  <2>5. Input!OnTheWay(buffer', pending_scan') = <<e.packet.scancode>> \o Input!ScansIn(Tail(buffer))
    BY <1>1, <1>4, <2>3 DEF Input!OnTheWay
  <2> QED  BY <1>2, <2>4, <2>5 DEF PublishedOnce
<1> QED  BY <1>5, <1>6, <1>7, <1>8 DEF InputGood, InputInv

(* An event that publishes the scancode that waits, if one does.               *)
LEMMA EmitStep ==
  ASSUME InputInv, Input!Read, buffer[1].type # "msc",
         NEW k \in Input!Keys \cup {None}, NEW p \in BOOLEAN \cup {None},
         Input!Emit(pending_scan, k, p), pending_scan' = None, sent' = sent,
         pending_scan # None => \/ k = sent.key /\ p = TRUE
                                \/ /\ k = None /\ p = None
                                   /\ sent.key = NoKey \/ buffer[1] = Input!SynDropped
  PROVE  InputGood
<1>1. /\ Input!Event = buffer[1]
      /\ buffer # <<>> /\ buffer' = Tail(buffer)
      /\ buffer' \in Seq(Input!Events) /\ Len(buffer') <= BufferSize /\ Chained(buffer')
      /\ buffer' # <<>> => buffer'[Len(buffer')].type = "syn"
      /\ lastScan' = lastScan /\ held' = held
      /\ lastScan \in Input!Scancodes /\ held \in Input!Keys \cup {NoKey}
  BY ReadLeavesChain
<1>2. /\ pending_scan \in Input!Scancodes \cup {None} /\ sent \in Input!Packets \cup {None}
      /\ buffer \in Seq(Input!Events)
      /\ pending_scan # None => sent.scancode = pending_scan
  BY DEF InputInv, Input!TypeOK, InputControl
<1> DEFINE r == [scancode |-> pending_scan, keycode |-> k, pressed |-> p]
<1>3. published' = IF pending_scan = None THEN None ELSE r
  BY DEF Input!Emit
<1>4. pending_scan # None => /\ r \in [scancode : Input!Scancodes, keycode : Input!Keys \cup {None},
                                       pressed : BOOLEAN \cup {None}]
                             /\ r # None
                             /\ r.scancode = pending_scan /\ r.keycode = k /\ r.pressed = p
  <2>1. /\ pending_scan # None => r \in [scancode : Input!Scancodes, keycode : Input!Keys \cup {None},
                                         pressed : BOOLEAN \cup {None}]
        /\ r.scancode = pending_scan /\ r.keycode = k /\ r.pressed = p
    BY <1>2
  <2> HIDE DEF r
  <2> QED  BY <2>1, DeviceFacts
<1> HIDE DEF r
<1>5. Input!TypeOK'
  BY <1>1, <1>2, <1>3, <1>4 DEF Input!TypeOK
<1>6. InputControl'
  BY <1>1 DEF InputControl
<1>7. FitsItsScan
  BY <1>1, <1>2, <1>3, <1>4 DEF FitsItsScan
<1>8. PublishedOnce
  <2>1. /\ Input!ScansIn(Tail(buffer)) \in Seq(Input!Scancodes)
        /\ Input!ScansIn(buffer) = Input!ScansIn(Tail(buffer))
    BY <1>1, <1>2, ScansOfTail
  <2> DEFINE rest == Input!ScansIn(Tail(buffer))
  <2>2. Input!OnTheWay(buffer, pending_scan) =
          (IF pending_scan = None THEN <<>> ELSE <<pending_scan>>) \o rest
    BY <2>1 DEF Input!OnTheWay
  <2>3. Input!OnTheWay(buffer', pending_scan') = <<>> \o rest
    BY <1>1 DEF Input!OnTheWay
  <2> HIDE DEF rest
  <2>4. <<>> \o rest = rest
    BY <2>1 DEF rest
  <2>5. (IF published' = None THEN <<>> ELSE <<published'.scancode>>) =
        (IF pending_scan = None THEN <<>> ELSE <<pending_scan>>)
    BY <1>3, <1>4
  <2> QED  BY <2>2, <2>3, <2>4, <2>5, Zenon DEF PublishedOnce
<1> QED  BY <1>5, <1>6, <1>7, <1>8 DEF InputGood, InputInv

LEMMA KeyReadStep ==
  ASSUME InputInv, Input!ReadKey
  PROVE  InputGood
<1> DEFINE e == buffer[1]
<1>1. Input!Event = e /\ e \in Input!Events
  BY ReadLeavesChain DEF Input!ReadKey
<1>2. e.type = "key" /\ Input!Read /\ pending_scan' = None /\ sent' = sent
      /\ Input!Emit(pending_scan, e.code, e.value # 0)
  BY <1>1 DEF Input!ReadKey
<1>3. e.code \in Input!Keys
  BY <1>1, <1>2, EventTypes
<1>4. pending_scan # None => e.code = sent.key /\ (e.value # 0) = TRUE
  <2> SUFFICES ASSUME pending_scan # None PROVE e.code = sent.key /\ (e.value # 0) = TRUE
    OBVIOUS
  <2>1. e = Input!SynDropped \/ Follows(sent, e)
    BY DEF InputInv, InputControl
  <2>2. e = Input!KeyEvent(sent.key, 1)
    BY <1>2, <2>1 DEF Follows, Input!SynDropped, Input!SynReport
  <2> QED  BY <2>2 DEF Input!KeyEvent
<1>5. e.code \in Input!Keys \cup {None} /\ (e.value # 0) \in BOOLEAN \cup {None} /\ e.type # "msc"
  BY <1>2, <1>3
<1> QED  BY <1>2, <1>4, <1>5, EmitStep

LEMMA SynReadStep ==
  ASSUME InputInv, Input!ReadSyn
  PROVE  InputGood
<1> DEFINE e == buffer[1]
<1>1. Input!Event = e /\ e \in Input!Events
  BY ReadLeavesChain DEF Input!ReadSyn
<1>2. e.type = "syn" /\ Input!Read /\ pending_scan' = None /\ sent' = sent
      /\ Input!Emit(pending_scan, None, None)
  BY <1>1 DEF Input!ReadSyn
<1>3. pending_scan # None => sent.key = NoKey \/ e = Input!SynDropped
  <2> SUFFICES ASSUME pending_scan # None PROVE sent.key = NoKey \/ e = Input!SynDropped
    OBVIOUS
  <2>1. e = Input!SynDropped \/ Follows(sent, e)
    BY DEF InputInv, InputControl
  <2> QED  BY <1>2, <2>1 DEF Follows, Input!KeyEvent
<1>4. None \in Input!Keys \cup {None} /\ None \in BOOLEAN \cup {None} /\ e.type # "msc"
  BY <1>2
<1> QED  BY <1>2, <1>3, <1>4, EmitStep

LEMMA InputStep ==
  ASSUME InputInv, [Input!Next]_(Input!vars)
  PROVE  InputInv' /\ (Input!Next => FitsItsScan /\ PublishedOnce)
<1>1. CASE Input!Next
  <2>1. InputGood
    BY <1>1, KernelStep, ScanReadStep, KeyReadStep, SynReadStep DEF Input!Next, Input!Run
  <2> QED  BY <2>1 DEF InputGood
<1>2. CASE UNCHANGED Input!vars
  <2>1. InputInv'
    BY <1>2 DEF InputInv, InputControl, Input!TypeOK, Input!vars
  <2> QED  BY <1>1, <2>1
<1> QED  BY <1>1, <1>2

-----------------------------------------------------------------------------
(* Every part runs as its own specification says.                              *)

PllTheorems == INSTANCE CpuPllProofs
DtbTheorems == INSTANCE ExtractDtbProofs

LEMMA PllRuns == PartsSpec => PllTheorems!Spec
<1>1. PartsInit => PllTheorems!Init
  BY DEF PartsInit, Pll!Init, PllTheorems!Init, Pll!Rate, PllTheorems!Rate,
         Pll!RoundClosest, PllTheorems!RoundClosest
<1>2. [PartsNext]_allVars => [PllTheorems!Next]_(PllTheorems!vars)
  <2>1. Pll!Next => PllTheorems!Next
    BY DEF Pll!Next, Pll!SetRate, Pll!DriverStep, Pll!WriteTarget, Pll!LowerEnable,
           Pll!RaiseEnable, Pll!Poll, Pll!Arrived, Pll!CoreRecalcs, Pll!Recalc, Pll!Walk,
           Pll!BusyDrops, Pll!driver, Pll!Rate, Pll!Pick, Pll!Clamp, Pll!RoundClosest,
           Pll!FbdivMax, PllTheorems!Next, PllTheorems!SetRate, PllTheorems!DriverStep,
           PllTheorems!WriteTarget, PllTheorems!LowerEnable, PllTheorems!RaiseEnable,
           PllTheorems!Poll, PllTheorems!Arrived, PllTheorems!CoreRecalcs,
           PllTheorems!Recalc, PllTheorems!Walk, PllTheorems!BusyDrops,
           PllTheorems!driver, PllTheorems!Rate, PllTheorems!Pick, PllTheorems!Clamp,
           PllTheorems!RoundClosest, PllTheorems!FbdivMax
  <2> QED  BY <2>1 DEF PartsNext, allVars, pllVars, PllTheorems!vars, PllTheorems!driver
<1> QED  BY <1>1, <1>2, PTL DEF PartsSpec, PllTheorems!Spec

LEMMA DtbRuns == PartsSpec => DtbTheorems!Spec
<1>1. PartsInit => DtbTheorems!Init
  BY DEF PartsInit, Dtb!Init, DtbTheorems!Init
<1>2. [PartsNext]_allVars => [DtbTheorems!Next]_(DtbTheorems!vars)
  <2>1. Dtb!Next => DtbTheorems!Next
    BY DEF Dtb!Next, Dtb!Scan, Dtb!Entry, Dtb!IsFdt, Dtb!Left, Dtb!AfterMagic, Dtb!Min,
           DtbTheorems!Next, DtbTheorems!Scan, DtbTheorems!Entry, DtbTheorems!IsFdt,
           DtbTheorems!Left, DtbTheorems!AfterMagic, DtbTheorems!Min
  <2> QED  BY <2>1 DEF PartsNext, allVars, dtbVars, DtbTheorems!vars
<1> QED  BY <1>1, <1>2, PTL DEF PartsSpec, DtbTheorems!Spec

LEMMA HeatRuns == PartsSpec => Heat!Spec
<1>1. PartsInit => Heat!Init
  BY DEF PartsInit
<1>2. [PartsNext]_allVars => [Heat!Next]_(Heat!vars)
  BY DEF PartsNext, allVars, heatVars, Heat!vars
<1> QED  BY <1>1, <1>2, PTL DEF PartsSpec, Heat!Spec

LEMMA UartRuns == PartsSpec => Uart!Spec
<1>1. PartsInit => Uart!Init
  BY DEF PartsInit
<1>2. [PartsNext]_allVars => [Uart!Next]_(Uart!vars)
  BY DEF PartsNext, allVars, uartVars, Uart!vars
<1> QED  BY <1>1, <1>2, PTL DEF PartsSpec, Uart!Spec

LEMMA LedRuns == PartsSpec => Light!Spec
<1>1. PartsInit => Light!Init
  BY DEF PartsInit
<1>2. [PartsNext]_allVars => [Light!Next]_(Light!vars)
  BY DEF PartsNext, allVars, ledVars, Light!vars
<1> QED  BY <1>1, <1>2, PTL DEF PartsSpec, Light!Spec

LEMMA LircRuns == PartsSpec => Spec
<1>1. PartsInit => Init
  BY DEF PartsInit
<1>2. [PartsNext]_allVars => [Next]_vars
  BY DEF PartsNext, allVars, lircVars
<1> QED  BY <1>1, <1>2, PTL DEF PartsSpec, Spec

LEMMA InputRuns == PartsSpec => Input!Spec
<1>1. PartsInit => Input!Init
  BY DEF PartsInit
<1>2. [PartsNext]_allVars => [Input!Next]_(Input!vars)
  BY DEF PartsNext, allVars, inputVars, Input!vars
<1> QED  BY <1>1, <1>2, PTL DEF PartsSpec, Input!Spec

-----------------------------------------------------------------------------
(* Whatever rates cpufreq asks for, whenever the clock core recalculates and   *)
(* however the PLL walks: the cores never run above the highest rate, which    *)
(* the voltage was chosen for (recalc_rate, set_rate; patch 0010).             *)
THEOREM CoresStayInBounds == PartsSpec => []NeverOverclocks
<1>1. PllTheorems!Spec => []PllTheorems!NeverOverclocks
  BY PllTheorems!CoresStayInBounds, RatesAssumption, DivsAssumption, RegistersAssumption
     DEF PllTheorems!FbdivMax, FbdivMax
<1>2. PllTheorems!NeverOverclocks => NeverOverclocks
  BY DEF PllTheorems!NeverOverclocks, NeverOverclocks, Pll!NeverOverclocks, Pll!Rate,
         PllTheorems!Rate, Pll!RoundClosest, PllTheorems!RoundClosest
<1> QED  BY <1>1, <1>2, PllRuns, PTL

(* After a set_rate that returned 0 and until the next one, the rate that the  *)
(* clock core reports is the one the cores run at (the poll for BUSY).         *)
THEOREM ReportedRateIsReal == PartsSpec => []BelievedIsReal
<1>1. PllTheorems!Spec => []PllTheorems!BelievedIsReal
  BY PllTheorems!ReportedRateIsReal, RatesAssumption, DivsAssumption, RegistersAssumption
     DEF PllTheorems!FbdivMax, FbdivMax
<1>2. PllTheorems!BelievedIsReal => BelievedIsReal
  BY DEF PllTheorems!BelievedIsReal, BelievedIsReal, Pll!BelievedIsReal, Pll!Rate,
         PllTheorems!Rate, Pll!RoundClosest, PllTheorems!RoundClosest
<1> QED  BY <1>1, <1>2, PllRuns, PTL

(* A caller reads a critical temperature only if the die is within a few       *)
(* degrees of it, with one sample of the eight spurious and with any number of *)
(* callers (hi3798_thermal_get_temp; patch 0008).                              *)
THEOREM OneSampleAddsLittle == PartsSpec => []OneSampleIsDiluted
<1>1. HeatInv /\ [Heat!Next]_(Heat!vars) => HeatInv'
  BY HeatStep
<1>2. HeatInv => OneSampleIsDiluted
  BY DEF HeatInv
<1> QED  BY <1>1, <1>2, HeatInit, HeatRuns, PTL DEF Heat!Spec

(* uart-cmd.py exits with 0 only when the command has finished, whatever the   *)
(* console sends and however it is cut into reads, as long as a command that   *)
(* runs is never silent with a prompt in front of it.                          *)
THEOREM ExitZeroIsTrue == PartsSpec => []ZeroMeansFinished
<1>1. UartInv /\ [Uart!Next]_(Uart!vars) => UartInv'
  BY UartStep
<1>2. UartInv => ZeroMeansFinished
  BY DEF UartInv
<1> QED  BY <1>1, <1>2, UartInit, UartRuns, PTL DEF Uart!Spec

(* A request for the LED that no other one overlaps leaves it as it asked,     *)
(* however the trigger blinks it and whatever the page polls meanwhile.        *)
THEOREM LoneRequestIsObeyed == PartsSpec => []LoneRequestTakesEffect
<1>1. LedInv /\ [Light!Next]_(Light!vars) => LedInv'
  BY LedStep
<1>2. LedInv => LoneRequestTakesEffect
  BY DEF LedInv
<1> QED  BY <1>1, <1>2, LedInit, LedRuns, PTL DEF Light!Spec

(* extract-dtb.py writes every device tree of an image of any length once and  *)
(* in order, and nothing else.                                                 *)
THEOREM EveryTreeIsFound == PartsSpec => []FindsEveryTree
<1>1. DtbTheorems!ImagesAssumption
  BY FilesAssumption DEF Dtb!ImagesAssumption, DtbTheorems!ImagesAssumption
<1>2. DtbTheorems!Spec => []DtbTheorems!FindsEveryTree
  BY <1>1, DtbTheorems!EveryTreeIsFound
<1>3. DtbTheorems!FindsEveryTree => FindsEveryTree
  BY DEF DtbTheorems!FindsEveryTree, FindsEveryTree, Dtb!FindsEveryTree, Dtb!IsFdt, Dtb!Left,
         DtbTheorems!IsFdt, DtbTheorems!Left, Dtb!Cardinality, DtbTheorems!Cardinality
<1> QED  BY <1>2, <1>3, DtbRuns, PTL

(* A scancode without a key never waits in run() for the next packet: with     *)
(* nothing left to read, nothing is pending.                                   *)
THEOREM NoScanIsHeldBack == PartsSpec => []NothingWaits
<1>1. InputInv /\ [Input!Next]_(Input!vars) => InputInv'
  BY InputStep
<1>2. InputInv => NothingWaits
  BY DEF InputInv, InputControl, NothingWaits, Input!NothingWaits
<1> QED  BY <1>1, <1>2, InputInit, InputRuns, PTL DEF Input!Spec

(* A scancode is published with the key of its own packet, whatever the kernel *)
(* drops while the reader is late (run, _emit).                                *)
THEOREM ScanHasItsOwnKey == PartsSpec => KeyGoesWithItsScan
<1>1. InputInv /\ [Input!Next]_(Input!vars) => InputInv'
  BY InputStep
<1>2. InputInv /\ [Input!Next]_(Input!vars) => [FitsItsScan]_(Input!vars)
  BY InputStep
<1>3. Input!Spec => [][FitsItsScan]_(Input!vars)
  BY <1>1, <1>2, InputInit, PTL DEF Input!Spec
<1> QED  BY <1>3, InputRuns, PTL DEF KeyGoesWithItsScan, Input!KeyGoesWithItsScan, FitsItsScan

(* A read takes a scancode from those on the way only to publish it, whatever  *)
(* the size of the buffer and the keymap.                                      *)
THEOREM NoScanIsLostByTheReader == PartsSpec => ScansArePublishedOnce
<1>1. InputInv /\ [Input!Next]_(Input!vars) => InputInv'
  BY InputStep
<1>2. InputInv /\ [Input!Next]_(Input!vars) => [PublishedOnce]_(Input!vars)
  BY InputStep
<1>3. Input!Spec => [][PublishedOnce]_(Input!vars)
  BY <1>1, <1>2, InputInit, PTL DEF Input!Spec
<1> QED  BY <1>3, InputRuns, PTL DEF ScansArePublishedOnce, Input!ScansArePublishedOnce, PublishedOnce

(* The variables of every part have their types.                               *)
THEOREM PartsTypeCorrect == PartsSpec => []PartsTypeOK
<1>1. PartsSpec => [](part \in PartNames)
  <2>1. PartsInit => part \in PartNames
    BY DEF PartsInit
  <2>2. part \in PartNames /\ [PartsNext]_allVars => (part \in PartNames)'
    BY DEF PartsNext, allVars
  <2> QED  BY <2>1, <2>2, PTL DEF PartsSpec
<1>2. PartsSpec => []TypeOK
  BY LircRuns, ReaderTypeCorrect, PTL
<1>3. PartsSpec => []Input!TypeOK
  <2>1. InputInv /\ [Input!Next]_(Input!vars) => InputInv'
    BY InputStep
  <2>2. InputInv => Input!TypeOK
    BY DEF InputInv
  <2> QED  BY <2>1, <2>2, InputInit, InputRuns, PTL DEF Input!Spec
<1>4. PartsSpec => []Pll!TypeOK
  <2>1. PllTheorems!Spec => []PllTheorems!TypeOK
    BY PllTheorems!TypeCorrect, RatesAssumption, DivsAssumption, RegistersAssumption
       DEF PllTheorems!FbdivMax, FbdivMax
  <2>2. PllTheorems!TypeOK => Pll!TypeOK
    BY DEF PllTheorems!TypeOK, Pll!TypeOK, PllTheorems!FbdivMax, Pll!FbdivMax
  <2> QED  BY <2>1, <2>2, PllRuns, PTL
<1>5. PartsSpec => []Heat!TypeOK
  <2>1. HeatInv /\ [Heat!Next]_(Heat!vars) => HeatInv'
    BY HeatStep
  <2>2. HeatInv => Heat!TypeOK
    BY DEF HeatInv
  <2> QED  BY <2>1, <2>2, HeatInit, HeatRuns, PTL DEF Heat!Spec
<1>6. PartsSpec => []Uart!TypeOK
  <2>1. UartInv /\ [Uart!Next]_(Uart!vars) => UartInv'
    BY UartStep
  <2>2. UartInv => Uart!TypeOK
    BY DEF UartInv
  <2> QED  BY <2>1, <2>2, UartInit, UartRuns, PTL DEF Uart!Spec
<1>7. PartsSpec => []Dtb!TypeOK
  <2>1. DtbTheorems!ImagesAssumption
    BY FilesAssumption DEF Dtb!ImagesAssumption, DtbTheorems!ImagesAssumption
  <2>2. DtbTheorems!Spec => []DtbTheorems!TypeOK
    BY <2>1, DtbTheorems!TypeCorrect
  <2>3. DtbTheorems!TypeOK => Dtb!TypeOK
    BY DEF DtbTheorems!TypeOK, Dtb!TypeOK
  <2> QED  BY <2>2, <2>3, DtbRuns, PTL
<1>8. PartsSpec => []Light!TypeOK
  <2>1. LedInv /\ [Light!Next]_(Light!vars) => LedInv'
    BY LedStep
  <2>2. LedInv => Light!TypeOK
    BY DEF LedInv
  <2> QED  BY <2>1, <2>2, LedInit, LedRuns, PTL DEF Light!Spec
<1> QED
  BY <1>1, <1>2, <1>3, <1>4, <1>5, <1>6, <1>7, <1>8, PTL DEF PartsTypeOK

=============================================================================
