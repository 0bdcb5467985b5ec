-------------------------------- MODULE Leds --------------------------------
(* LED control of scripts/tvbox-panel.py: set_led and led_state in the threads *)
(* of the server, the page's loadLeds and post, one writable LED and the       *)
(* kernel's LED class below.  Requests overlap; replies arrive in any order.   *)
EXTENDS Naturals

CONSTANTS
  MaxLoads,  \* loadLeds calls the page has under way (a bound)
  Payloads   \* what others than the page ask for

VARIABLES
  led,    \* trigger and brightness (0 or 1, the maximum), as the kernel has them
  load,   \* GET requests of the page, by slot
  post,   \* POST requests: one of the page, one of somebody else
  view    \* the LED as the page shows it

vars == <<led, load, post, view>>

Triggers == {"none", "heartbeat"}
Led == [trigger : Triggers, brightness : {0, 1}]
Nothing == "nothing"
Posters == {"page", "other"}

NotGiven == 2
Payload == [trigger : Triggers \cup {Nothing}, brightness : {0, 1, NotGiven}]

(* alone: history, nobody else has written the LED since the request started.  *)
NoPost == [pc |-> "none", payload |-> [trigger |-> Nothing, brightness |-> NotGiven], alone |-> FALSE]
NoLoad == [pc |-> "none", seen |-> [trigger |-> "none", brightness |-> 0]]

TypeOK ==
  /\ led \in Led /\ view \in Led \cup {[trigger |-> Nothing, brightness |-> 0]}
  /\ load \in [1..MaxLoads -> [pc : {"none", "trigger", "brightness", "reply"}, seen : Led]]
  /\ post \in [Posters -> [pc : {"none", "trigger", "brightness", "reply", "failed"},
                           payload : Payload, alone : BOOLEAN]]

Init ==
  /\ led \in Led
  /\ load = [s \in 1..MaxLoads |-> NoLoad]
  /\ post = [c \in Posters |-> NoPost]
  /\ view = [trigger |-> Nothing, brightness |-> 0]

-----------------------------------------------------------------------------
(* The kernel's LED class: a trigger that goes leaves the LED off, switching   *)
(* it off removes the trigger, and a trigger changes the brightness itself.    *)

WithTrigger(t) ==
  [trigger |-> t, brightness |-> IF t = "none" /\ led.trigger # "none" THEN 0 ELSE led.brightness]
WithBrightness(b) ==
  [trigger |-> IF b = 0 THEN "none" ELSE led.trigger, brightness |-> b]

Blink ==
  /\ led.trigger # "none" /\ led' = [led EXCEPT !.brightness = 1 - @]
  /\ UNCHANGED <<load, post, view>>

-----------------------------------------------------------------------------
(* set_led.  Order matters: the trigger comes first.                           *)

Request(c, payload) ==
  /\ post[c].pc = "none"
  /\ post' = [post EXCEPT ![c] = [pc |-> "trigger", payload |-> payload, alone |-> TRUE]]

Overtaken(c, pc) ==
  [d \in Posters |-> IF d = c THEN [post[c] EXCEPT !.pc = pc] ELSE [post[d] EXCEPT !.alone = FALSE]]

\* Mutant: the brightness comes first.
WrittenInReverse(c, step) ==
  LET p == post[c].payload
  IN IF step = "brightness"
       THEN IF p.trigger = Nothing THEN led ELSE WithTrigger(p.trigger)
       ELSE IF p.brightness = NotGiven THEN led ELSE WithBrightness(p.brightness)

(* What a step of the request writes *)
Written(c, step) ==
  LET p == post[c].payload
  IN IF step = "trigger"
       THEN IF p.trigger = Nothing THEN led ELSE WithTrigger(p.trigger)
       ELSE IF p.brightness = NotGiven THEN led ELSE WithBrightness(p.brightness)

SetLed(c) ==
  /\ post[c].pc \in {"trigger", "brightness"}
  /\ led' = Written(c, post[c].pc)
  /\ post' = Overtaken(c, IF post[c].pc = "trigger" THEN "brightness" ELSE "reply")
  /\ UNCHANGED <<load, view>>

(* OSError at either write: what was written stays.                            *)
SetFails(c) ==
  /\ post[c].pc \in {"trigger", "brightness"}
  /\ post' = [post EXCEPT ![c] = [NoPost EXCEPT !.pc = IF c = "page" THEN "failed" ELSE @]]
  /\ UNCHANGED <<led, load, view>>

Answer(c) ==
  /\ c = "other" /\ post[c].pc = "reply"
  /\ post' = [post EXCEPT ![c] = NoPost]
  /\ UNCHANGED <<led, load, view>>

-----------------------------------------------------------------------------
(* The page.                                                                   *)

(* loadLeds asks; the first free slot stands for all.                          *)
LoadLeds ==
  \E s \in 1..MaxLoads :
    /\ load[s].pc = "none" /\ \A r \in 1..s - 1 : load[r].pc # "none"
    /\ load' = [load EXCEPT ![s].pc = "trigger"]

\* Mutant: the page polls only until it shows something.
PollUntilShown == view.trigger = Nothing /\ LoadLeds /\ UNCHANGED <<led, post, view>>

(* setInterval(loadLeds, 5000)                                                 *)
Poll == LoadLeds /\ UNCHANGED <<led, post, view>>

(* led_state: the trigger, then the brightness                                 *)
LedState(s) ==
  /\ load[s].pc \in {"trigger", "brightness"}
  /\ load' = [load EXCEPT ![s] =
       IF @.pc = "trigger" THEN [pc |-> "brightness", seen |-> [@.seen EXCEPT !.trigger = led.trigger]]
                           ELSE [pc |-> "reply", seen |-> [@.seen EXCEPT !.brightness = led.brightness]]]
  /\ UNCHANGED <<led, post, view>>

Show(s) ==
  /\ load[s].pc = "reply"
  /\ view' = load[s].seen /\ load' = [load EXCEPT ![s] = NoLoad]
  /\ UNCHANGED <<led, post>>

(* post() shows what came of it by loading again, also after an error.         *)
PageAnswered ==
  /\ post["page"].pc \in {"reply", "failed"}
  /\ post' = [post EXCEPT !["page"] = NoPost]
  /\ LoadLeds /\ UNCHANGED <<led, view>>

(* The button asks for the opposite of what the page shows.                    *)
Click ==
  /\ view.trigger # Nothing
  /\ \/ Request("page", [trigger |-> Nothing, brightness |-> 1 - view.brightness])
     \/ \E t \in Triggers : Request("page", [trigger |-> t, brightness |-> NotGiven])
  /\ UNCHANGED <<led, load, view>>

OtherRequest ==
  /\ \E payload \in Payloads : Request("other", payload)
  /\ UNCHANGED <<led, load, view>>

Next ==
  \/ Blink \/ Poll \/ PageAnswered \/ Click \/ OtherRequest
  \/ \E c \in Posters : SetLed(c) \/ SetFails(c) \/ Answer(c)
  \/ \E s \in 1..MaxLoads : LedState(s) \/ Show(s)

Spec == Init /\ [][Next]_vars

-----------------------------------------------------------------------------
(* When a request has been served and nobody else has written meanwhile, the   *)
(* LED is as it asked, also if it gave both a trigger and a brightness         *)
(* (set_led, lines 360-361).                                                   *)
LoneRequestTakesEffect ==
  \A c \in Posters : post[c].pc = "reply" /\ post[c].alone =>
    LET p == post[c].payload
    IN /\ p.trigger # Nothing /\ p.brightness # 0 => led.trigger = p.trigger
       /\ p.brightness = 0 \/ (p.brightness = 1 /\ p.trigger = "none")
            => led = [trigger |-> "none", brightness |-> p.brightness]

(* Once nobody sets the LED and nothing makes it blink, the page comes to show *)
(* it as it is, whatever replies it has had in whatever order.                 *)
Quiet == led.trigger = "none" /\ \A c \in Posters : post[c].pc = "none"
ViewSettles == []<>~Quiet \/ <>[](view = led)
=============================================================================
