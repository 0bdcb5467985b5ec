------------------------------ MODULE BoxParts ------------------------------
(* The parts that share no state with each other or with the other models, in  *)
(* one specification: every behaviour is one of one part, chosen at the start, *)
(* while the others stay where they are.                                       *)
EXTENDS LircReader, Keymaps, PllRates

CONSTANTS
  Callers, Codes,                               \* Thermal
  MaxReads, IdleReads,                          \* UartCmd
  HeaderCells, MinCells, Images, Containers,    \* ExtractDtb
  MaxLoads, Payloads                            \* Leds

(* What comes from the hardware, the flags or the files has the form the code  *)
(* reads it in (the other constants' assumptions are where they are declared). *)
ASSUME SensorAssumption == Codes \subseteq 0..1023
ASSUME ConsoleAssumption == MaxReads \in Nat /\ IdleReads \in Nat
ASSUME RequestsAssumption ==
  /\ MaxLoads \in Nat
  /\ Payloads \subseteq [trigger : {"none", "heartbeat", "nothing"}, brightness : 0..2]

VARIABLES
  part,
  buffer, lastScan, held, pending_scan, published, sent,     \* InputReader
  div, tuned, cfg1, live, goal, busy, tuneInt, en,
  pc, want, result, cached,                                  \* CpuPll
  code, enabled, lock, step, temp,                           \* Thermal
  box, tail, now, last, exit,                                \* UartCmd
  kind, image, off, written, state,                          \* ExtractDtb
  led, load, post, view                                      \* Leds

Input == INSTANCE InputReader
Pll   == INSTANCE CpuPll
Heat  == INSTANCE Thermal
Uart  == INSTANCE UartCmd
Dtb   == INSTANCE ExtractDtb
Light == INSTANCE Leds

ASSUME FilesAssumption == Dtb!ImagesAssumption

lircVars  == vars
inputVars == <<buffer, lastScan, held, pending_scan, published, sent>>
pllVars   == <<div, tuned, cfg1, live, goal, busy, tuneInt, en, pc, want, result, cached>>
heatVars  == <<code, enabled, lock, step, temp>>
uartVars  == <<box, tail, now, last, exit>>
dtbVars   == <<kind, image, off, written, state>>
ledVars   == <<led, load, post, view>>
allVars == <<part, lircVars, inputVars, pllVars, heatVars, uartVars, dtbVars, ledVars>>

-----------------------------------------------------------------------------
PartNames == {"lirc", "input", "pll", "heat", "uart", "dtb", "led"}

PartsInit ==
  /\ part \in PartNames
  /\ Init /\ Input!Init /\ Pll!Init /\ Heat!Init /\ Uart!Init /\ Dtb!Init /\ Light!Init

PartsNext ==
  /\ UNCHANGED part
  /\ \/ /\ part = "lirc" /\ Next
        /\ UNCHANGED <<inputVars, pllVars, heatVars, uartVars, dtbVars, ledVars>>
     \/ /\ part = "input" /\ Input!Next
        /\ UNCHANGED <<lircVars, pllVars, heatVars, uartVars, dtbVars, ledVars>>
     \/ /\ part = "pll" /\ Pll!Next
        /\ UNCHANGED <<lircVars, inputVars, heatVars, uartVars, dtbVars, ledVars>>
     \/ /\ part = "heat" /\ Heat!Next
        /\ UNCHANGED <<lircVars, inputVars, pllVars, uartVars, dtbVars, ledVars>>
     \/ /\ part = "uart" /\ Uart!Next
        /\ UNCHANGED <<lircVars, inputVars, pllVars, heatVars, dtbVars, ledVars>>
     \/ /\ part = "dtb" /\ Dtb!Next
        /\ UNCHANGED <<lircVars, inputVars, pllVars, heatVars, uartVars, ledVars>>
     \/ /\ part = "led" /\ Light!Next
        /\ UNCHANGED <<lircVars, inputVars, pllVars, heatVars, uartVars, dtbVars>>

(* The driver, the clock core and the PLL go on; the server answers and the    *)
(* page's timer fires.                                                         *)
Fairness ==
  /\ WF_pllVars(part = "pll" /\ Pll!DriverStep)
  /\ WF_pllVars(part = "pll" /\ Pll!CoreRecalcs)
  /\ WF_pllVars(part = "pll" /\ Pll!Walk)
  /\ WF_pllVars(part = "pll" /\ Pll!BusyDrops)
  /\ WF_ledVars(part = "led" /\ Light!Poll)
  /\ \A s \in 1..MaxLoads : WF_ledVars(part = "led" /\ Light!LedState(s)) /\ WF_ledVars(part = "led" /\ Light!Show(s))

PartsSpec == PartsInit /\ [][PartsNext]_allVars /\ Fairness

-----------------------------------------------------------------------------
(* The variables of every part have their types.                               *)
PartsTypeOK ==
  /\ part \in PartNames
  /\ TypeOK /\ Input!TypeOK /\ Pll!TypeOK /\ Heat!TypeOK
  /\ Uart!TypeOK /\ Dtb!TypeOK /\ Light!TypeOK

(* The properties of the parts, as their modules state them (LircReader's are  *)
(* extended).                                                                  *)

(* InputReader: no scancode waits once the device has nothing left to read.    *)
NothingWaits == Input!NothingWaits
(* InputReader: every scancode is published once and in order.                 *)
ScansArePublishedOnce == Input!ScansArePublishedOnce
(* InputReader: a scancode is never published with the key of another.         *)
KeyGoesWithItsScan == Input!KeyGoesWithItsScan
(* CpuPll: the cores never run above the rate the voltage was chosen for.      *)
NeverOverclocks == Pll!NeverOverclocks
(* CpuPll: after a set_rate that returned 0 the reported rate is the real one. *)
BelievedIsReal == Pll!BelievedIsReal
(* CpuPll: a tune that was started arrives or is replaced.                     *)
Arrives == Pll!Arrives
(* Thermal: what one bad sample or another caller can add to a reading.        *)
OneSampleIsDiluted == Heat!OneSampleIsDiluted
(* UartCmd: exit code 0 means that the command has finished.                   *)
ZeroMeansFinished == Uart!ZeroMeansFinished
(* ExtractDtb: every device tree in an image is written, and nothing else.     *)
FindsEveryTree == Dtb!FindsEveryTree
(* Leds: a request that nobody disturbs leaves the LED as it asked.            *)
LoneRequestTakesEffect == Light!LoneRequestTakesEffect
(* Leds: the page comes to show the LED as it is.                              *)
ViewSettles == part = "led" => Light!ViewSettles
=============================================================================
